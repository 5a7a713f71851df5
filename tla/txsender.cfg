SPECIFICATION FairSpec
CONSTANTS
  MaxRetries = 2
  MayLose = TRUE
INVARIANT NoNonceGap
PROPERTY ImplementsSendCall
PROPERTY AnswerAllowed
PROPERTY CallReturns
CHECK_DEADLOCK FALSE
