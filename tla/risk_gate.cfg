SPECIFICATION GateSpec
CONSTANTS
  PnLs <- Both
  Limit = 1
  Window = 2
  Capitals = {0, 1}
  TVLs = {0, 99, 200}
  MayRestart = TRUE
  MaxTime = 5
  MaxTrades = 4
INVARIANT GateTypeOK
INVARIANT ExactAfterTrade
INVARIANT ErrsByOldTrades
CHECK_DEADLOCK FALSE
