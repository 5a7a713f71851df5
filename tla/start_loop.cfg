SPECIFICATION FairSpec
CONSTANTS
  MaxIterations = 3
  MaxStarts = 2
  MayKill = TRUE
  MayFail = TRUE
  HasMain = TRUE
INVARIANT OneSubprocess
INVARIANT RowsMatchRuns
PROPERTY StoppedSticks
PROPERTY SignalStops
PROPERTY HeartbeatsGoOn
CHECK_DEADLOCK FALSE
