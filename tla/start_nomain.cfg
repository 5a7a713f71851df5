SPECIFICATION Spec
CONSTANTS
  MaxIterations = 3
  MaxStarts = 2
  MayKill = FALSE
  MayFail = FALSE
  HasMain = FALSE
INVARIANT LastRunRan
CHECK_DEADLOCK FALSE
