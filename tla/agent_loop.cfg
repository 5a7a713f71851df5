SPECIFICATION FairSpec
CONSTANTS
  Decision = {d1, d2}
  Naps = 2
  MaxCycles = 3
  MaxRuns = 2
  Faults = {"graph", "memory", "db", "kill"}
INVARIANT TradesRecorded
INVARIANT RowsRemembered
PROPERTY NoCycleAfterSignal
PROPERTY SignalEndsLoop
PROPERTY SpacedUnlessCaught
CHECK_DEADLOCK FALSE
