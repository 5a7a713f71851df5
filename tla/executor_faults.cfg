SPECIFICATION WatchedSpec
CONSTANTS
  Protocol <- AllNames
  Pool <- OnePool
  Known <- AaveMorpho
  Depositable <- Aave
  Withdrawable <- Aave
  Amounts = {1, 2}
  Depth <- Mixed
  Threshold = 1
  MaxEstimate = 1
  MaxTx = 2
  DailyCap = 3
  TradeWindow = 100
  MaxAttempts = 2
  InitialWallet = 4
  MaxCycles = 3
  MaxInterest = 1
  Faults <- AnyFault
  None = None
INVARIANT DrawWithinLimit
INVARIANT DailyVolumeWithinCap
