SPECIFICATION WatchedSpec
CONSTANTS
  Protocol <- Aave
  Pool <- OnePool
  Known <- Aave
  Depositable <- Aave
  Withdrawable <- Aave
  Amounts = {1, 2}
  Depth <- Deep
  Threshold = 1
  MaxEstimate = 1
  MaxTx = 1
  DailyCap = 99
  TradeWindow = 100
  MaxAttempts = 3
  InitialWallet = 12
  MaxCycles = 3
  MaxInterest = 0
  Faults <- NoFaults
  None = None
INVARIANT PositionsBacked
