SPECIFICATION WatchedSpec
CONSTANTS
  Protocol <- AaveCompound
  Pool <- TwoPools
  Known <- AaveCompound
  Depositable <- AaveCompound
  Withdrawable <- AaveCompound
  Amounts = {1, 2}
  Depth <- Mixed
  Threshold = 1
  MaxEstimate = 1
  MaxTx = 99
  DailyCap = 99
  TradeWindow = 100
  MaxAttempts = 3
  InitialWallet = 12
  MaxCycles = 3
  MaxInterest = 2
  Faults <- NoFaults
  None = None
INVARIANT LedgerMatchesChain
INVARIANT ReinvestsWhatItWithdrew
