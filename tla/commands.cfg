CONSTANTS
  p1 = p1
  p2 = p2
  Proc <- MCProc
  Place = {x}
  k1 = k1
  k2 = k2
  w1 = w1
  None = None
  PrivateKey <- MCKeys
  Passphrase <- MCPassphrases
  Shells <- MCShells
  EnvFiles <- MCEnvFiles
  Keystores <- MCKeystores
  SignalAmount = {2}
  Earlier <- MCEarlier
  Accrued = {0}
  MaxTx = 2
  DailyCap = 2
  TradeWindow = 1
  MaxCycles = 2
SPECIFICATION Spec
CHECK_DEADLOCK FALSE
SYMMETRY Symmetry
INVARIANTS
  WithinTracked
  SerialExact
  SignerIsShown
  RefusedMeansUnsent
  OvershootBounded
