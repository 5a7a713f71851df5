SPECIFICATION TokenSpec
CONSTANTS
  zero = zero
  alice = alice
  bob = bob
  Zero = zero
  Admin = alice
  Address <- Everybody
  MaxUint = 2
  InitialSupply = 2
  Amounts = {0, 1, 2}
  Spenders <- Holders
INVARIANT BalancesMatchSupply
INVARIANT BurnsAccounted
INVARIANT NominationsCurrent
PROPERTY SpendingNeedsConsent
