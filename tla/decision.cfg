SPECIFICATION Spec
CONSTANTS
  Pools <- Listed
  MaxListed = 3
  Targeted <- Lending
  TargetChains = {"Arbitrum", "Base"}
  PromptSize = 2
  Capital = 50
  None = None
INVARIANT TypeOK
INVARIANT FallbackIsBest
INVARIANT AnyDepositBreaksTies
INVARIANT StandInIsNoWorse
INVARIANT SizedByEdge
