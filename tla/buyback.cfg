SPECIFICATION Spec
CONSTANTS
  CycleProfit = 20
  Profits = {50}
  PnLs <- SomePnLs
  MinProfit = 100
  Share = 10
  MayRestart = TRUE
  MaxProfit = 220
INVARIANT TypeOK
INVARIANT NothingLost
INVARIANT ReserveBounded
PROPERTY AnswerCarriedOut
