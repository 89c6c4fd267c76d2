SPECIFICATION Spec
CONSTANTS
  w1 = w1
  w2 = w2
  Orders = {1, 2, 3}
  Wallets = {w1, w2}
  Coins = {0, 1, 2}
  TON = 0
  WalletOf <- Owner
  From <- Sells
  To <- Buys
  Price <- Rate
  Size <- Amounts
  AnyStatus = AnyStatus
  BatchStatuses <- StatusesAsked
  Stable = {1}
  NoCoin = NoCoin
  Unit <- Units
  PriceUnit = 2
  MaxInt = 3
  DefaultUsd = 2
  NotGiven = NotGiven
  Periods = 2
  MinUsds <- UsdParameters
  VaultIds = {1, 2, 3}
  Everyone = Everyone
  Walks <- ListsWalked
  PageLimits <- LimitParameters
  MaxPage = 2
  BoardPage = 1
  MaxBoardPage = 2
  BoardRows = 2
INVARIANTS TypeOK StatsAddUp BatchAgrees SmallOrdersHidden PairsWhole PeriodsNest WalkMissesNothing
ACTION_CONSTRAINTS WritesWait ThirdWhole
