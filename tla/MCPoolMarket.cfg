SPECIFICATION FairSpec
CONSTANTS
  m1 = m1
  a1 = a1
  a2 = a2
  a3 = a3
  m2 = m2
  Treasury = treasury
  Markets <- TwoMarkets
  Accounts = {a1, a2}
  CreatorOf <- CreatorIsTrader
  Amounts = {1, 2}
  WEALTH = 3
  FEE_BPS = 1
  BPS = 3
  CREATOR_DIV = 2
  MARKET_CAP = 4
  SYSTEM_CAP = 5
  CLOSE <- CloseAtOne
  AVAILABLE <- CloseAtOne
  VOID_WINDOW = 1
  MAX_GIVEN = 1
  MAX_TIME = 2
INVARIANTS
  ExposureMatchesBalance
  PayoutsAreExact
PROPERTIES
  MarketsEmptyOut
CHECK_DEADLOCK FALSE
