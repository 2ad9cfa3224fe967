SPECIFICATION FairSpec
CONSTANTS
  mkt = mkt
  vlt = vlt
  tre = tre
  a1 = a1
  a2 = a2
  Market = mkt
  Vault = vlt
  Treasury = tre
  Markets <- TheMarket
  Accounts = {a1, a2}
  Creator = a1
  COST <- CostTable
  MAX_Q = 3
  ShareAmounts = {1, 3}
  Contributions = {2}
  WEALTH = 5
  FUNDING_TARGET = 2
  FEE_BPS = 3
  BPS = 3
  CREATOR_DIV = 2
  MAX_GIVEN = 1
  MARKET_CAP = 6
  SYSTEM_CAP = 6
  FUNDING_DEADLINE = 1
  CLOSE = 1
  AVAILABLE = 1
  TERMINAL_DEADLINE = 2
  MAX_TIME = 2
INVARIANTS
  SolvencyIsKept
  CollateralFollowsCost
PROPERTIES
  EverybodyGetsOut
CHECK_DEADLOCK FALSE
