SPECIFICATION Spec
CONSTANTS
  mkt = mkt
  vlt = vlt
  tre = tre
  a1 = a1
  a2 = a2
  Market = mkt
  Vault = vlt
  Treasury = tre
  Markets <- TheMarket
  Accounts = {a1, a2}
  Creator = a1
  COST <- CostTable
  MAX_Q = 4
  ShareAmounts = {1, 4}
  Contributions = {2}
  WEALTH = 5
  FUNDING_TARGET = 2
  FEE_BPS = 2
  BPS = 3
  CREATOR_DIV = 2
  MAX_GIVEN = 0
  MARKET_CAP = 7
  SYSTEM_CAP = 9
  FUNDING_DEADLINE = 1
  CLOSE = 1
  AVAILABLE = 1
  TERMINAL_DEADLINE = 2
  MAX_TIME = 2
INVARIANTS
  TerminalProvidersCanExit
CHECK_DEADLOCK FALSE
