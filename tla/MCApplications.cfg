SPECIFICATION Spec
CONSTANTS
    Handlers = {h1, h2}
    Bets = {b1, b2}
    PageSize = 2
    MaxTransfers = 2
    LedgerCalls = 2
    Requests = {q1, q2}
    MaxPresses = 3
    Failing = {"approve", "buy", "sell", "redeem"}
    Users = {alice, bob}
    Fetches = {f1, f2, f3}
    MaxLogins = 2
    IndexerPasses = {s1, s2}
    MaxRange = 1
    MaxBlocks = 3
    MaxBreaks = 1
    Outage = FALSE
    DbFails = FALSE
    Desks = {d1, d2}
    Markets = {m1, m2}
    DeskCalls = 3
    alice = alice  bob = bob  c1 = c1  c2 = c2  c3 = c3
    p1 = p1  r1 = r1  r2 = r2  t1 = t1  t2 = t2  t3 = t3
    NoOne = NoOne
    Wallets = {w1}
    ApiCalls = {c1, c2, c3}
    Caller <- CallerOf
    MaxLinks = 3
    Presses = {p1, r1, r2}
    Owner <- OwnerOf
    Recoveries = {r1, r2}
    BOND = 1
    Orders = {t1, t2, t3}
    Side <- SideOf
    Slippage <- SlippageOf
    MaxPrice = 3
    Funds = 6
    MaxListed = 5
    CreatedAt <- Instants
    Id <- IdOf
    SECOND = 2
    Class <- ClassOf
    Filters = {"crypto", "sports"}
    ListLimit = 1
    Mores = {"a", "b"}
    MaxChanges = 3
INVARIANTS
    BalanceStandsOnRows
    TradesAreSentRight
    RowsBelongTogether
    NothingBelowTheCursorIsLost
    ApiTrustsOnlyProof
    PagesKeepTheirWord
PROPERTIES
    DepositsAreCredited
    WhatIsShownComesRight
\* closed pages rest
CHECK_DEADLOCK FALSE
