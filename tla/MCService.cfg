SPECIFICATION ServiceSpec
CONSTANTS
    Scripts = {"lmsr", "pool", "settle-lmsr", "settle-pool"}
    RunDeaths = 2
    MaxSends = 16
    MaxStops = 1
    MaxHashes = 5
    Drafts = {a1}
    Validators = {v1, v2, v3}
    Codes = {"vague"}
    MaxCalls = 1
    ONE = 1000
    USDC_TO_UD = 10
    LOG2_E = 1442
    LN_2 = 693
    B = 20
    MaxShares = 60
    Lots = {1, 7, 20}
    Fixtures = {"pool", "lmsr", "lmsr-current"}
    Sources = {1, 2}
    MaxSets = 2
    MaxFactories = 3
    MaxEnds = 2
    Items = {"s1"}
    Buttons = {"pin", "deploy", "force", "trigger", "refund"}
    q1 = q1  q2 = q2
    Contracts = {"m1"}
    MaxFees = 1
    MaxMoves = 4
    alice = alice  bob = bob  c1 = c1  c2 = c2  c3 = c3
    p1 = p1  r1 = r1  r2 = r2
    NoOne = NoOne
    Users = {alice, bob}
    Wallets = {w1}
    Calls = {c1, c2, c3}
    MaxLinks = 3
    Presses = {p1, r1, r2}
    Recoveries = {r1, r2}
    Bond = 1
    Isolates = {i1, i2}
INVARIANTS
    NothingIsDoneTwice
    FilesAreRight
    VerdictsAndMoneyAreSound
    QuotesAreSound
PROPERTIES
    WorkComesRight
\* finished scripts rest
CHECK_DEADLOCK FALSE
