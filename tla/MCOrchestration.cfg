SPECIFICATION Spec
CONSTANTS
    MaxIntents = 2
    Dispatchers = {d1, d2}
    MaxFailures = 1
    MaxDeaths = 1
    Workers = {w1, w2, w3}
    Readings = {"YES", "UNRESOLVED", "failed", "undecodable"}
    MaxCrashes = 1
    Ids = {i1, i2}
    MaxUnits = 1
    Proposals = {p1}
    BaseMarkets = {b1}
    Callers = {c1, c2}
    BOND = 2
    MAX_REVISIONS = 2
    TIMEOUT = 1
    MAX_TIME = 2
INVARIANTS
    ScheduleSuitsTheResolver
    NothingIsSentTwice
    ProjectionFollowsBase
    RecordTellsTheDisposition
    BondsArePaidRight
PROPERTIES
    WorkComesToAnEnd
    BondsLeaveCustody
\* intents run out, attempts become final, time ends at the last instant
CHECK_DEADLOCK FALSE
