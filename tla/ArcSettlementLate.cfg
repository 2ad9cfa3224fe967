SPECIFICATION Spec
CONSTANTS
    Ticks = {t1}
    Verdicts = {"YES", "UNRESOLVED"}
    MaxUpsets = 1
INVARIANT SettlementIsTheChains
CHECK_DEADLOCK FALSE
