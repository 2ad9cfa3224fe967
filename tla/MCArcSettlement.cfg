SPECIFICATION SettlementSpec
CONSTANTS
    Ticks = {t1, t2}
    Verdicts = {"YES", "VOID", "UNRESOLVED"}
    MaxUpsets = 1
INVARIANTS ProposalsCarryTheVerdict
PROPERTIES NoSettlementIsForgotten FinalityIsMirrored
CHECK_DEADLOCK FALSE
