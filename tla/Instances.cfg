CONSTANTS
    Individuals = {"i", "j"}
    Mids = 2
    BranchMerges = TRUE
    OracleFails = FALSE
    SaturationTimesOut = FALSE
SPECIFICATION Spec
INVARIANT
    KnownEntailed
CHECK_DEADLOCK FALSE
