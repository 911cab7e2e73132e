CONSTANTS
    Individuals = {"i"}
    Mids = 2
    BranchMerges = FALSE
    OracleFails = FALSE
    SaturationTimesOut = FALSE
SPECIFICATION Spec
INVARIANT
    ExpressionInstancesAsDocumented
CHECK_DEADLOCK FALSE
