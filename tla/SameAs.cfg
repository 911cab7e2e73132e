CONSTANTS
    Individuals = {"i", "j", "k"}
    Internal = {}
SPECIFICATION Spec
INVARIANT
    CandidatesSuffice
CHECK_DEADLOCK FALSE
