CONSTANTS
    A = A
    B = B
    C = C
    Named = {A, B, C}
    Top = Top
    Bottom = Bottom
    Workers = 2
    MaxInterrupts = 1
    Inputs <- Chosen
SPECIFICATION ClassSpec
INVARIANTS
    KnownSound
    NothingLost
    HierarchyCorrect
