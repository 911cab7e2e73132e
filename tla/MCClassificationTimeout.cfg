CONSTANTS
    A = A
    B = B
    C = C
    Named = {A, B}
    Top = Top
    Bottom = Bottom
    Workers = 2
    MaxInterrupts = 1
    Inputs <- Small
SPECIFICATION ClassSpec
INVARIANT
    UnsatisfiableOnlyIfSo
