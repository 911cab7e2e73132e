CONSTANTS
    A = A
    B = B
    C = C
    D = D
    X = X
    Y = Y
    Z = Z
    ClausesPerOntology = 3
    MaxTests = 2
    MaxInterrupts = 1
    Atoms <- MCAtoms
    Negatable <- MCNegatable
    Ontologies <- MCOntologies
    Nominals <- MCNominals
    FreshAtoms <- MCFreshAtoms
    Tests <- MCTests
SPECIFICATION TestSpec
INVARIANTS
    TestsStartAlike
    KnownFollows
PROPERTIES
    AnswersAsSpecified
    EveryTestAnswered
