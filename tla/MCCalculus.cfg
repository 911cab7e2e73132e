CONSTANTS
    A = A
    B = B
    C = C
    D = D
    E = E
    F = F
    G = G
    ClausesPerOntology = 5
    Atoms <- MCAtoms
    Negatable <- MCNegatable
    Ontologies <- MCOntologies
SPECIFICATION Spec
INVARIANTS
    StackRecordsPrefix
    UnsatisfiableAnswer
    ModelAnswer
    DependenciesJustify
    AbandonedChoicesRefuted
PROPERTY
    Termination
