SPECIFICATION Spec
CONSTANTS
    N = 4
    Graphs <- Irreflexive
INVARIANTS
    TypeOK
    DependenciesInitialised
    AllInitialised
    NoneLeft
PROPERTY
    Exits
CHECK_DEADLOCK FALSE
