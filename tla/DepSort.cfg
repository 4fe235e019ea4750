SPECIFICATION Spec
CONSTANTS
    Name = {1, 2, 3, 4}
    Result = {1, 3, 4}
INVARIANTS
    TypeOK
    Sorted
    Complete
    OnlyWanted
    CycleIsReal
PROPERTY
    Terminates
CHECK_DEADLOCK FALSE
