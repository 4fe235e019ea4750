SPECIFICATION Spec
CONSTANTS
    NFd = 3
    Linebuffer = {1}
    ReadSize = 2
    Capacity = 2
    MaxOut <- LinesAndTwo
    Failures = TRUE
INVARIANTS
    TypeOK
    OutputComplete
    NothingLost
    LinesWhole
    InterruptReachesChild
PROPERTIES
    InterruptedNeverRuns
    
CHECK_DEADLOCK FALSE
