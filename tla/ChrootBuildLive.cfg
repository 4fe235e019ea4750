SPECIFICATION Spec
CONSTANTS
    p1 = p1
    p2 = p2
    p3 = p3
    r1 = r1
    r2 = r2
    Proc = {p1, p2}
    Result = {r1}
    Jobs <- OneJobs
    Depends <- OneDepends
    ExecFails = TRUE
PROPERTY
    LockReleased
CHECK_DEADLOCK FALSE
