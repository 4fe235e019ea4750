SPECIFICATION Spec
CONSTANTS
    p1 = p1
    p2 = p2
    Proc = {p1, p2}
    Path = {"file"}
    Temp = {}
    Data = {"x", "y"}
    Absent = Absent
    None = None
    MaxStore = 1
    MaxStat = 2
SYMMETRY ProcSymmetry
INVARIANTS
    TypeOK
    AnswersTrue
    ReleaseOnItsOwn
CHECK_DEADLOCK FALSE
