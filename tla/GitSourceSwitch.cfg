SPECIFICATION Spec
CONSTANTS
    p1 = p1
    p2 = p2
    None = None
    Proc = {p1}
    Options = {{}, {"check-remote"}}
    MaxEdits = 0
PROPERTY
    SwitchedToBranch
