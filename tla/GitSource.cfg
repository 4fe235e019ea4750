SPECIFICATION Spec
CONSTANTS
    p1 = p1
    p2 = p2
    None = None
    Proc = {p1, p2}
    Options = {{}, {"check-remote"}}
    MaxEdits = 2
SYMMETRY Symmetry
INVARIANTS
    TypeOK
    BuiltAsNamed
    CheckedTagOnServer
PROPERTIES
    UsersWorkStays
    FetchedIsComplete
