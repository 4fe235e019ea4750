SPECIFICATION Spec
CONSTANTS
    p1 = p1
    p2 = p2
    p3 = p3
    r1 = r1
    r2 = r2
    Proc = {p1, p2}
    Result = {r1, r2}
    Jobs <- TwoJobs
    Depends <- TwoDepends
    ExecFails = FALSE
SYMMETRY ProcSymmetry
INVARIANTS
    TypeOK
    MutualExclusion
    MarkerGuardsChroot
    FreshChroot
    DependenciesStored
PROPERTIES
    OrphanedOnlyByFault
    ImplementsProtocol
CHECK_DEADLOCK FALSE
