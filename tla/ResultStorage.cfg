SPECIFICATION Spec
CONSTANTS
    c1 = c1
    c2 = c2
    Client = {c1, c2}
    Files <- TwoFiles
    CacheOn <- MixedCaches
    Transport <- RsyncScp
    Permissions = {}
    Deploy = TRUE
    NetworkFails = TRUE
    MaxBuild = 2
INVARIANTS
    TypeOK
    ReleaseComplete
    NeverPartial
    BuiltMeansStored
