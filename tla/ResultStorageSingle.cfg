SPECIFICATION Spec
CONSTANTS
    c1 = c1
    c2 = c2
    Client = {c1}
    Files <- TwoFiles
    CacheOn <- OneCache
    Transport <- AllFile
    Permissions = {"releases"}
    Deploy = TRUE
    NetworkFails = FALSE
    MaxBuild = 3
INVARIANTS
    ReleaseConsistent
