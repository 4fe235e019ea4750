SPECIFICATION Spec
CONSTANTS
    c1 = c1
    c2 = c2
    Client = {c1}
    Files <- TwoFiles
    CacheOn <- OneCache
    Transport <- AllRsync
    Permissions = {}
    Deploy = TRUE
    NetworkFails = TRUE
    MaxBuild = 2
PROPERTY
    ReleaseUnchanged
