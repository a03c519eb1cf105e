SPECIFICATION MCSpec
CONSTANTS
    Requests = {r1, r2}
    Keys = {k1}
    Nodes = {n1, n2}
    None = None
    Manager = Manager
    MinUses = 1
    UsesMod = 2
    MaxSize = 1
    Tries = 2
    Lock = TRUE
    UseStale = FALSE
    TimeoutsHappen = TRUE
    Bypass = TRUE
    ErrorsCached = TRUE
    Faults = FALSE
    Cold = FALSE
    MaxCrashes = 0
    SizeBound = 1
    InitialFiles = {}
SYMMETRY Perms
INVARIANTS
    RefCounts
    
    CacheSafe
