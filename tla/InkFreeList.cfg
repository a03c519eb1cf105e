SPECIFICATION Spec
CONSTANTS
    Threads = {t1, t2}
    Items = {a, b, c}
    NULL = NULL
    ChunkSize = 1
    VersionMod = 3
    UIntMod = 8
SYMMETRY Perms
INVARIANTS
    IndInv
    CountersExact
PROPERTIES
    ImplementsPool
