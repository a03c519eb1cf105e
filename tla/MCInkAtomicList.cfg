SPECIFICATION MCSpec
CONSTANTS
    Threads = {t1, t2}
    Poppers = {t1, t2}
    Removers = {}
    Items = {a, b, c}
    NULL = NULL
    VersionMod = 3
SYMMETRY ItemPerms
INVARIANTS
    ListSafe
    RemoveSafe
PROPERTIES
    ImplementsPool
    ListsProgress
