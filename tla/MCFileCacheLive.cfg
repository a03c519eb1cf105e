SPECIFICATION LiveSpec
CONSTANTS
    Requests = {"r1", "r2"}
    Keys = {"k1"}
    Nodes = {"n1"}
    None = "none"
    Manager = "manager"
    MinUses = 1
    UsesMod = 2
    MaxSize = 9
    Tries = 2
    Lock = TRUE
    UseStale = FALSE
    TimeoutsHappen = TRUE
    Bypass = FALSE
    ErrorsCached = FALSE
    Faults = FALSE
    Cold = FALSE
    MaxCrashes = 0
    SizeBound = 1
    InitialFiles = {}
PROPERTIES
    RequestsEnd
    InactiveGoes
