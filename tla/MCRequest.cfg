SPECIFICATION MCSpec
CONSTANTS
    Handlers <- MCHandlers
    HasTryFiles = TRUE
    Locs <- MCLocs
    LocOf <- MCLocOf
    Uris <- MCUris
    MaxUriChanges = 2
    UriBits = 4
INVARIANTS
    AccessChecked
    CyclesCut
    RequestSafe
    ConnectionSafe
PROPERTIES
    RequestsEnd
