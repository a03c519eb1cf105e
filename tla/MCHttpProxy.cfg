SPECIFICATION MCSpec
CONSTANTS
    Year = 2
    IntMax = 31
    MaxTime = 4
    MaxBack = 1
    Responses <- MCResponses
    Requests <- MCRequests
    Confs <- MCConfs
INVARIANTS
    FreshMeansYoung
    MustRevalidateKept
    
PROPERTIES
    StaleStays
CHECK_DEADLOCK FALSE
