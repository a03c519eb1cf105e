SPECIFICATION MCSpec
CONSTANTS
    Requests = {"r1", "r2"}
    Servers <- Backed
    MaxTime = 2
    MaxTurns = 3
    MaxGets = 5
INVARIANTS
    PeersSafe
    WeightsBalance
    
PROPERTIES
    ProbesSpaced
    
    UpstreamTerminates
CHECK_DEADLOCK FALSE
