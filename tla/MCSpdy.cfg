SPECIFICATION MCSpec
CONSTANTS
    Sids = {"1", "3"}
    Prio <- MCPrio
    MaxPieces = 1
    MaxPings = 1
INVARIANTS
    SessionSafe

    
