SPECIFICATION MCSpec
CONSTANTS
    Worlds <- MCWorlds
    MaxContinue = 1
INVARIANTS
    
    CacheSafe
    

    
    
