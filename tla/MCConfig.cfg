SPECIFICATION MCSpec

    
PROPERTIES
    ScriptMeans
CHECK_DEADLOCK FALSE
