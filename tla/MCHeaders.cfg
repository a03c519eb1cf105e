SPECIFICATION MCSpec

    
PROPERTIES
    FarFutureStaysFar
CHECK_DEADLOCK FALSE
