SPECIFICATION MCSpec
CONSTANTS
    Producers <- MCProducers
    Consumers <- MCConsumers
    PType <- MCPType
    CType <- MCCType
    Feeds <- MCFeeds
    SelfC <- MCSelfC
    SelfP <- MCSelfP
    Action <- MCAction
    None = "none"
    Known = TRUE
    BodyLen = 4
    High = 2
    Low = 1
    FlowOn = TRUE
    Cap = 3

    
PROPERTIES
    Ends
CHECK_DEADLOCK FALSE
