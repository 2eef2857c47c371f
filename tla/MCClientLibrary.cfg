SPECIFICATION Spec
CONSTANTS
    ann = ann
    bob = bob
    cy = cy
    dee = dee
    news = news
    every = every
    Conn <- Connections
    Channel <- OneChannel
    Pattern <- OnePattern
    Matches <- AllMatch
    MaxClients = 2
    RequestRoom = 2
    ReplyRoom = 1
    Nobody = Nobody
    Client <- FourClients
    Calls <- SomeCalls
    NoConn = NoConn
    Budgets <- FewSteps
CHECK_DEADLOCK FALSE
INVARIANTS SubscriptionsSound NotBothModes OwnAnswer
PROPERTIES CallsEnd ShutdownCompletes
