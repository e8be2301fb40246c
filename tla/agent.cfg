CONSTANTS
    k1 = k1
    p1 = p1
    p2 = p2
    i1 = i1
    i2 = i2
    NoId = NoId
    Conn <- OneConn
    MaxHTTPConnections = 1
    MaxStreamClients = 1
    StreamQueueSize = 1
    ControlQueue = 1
    Burst = 1
    MaxFaults = 1
    Process <- TwoProcesses
    Id <- Ids
    agent = p1
    MaxStarts = 2
SPECIFICATION AgentSpec
INVARIANTS
    IdentityStable
    SuccessMeansAsked
PROPERTIES
    FailureEndsProcess
    StopEnds
CHECK_DEADLOCK FALSE
