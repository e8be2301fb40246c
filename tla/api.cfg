CONSTANTS
    k1 = k1
    k2 = k2
    k3 = k3
    Conn <- ThreeConns
    MaxHTTPConnections = 2
    MaxStreamClients = 1
    StreamQueueSize = 1
    ControlQueue = 1
    Burst = 1
    MaxFaults = 1
SPECIFICATION ApiSpec
INVARIANTS
    ApiTypeOK
    SlotsExact
    NoOrphans
PROPERTIES
    Reclaimed
    ShutdownDrains
CHECK_DEADLOCK FALSE
