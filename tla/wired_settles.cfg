CONSTANTS
    c1 = c1
    c2 = c2
    w1 = w1
    w2 = w2
    Lan = Lan
    None = None
    Client <- OneClient
    WiFiSource <- Radio1
    WiredSource <- LanOnly
    MaxClients = 1
    Grace = 0
    MaxAge = 0
    AppliedKinds <- AgentKinds
    Failure <- OneFailure
    Leased <- OneClient
    NeighborQueue = 0
    MaxFaults = 1
SPECIFICATION WiredSpec
PROPERTIES
    ExclusionSettles
    WiredArrivalNoticed
    WiredDepartureNoticed
