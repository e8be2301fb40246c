CONSTANTS
    c1 = c1
    c2 = c2
    c3 = c3
    w1 = w1
    w2 = w2
    lan = lan
    None = None
    Client <- Clients3
    WiFiSource <- Radio1
    WiredSource <- Lan
    MaxClients = 2
    Grace = 0
    MaxAge = 1
    AppliedKinds <- AgentKinds
    Failure <- OneFailure
SPECIFICATION Spec
SYMMETRY ClientSymmetry
INVARIANTS
    CapacityRespected
    EvidenceBacked
PROPERTIES
    PresenceAnnounced
    ImplementsPresence
