CONSTANTS
    c1 = c1
    c2 = c2
    c3 = c3
    w1 = w1
    w2 = w2
    lan = lan
    None = None
    Client <- Clients1
    WiFiSource <- Radio2
    WiredSource <- Lan
    MaxClients = 1
    Grace = 1
    MaxAge = 0
    AppliedKinds <- AgentKinds
    Failure <- OneFailure
SPECIFICATION Spec
INVARIANTS
    EvidenceBackedOrHeld
