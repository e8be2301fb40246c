CONSTANTS
    c1 = c1
    c2 = c2
    w1 = w1
    w2 = w2
    None = None
    Client <- TwoClients
    WiFiSource <- Radio2
    WiredSource <- NoLan
    MaxClients = 1
    Grace = 0
    MaxAge = 0
    AppliedKinds <- NoKinds
    Failure <- OneFailure
    EventQueueSize = 1
    Attempts = 2
    MaxFaults = 2
SPECIFICATION UbusSpec
INVARIANTS
    UbusTypeOK
    DepartureOwed
    VerifiesKnown
PROPERTIES
    ReadyKept
    ReadyCompletes
    Repaired
    Stops
