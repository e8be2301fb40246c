CONSTANTS
    c1 = c1
    c2 = c2
    w1 = w1
    w2 = w2
    lan = lan
    ha = ha
    hb = hb
    None = None
    Client <- TwoClients
    WiFiSource <- Radio
    WiredSource <- NoLan
    MaxClients = 1
    Grace = 0
    MaxAge = 0
    AppliedKinds <- AgentKinds
    Failure <- OneFailure
    Consumer <- OneConsumer
    MaxSubscribers = 1
    QueueSize = 2
    SeqModulus = 4
SPECIFICATION StreamSpec
INVARIANTS
    PresenceReplayed
    GapFree
PROPERTIES
    DroppedIsClosed
