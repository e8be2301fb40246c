CONSTANTS
    MaxNameBytes = 8
    MaxNameJumps = 2
    MaxQuestions = 2
    MaxResponseBytes = 123
    ServiceName <- Service
    InstanceName <- Instance
    HostName <- Host
    DataBytes <- Bytes
    Datagram <- Datagrams
    Refresh = 2
    TTL = 4
    MaxFailures = 1
SPECIFICATION MdnsSpec
INVARIANTS
    MdnsTypeOK
    Discoverable
    ResponseComplete
    StaysAdvertised
    ClosesOnce
PROPERTIES
    ParseEnds
