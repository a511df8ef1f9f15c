CONSTANTS
    r1 = r1
    r2 = r2
    Requests <- MCRequests
    Streams <- MCStreams
    MaxEndpoints = 2
    Capacity = 1
SPECIFICATION FairSpec
INVARIANTS
    TypeOK
    CloseCancelsActive
    LateRequestsGet404
    ServedIsAnnounced
PROPERTIES
    ImplementsContract
    ClosedEndpointDrains
