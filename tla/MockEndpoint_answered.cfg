CONSTANTS
    r1 = r1
    r2 = r2
    Requests <- MCRequests
    Streams <- MCStreams
    MaxEndpoints = 1
    Capacity = 1
SPECIFICATION Spec
INVARIANT AcceptedRequestsAreAnswered
