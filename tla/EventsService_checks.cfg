CONSTANTS
    p1 = p1
    p2 = p2
    Payloads <- MCPayloads
    eventsChannelBufferSize = 2
    RequireGzip = TRUE
SPECIFICATION FairSpec
INVARIANTS
    TypeOK
    RetriesAreIgnored
    AcknowledgedIsRecorded
    OrderOfPosts
PROPERTY BlocksOnlyWhenFull
CHECK_DEADLOCK FALSE
