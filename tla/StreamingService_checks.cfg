CONSTANTS
    c1 = c1
    c2 = c2
    Conns <- MCConns
    MaxVersion = 2
    MaxPushes = 2
    MaxRefreshes = 1
    BufferSize = 1
SPECIFICATION FairSpec
INVARIANTS
    TypeOK
    FirstClientSeesEveryPush
    RefreshReachesAll
    PushesFollowTheirData
PROPERTIES
    PublishReturns
    ImplementsContract
CHECK_DEADLOCK FALSE
