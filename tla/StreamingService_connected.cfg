CONSTANTS
    c1 = c1
    c2 = c2
    Conns <- MCConns
    MaxVersion = 1
    MaxPushes = 1
    MaxRefreshes = 0
    BufferSize = 2
SPECIFICATION Spec
INVARIANT ConnectedClientsGetPush
CHECK_DEADLOCK FALSE
