CONSTANTS
    c1 = c1
    c2 = c2
    c3 = c3
    Clients <- ThreeClients
    MaxDepth = 1
    MaxTests = 2
    Singleton = TRUE
SPECIFICATION Spec
SYMMETRY MCSymmetry
INVARIANT SingletonGuard
CHECK_DEADLOCK FALSE
