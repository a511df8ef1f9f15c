CONSTANTS
    c1 = c1
    c2 = c2
    c3 = c3
    Clients <- TwoClients
    MaxDepth = 1
    MaxTests = 1
    Singleton = TRUE
SPECIFICATION Spec
SYMMETRY MCSymmetry
INVARIANT DeferIsGuaranteed
CHECK_DEADLOCK FALSE
