CONSTANTS
    c1 = c1
    c2 = c2
    c3 = c3
    Clients <- TwoClients
    MaxDepth = 2
    MaxTests = 3
    Singleton = TRUE
SPECIFICATION Spec
SYMMETRY MCSymmetry
INVARIANTS
    TypeOK
    ReportsAgree
    SummaryAddsUp
    ExitTellsFailures
    OneDelete
    RefusedOnlyIfLive
    NoClientOutlivesItsTest
PROPERTY ImplementsContract
CHECK_DEADLOCK FALSE
