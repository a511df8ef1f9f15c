CONSTANTS
    p1 = p1
    p2 = p2
    e1 = e1
    Polls <- MCPolls
    Etags <- MCOneEtag
    MaxVersion = 3
    Unavailable <- MCLastUnavailable
    Gzip = TRUE
SPECIFICATION FairSpec
INVARIANTS
    TypeOK
    PollsAreLinearizable
PROPERTIES
    ImplementsContract
    PollsAnswered
CHECK_DEADLOCK FALSE
