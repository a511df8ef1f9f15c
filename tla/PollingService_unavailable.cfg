CONSTANTS
    p1 = p1
    p2 = p2
    e1 = e1
    Polls <- MCPolls
    Etags <- MCOneEtag
    MaxVersion = 2
    Unavailable <- MCFirstUnavailable
    Gzip = FALSE
SPECIFICATION FairSpec
PROPERTY SetDataTakesEffect
CHECK_DEADLOCK FALSE
