SPECIFICATION FairSpec
CONSTANTS
    Clients = {c1, c2}
    StrLen = 4
    Banner = 1
    BUFSIZE = 3
    Cap = 2
    MAXPENDING = 1
    NoClient = NoClient
INVARIANTS
    Conserved
    DoneMeansEchoed
PROPERTIES
    EveryClientEnds
CHECK_DEADLOCK FALSE
