SPECIFICATION Spec
CONSTANTS
    Clients = {c1}
    StrLen = 2
    Banner = 1
    BUFSIZE = 2
    Cap = 2
    MAXPENDING = 1
    NoClient = NoClient
INVARIANTS
    SameStringBack
CHECK_DEADLOCK FALSE
