SPECIFICATION Spec
CONSTANTS
    KeepAliveDelay = 0
    ReceiveTimeDelay = 0
    Lag = 0
    SockBuf = 2
    Backlog = 1
    MaxConns = 2
    MaxServerStarts = 1
    Exclusive = TRUE
INVARIANTS
    Framed
