SPECIFICATION PunctualSpec
CONSTANTS
    KeepAliveDelay = 1
    ReceiveTimeDelay = 5
    Lag = 1
    SockBuf = 2
    Backlog = 1
    MaxConns = 1
    MaxServerStarts = 1
    Exclusive = TRUE
INVARIANTS
    TypeOK
    LiveClientKept
