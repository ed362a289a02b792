SPECIFICATION FairSpec
CONSTANTS
    KeepAliveDelay = 0
    ReceiveTimeDelay = 1
    Lag = 0
    SockBuf = 2
    Backlog = 1
    MaxConns = 1
    MaxServerStarts = 2
    Exclusive = FALSE
PROPERTIES
    ClosedClientReleased
    SilentClientReleased
    ServerCloseNoticed
    
