CONSTANTS
    c1 = c1
    c2 = c2
    L = L
    Listen = L
    Pipe = Pipe
    Conns = {c1, c2}
    Socks <- MCSocks
    MaxFds = 4
    Tokens <- PeerTokens
    Await = 0
    Chunks = 2
    Pieces = 2
SPECIFICATION Spec
CHECK_DEADLOCK FALSE
INVARIANTS
    OpenIsPolled
    CallbacksPaired
    
    StoredSendIsArmed

    
