SPECIFICATION LwsSpec
CONSTANTS
    Clients = {a, b}  Queue = 4  Low = 1  MaxMessages = 7  CloseAfter = 2
    Pipe = Pipe  Listen = L  c1 = c1
    Attempts = {a}  Await = 0
    Lens <- Lengths  Capacity = 3  RxBuffer = 2  MaxPings = 2
CHECK_DEADLOCK FALSE
 
PROPERTIES
    StoredSendLeaves ExpiredIsClosed DestroyEnds EveryAttemptEnds
      PingAnswered ChokedIsResumed
