SPECIFICATION PartsSpec
CONSTANTS
    DataSize = 12  MaxFrags = 6  UriChars = 7  HeaderChars = 10
    MaxSends = 5  Second = 5  RxBuffer = 2  PingRing = 3
    Wants = {2, 16}  Lens = {1, 4}  MaxPos = 4  MaxUnits = 8  MaxFailures = 1
    Conns = {a, b}  Await = 0
    MaxStreams = 3  DynSize = 2  MaxFrames = 3
    Window = 4  FastIn = 4  FastOut = 5  Gives = {0, 1, 3, 9}  Rooms = {0, 1, 2, 8}  MaxResets = 1
    Elems = 5  Freqs = {0, 1, 2, 4, 8}  MaxLength = 3  Codes = 5  MaxBits = 4  RootBits = 2
    Runs = {0, 1, 3, 4, 6, 7, 8}  LongRuns = {2, 3, 10, 11, 138, 139, 141}
    Alphabet = {0, 1}  Funcs = {"stored", "fast", "slow", "rle", "huff"}
    WSize = 12  MaxMatch = 4  LitBuf = 6  MaxBlock = 5  MaxChain = 4  GoodMatch = 3
    NiceMatch = 4  MaxLazy = 4  FarLimit = 3  Feeds = {5, 30}  Spaces = {1, 6}  MaxCalls = 4
CHECK_DEADLOCK FALSE
INVARIANTS
    CallbacksConsistent 
    HeadersParsed  
    Http2Serves  CodesAgree DeflateIsRight
