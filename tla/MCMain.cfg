\* The program ends, and a server waits for messages.
SPECIFICATION FairSpec
CONSTANTS
    HdrSize = 4
    ContSizes = {1, 3}
    RecvBufSize = 5
    LenBufSize = 6
    U32 = 64
    StraySizes = {6}
    MaxMsgs = 3
    MaxArgs = 4
    InputCap = 2
    MaxOpen = 3
INVARIANTS
    TypeOK
    InputsInOrder
    EndsAsFilesSay
    OnlyTheseLeak
    FramedAtBoundary
    StopsOnlyFor
    LeakPerMessage
PROPERTIES
    SlipsOnlyFor
    ImplementsServer
    EveryMessageHandled
CHECK_DEADLOCK FALSE
