\* A single message: nothing is read together with it.
SPECIFICATION LspSpec
CONSTANTS
    HdrSize = 4
    ContSizes = {1, 3}
    RecvBufSize = 5
    LenBufSize = 6
    U32 = 64
    StraySizes = {6}
    MaxMsgs = 1
INVARIANT BufferLargeEnough
CHECK_DEADLOCK FALSE
