SPECIFICATION ReinitSpec
CONSTANTS
    t1 = t1
    t2 = t2
    h1 = h1
    h2 = h2
    k1 = k1
    k2 = k2
    b1 = b1
    b2 = b2
    b3 = b3
    v1 = v1
    v2 = v2
    NULL = NULL
    Garbage = Garbage
    NoAnswer = NoAnswer
    Threads <- MCThreads
    Handles <- MCHandles
    Keys <- MCKeys
    Buffers <- MCBuffers
    Values <- MCValues
    InitThread = t1
SYMMETRY Addresses
CHECK_DEADLOCK FALSE
PROPERTY
    InitOkMeansUsable
