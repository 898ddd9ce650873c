SPECIFICATION Spec
CONSTANTS
    t1 = t1
    t2 = t2
    h1 = h1
    h2 = h2
    k1 = k1
    k2 = k2
    b1 = b1
    b2 = b2
    b3 = b3
    c = c
    NULL = NULL
    Garbage = Garbage
    NoAnswer = NoAnswer
    Threads <- MCThreads
    Handles <- MCHandles
    Keys <- MCKeys
    Buffers <- MCBuffers
    Errors <- MCErrors
    MsgSize = 3
    InitThread = t1
SYMMETRY Addresses
CHECK_DEADLOCK FALSE
INVARIANT
    GetMeansSet
