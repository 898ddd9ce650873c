SPECIFICATION Spec
CONSTANTS
    U32 = 1048576
    PageSize = 16384
    HeaderSize = 32
    RoundUp <- BitwiseAlignUp
    MaxAddress = 65536
    AlignmentArgs <- MCAlignments
    SizeArgs <- MCSizes
    NULL = NULL
    ARENA = ARENA
INVARIANT
    OwnMemoryOnly
