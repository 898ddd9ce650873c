SPECIFICATION Spec
CONSTANTS
    U32 = 1048576
    PageSize = 4096
    HeaderSize = 32
    RoundUp <- BitwiseAlignUp
    MaxAddress = 32768
    AlignmentArgs <- MCAlignments
    SizeArgs <- MCSizes
    NULL = NULL
    ARENA = ARENA
INVARIANTS
    HandleValid
    OwnMemoryOnly
PROPERTIES
    ServesReservation
    ImplementsArena
