SPECIFICATION Spec
CONSTANTS
    U32 <- MCU32
    MaxAllocationsArgs <- MCMaxAllocations
    BytesPerAllocArgs <- MCBytesPerAlloc
    AlignmentArgs <- MCAlignments
    StrayOffsets <- FarOffsets
    ClientWords <- MCClientWords
PROPERTY
    StrayPointersRefused
