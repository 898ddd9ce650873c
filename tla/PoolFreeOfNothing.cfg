SPECIFICATION CarelessSpec
CONSTANTS
    U32 <- MCU32
    MaxAllocationsArgs <- MCMaxAllocations
    BytesPerAllocArgs <- MCBytesPerAlloc
    AlignmentArgs <- MCAlignments
    StrayOffsets <- MCStrayOffsets
    ClientWords <- MCClientWords
PROPERTY
    FreeOfNothingRefused
