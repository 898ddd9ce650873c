SPECIFICATION Spec
CONSTANTS
    U32 <- MCU32
    MaxAllocationsArgs <- WrapMaxAllocations
    BytesPerAllocArgs <- WrapBytesPerAlloc
    AlignmentArgs <- OneAlignment
    StrayOffsets <- MCStrayOffsets
    ClientWords <- MCClientWords
INVARIANT
    SlotsFitBlock
