SPECIFICATION Spec
CONSTANTS
    U32 <- MCU32
    MaxAllocationsArgs <- MCMaxAllocations
    BytesPerAllocArgs <- MCBytesPerAlloc
    AlignmentArgs <- MCAlignments
    StrayOffsets <- MCStrayOffsets
    ClientWords <- MCClientWords
INVARIANTS
    TypeOK
    SlotsFitBlock
    FreeListExact
PROPERTIES
    WritesOnlyFreeSlots
    StrayPointersRefused
    ImplementsFixedPool
