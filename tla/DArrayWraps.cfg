SPECIFICATION Spec
CONSTANTS
    SizeMod = 32
    ElemSize = 2
    e1 = e1
    e2 = e2
    b1 = b1
    b2 = b2
    JUNK = JUNK
    NULL = NULL
    Elems <- MCElems
    Blocks <- MCBlocks
    Capacities <- MCCapacities
    Writes <- LongWrites
    MaxElems = 16
CHECK_DEADLOCK FALSE
INVARIANT
    BlockHoldsElements
