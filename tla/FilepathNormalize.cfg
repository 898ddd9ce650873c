SPECIFICATION Spec
CONSTANTS
    SEP = SEP
    DOT = DOT
    NUL = NUL
    NAME = NAME
    LEAD = LEAD
    CONT = CONT
    JUNK = JUNK
    MaxPath = 7
    MaxBuffer = 5
    Inputs <- AnyInputs
    OutLengths = {0, 1, 2, 4, 8}
    OutAboveInput <- Anywhere
CHECK_DEADLOCK FALSE
INVARIANTS
    TypeOK
    GoodCallsInBounds
    GoodCallsNormal
    InvalidMeansAboveRoot
    InputSizedOutSuffices
PROPERTIES
    Returns
