SPECIFICATION Spec
CONSTANTS
    SEP = SEP
    DOT = DOT
    NUL = NUL
    NAME = NAME
    LEAD = LEAD
    CONT = CONT
    JUNK = JUNK
    MaxPath = 1
    MaxBuffer = 1
    Inputs <- ParentRefInputs
    OutLengths = {16}
    OutAboveInput <- Below
CHECK_DEADLOCK FALSE
INVARIANT
    OkMeansNormal
