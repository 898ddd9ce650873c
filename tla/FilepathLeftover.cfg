SPECIFICATION Spec
CONSTANTS
    SEP = SEP
    DOT = DOT
    NUL = NUL
    NAME = NAME
    LEAD = LEAD
    CONT = CONT
    JUNK = JUNK
    MaxPath = 1
    MaxBuffer = 1
    Inputs <- LeftoverInputs
    OutLengths = {4, 8}
    OutAboveInput <- Above
CHECK_DEADLOCK FALSE
INVARIANTS
    OkMeansNormal
    OnlyAboveRootInvalid
    OnlySmallOutFails
