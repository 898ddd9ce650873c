SPECIFICATION Spec
CONSTANTS
    SEP = SEP
    DOT = DOT
    NUL = NUL
    NAME = NAME
    LEAD = LEAD
    CONT = CONT
    JUNK = JUNK
    MaxPath = 1
    MaxBuffer = 1
    Inputs <- UnrecognizedInputs
    OutLengths = {8}
    OutAboveInput <- Above
CHECK_DEADLOCK FALSE
PROPERTY
    EveryCallReturns
