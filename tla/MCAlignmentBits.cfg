SPECIFICATION HelperCalls
CONSTANTS
    MaxValue = 70
    MaxAlignment = 140
INVARIANTS
    ValidityAgrees
    AlignUpAgrees
    AlignUpBounded
