SPECIFICATION Spec
CONSTANTS
    U32 = 256
    PageSize = 64
    HeaderSize = 32
    RoundUp <- BitwiseAlignUp
    MaxAddress = 320
    ReservationArgs <- WrapReservation
    CapacityArgs <- MCCapacities
    AlignmentArgs <- MCAlignments
    SizeArgs <- MCSizes
    MaxSavepoints = 2
    GrowthMayFail = FALSE
INVARIANT
    ReservationHonoured
