SPECIFICATION Spec
CONSTANTS
    U32 = 1024
    PageSize = 64
    HeaderSize = 32
    RoundUp <- BitwiseAlignUp
    MaxAddress = 320
    ReservationArgs <- MCReservations
    CapacityArgs <- MCCapacities
    AlignmentArgs <- MCAlignments
    SizeArgs <- MCSizes
    MaxSavepoints = 2
    GrowthMayFail = TRUE
INVARIANT
    LiveCommitted
