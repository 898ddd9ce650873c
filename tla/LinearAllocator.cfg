SPECIFICATION Spec
CONSTANTS
    U32 = 1024
    PageSize = 64
    HeaderSize = 32
    RoundUp <- BitwiseAlignUp
    MaxAddress = 720
    ReservationArgs <- MCReservations
    CapacityArgs <- MCCapacities
    AlignmentArgs <- MCAlignments
    SizeArgs <- MCSizes
    MaxSavepoints = 2
    GrowthMayFail = FALSE
INVARIANTS
    TypeOK
    HeadWithinData
    LiveCommitted
    CommittedWithinMapping
    ReservationHonoured
PROPERTIES
    ImplementsArena
