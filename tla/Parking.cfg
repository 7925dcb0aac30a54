CONSTANTS
    FloorCount = 2
    Capacity = 2
    Tickets = {"bike1", "bike2", "car"}
    TypeOf <- MixedTypes
    Parkers = {p1}
    Unparkers = {u1}
    Shufflers = {s1}
    BufferSlots = {0}
    ParkCap = 2
    UnparkCap = 1
    Switches = {"Compaction", "Nearest"}
    Leavers = {"bike1", "bike2", "car"}
    Earlier <- AnyOrder
    NoTicket = NoTicket
SPECIFICATION Spec
CHECK_DEADLOCK FALSE
INVARIANTS
    TypeOK
    ReservationsFit
    ShuffleOver
    SlotOwned
    NoLostWakeup
    SettledAfterShuffle
PROPERTIES
    RetrievedWithoutShuffle
