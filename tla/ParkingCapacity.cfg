CONSTANTS
    FloorCount = 2
    Capacity = 2
    Tickets = {1, 2, 3}
    TypeOf <- CarTypes
    Parkers = {p1}
    Unparkers = {u1}
    Shufflers = {s1}
    BufferSlots = {0}
    ParkCap = 1
    UnparkCap = 1
    Switches = {"LoadBalanced"}
    Leavers = {1, 2}
    Earlier <- InOrder
    NoTicket = NoTicket
SPECIFICATION Spec
CHECK_DEADLOCK FALSE
INVARIANTS
    CapacityRespected
