CONSTANTS
    FloorCount = 4
    Capacity = 2
    Tickets = {1, 2, 3, 4}
    TypeOf <- CarTypes
    Parkers = {p1}
    Unparkers = {u1}
    Shufflers = {s1, s2}
    BufferSlots = {0}
    ParkCap = 1
    UnparkCap = 1
    Switches = {"LoadBalanced"}
    Leavers = {}
    Earlier <- InOrder
    NoTicket = NoTicket
SPECIFICATION Spec
CHECK_DEADLOCK FALSE
PROPERTIES
    RearrangementEnds
