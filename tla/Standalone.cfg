CONSTANTS
    FloorCount = 3
    Waiting = {p1}
    Riding = {p2}
    MaxPending = 2
    Keys = {a, b, c, d}
    Values = {v, w}
    Capacity = 3
    Nil = Nil
    Users = {alice, bob}
    Goroutines = {g1, g2}
    MaxTokens = 3
    RefillRate = 1
    Part = 2
    LastTick = 4
    Last = 6
    Sides = 3
    MaxPlayers = 2
    MaxPieces = 2
SPECIFICATION Spec
CHECK_DEADLOCK FALSE
INVARIANTS
    TypeOK
    NoLostWork
    WithinRate
    GameConsistent
PROPERTIES
    ImplementsLook
    Served
    CacheIsRecency
