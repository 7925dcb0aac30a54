CONSTANTS
    Clients = {g1, g2}
    Closers = {s1, s2}
    Conns = {c1, c2}
    NoConn = NoConn
    MaxConnections = 1
    IdleConnections = 1
SPECIFICATION Spec
INVARIANTS
    TypeOK
    NoSharedConnection
    MaxRespected
    Accounting
    StatusAgrees
    ShutdownQuiescent
PROPERTIES
    BlockedCallsReturn
    ShutdownReturns
