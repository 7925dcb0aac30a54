CONSTANTS
    Clients = {g1, g2}
    Closers = {s1}
    Conns = {c1, c2}
    NoConn = NoConn
    MaxConnections = 1
    IdleConnections = 1
SPECIFICATION Spec
INVARIANT
    NoLeakAfterShutdown
