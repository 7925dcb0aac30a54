CONSTANTS
    Topics = {t1, t2}
    Subs = {s1, s2}
    Publishers = {p1}
    Leavers = {u1}
    Closers = {c1, c2}
    BufferSize = 2
    MaxPublish = 3
    NoTopic = NoTopic
    NoSub = NoSub
SPECIFICATION Spec
CHECK_DEADLOCK FALSE
INVARIANTS
    TypeOK
    InOrderAtMostOnce
    OneCloses
PROPERTIES
    ClosedOnlyDrains
    AllDisconnected
