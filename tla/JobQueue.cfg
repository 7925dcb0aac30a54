CONSTANTS
    Jobs = {j1, j2, j3}
    Producers = {p1, p2}
    Redrivers = {r1}
    Controllers = {c1}
    WorkerCount = 2
    BufferSize = 1
    MaxRetries = 1
    MaxStarts = 2
    Nobody = Nobody
    NoJob = NoJob
SPECIFICATION Spec
CHECK_DEADLOCK FALSE
INVARIANTS
    TypeOK
    NoSendOnClosed
    ExactlyOnce
    ShutdownDrains
PROPERTIES
    ShutdownReturns
    JobsSettleOrDropped
