CONSTANTS
    Jobs = {j1, j2}
    Producers = {p1}
    Redrivers = {r1}
    Controllers = {c1}
    WorkerCount = 1
    BufferSize = 1
    MaxRetries = 1
    MaxStarts = 1
    Nobody = Nobody
    NoJob = NoJob
SPECIFICATION Spec
CHECK_DEADLOCK FALSE
INVARIANTS
    NothingDropped
