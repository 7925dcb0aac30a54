CONSTANTS
    Jobs = {j1, j2}
    Producers = {p1}
    Redrivers = {}
    Controllers = {c1, c2}
    WorkerCount = 1
    BufferSize = 1
    MaxRetries = 1
    MaxStarts = 2
    Nobody = Nobody
    NoJob = NoJob
SPECIFICATION Spec
CHECK_DEADLOCK FALSE
PROPERTIES
    JobsSettle
