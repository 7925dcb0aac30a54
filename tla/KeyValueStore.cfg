CONSTANTS
    Keys = {k1, k2, k3}
    Readers = {r1}
    TTLs = {0, 1, 2}
    MaxTime = 2
SPECIFICATION Spec
CHECK_DEADLOCK FALSE
INVARIANTS
    TypeOK
    IndexAgrees
    SleepsNoLonger
PROPERTIES
    OnlyDueRemoved
    DueCollected
    CleanerStops
