\* The same instance when clients may fall silent.
SPECIFICATION FairSpec
CONSTANTS
    Client = {c1, c2}
    None = none
    EventCap = 1
    MaxBatch = 1
    MaxOps = 1
    MaxCrashes = 1
PROPERTIES
    IntervalEndsBatch
\* The worker stops when it is closed or when every handle is dropped.
CHECK_DEADLOCK FALSE
