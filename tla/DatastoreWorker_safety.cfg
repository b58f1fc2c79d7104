\* Two clients, two writes, an insert of one or two events against a cap of
\* one, one crash: every interleaving of requests, commits and failures.
SPECIFICATION Spec
CONSTANTS
    Client = {c1, c2}
    None = none
    EventCap = 1
    MaxBatch = 2
    MaxOps = 2
    MaxCrashes = 1
SYMMETRY ClientSymmetry
INVARIANTS
    WorkerInv
    IdleWorkerOwesLittle
PROPERTIES
    SyncAckIsDurable
    ImplementsDurableLog
\* The worker stops when it is closed or when every handle is dropped.
CHECK_DEADLOCK FALSE
