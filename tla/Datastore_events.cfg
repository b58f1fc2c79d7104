\* Two buckets, two event rows, every command, restarts at any time: what
\* happens to the events and to the cached heartbeat.
SPECIFICATION Spec
CONSTANTS
    Name = {n1, n2}
    TestName = {}
    Target <- MCTarget
    Data = {"x"}
    Beat <- MCBeat
    Body <- MCBody
    Pulse = {0}
    NewHost = {"known"}
    MaxBid = 2
    MaxEid = 2
    None = None
    CommitMayFail = FALSE
SYMMETRY NameSymmetry
INVARIANTS
    RangeCoversEvents
    HeartbeatCacheSound
PROPERTIES
    HeartbeatKeepsRecord
    WritesReachNamedBucket
