\* A bucket and a debug-build bucket that migrates to the same name, both
\* migrations, failing commits and restarts: what happens to the buckets.
SPECIFICATION Spec
CONSTANTS
    Name = {"android", "test"}
    TestName = {"test"}
    Target <- MCTarget
    Data = {"x"}
    Beat <- MCBeat
    Body <- MCBody
    Pulse = {0}
    NewHost = {"unknown"}
    MaxBid = 2
    MaxEid = 1
    None = None
    CommitMayFail = TRUE
INVARIANTS
    TypeOK
    TablesConsistent
    CacheMirrorsTables
