\* What a rename or an import leaves in last_heartbeat.
SPECIFICATION Spec
CONSTANTS
    Name = {n1, n2}
    TestName = {}
    Target <- MCTarget
    Data = {"x"}
    Beat <- MCBeat
    Body <- MCBody
    Pulse = {0}
    NewHost = {"known"}
    MaxBid = 2
    MaxEid = 2
    None = None
    CommitMayFail = FALSE
SYMMETRY NameSymmetry
PROPERTIES
    HeartbeatUpdatesCorrectRow
