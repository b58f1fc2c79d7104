\* Two replicas, one note and one todo, three writes, two cycles.
SPECIFICATION Spec
CONSTANTS
    a = a
    b = b
    None = None
    Device = {a, b}
    Rank <- MCRank
    DayLength = 2
    Uuid = {u}
    Content = {c1, c2}
    Text = {x}
    MaxClock = 1
    MaxEdits = 3
    MaxLosses = 1
    MaxCycles = 2
    MaxResets = 1
INVARIANTS
    SyncTypeOK
    NoEditLost
    NewestSurvives
PROPERTIES
    CleanCycleAgrees
    
SYMMETRY Contents
CHECK_DEADLOCK FALSE
