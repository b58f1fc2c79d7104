\* The promise of serialize.rs that a todo's deletion is carried by a cycle.
SPECIFICATION Spec
CONSTANTS
    a = a
    b = b
    None = None
    Device = {a, b}
    Rank <- MCRank
    DayLength = 2
    Uuid = {u}
    Content = {c1}
    Text = {x}
    MaxClock = 1
    MaxEdits = 2
    MaxLosses = 0
    MaxCycles = 2
    MaxResets = 0
PROPERTY TodoDeletionTravels
CHECK_DEADLOCK FALSE
