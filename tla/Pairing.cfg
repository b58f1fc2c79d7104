\* Two machines, one installed a second time under another id; one pairing
\* code; two ticks of the clock; four events.  The user of one machine pairs,
\* merges, removes and purges, the user of the other only pairs.
SPECIFICATION Spec
CONSTANTS
    a = a
    b = b
    a1 = a1
    b1 = b1
    b2 = b2
    None = None
    Machine = {a, b}
    Ids <- MCIds
    Code = {k}
    Validity = 1
    MdnsFresh = 2
    OnlineGrace = 1
    DiscoveredAge = 1
    DiscoveredKeep = 1
    StaleAfter = 0
    Acting = {a}
    MaxClock = 2
    MaxEvents = 4
INVARIANTS
    PairTypeOK
    SecretsAgree
    
    PairedIsNotSelf
    MergeHintsHold
PROPERTIES
    PairingSticks
    MdnsHasTheWord
    
CHECK_DEADLOCK FALSE
