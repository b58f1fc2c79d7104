\* Four rows in two buckets and a peer with two rows of its own: every way
\* events get in, in every order.
SPECIFICATION Spec
CONSTANTS
    None = None
    Bucket <- MCBucket
    Datum <- MCDatum
    Beat <- MCBeat
    Batch <- MCBatch
    Upload <- MCUpload
    Foreign <- MCForeign
    Pulse = 1
    FloodPulse = 3
    Active = "y"
    Rules <- MCRules
    MaxRows = 4
INVARIANTS
    
    
    
    UnionKeepsPrecedence
PROPERTIES
    
    MergeTakesEverything
CHECK_DEADLOCK FALSE
