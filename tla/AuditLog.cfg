SPECIFICATION Spec
CONSTANTS
    c1 = c1
    c2 = c2
    s1 = s1
    NoCall = NoCall
    Callers <- TwoCallers
    Sessions <- OneSession
    Ids <- FiveIds
    Models = {TRUE}
    MaxFile = 2
    BatchSize = 1
    LostAck = TRUE
    FsCanFail = TRUE
    MaxOutages = 2
    MaxCrashes = 1
SYMMETRY CallSymmetry
INVARIANTS
    
    
    LocksOwned
CHECK_DEADLOCK FALSE
