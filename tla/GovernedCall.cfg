SPECIFICATION Spec
CONSTANTS
    Mixes <- MCMixes
    MaxCalls = 1
    MaxChanges = 1
    CanFail = TRUE
INVARIANTS
    GatesHold
    
    ChargedOnce
    LoopNoticed
CHECK_DEADLOCK FALSE
