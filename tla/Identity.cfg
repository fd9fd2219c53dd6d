SPECIFICATION Spec
CONSTANTS
    k1 = k1  k2 = k2
    Procs = {p1, p2}
    Keys <- MCKeys
    NoKey = NoKey  Absent = Absent  Empty = Empty  Everybody = Everybody
    AllowBootstrap = TRUE
    Modes = {TRUE, FALSE}
    LinkColumn = TRUE
    MaxSeq = 2
    MaxRevocations = 1
    MaxRare = 1
SYMMETRY Symmetry
INVARIANTS RevocationHolds 
CHECK_DEADLOCK FALSE
