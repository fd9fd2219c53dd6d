SPECIFICATION FairSpec
CONSTANTS
    r1 = r1
    o1 = o1
    o2 = o2
    w1 = w1
    w2 = w2
    NoOne = NoOne
    Requests <- MCRequests
    Operators = {o1}
    Waiters <- MCWaiters
    PlatformWired = TRUE
    AuditCanFail = FALSE
    BridgeLossy = TRUE
INVARIANTS
    ResolvedAudited
    VerdictGiven
PROPERTIES
    SingleUse
    WaitEnds
CHECK_DEADLOCK FALSE
