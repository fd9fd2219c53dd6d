SPECIFICATION SwitchFairSpec
CONSTANTS
    None = None
    a1 = a1
    c1 = c1
    c2 = c2
    Agents <- OneAgent
    Callers <- TwoCallers
    TTL = 1
    StaleAfter = 1
    Uptime = 1
    MaxTime = 2
    DbCanFail = TRUE
    UpdateRevoked = TRUE
    OperatorClears = TRUE
INVARIANTS
    HaltHolds
    StaleIsLate
PROPERTIES
    HaltBounded
    BlockedStays
    CheckReturns
CHECK_DEADLOCK FALSE
