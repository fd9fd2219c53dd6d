SPECIFICATION Spec
CONSTANTS
    c1 = c1
    c2 = c2
    c3 = c3
    Callers <- ThreeCallers
    Projections = {0, 2}
    Actual <- WithPrompt
    PerCall = 3
    Price = 1
    MaxChunks = 1
    ChunkEstimate = 1
    MaxSpent = 12
    SessionTokens = 2
    SessionUsd = 2
    DailyTokens = 9
    DailyUsd = 9
    AlertAt = 2
    FailOpen = FALSE
    StoreCanFail = FALSE
    MaxDay = 0
SYMMETRY Symmetry3
INVARIANTS
    UsdCeiling
    AlertExact
    
CHECK_DEADLOCK FALSE
