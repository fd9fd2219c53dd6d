SPECIFICATION Spec
CONSTANTS
    c1 = c1
    c2 = c2
    c3 = c3
    Callers <- TwoCallers
    Projections = {1, 2}
    Actual <- Honest
    PerCall = 2
    Price = 1
    MaxChunks = 0
    ChunkEstimate = 1
    MaxSpent = 4
    SessionTokens = 3
    SessionUsd = 9
    DailyTokens = 2
    DailyUsd = 9
    AlertAt = 3
    FailOpen = FALSE
    StoreCanFail = TRUE
    MaxDay = 1
SYMMETRY Symmetry2
INVARIANTS
    TokenCeiling
    DailyCeiling
CHECK_DEADLOCK FALSE
