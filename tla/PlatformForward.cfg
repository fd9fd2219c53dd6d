SPECIFICATION FairSpec
CONSTANTS
    MaxEvents = 3
    QueueSize = 2
    MaxRetries = 1
    Prior = 1
    Faulty = TRUE
    Late = TRUE
    Rejecting = TRUE
    MaxOther = 1
    Closes = TRUE
    GatePending = TRUE
INVARIANTS
    Accounted
    SentInOrder
    NoneLostToSeq
PROPERTY
    Settles
CHECK_DEADLOCK FALSE
