SPECIFICATION MemSpec
CONSTANTS
    s1 = s1
    other = other
    c1 = c1
    c2 = c2
    loop = loop
    closer = closer
    flusher = flusher
    Sessions = {s1}
    Unchained = other
    Ids <- MCIds
    Loggers = {c1, c2}
    Flushers = {flusher}
    Loop = loop
    Closer = closer
    MaxPrimary = 2
    MaxFallback = 2
    BufferMax = 2
INVARIANTS
    Bounded
    LossesCounted
PROPERTIES
    ImplementsChainLog
CHECK_DEADLOCK FALSE
