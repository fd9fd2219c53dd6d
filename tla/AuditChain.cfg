SPECIFICATION FairSpec
CONSTANTS
    w1 = w1
    w2 = w2
    w3 = w3
    s1 = s1
    s2 = s2
    k1 = k1
    k2 = k2
    Free = Free
    Workers = {w1, w2, w3}
    Sessions = {s1, s2}
    LockKeys <- MCKeys
    LockKey <- SharedKey
    Ids <- MCIds
INVARIANTS
    ChainLinear
    
PROPERTIES
    AtomicAppend
    CallsEnd
CHECK_DEADLOCK FALSE
