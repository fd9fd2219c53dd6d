SPECIFICATION Spec
CONSTANTS
    k1 = k1
    k2 = k2
    k3 = k3
    s0 = s0
    s1 = s1
    r1 = r1
    r2 = r2
    NoKey = NoKey
    Keys = {k1, k2, k3}
    FirstKey = k1
    Sessions = {s0, s1}
    SystemSession = s0
    Rotators = {r1}
    MaxSeq = 4
    Window = 3
    MaxDamage = 1
    Coordinated = TRUE
    OpenWindow = FALSE
    ReadCanFail = TRUE
INVARIANTS
    VerifiedMeansIntact
    MacAlarmMeansDamage
    WindowsFit
CHECK_DEADLOCK FALSE
