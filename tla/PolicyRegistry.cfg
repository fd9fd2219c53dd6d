SPECIFICATION Spec
CONSTANTS
    p1 = p1
    p2 = p2
    a1 = a1
    a2 = a2
    Procs = {p1, p2}
    SyncProcs = {p2}
    Agents = {a1, a2}
    Wrapped <- MCWrapped
    Kinds <- MCKinds
    MaxRegistrations = 2
INVARIANTS
    RegistryConsistent
    ReloadNotices
    StartKeepsPolicies
CHECK_DEADLOCK FALSE
