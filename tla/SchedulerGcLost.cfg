\* A thread waiting for the collection is dropped.
SPECIFICATION Spec
CONSTANTS
    Threads = {m, t1, t2}
    MainThread = m
    IdleThread = idle
    NoThread = nil
    NumExecs = 2
    QueueCap = 3
    UintMod = 16
    Immediate = {}
    Deferred = {"GC_WAIT"}
    MayDestroy = FALSE
    OnlySelf = TRUE
    MayCollect = TRUE
    MaxCalls = 3
SYMMETRY ThreadSymmetry
CHECK_DEADLOCK FALSE
INVARIANTS
    ReferencedIsHeld
