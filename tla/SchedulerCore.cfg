\* Two executors, three threads, every call; no collection.
SPECIFICATION Spec
CONSTANTS
    Threads = {m, t1, t2}
    MainThread = m
    IdleThread = idle
    NoThread = nil
    NumExecs = 2
    QueueCap = 3
    UintMod = 16
    Immediate = {"RUNNABLE", "SUSPEND", "TERM"}
    Deferred = {"SUSPEND"}
    MayDestroy = TRUE
    OnlySelf = FALSE
    MayCollect = FALSE
    MaxCalls = 3
SYMMETRY ThreadSymmetry
CHECK_DEADLOCK FALSE
INVARIANTS
    SchedInv
    NoDoubleEntry
    HeldIsReferenced
    ReferencedIsHeld
    NeverPanics
    DestroyedOnce
    MailboxNamesRunner
PROPERTIES
    DeadEnds
