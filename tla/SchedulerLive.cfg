\* Guests suspend themselves, wait for collections and wake each other.
SPECIFICATION FairSpec
CONSTANTS
    Threads = {m, t1}
    MainThread = m
    IdleThread = idle
    NoThread = nil
    NumExecs = 2
    QueueCap = 3
    UintMod = 16
    Immediate = {"RUNNABLE", "SUSPEND"}
    Deferred = {"GC_WAIT"}
    MayDestroy = FALSE
    OnlySelf = TRUE
    MayCollect = TRUE
    MaxCalls = 4
CHECK_DEADLOCK FALSE
INVARIANTS
    SchedInv
PROPERTIES
    SleepersAreWoken
    CallsReturn
