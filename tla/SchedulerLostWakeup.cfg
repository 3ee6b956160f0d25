\* A guest suspends a thread that suspends itself.
SPECIFICATION FairSpec
CONSTANTS
    Threads = {m, t1}
    MainThread = m
    IdleThread = idle
    NoThread = nil
    NumExecs = 2
    QueueCap = 3
    UintMod = 16
    Immediate = {"RUNNABLE", "SUSPEND"}
    Deferred = {}
    MayDestroy = FALSE
    OnlySelf = FALSE
    MayCollect = FALSE
    MaxCalls = 4
CHECK_DEADLOCK FALSE
PROPERTIES
    SleepersAreWoken
