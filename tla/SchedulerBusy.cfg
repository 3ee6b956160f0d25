\* More threads than executors: threads in the queues are suspended and destroyed,
\* after guests have suspended themselves, so that balancing puts threads back.
SPECIFICATION BusySpec
CONSTANTS
    Threads = {m, t1, t2, t3, t4}
    MainThread = m
    IdleThread = idle
    NoThread = nil
    NumExecs = 2
    QueueCap = 5
    UintMod = 16
    Immediate = {"SUSPEND"}
    Deferred = {}
    MayDestroy = TRUE
    OnlySelf = FALSE
    MayCollect = FALSE
    MaxCalls = 2
ACTION_CONSTRAINT SelfFirst
CHECK_DEADLOCK FALSE
INVARIANTS
    TypeOK
    MailboxNamesRunner
    NoDoubleEntry
    ReferencedIsHeld
    DestroyedOnce
