\* The workshare's allocator for two executors: scheduler_start makes a queue
\* for 32 threads.
SPECIFICATION NodesSpec
CONSTANTS
    Execs = {e1, e2}
    NULL = null
    UintMod = 1024
    QueueLength = 32
    MaxOperations = 60
INVARIANTS
    PoolNeverDry
