\* Both executors enqueue and dequeue; executor 0 may be stopped for ever at
\* any point, executor 1 goes on.
SPECIFICATION FairSpec
CONSTANTS
    NumExecs = 2
    Enqueuers = {0, 1}
    FairExecs = {1}
    Threads = {t1, t2}
    NoThread = nil
    Nodes = {n0, n1, n2}
    Sentinel = n0
    NoNode = null
    Threshold = 1
INVARIANTS
    EmptyWasTrue
    ProtectedNotFree
PROPERTIES
    LockFree
