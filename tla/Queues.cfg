\* The workshare with two executors that enqueue and dequeue, where every dequeue
\* scans and nodes are reused; the queue of partial blocks, fresh or
\* much used, with pages of two nodes; the object queue with two executors.
SPECIFICATION QueuesSpec
CONSTANTS
    NumExecs = 2
    Enqueuers = {0, 1}
    FairExecs = {}
    Threads = {t1, t2}
    NoThread = nil
    Nodes = {n0, n1, n2}
    Sentinel = n0
    NoNode = null
    Threshold = 0
    BlockExecs = 2
    BlockEnqueuers = {0, 1}
    QueuedBlocks = {b1, b2}
    NodePages = {1, 2, 3, 4, 5, 6}
    NodesPerPage = 2
    NoBlock = nil
    MaxBlockCalls <- MCCalls
    ObjectExecs = 2
    Objects = {o1, o2}
    NoObject = nil
    ObjectNodes = {1, 2, 3}
    FirstObjectNode = 1
    ObjectThreshold = 1
    MaxObjectCalls = 3
SYMMETRY QueueSymmetry
\* The callers of the block and the object queue stop after their calls.
CHECK_DEADLOCK FALSE
INVARIANTS
    NodesKept
    ScanFreesOneKept
    BlockNodesKept
    ObjectsProtected
PROPERTIES
    ImplementsLossyFifo
    BlockQueueIsLossyFifo
    AllocatorHidden
