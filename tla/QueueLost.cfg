\* Both executors enqueue and dequeue, as the scheduler's executors do.
SPECIFICATION Spec
CONSTANTS
    NumExecs = 2
    Enqueuers = {0, 1}
    FairExecs = {}
    Threads = {t1, t2}
    NoThread = nil
    Nodes = {n0, n1, n2, n3}
    Sentinel = n0
    NoNode = null
    Threshold = 1
SYMMETRY QueueSymmetry
PROPERTIES
    ImplementsFifo
