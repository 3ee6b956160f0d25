------------------------------ MODULE MCQueues ------------------------------
(***************************************************************************)
(* One instance of the three queues of the same design: the scheduler's    *)
(* workshare, the allocator's queue of partial blocks and the collector's  *)
(* object queue.  They share no state; a behaviour runs one of them.       *)
(***************************************************************************)
EXTENDS LFThreadQueue, LFBlockQueue, LFObjectQueue, TLC

VARIABLES
    which,          \* the queue that is used
    disturbed       \* history: the kinds of disturbing steps taken so far

queuesVars == <<which, disturbed, vars, blockVars, objectVars>>

\* Threads are interchangeable, and so are the nodes but for the sentinel.
QueueSymmetry == Permutations(Threads) \cup Permutations(Nodes \ {Sentinel})
                 \cup Permutations(Objects)

\* One executor has two calls, the other one has one; each enqueues or dequeues.
MCCalls == [e \in BlockCallers |-> IF e = 0 THEN 2 ELSE 1]

\* A state that lf_block_queue_init reaches after many calls: every executor
\* has retired as many nodes as it keeps without a scan, the queue is empty,
\* and one free node is left, or one more than a page.
UsedQueue ==
    \E spare \in {1, 1 + NodesPerPage} :
    LET node(i) == <<i \div NodesPerPage + 1, i % NodesPerPage>>
        kept == 2 * BlockExecs
        retired(e, i) == node(e * kept + i)
        used == 1 + kept * BlockExecs IN
    /\ bqHead = FirstNode /\ bqTail = FirstNode
    /\ bqNodes = node(used)
    /\ bqNext = [n \in BlockNodes |->
           IF \/ \E e \in BlockCallers, i \in 1 .. kept - 1 : n = retired(e, i)
              \/ \E i \in used .. used + spare - 2 : n = node(i)
           THEN node((n[1] - 1) * NodesPerPage + n[2] + 1) ELSE NoBlock]
    /\ bqData = [n \in BlockNodes |-> NoBlock]
    /\ bqHp = [e \in BlockCallers |-> [j \in 0 .. 1 |-> NoBlock]]
    /\ bqRlist = [e \in BlockCallers |-> retired(e, 1)]
    /\ bqRcount = [e \in BlockCallers |-> kept]
    /\ bqPages = {node(i)[1] : i \in 0 .. used + spare - 1}
    /\ bqBatch = [e \in BlockCallers |-> NoBatch]
    /\ bqPool = QueuedBlocks
    /\ bqPc = [e \in BlockCallers |-> "idle"]
    /\ bqVal = [e \in BlockCallers |-> NoBlock]
    /\ bqLoc = [e \in BlockCallers |-> B!NoLoc]
    /\ bqScan = [e \in BlockCallers |-> B!NoScan]
    /\ bqSaw = [e \in BlockCallers |-> FALSE]
    /\ bqCalls = [e \in BlockCallers |-> 0]
    /\ bqFree = BlockNodes \ ({FirstNode} \cup {retired(e, i) : e \in BlockCallers, i \in 1 .. kept})

QueuesInit ==
    /\ which \in {"threads", "blocks", "objects"}
    /\ disturbed = {}
    /\ Init
    /\ lf_block_queue_init \/ (which = "blocks" /\ UsedQueue)
    /\ lf_object_queue_init

\* The steps after which a queue is no longer what its code takes it for: an
\* enqueue behind a node that has left the queue, and the pop of a free node
\* whose successor has changed.
Record ==
    disturbed' = disturbed \cup
        (IF \/ which = "threads" /\ \E e \in Execs : LateLink(e)
            \/ which = "blocks" /\ \E e \in BlockCallers : Queue!LateLink(e)
         THEN {"link"} ELSE {})
        \cup (IF which = "blocks" /\ \E e \in BlockCallers : StalePop(e)
              THEN {"pop"} ELSE {})

ThreadsAlone == /\ which = "threads" /\ Next /\ Record
                /\ UNCHANGED <<which, blockVars, objectVars>>
BlocksAlone == /\ which = "blocks" /\ BlockNext /\ Record
               /\ UNCHANGED <<which, vars, objectVars>>
ObjectsAlone == /\ which = "objects" /\ ObjectNext /\ Record
                /\ UNCHANGED <<which, vars, blockVars>>

QueuesNext == ThreadsAlone \/ BlocksAlone \/ ObjectsAlone

QueuesSpec == QueuesInit /\ [][QueuesNext]_queuesVars

-----------------------------------------------------------------------------
(* Properties.                                                             *)

\* NodesAccounted as long as no enqueue linked its node behind one that had
\* left the queue: that is the only way in which enqueues, dequeues and scans
\* of all executors (lf_thread_queue.c) lose a node or have it twice.
NodesKept == disturbed # {} \/ NodesAccounted

\* BlockNodesAccounted as long as no such enqueue, and no pop of a stale free
\* node (lf_block_queue.c:47), took place.
BlockNodesKept == disturbed # {} \/ BlockNodesAccounted

\* ScanFreesOne as long as no stale free node was popped: a scan frees at least
\* one node, whoever enqueues behind a node that has left the queue.
ScanFreesOneKept == "pop" \in disturbed \/ ScanFreesOne

\* The queue of partial blocks is the FIFO that lf_malloc.c takes it for as long
\* as no stale free node is popped, but for the enqueues behind a node that has
\* left the queue, which lose their descriptor as they do in the workshare:
\* none is returned twice, overtaken or lost otherwise.
BlockQueueIsLossyFifo ==
    /\ B!Fifo!FifoInit
    /\ [][\/ "pop" \in disturbed'
          \/ B!Fifo!FifoNext
          \/ \E e \in BlockCallers : B!LateLink(e) /\ B!Fifo!Lose(e)]_(B!Fifo!fifoVars)

\* As long as no stale free node is popped every step of lf_block_queue.c is
\* one of LFThreadQueue's or none: nobody but the allocator can tell that nodes
\* come from slices and go back in batches.
AllocatorHidden ==
    [][\/ "pop" \in disturbed'
       \/ Queue!Next]_(Queue!vars)
=============================================================================
