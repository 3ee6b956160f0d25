--------------------------- MODULE LFObjectQueue ---------------------------
(***************************************************************************)
(* The collector's queue of objects (mm/gc/lf_object_queue.c).  Its text   *)
(* is that of cc/lf_thread_queue.c but for names, casts and messages, so   *)
(* that its operations are made of the steps of LFThreadQueue.             *)
(***************************************************************************)
EXTENDS Naturals, FiniteSets

CONSTANTS
    ObjectExecs,    \* the number of executors; all enqueue and dequeue
    Objects,        \* the objects that go through the queue
    NoObject,       \* NULL
    ObjectNodes,    \* the nodes of the allocator
    FirstObjectNode,    \* the sentinel
    ObjectThreshold,    \* lf_object_queue_hptr_threshold
    MaxObjectCalls  \* bound: the calls of every executor

ASSUME ObjectQueueAssumption ==
    /\ ObjectExecs \in Nat \ {0}
    /\ NoObject \notin Objects /\ NoObject \notin ObjectNodes
    /\ IsFiniteSet(ObjectNodes) /\ FirstObjectNode \in ObjectNodes
    /\ ObjectThreshold \in Nat

VARIABLES
    oqHead, oqTail, oqNext, oqData,         \* lf_head, lf_tail, lfn_next, lfn_data
    oqHp, oqRlist, oqRcount,                \* ohp_ptrs, ohp_rlist, ohp_rcount
    oqFree, oqPool, oqPc, oqVal, oqLoc, oqScan, oqSaw,  \* as in LFThreadQueue
    oqCalls                                 \* the calls of every executor

objectVars == <<oqHead, oqTail, oqNext, oqData, oqHp, oqRlist, oqRcount, oqFree,
                oqPool, oqPc, oqVal, oqLoc, oqScan, oqSaw, oqCalls>>

ObjectCallers == 0 .. ObjectExecs - 1

O == INSTANCE LFThreadQueue WITH
    NumExecs <- ObjectExecs, Enqueuers <- ObjectCallers, FairExecs <- {},
    Threads <- Objects, NoThread <- NoObject,
    Nodes <- ObjectNodes, Sentinel <- FirstObjectNode, NoNode <- NoObject,
    Threshold <- ObjectThreshold,
    head <- oqHead, tail <- oqTail, next <- oqNext, data <- oqData, hp <- oqHp,
    rlist <- oqRlist, rcount <- oqRcount, free <- oqFree, pool <- oqPool,
    pc <- oqPc, val <- oqVal, loc <- oqLoc, scan <- oqScan, sawEmpty <- oqSaw

lf_object_queue_init ==
    /\ oqHead = FirstObjectNode /\ oqTail = FirstObjectNode
    /\ oqNext = [n \in ObjectNodes |-> NoObject]
    /\ oqData = [n \in ObjectNodes |-> NoObject]
    /\ oqHp = [e \in ObjectCallers |-> [j \in 0 .. 1 |-> NoObject]]
    /\ oqRlist = [e \in ObjectCallers |-> NoObject]
    /\ oqRcount = [e \in ObjectCallers |-> 0]
    /\ oqFree = ObjectNodes \ {FirstObjectNode}
    /\ oqPool = Objects
    /\ oqPc = [e \in ObjectCallers |-> "idle"]
    /\ oqVal = [e \in ObjectCallers |-> NoObject]
    /\ oqLoc = [e \in ObjectCallers |-> O!NoLoc]
    /\ oqScan = [e \in ObjectCallers |-> O!NoScan]
    /\ oqSaw = [e \in ObjectCallers |-> FALSE]
    /\ oqCalls = [e \in ObjectCallers |-> 0]

\* A call begins, or one that has begun goes on.
ObjectCall(e) ==
    \/ /\ oqPc[e] = "idle" /\ oqCalls[e] < MaxObjectCalls
       /\ oqCalls' = [oqCalls EXCEPT ![e] = @ + 1]
    \/ oqPc[e] # "idle" /\ UNCHANGED oqCalls

lf_object_queue_enqueue(e) ==
    /\ ObjectCall(e)
    /\ \/ O!EnqueueStart(e) \/ O!EnqueueSwing(e) \/ O!EnqueueDone(e)

lf_object_queue_try_enqueue(e) ==
    /\ UNCHANGED oqCalls
    /\ \/ O!EnqueueTail(e) \/ O!EnqueueHazard(e) \/ O!EnqueueCheck(e)
       \/ O!EnqueueNext(e) \/ O!EnqueueAgain(e) \/ O!EnqueueHelp(e)
       \/ O!EnqueueCas(e)

\* Mutant: the hazard pointer is trusted without a second look at lf_head.
TryDequeueTrusting(e) ==
    /\ ObjectCall(e)
    /\ \/ O!DequeueHead(e) \/ O!DequeueHazard(e) \/ O!DequeueCheckTrusting(e)
       \/ O!DequeueTail(e) \/ O!DequeueNext(e) \/ O!DequeueHazardNext(e)
       \/ O!DequeueAgain(e) \/ O!DequeueHelp(e) \/ O!DequeueCas(e)
       \/ O!DequeueData(e) \/ O!DequeueUnhazard(e) \/ O!DequeueEmpty(e)

lf_object_queue_try_dequeue(e) ==
    /\ ObjectCall(e)
    /\ \/ O!DequeueHead(e) \/ O!DequeueHazard(e) \/ O!DequeueCheck(e)
       \/ O!DequeueTail(e) \/ O!DequeueNext(e) \/ O!DequeueHazardNext(e)
       \/ O!DequeueAgain(e) \/ O!DequeueHelp(e) \/ O!DequeueCas(e)
       \/ O!DequeueData(e) \/ O!DequeueUnhazard(e) \/ O!DequeueEmpty(e)

lf_object_queue_dequeue(e) == O!DequeueDone(e) /\ UNCHANGED oqCalls

lf_object_queue_node_retire(e) == O!Retire(e) /\ UNCHANGED oqCalls

lf_object_queue_scan_build_ptab(e) == O!Scan(e) /\ UNCHANGED oqCalls

lf_object_queue_scan_free_rlist(e) ==
    /\ UNCHANGED oqCalls
    /\ O!ScanStart(e) \/ O!ScanNext(e) \/ O!ScanSort(e)

ObjectStep(e) ==
    \/ lf_object_queue_enqueue(e) \/ lf_object_queue_try_enqueue(e)
    \/ lf_object_queue_try_dequeue(e) \/ lf_object_queue_dequeue(e)
    \/ lf_object_queue_node_retire(e) \/ lf_object_queue_scan_build_ptab(e)
    \/ lf_object_queue_scan_free_rlist(e)

ObjectNext == \E e \in ObjectCallers : ObjectStep(e)

ObjectSpec == lf_object_queue_init /\ [][ObjectNext]_objectVars

-----------------------------------------------------------------------------

\* With both executors enqueuing and dequeuing, a node that one of them works
\* on after its second look at lf_head or lf_tail is not handed out again, and
\* a dequeue that finds nothing was right: the queue was empty while it ran.
ObjectsProtected == O!ProtectedNotFree /\ O!EmptyWasTrue
=============================================================================
