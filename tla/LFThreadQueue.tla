--------------------------- MODULE LFThreadQueue ---------------------------
(***************************************************************************)
(* The lock-free queue of cc/lf_thread_queue.c: Michael and Scott's queue  *)
(* with Michael's hazard pointers.  The list of retired nodes is linked    *)
(* through the field that links the queue, as in the code.                 *)
(*                                                                         *)
(* A step is one access to shared memory.  The node allocator is a set of  *)
(* free nodes here.                                                        *)
(***************************************************************************)
EXTENDS Integers, Sequences, FiniteSets

CONSTANTS
    NumExecs,       \* executors
    Enqueuers,      \* the executors that enqueue; all of them dequeue
    FairExecs,      \* the executors the OS does not stop
    Threads,        \* the threads that go through the queue
    NoThread,       \* NULL
    Nodes,          \* the nodes of the allocator, the sentinel included
    Sentinel,       \* the first dummy node
    NoNode,         \* NULL
    Threshold       \* lf_thread_queue_hptr_threshold

Execs == 0 .. NumExecs - 1

ASSUME QueueAssumption ==
    /\ NumExecs \in Nat \ {0}
    /\ Enqueuers \subseteq Execs /\ FairExecs \subseteq Execs
    /\ NoThread \notin Threads
    /\ IsFiniteSet(Nodes) /\ Sentinel \in Nodes /\ NoNode \notin Nodes
    /\ Threshold \in Nat

VARIABLES
    head, tail,     \* lf_head, lf_tail
    next, data,     \* next[n], data[n]: lfn_next and lfn_data
    hp,             \* hp[e][j]: thp_ptrs[j]
    rlist, rcount,  \* rlist[e], rcount[e]: thp_rlist, thp_rcount
    free,           \* nodes the allocator can hand out
    pool,           \* threads neither in the queue nor in an operation
    pc,             \* pc[e]: the next step of e
    val,            \* val[e]: the thread e enqueues or has dequeued
    loc,            \* loc[e]: the local node pointers of the operation
    scan,           \* scan[e]: position in the hazard pointers, table so far
    sawEmpty        \* history: the queue was empty when e read head->lfn_next

queueVars == <<head, tail, next, data>>
hazardVars == <<hp, rlist, rcount, free>>
callVars == <<pool, val, sawEmpty>>
vars == <<head, tail, next, data, hp, rlist, rcount, free, pool, pc, val, loc,
          scan, sawEmpty>>

NoLoc  == [head |-> NoNode, tail |-> NoNode, next |-> NoNode, node |-> NoNode,
           curr |-> NoNode]
NoScan == [pos |-> 0, ptab |-> {}]

\* The nodes from n on along lfn_next, n first, then NULL.
Walk(n) ==
    LET after == [m \in Nodes \cup {NoNode} |-> IF m = NoNode THEN NoNode ELSE next[m]]
        at[k \in 0 .. Cardinality(Nodes)] == IF k = 0 THEN n ELSE after[at[k - 1]]
    IN  at

\* The same as a sequence; longer than Nodes if the list is cyclic.
Chain(n) ==
    IF n = NoNode THEN <<>> ELSE IF next[n] = NoNode THEN <<n>>
    ELSE LET w == Walk(n)
             steps == {k \in 0 .. Cardinality(Nodes) : w[k] # NoNode}
         IN  [k \in 1 .. Cardinality(steps) |-> w[k - 1]]

OnChain(n) == LET c == Chain(n) IN {c[k] : k \in DOMAIN c}

\* The threads in the queue: those of the nodes after the dummy node.
Contents == LET c == Chain(head) IN [i \in 1 .. Len(c) - 1 |-> data[c[i + 1]]]

Goto(e, label) == pc' = [pc EXCEPT ![e] = label]
Local(e, field, n) == loc' = [loc EXCEPT ![e][field] = n]
Hazard(e, j, n) == hp' = [hp EXCEPT ![e][j] = n]

\* The attempt failed: its local pointers are gone when the next one starts.
Retry(e, label) ==
    /\ Goto(e, label)
    /\ loc' = [loc EXCEPT ![e] = [NoLoc EXCEPT !.node = loc[e].node]]
Onward(e, label) == Goto(e, label) /\ UNCHANGED loc

\* lf_thread_queue_init.
Init ==
    /\ head = Sentinel /\ tail = Sentinel
    /\ next = [n \in Nodes |-> NoNode]
    /\ data = [n \in Nodes |-> NoThread]
    /\ hp = [e \in Execs |-> [j \in 0 .. 1 |-> NoNode]]
    /\ rlist = [e \in Execs |-> NoNode]
    /\ rcount = [e \in Execs |-> 0]
    /\ free = Nodes \ {Sentinel}
    /\ pool = Threads
    /\ pc = [e \in Execs |-> "idle"]
    /\ val = [e \in Execs |-> NoThread]
    /\ loc = [e \in Execs |-> NoLoc]
    /\ scan = [e \in Execs |-> NoScan]
    /\ sawEmpty = [e \in Execs |-> FALSE]

-----------------------------------------------------------------------------
(* lf_thread_queue_enqueue.                                                *)

\* A node is allocated and filled; without one the call returns false.
EnqueueStart(e) ==
    /\ pc[e] = "idle"
    /\ e \in Enqueuers
    /\ \E t \in pool, n \in free :
        /\ pool' = pool \ {t}
        /\ free' = free \ {n}
        /\ val' = [val EXCEPT ![e] = t]
        /\ data' = [data EXCEPT ![n] = t]
        /\ next' = [next EXCEPT ![n] = NoNode]
        /\ Local(e, "node", n)
    /\ Goto(e, "e_tail")
    /\ UNCHANGED <<head, tail, hp, rlist, rcount, scan, sawEmpty>>

EnqueueTail(e) ==
    /\ pc[e] = "e_tail"
    /\ Local(e, "tail", tail)
    /\ Goto(e, "e_hp")
    /\ UNCHANGED <<queueVars, hazardVars, callVars, scan>>

EnqueueHazard(e) ==
    /\ pc[e] = "e_hp"
    /\ Hazard(e, 0, loc[e].tail)
    /\ Goto(e, "e_check")
    /\ UNCHANGED <<queueVars, rlist, rcount, free, callVars, loc, scan>>

EnqueueCheck(e) ==
    /\ pc[e] = "e_check"
    /\ IF tail = loc[e].tail THEN Onward(e, "e_next") ELSE Retry(e, "e_tail")
    /\ UNCHANGED <<queueVars, hazardVars, callVars, scan>>

EnqueueNext(e) ==
    /\ pc[e] = "e_next"
    /\ Local(e, "next", next[loc[e].tail])
    /\ Goto(e, "e_again")
    /\ UNCHANGED <<queueVars, hazardVars, callVars, scan>>

EnqueueAgain(e) ==
    /\ pc[e] = "e_again"
    /\ \/ tail # loc[e].tail /\ Retry(e, "e_tail")
       \/ /\ tail = loc[e].tail
          /\ Onward(e, IF loc[e].next # NoNode THEN "e_help" ELSE "e_cas")
    /\ UNCHANGED <<queueVars, hazardVars, callVars, scan>>

EnqueueHelp(e) ==
    /\ pc[e] = "e_help"
    /\ tail' = IF tail = loc[e].tail THEN loc[e].next ELSE tail
    /\ Retry(e, "e_tail")
    /\ UNCHANGED <<head, next, data, hazardVars, callVars, scan>>

\* The CAS that links the node to the last one.
EnqueueCas(e) ==
    LET last == loc[e].tail IN
    /\ pc[e] = "e_cas"
    /\ \/ /\ next[last] = NoNode
          /\ next' = [next EXCEPT ![last] = loc[e].node]
          /\ val' = [val EXCEPT ![e] = NoThread]
          /\ Onward(e, "e_swing")
       \/ /\ next[last] # NoNode
          /\ Retry(e, "e_tail")
          /\ UNCHANGED <<next, val>>
    /\ UNCHANGED <<head, tail, data, hazardVars, pool, sawEmpty, scan>>

EnqueueSwing(e) ==
    /\ pc[e] = "e_swing"
    /\ tail' = IF tail = loc[e].tail THEN loc[e].node ELSE tail
    /\ Goto(e, "e_done")
    /\ UNCHANGED <<head, next, data, hazardVars, callVars, loc, scan>>

EnqueueDone(e) ==
    /\ pc[e] = "e_done"
    /\ Hazard(e, 0, NoNode)
    /\ loc' = [loc EXCEPT ![e] = NoLoc]
    /\ Goto(e, "idle")
    /\ UNCHANGED <<queueVars, rlist, rcount, free, callVars, scan>>

-----------------------------------------------------------------------------
(* lf_thread_queue_dequeue.                                                *)

DequeueHead(e) ==
    /\ pc[e] \in {"idle", "d_head"}
    /\ Local(e, "head", head)
    /\ Goto(e, "d_hp")
    /\ UNCHANGED <<queueVars, hazardVars, callVars, scan>>

DequeueHazard(e) ==
    /\ pc[e] = "d_hp"
    /\ Hazard(e, 0, loc[e].head)
    /\ Goto(e, "d_check")
    /\ UNCHANGED <<queueVars, rlist, rcount, free, callVars, loc, scan>>

\* Mutant: the hazard pointer is trusted without a second look at lf_head.
DequeueCheckTrusting(e) ==
    /\ pc[e] = "d_check"
    /\ Onward(e, "d_tail")
    /\ UNCHANGED <<queueVars, hazardVars, callVars, scan>>

DequeueCheck(e) ==
    /\ pc[e] = "d_check"
    /\ IF head = loc[e].head THEN Onward(e, "d_tail") ELSE Retry(e, "d_head")
    /\ UNCHANGED <<queueVars, hazardVars, callVars, scan>>

DequeueTail(e) ==
    /\ pc[e] = "d_tail"
    /\ Local(e, "tail", tail)
    /\ Goto(e, "d_next")
    /\ UNCHANGED <<queueVars, hazardVars, callVars, scan>>

DequeueNext(e) ==
    /\ pc[e] = "d_next"
    /\ Local(e, "next", next[loc[e].head])
    /\ sawEmpty' = [sawEmpty EXCEPT ![e] = next[head] = NoNode]
    /\ Goto(e, "d_hp1")
    /\ UNCHANGED <<queueVars, hazardVars, pool, val, scan>>

DequeueHazardNext(e) ==
    /\ pc[e] = "d_hp1"
    /\ Hazard(e, 1, loc[e].next)
    /\ Goto(e, "d_again")
    /\ UNCHANGED <<queueVars, rlist, rcount, free, callVars, loc, scan>>

\* Mutant: no second look at lf_head after lfn_next was read.
DequeueAgainTrusting(e) ==
    /\ pc[e] = "d_again"
    /\ Onward(e, CASE loc[e].next = NoNode -> "d_empty"
                   [] loc[e].next # NoNode /\ loc[e].head = loc[e].tail -> "d_help"
                   [] loc[e].next # NoNode /\ loc[e].head # loc[e].tail -> "d_cas")
    /\ UNCHANGED <<queueVars, hazardVars, callVars, scan>>

\* The second look at lf_head, and the choice that follows from it.
DequeueAgain(e) ==
    /\ pc[e] = "d_again"
    /\ \/ head # loc[e].head /\ Retry(e, "d_head")
       \/ /\ head = loc[e].head
          /\ Onward(e, CASE loc[e].next = NoNode -> "d_empty"
                         [] loc[e].next # NoNode /\ head = loc[e].tail -> "d_help"
                         [] loc[e].next # NoNode /\ head # loc[e].tail -> "d_cas")
    /\ UNCHANGED <<queueVars, hazardVars, callVars, scan>>

\* Mutant: a dequeuer waits for the enqueuer to move lf_tail.
DequeueHelpNot(e) ==
    /\ pc[e] = "d_help"
    /\ Retry(e, "d_head")
    /\ UNCHANGED <<queueVars, hazardVars, callVars, scan>>

DequeueHelp(e) ==
    /\ pc[e] = "d_help"
    /\ tail' = IF tail = loc[e].tail THEN loc[e].next ELSE tail
    /\ Retry(e, "d_head")
    /\ UNCHANGED <<head, next, data, hazardVars, callVars, scan>>

\* Mutant: lf_head is stored to instead of compared and set.
DequeueCasStore(e) ==
    /\ pc[e] = "d_cas"
    /\ head' = loc[e].next
    /\ Onward(e, "d_data")
    /\ UNCHANGED <<tail, next, data, hazardVars, callVars, scan>>

DequeueCas(e) ==
    /\ pc[e] = "d_cas"
    /\ \/ /\ head = loc[e].head
          /\ head' = loc[e].next
          /\ Onward(e, "d_data")
       \/ /\ head # loc[e].head
          /\ Retry(e, "d_head")
          /\ UNCHANGED head
    /\ UNCHANGED <<tail, next, data, hazardVars, callVars, scan>>

DequeueData(e) ==
    /\ pc[e] = "d_data"
    /\ val' = [val EXCEPT ![e] = data[loc[e].next]]
    /\ loc' = [loc EXCEPT ![e] = [NoLoc EXCEPT !.head = loc[e].head]]
    /\ Goto(e, "d_unhp1")
    /\ UNCHANGED <<queueVars, hazardVars, pool, sawEmpty, scan>>

DequeueUnhazard(e) ==
    /\ pc[e] = "d_unhp1"
    /\ Hazard(e, 1, NoNode)
    /\ Goto(e, "retire")
    /\ UNCHANGED <<queueVars, rlist, rcount, free, callVars, loc, scan>>

\* The queue is empty: both hazard pointers are unset, one after the other.
DequeueEmpty(e) ==
    /\ pc[e] = "d_empty"
    /\ Hazard(e, 0, NoNode)
    /\ Goto(e, "d_none")
    /\ UNCHANGED <<queueVars, rlist, rcount, free, callVars, loc, scan>>

\* The last hazard pointer is unset and the call returns.
DequeueDone(e) ==
    /\ pc[e] \in {"d_none", "d_done"}
    /\ Hazard(e, IF pc[e] = "d_none" THEN 1 ELSE 0, NoNode)
    /\ pool' = pool \cup ({val[e]} \ {NoThread})
    /\ val' = [val EXCEPT ![e] = NoThread]
    /\ sawEmpty' = [sawEmpty EXCEPT ![e] = FALSE]
    /\ loc' = [loc EXCEPT ![e] = NoLoc]
    /\ Goto(e, "idle")
    /\ UNCHANGED <<queueVars, rlist, rcount, free, scan>>

-----------------------------------------------------------------------------
(* lf_thread_queue_node_retire and lf_thread_queue_scan.                   *)

Retire(e) ==
    /\ pc[e] = "retire"
    /\ next' = [next EXCEPT ![loc[e].head] = rlist[e]]
    /\ rlist' = [rlist EXCEPT ![e] = loc[e].head]
    /\ rcount' = [rcount EXCEPT ![e] = @ + 1]
    /\ loc' = [loc EXCEPT ![e] = NoLoc]
    /\ Goto(e, IF rcount[e] >= Threshold THEN "scan" ELSE "d_done")
    /\ UNCHANGED <<head, tail, data, hp, free, callVars, scan>>

\* lf_thread_queue_scan_build_ptab: one hazard pointer after the other.
Scan(e) ==
    LET pos == scan[e].pos
        seen == {hp[pos \div 2][pos % 2]} \ {NoNode} IN
    /\ pc[e] = "scan"
    /\ scan' = [scan EXCEPT ![e] = [pos |-> pos + 1, ptab |-> @.ptab \cup seen]]
    /\ Goto(e, IF pos + 1 < 2 * NumExecs THEN "scan" ELSE "s_start")
    /\ UNCHANGED <<queueVars, hazardVars, callVars, loc>>

\* lf_thread_queue_scan_free_rlist: start with an empty list.
ScanStart(e) ==
    /\ pc[e] = "s_start"
    /\ Local(e, "curr", rlist[e])
    /\ rlist' = [rlist EXCEPT ![e] = NoNode]
    /\ rcount' = [rcount EXCEPT ![e] = 0]
    /\ Goto(e, "s_next")
    /\ UNCHANGED <<queueVars, hp, free, callVars, scan>>

ScanNext(e) ==
    /\ pc[e] = "s_next"
    /\ \/ /\ loc[e].curr = NoNode
          /\ scan' = [scan EXCEPT ![e] = NoScan]
          /\ Goto(e, "d_done")
          /\ UNCHANGED loc
       \/ /\ loc[e].curr # NoNode
          /\ Local(e, "next", next[loc[e].curr])
          /\ Goto(e, "s_sort")
          /\ UNCHANGED scan
    /\ UNCHANGED <<queueVars, hazardVars, callVars>>

\* Mutant: a node that is kept is counted but not linked.
ScanSortUnlinked(e) ==
    LET n == loc[e].curr IN
    /\ pc[e] = "s_sort"
    /\ \/ /\ n \in scan[e].ptab
          /\ rcount' = [rcount EXCEPT ![e] = @ + 1]
          /\ UNCHANGED <<next, data, free>>
       \/ /\ n \notin scan[e].ptab
          /\ next' = [next EXCEPT ![n] = NoNode]
          /\ data' = [data EXCEPT ![n] = NoThread]
          /\ free' = free \cup {n}
          /\ UNCHANGED rcount
    /\ loc' = [loc EXCEPT ![e].curr = loc[e].next]
    /\ Goto(e, "s_next")
    /\ UNCHANGED <<head, tail, hp, rlist, callVars, scan>>

\* A node that was seen in a hazard pointer is kept, another one freed.  The
\* fields of a free node are as at the start: by ProtectedNotFree nobody reads
\* what the allocator and the last user leave in them.
ScanSort(e) ==
    LET n == loc[e].curr IN
    /\ pc[e] = "s_sort"
    /\ \/ /\ n \in scan[e].ptab
          /\ next' = [next EXCEPT ![n] = rlist[e]]
          /\ rlist' = [rlist EXCEPT ![e] = n]
          /\ rcount' = [rcount EXCEPT ![e] = @ + 1]
          /\ UNCHANGED <<data, free>>
       \/ /\ n \notin scan[e].ptab
          /\ next' = [next EXCEPT ![n] = NoNode]
          /\ data' = [data EXCEPT ![n] = NoThread]
          /\ free' = free \cup {n}
          /\ UNCHANGED <<rlist, rcount>>
    /\ loc' = [loc EXCEPT ![e].curr = loc[e].next]
    /\ Goto(e, "s_next")
    /\ UNCHANGED <<head, tail, hp, callVars, scan>>

-----------------------------------------------------------------------------

Step(e) ==
    \/ EnqueueStart(e) \/ EnqueueTail(e) \/ EnqueueHazard(e) \/ EnqueueCheck(e)
    \/ EnqueueNext(e) \/ EnqueueAgain(e) \/ EnqueueHelp(e) \/ EnqueueCas(e)
    \/ EnqueueSwing(e) \/ EnqueueDone(e)
    \/ DequeueHead(e) \/ DequeueHazard(e) \/ DequeueCheck(e) \/ DequeueTail(e)
    \/ DequeueNext(e) \/ DequeueHazardNext(e) \/ DequeueAgain(e)
    \/ DequeueHelp(e) \/ DequeueCas(e) \/ DequeueData(e) \/ DequeueUnhazard(e)
    \/ DequeueEmpty(e) \/ DequeueDone(e)
    \/ Retire(e) \/ Scan(e) \/ ScanStart(e) \/ ScanNext(e) \/ ScanSort(e)

Next == \E e \in Execs : Step(e)

Spec == Init /\ [][Next]_vars

\* The OS may stop every executor but those of FairExecs at any point.
FairSpec == Spec /\ \A e \in FairExecs : WF_vars(Step(e))

-----------------------------------------------------------------------------
(* Properties.                                                             *)

\* Enqueue and dequeue are atomic (cc/lf_thread_queue.h:232): the threads on
\* the list behind the dummy node are the FIFO; a dequeue takes effect when
\* lf_head moves, although the thread is read after it.
Fifo == INSTANCE ThreadFifo WITH
    FifoExecs <- Execs,
    FifoThreads <- Threads,
    NoFifoThread <- NoThread,
    queue <- Contents,
    held <- [e \in Execs |-> IF pc[e] = "d_data" THEN data[loc[e].next] ELSE val[e]],
    outside <- pool

ImplementsFifo == Fifo!FifoSpec

\* The CAS of an enqueue succeeds on a node that has left the queue: it was
\* dequeued and retired after e looked at lf_tail the second time, and
\* lf_thread_queue_node_retire set the NULL that e takes for the end.
LateLink(e) ==
    /\ EnqueueCas(e)
    /\ next[loc[e].tail] = NoNode
    /\ loc[e].tail \notin OnChain(head)

\* That is the only way in which the code departs from the FIFO: such an
\* enqueue loses its thread, and every other step is a step of the FIFO.  No
\* thread is ever returned twice, overtaken or lost otherwise.
ImplementsLossyFifo ==
    /\ Fifo!FifoInit
    /\ [][Fifo!FifoNext \/ \E e \in Execs : LateLink(e) /\ Fifo!Lose(e)]_Fifo!fifoVars

\* A dequeue returns NULL only if the queue was empty while it ran.
EmptyWasTrue ==
    \A e \in Execs : pc[e] \in {"d_empty", "d_none"} => sawEmpty[e]

\* A node that an executor works on after its second look at lf_head or
\* lf_tail is not handed out again: hazard pointers protect it.
ProtectedNotFree ==
    \A e \in Execs :
        /\ pc[e] \in {"e_next", "e_again", "e_help", "e_cas", "e_swing"} =>
            loc[e].tail \notin free
        /\ pc[e] \in {"d_tail", "d_next", "d_hp1", "d_again", "d_cas", "d_help"} =>
            loc[e].head \notin free
        /\ pc[e] \in {"d_cas", "d_help", "d_data"} => loc[e].next \notin free

\* Every node is free, in the queue, retired or in an executor's hands, and
\* only one of these: none leaks and none is handed out twice.
NodesAccounted ==
    LET InHand(e, n) ==
            \/ pc[e] \in {"e_tail", "e_hp", "e_check", "e_next", "e_again",
                          "e_help", "e_cas"} /\ loc[e].node = n
            \/ pc[e] \in {"d_data", "d_unhp1", "retire"} /\ loc[e].head = n
            \/ pc[e] = "s_next" /\ n \in OnChain(loc[e].curr)
            \/ pc[e] = "s_sort" /\ n \in {loc[e].curr} \cup OnChain(loc[e].next)
        Places(n) == {"free" : x \in {n} \cap free}
                     \cup {"queue" : x \in {n} \cap OnChain(head)}
                     \cup {<<"retired", e>> : e \in {f \in Execs : n \in OnChain(rlist[f])}}
                     \cup {<<"hand", e>> : e \in {f \in Execs : InHand(f, n)}}
    IN  \A n \in Nodes : Cardinality(Places(n)) = 1

\* The queue is lock-free (README.md: "synchronization is achieved entirely
\* through lock-free algorithms"): wherever other executors are stopped, as
\* long as one goes on, operations go on to complete.
LockFree ==
    \/ []<>(\A e \in FairExecs : pc[e] = "idle")
    \/ []<><<\E e \in Execs : pc[e] # "idle" /\ pc'[e] = "idle">>_vars
=============================================================================
