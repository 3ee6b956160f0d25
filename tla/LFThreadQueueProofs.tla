-------------------------- MODULE LFThreadQueueProofs --------------------------
(***************************************************************************)
(* Hazard pointers do what they are for, for any number of executors,      *)
(* enqueuers, nodes and retired nodes: no executor follows a node that has *)
(* been freed, and a dequeue that finds nothing was right.  This holds     *)
(* although an enqueue can link its node behind a retired one and lose it. *)
(***************************************************************************)
EXTENDS LFThreadQueue, TLAPS

NodeOrNull == Nodes \cup {NoNode}

\* Where an executor owns the node it is going to link ...
PrivateLabels == {"e_tail", "e_hp", "e_check", "e_next", "e_again", "e_help", "e_cas"}

\* ... where it works on the last or on the first node, which it has looked at
\* again after it set its hazard pointer ...
TailLabels == {"e_next", "e_again", "e_help", "e_cas", "e_swing"}
HeadLabels == {"d_tail", "d_next", "d_hp1", "d_again", "d_cas", "d_help"}

\* ... where it works on the successor of the first one, and where it has moved
\* lf_head and still has the node that was first.
SuccessorLabels == {"d_cas", "d_help", "d_data"}
HandLabels == {"d_data", "d_unhp1", "retire"}

SortLabels == {"s_next", "s_sort"}
OtherLabels == {"idle", "e_done", "d_head", "d_hp", "d_check", "d_empty", "d_none",
                "d_done", "scan", "s_start"}

LocType == [head : NodeOrNull, tail : NodeOrNull, next : NodeOrNull,
            node : NodeOrNull, curr : NodeOrNull]

QueueTypeOK ==
    /\ head \in Nodes /\ tail \in Nodes
    /\ next \in [Nodes -> NodeOrNull]
    /\ hp \in [Execs -> [0 .. 1 -> NodeOrNull]]
    /\ rlist \in [Execs -> NodeOrNull]
    /\ free \subseteq Nodes
    /\ pc \in [Execs -> PrivateLabels \cup TailLabels \cup HeadLabels
                        \cup HandLabels \cup SortLabels \cup OtherLabels]
    /\ loc \in [Execs -> LocType]
    /\ scan \in [Execs -> [pos : Nat, ptab : SUBSET Nodes]]
    /\ sawEmpty \in [Execs -> BOOLEAN]

-----------------------------------------------------------------------------
(* Where the nodes are.  kind[n] says what node n is used for: it is free, in *)
(* the queue, an enqueuer's that has not linked it, a dequeuer's that has      *)
(* taken it off, or retired; in the last three cases by[n] is the executor.    *)
(* These are no variables of the code; the invariant says that they exist.     *)

Kinds == {"free", "queue", "private", "hand", "retired"}

\* Nodes that are linked with others through lfn_next.
Linked(kind, n) == kind[n] \in {"queue", "retired"}

\* Following lfn_next leaves neither the queue nor an executor's retired nodes,
Closed(kind, by) ==
    \A n \in Nodes : next[n] # NoNode =>
        /\ kind[n] = "queue" => kind[next[n]] = "queue"
        /\ kind[n] = "retired" => kind[next[n]] = "retired" /\ by[next[n]] = by[n]

\* no node is the successor of two,
Injective(kind) ==
    \A m, n \in Nodes :
        Linked(kind, m) /\ Linked(kind, n) /\ m # n /\ next[m] # NoNode => next[m] # next[n]

\* and where the lists begin there is no predecessor.
Root(kind, r) == \A n \in Nodes : Linked(kind, n) /\ r # NoNode => next[n] # r

Shared(kind, by) ==
    /\ \A n \in free : kind[n] = "free"
    /\ kind[head] = "queue" /\ kind[tail] = "queue"
    /\ Closed(kind, by) /\ Injective(kind)
    /\ Root(kind, head)
    /\ \A n \in Nodes : kind[n] = "hand" => next[n] # NoNode

\* The nodes an executor has: its own one, the one it has taken off the queue,
\* the retired ones, and in a scan those it has not sorted yet.
Possesses(kind, by, e) ==
    LET l == loc[e] IN
    /\ pc[e] \in PrivateLabels =>
           /\ l.node \in Nodes /\ kind[l.node] = "private" /\ by[l.node] = e
           /\ next[l.node] = NoNode
    /\ pc[e] \in HandLabels =>
           l.head \in Nodes /\ kind[l.head] = "hand" /\ by[l.head] = e
    /\ rlist[e] # NoNode =>
           /\ kind[rlist[e]] = "retired" /\ by[rlist[e]] = e
           /\ Root(kind, rlist[e])
    /\ pc[e] \in SortLabels /\ l.curr # NoNode =>
           /\ kind[l.curr] = "retired" /\ by[l.curr] = e
           /\ Root(kind, l.curr)
           /\ l.curr # rlist[e]
    /\ pc[e] = "s_sort" =>
           /\ l.curr # NoNode
           /\ l.next # NoNode => next[l.curr] = l.next

\* The scan of executor f has read hazard pointer j of executor e.
Passed(f, e, j) ==
    \/ pc[f] = "scan" /\ scan[f].pos > 2 * e + j
    \/ pc[f] \in {"s_start"} \cup SortLabels

\* A node that is protected by hazard pointer j of executor e.
Guarded(kind, by, e, j, n) ==
    /\ n \in Nodes /\ hp[e][j] = n
    /\ kind[n] \in {"queue", "hand", "retired"}
    /\ kind[n] = "retired" /\ Passed(by[n], e, j) => n \in scan[by[n]].ptab

Protects(kind, by, e) ==
    LET l == loc[e] IN
    /\ pc[e] = "e_check" => hp[e][0] = l.tail
    /\ pc[e] = "d_check" => hp[e][0] = l.head
    /\ pc[e] = "d_again" => hp[e][1] = l.next
    /\ pc[e] \in TailLabels => Guarded(kind, by, e, 0, l.tail)
    /\ pc[e] \in HeadLabels => Guarded(kind, by, e, 0, l.head)
    /\ pc[e] \in SuccessorLabels => Guarded(kind, by, e, 1, l.next)
    /\ pc[e] \notin {"scan", "s_start"} \cup SortLabels => scan[e].pos = 0
    /\ pc[e] = "scan" => scan[e].pos < 2 * NumExecs

\* What an executor has read of a node in the queue is still so: a protected
\* node that has left the queue does not come back.
Remembers(kind, e) ==
    LET l == loc[e] IN
    /\ pc[e] \in {"e_again", "e_help"} /\ kind[l.tail] = "queue" /\ l.next # NoNode =>
           next[l.tail] = l.next
    /\ pc[e] = "e_help" => l.next # NoNode
    /\ pc[e] = "e_swing" /\ kind[l.tail] = "queue" => next[l.tail] = l.node
    /\ pc[e] = "e_swing" => l.node # NoNode
    /\ pc[e] \in HeadLabels /\ kind[l.head] = "queue" =>
           /\ l.head = head
           /\ pc[e] # "d_tail" /\ l.tail # l.head => tail # head
           /\ pc[e] \notin {"d_tail", "d_next"} /\ l.next # NoNode => next[head] = l.next
           /\ pc[e] \in {"d_hp1", "d_again"} /\ l.next = NoNode => sawEmpty[e]
    /\ pc[e] = "d_help" => l.tail = l.head
    /\ pc[e] = "d_cas" => l.tail # l.head

PlacesOK(kind, by) ==
    /\ Shared(kind, by)
    /\ \A e \in Execs : /\ Possesses(kind, by, e)
                        /\ Protects(kind, by, e)
                        /\ Remembers(kind, e)

\* The inductive invariant.
HazardInv ==
    /\ QueueTypeOK
    /\ EmptyWasTrue
    /\ \E kind \in [Nodes -> Kinds], by \in [Nodes -> Execs] : PlacesOK(kind, by)

-----------------------------------------------------------------------------
(* One executor's step, as the others see it.                              *)

ScanLabels == {"scan", "s_start"} \cup SortLabels

\* The local pointers stay nodes or NULL.
LEMMA LocalType ==
    ASSUME QueueTypeOK, NEW e \in Execs, NEW n \in NodeOrNull,
           \/ Local(e, "head", n) \/ Local(e, "tail", n) \/ Local(e, "next", n)
           \/ Local(e, "node", n) \/ Local(e, "curr", n)
           \/ \E label : Retry(e, label)
           \/ loc' = [loc EXCEPT ![e] = NoLoc]
           \/ loc' = [loc EXCEPT ![e] = [NoLoc EXCEPT !.head = loc[e].head]]
           \/ loc' = [loc EXCEPT ![e].curr = loc[e].next]
           \/ UNCHANGED loc
    PROVE  loc' \in [Execs -> LocType]
<1> loc \in [Execs -> LocType]
  BY DEF QueueTypeOK
<1> USE DEF LocType, NoLoc, NodeOrNull
<1>1. CASE Local(e, "head", n)  BY <1>1 DEF Local
<1>2. CASE Local(e, "tail", n)  BY <1>2 DEF Local
<1>3. CASE Local(e, "next", n)  BY <1>3 DEF Local
<1>4. CASE Local(e, "node", n)  BY <1>4 DEF Local
<1>5. CASE Local(e, "curr", n)  BY <1>5 DEF Local
<1>6. CASE \E label : Retry(e, label)
  <2>1. loc' = [loc EXCEPT ![e] = [NoLoc EXCEPT !.node = loc[e].node]]
    BY <1>6 DEF Retry
  <2> QED BY <2>1
<1>7. CASE loc' = [loc EXCEPT ![e] = NoLoc]  BY <1>7
<1>8. CASE loc' = [loc EXCEPT ![e] = [NoLoc EXCEPT !.head = loc[e].head]]  BY <1>8
<1>9. CASE loc' = [loc EXCEPT ![e].curr = loc[e].next]  BY <1>9
<1>10. CASE UNCHANGED loc  BY <1>10
<1> QED BY <1>1, <1>2, <1>3, <1>4, <1>5, <1>6, <1>7, <1>8, <1>9, <1>10

\* lf_thread_queue_enqueue, _dequeue, _node_retire and _scan change only the
\* caller's local variables, hazard pointers and list of retired nodes.
LEMMA Frame ==
    ASSUME QueueTypeOK, NEW e \in Execs, Step(e)
    PROVE  /\ \A f \in Execs \ {e} :
                  /\ pc'[f] = pc[f] /\ loc'[f] = loc[f] /\ hp'[f] = hp[f]
                  /\ scan'[f] = scan[f] /\ sawEmpty'[f] = sawEmpty[f]
                  /\ rlist'[f] = rlist[f]
           /\ pc'[e] \in ScanLabels =>
                  Retire(e) \/ Scan(e) \/ ScanStart(e) \/ ScanNext(e) \/ ScanSort(e)
<1> USE DEF ScanLabels, SortLabels, QueueTypeOK, LocType, Goto, Local, Hazard, Retry, Onward, queueVars, hazardVars, callVars
<1>1. CASE EnqueueStart(e)  BY <1>1 DEF EnqueueStart
<1>2. CASE EnqueueTail(e)  BY <1>2 DEF EnqueueTail
<1>3. CASE EnqueueHazard(e)  BY <1>3 DEF EnqueueHazard
<1>4. CASE EnqueueCheck(e)  BY <1>4 DEF EnqueueCheck
<1>5. CASE EnqueueNext(e)  BY <1>5 DEF EnqueueNext
<1>6. CASE EnqueueAgain(e)  BY <1>6 DEF EnqueueAgain
<1>7. CASE EnqueueHelp(e)  BY <1>7 DEF EnqueueHelp
<1>8. CASE EnqueueCas(e)  BY <1>8 DEF EnqueueCas
<1>9. CASE EnqueueSwing(e)  BY <1>9 DEF EnqueueSwing
<1>10. CASE EnqueueDone(e)  BY <1>10 DEF EnqueueDone
<1>11. CASE DequeueHead(e)  BY <1>11 DEF DequeueHead
<1>12. CASE DequeueHazard(e)  BY <1>12 DEF DequeueHazard
<1>13. CASE DequeueCheck(e)  BY <1>13 DEF DequeueCheck
<1>14. CASE DequeueTail(e)  BY <1>14 DEF DequeueTail
<1>15. CASE DequeueNext(e)  BY <1>15 DEF DequeueNext
<1>16. CASE DequeueHazardNext(e)  BY <1>16 DEF DequeueHazardNext
<1>17. CASE DequeueAgain(e)  BY <1>17 DEF DequeueAgain
<1>18. CASE DequeueHelp(e)  BY <1>18 DEF DequeueHelp
<1>19. CASE DequeueCas(e)  BY <1>19 DEF DequeueCas
<1>20. CASE DequeueData(e)  BY <1>20 DEF DequeueData
<1>21. CASE DequeueUnhazard(e)  BY <1>21 DEF DequeueUnhazard
<1>22. CASE DequeueEmpty(e)  BY <1>22 DEF DequeueEmpty
<1>23. CASE DequeueDone(e)  BY <1>23 DEF DequeueDone
<1>24. CASE Retire(e)  BY <1>24 DEF Retire
<1>25. CASE Scan(e)  BY <1>25 DEF Scan
<1>26. CASE ScanStart(e)  BY <1>26 DEF ScanStart
<1>27. CASE ScanNext(e)  BY <1>27 DEF ScanNext
<1>28. CASE ScanSort(e)  BY <1>28 DEF ScanSort
<1>29. QED
  BY <1>1, <1>2, <1>3, <1>4, <1>5, <1>6, <1>7, <1>8, <1>9, <1>10, <1>11, <1>12,
     <1>13, <1>14, <1>15, <1>16, <1>17, <1>18, <1>19, <1>20, <1>21, <1>22, <1>23,
     <1>24, <1>25, <1>26, <1>27, <1>28 DEF Step

\* The position of hazard pointer j of executor f in the scan.
LEMMA Position ==
    ASSUME NEW f \in Nat, NEW j \in 0 .. 1
    PROVE  (2 * f + j) \div 2 = f /\ (2 * f + j) % 2 = j
<1>1. CASE j = 0
  BY <1>1
<1>2. CASE j = 1
  BY <1>2
<1> QED BY <1>1, <1>2

\* A scan that has passed a hazard pointer has it in its table, or has had it
\* before: lf_thread_queue_scan_build_ptab reads one after the other.
LEMMA ScanPasses ==
    ASSUME QueueTypeOK, NEW e \in Execs, Step(e),
           pc[e] \notin ScanLabels => scan[e].pos = 0,
           NEW f \in Execs, NEW j \in 0 .. 1, Passed(e, f, j)'
    PROVE  \/ Passed(e, f, j) /\ scan[e].ptab \subseteq scan'[e].ptab
           \/ hp[f][j] \in scan'[e].ptab \cup {NoNode}
<1> USE QueueAssumption DEF QueueTypeOK, Goto, Local, ScanLabels, SortLabels, Passed
<1>1. CASE Retire(e)
  <2>1. pc[e] = "retire" /\ scan' = scan /\ pc'[e] \in {"scan", "d_done"}
    BY <1>1 DEF Retire
  <2> QED BY <2>1 DEF Execs
<1>2. CASE Scan(e)
  <2> DEFINE p == scan[e].pos
             seen == {hp[p \div 2][p % 2]} \ {NoNode}
  <2>1. /\ pc[e] = "scan" /\ p \in Nat
        /\ scan'[e].pos = p + 1 /\ scan'[e].ptab = scan[e].ptab \cup seen
        /\ pc'[e] = IF p + 1 < 2 * NumExecs THEN "scan" ELSE "s_start"
    BY <1>2 DEF Scan
  <2>2. p >= 2 * f + j
    BY <2>1 DEF Execs
  <2>3. CASE p > 2 * f + j
    BY <2>1, <2>3
  <2>4. CASE p = 2 * f + j
    <3> f \in Nat
      BY DEF Execs
    <3>1. (2 * f + j) \div 2 = f /\ (2 * f + j) % 2 = j
      BY Position
    <3>2. seen = {hp[f][j]} \ {NoNode}
      BY <2>4, <3>1
    <3>3. hp[f][j] \in {NoNode} \cup seen
      BY <3>2
    <3>4. scan'[e].ptab = scan[e].ptab \cup seen
      BY <2>1
    <3> HIDE DEF seen, p
    <3> QED BY <3>3, <3>4
  <2>5. p > 2 * f + j \/ p = 2 * f + j
    <3>1. f \in Nat /\ j \in Nat
      BY DEF Execs
    <3>2. \A q \in Nat : q >= 2 * f + j => q > 2 * f + j \/ q = 2 * f + j
      BY <3>1
    <3> QED BY <2>1, <2>2, <3>2
  <2> QED BY <2>3, <2>4, <2>5
<1>3. CASE ScanStart(e)
  BY <1>3 DEF ScanStart
<1>4. CASE ScanNext(e)
  BY <1>4 DEF ScanNext
<1>5. CASE ScanSort(e)
  BY <1>5 DEF ScanSort
<1> QED BY <1>1, <1>2, <1>3, <1>4, <1>5, Frame

\* What the step of executor e may do to the nodes, from kind and by to k2 and
\* b2, as far as the others depend on it.
Change(kind, by, k2, b2, e) ==
    \* Nothing comes back into the queue but the executor's own node.
    /\ \A n \in Nodes : k2[n] = "queue" => kind[n] \in {"queue", "private"}
    \* The nodes the others have remain theirs,
    /\ \A n \in Nodes : kind[n] \in {"private", "hand", "retired"} /\ by[n] # e =>
           k2[n] = kind[n] /\ b2[n] = by[n]
    \* and a successor that is set remains so.
    /\ \A n \in Nodes :
           /\ kind[n] = "queue" /\ next[n] # NoNode => next'[n] = next[n]
           /\ kind[n] \in {"hand", "retired"} /\ by[n] # e /\ next[n] # NoNode =>
                  next'[n] = next[n]
           /\ kind[n] = "private" /\ by[n] # e => next'[n] = next[n]
    \* New links lead to nodes that are not retired by others.
    /\ \A n \in Nodes : Linked(k2, n) =>
           \/ Linked(kind, n) /\ next'[n] = next[n]
           \/ next'[n] = NoNode
           \/ kind[next'[n]] # "retired" \/ by[next'[n]] = e
    \* Nodes in use go from the queue to a dequeuer, from it to its retired
    \* nodes, and are free after a scan that has not seen them.
    /\ \A n \in Nodes : kind[n] \in {"queue", "hand", "retired"} =>
           \/ k2[n] = kind[n] /\ b2[n] = by[n]
           \/ k2[n] \in {"queue", "hand"}
           \/ k2[n] = "retired" /\ b2[n] = e /\ kind[n] = "hand" /\ pc[e] = "retire"
           \/ /\ k2[n] = "free" /\ kind[n] = "retired" /\ by[n] = e
              /\ pc[e] \in SortLabels /\ n \notin scan[e].ptab
    /\ head' = head \/ (head' \in Nodes /\ k2[head] # "queue")
    /\ tail' = tail \/ tail' # head

\* A node that is protected by another executor's hazard pointer stays so.
LEMMA GuardOther ==
    ASSUME QueueTypeOK, NEW e \in Execs, Step(e),
           pc[e] \notin ScanLabels => scan[e].pos = 0,
           NEW f \in Execs, f # e, NEW j \in 0 .. 1, NEW n,
           NEW kind, NEW by \in [Nodes -> Execs], NEW k2, NEW b2,
           Guarded(kind, by, f, j, n), Change(kind, by, k2, b2, e)
    PROVE  Guarded(k2, b2, f, j, n)'
<1>1. /\ n \in Nodes /\ hp'[f][j] = n /\ hp[f][j] = n /\ n # NoNode
      /\ kind[n] \in {"queue", "hand", "retired"}
      /\ kind[n] = "retired" /\ Passed(by[n], f, j) => n \in scan[by[n]].ptab
  BY Frame, QueueAssumption DEF Guarded
<1>2. \/ k2[n] = kind[n] /\ b2[n] = by[n]
      \/ k2[n] \in {"queue", "hand"}
      \/ k2[n] = "retired" /\ b2[n] = e /\ kind[n] = "hand" /\ pc[e] = "retire"
      \/ /\ k2[n] = "free" /\ kind[n] = "retired" /\ by[n] = e
         /\ pc[e] \in SortLabels /\ n \notin scan[e].ptab
  BY <1>1 DEF Change
<1>3. k2[n] # "free"
  BY <1>1, <1>2 DEF Passed
<1>4. ASSUME k2[n] = "retired", Passed(b2[n], f, j)'
      PROVE  n \in scan'[b2[n]].ptab
  <2>1. CASE kind[n] = "retired" /\ by[n] = b2[n] /\ b2[n] # e
    <3>1. pc'[b2[n]] = pc[b2[n]] /\ scan'[b2[n]] = scan[b2[n]]
      BY <1>1, <2>1, Frame
    <3> QED BY <1>1, <1>4, <2>1, <3>1 DEF Passed
  <2>2. CASE kind[n] = "retired" /\ by[n] = b2[n] /\ b2[n] = e
    <3>1. \/ Passed(e, f, j) /\ scan[e].ptab \subseteq scan'[e].ptab
          \/ hp[f][j] \in scan'[e].ptab \cup {NoNode}
      BY <1>4, <2>2, ScanPasses
    <3> QED BY <1>1, <2>2, <3>1
  <2>3. CASE b2[n] = e /\ kind[n] = "hand" /\ pc[e] = "retire"
    <3>1. \/ Passed(e, f, j) /\ scan[e].ptab \subseteq scan'[e].ptab
          \/ hp[f][j] \in scan'[e].ptab \cup {NoNode}
      BY <1>4, <2>3, ScanPasses
    <3>2. ~Passed(e, f, j)
      BY <2>3 DEF Passed, SortLabels
    <3> QED BY <1>1, <2>3, <3>1, <3>2
  <2> QED BY <1>1, <1>2, <1>4, <2>1, <2>2, <2>3
<1> QED BY <1>1, <1>2, <1>3, <1>4 DEF Guarded

\* The other executors find their nodes as they were.
LEMMA OthersKept ==
    ASSUME QueueTypeOK, NEW e \in Execs, Step(e),
           NEW kind, NEW by \in [Nodes -> Execs], NEW k2, NEW b2,
           PlacesOK(kind, by), Change(kind, by, k2, b2, e),
           NEW f \in Execs, f # e
    PROVE  /\ Possesses(k2, b2, f)' /\ Protects(k2, b2, f)' /\ Remembers(k2, f)'
<1>1. /\ pc'[f] = pc[f] /\ loc'[f] = loc[f] /\ hp'[f] = hp[f]
      /\ scan'[f] = scan[f] /\ sawEmpty'[f] = sawEmpty[f] /\ rlist'[f] = rlist[f]
  BY Frame
<1>2. Possesses(kind, by, f) /\ Protects(kind, by, f) /\ Remembers(kind, f) /\ Shared(kind, by)
      /\ Protects(kind, by, e)
  BY DEF PlacesOK
<1>3. ASSUME NEW r \in Nodes, kind[r] = "retired", by[r] = f, Root(kind, r)
      PROVE  k2[r] = "retired" /\ b2[r] = f /\ Root(k2, r)'
  BY <1>3, QueueAssumption DEF Root, Change
<1>4. Possesses(k2, b2, f)'
  <2>1. rlist[f] \in NodeOrNull /\ loc[f].curr \in NodeOrNull
    BY DEF QueueTypeOK, LocType
  <2>2. rlist[f] # NoNode =>
           /\ k2[rlist[f]] = "retired" /\ b2[rlist[f]] = f /\ Root(k2, rlist[f])'
    BY <1>1, <1>2, <1>3, <2>1 DEF Possesses, NodeOrNull
  <2>3. pc[f] \in SortLabels /\ loc[f].curr # NoNode =>
           /\ k2[loc[f].curr] = "retired" /\ b2[loc[f].curr] = f /\ Root(k2, loc[f].curr)'
           /\ loc[f].curr # rlist[f]
    BY <1>1, <1>2, <1>3, <2>1 DEF Possesses, NodeOrNull
  <2>4. pc[f] = "s_sort" =>
           /\ loc[f].curr # NoNode
           /\ loc[f].next # NoNode => next'[loc[f].curr] = loc[f].next
    BY <1>2, <2>1 DEF Possesses, Change, NodeOrNull, SortLabels
  <2>5. pc[f] \in PrivateLabels =>
           /\ loc[f].node \in Nodes /\ k2[loc[f].node] = "private" /\ b2[loc[f].node] = f
           /\ next'[loc[f].node] = NoNode
    BY <1>2 DEF Possesses, Change
  <2>6. pc[f] \in HandLabels =>
           loc[f].head \in Nodes /\ k2[loc[f].head] = "hand" /\ b2[loc[f].head] = f
    BY <1>2 DEF Possesses, Change
  <2> QED BY <1>1, <2>2, <2>3, <2>4, <2>5, <2>6 DEF Possesses, Root, Linked
<1>5. Protects(k2, b2, f)'
  <2>1. pc[e] \notin ScanLabels => scan[e].pos = 0
    BY <1>2 DEF Protects, ScanLabels
  <2>2. \A j \in 0 .. 1 : \A n : Guarded(kind, by, f, j, n) => Guarded(k2, b2, f, j, n)'
    BY <2>1, GuardOther
  <2> QED BY <1>1, <1>2, <2>2 DEF Protects
<1>6. Remembers(k2, f)'
  <2>1. ASSUME NEW n \in Nodes, Guarded(kind, by, f, 0, n), k2[n] = "queue"
        PROVE  kind[n] = "queue" /\ (next[n] # NoNode => next'[n] = next[n])
    BY <2>1 DEF Guarded, Change
  <2>2. pc[f] \in HeadLabels /\ k2[loc[f].head] = "queue" =>
           /\ loc[f].head = head /\ kind[head] = "queue" /\ head' = head
           /\ next[head] # NoNode => next'[head] = next[head]
           /\ tail' = tail \/ tail' # head
    BY <1>2, <2>1 DEF Protects, Remembers, Change, Guarded
  <2>3. pc[f] \in HeadLabels /\ k2[loc[f].head] = "queue" =>
           /\ loc[f].head = head'
           /\ pc[f] # "d_tail" /\ loc[f].tail # loc[f].head => tail' # head'
           /\ pc[f] \notin {"d_tail", "d_next"} /\ loc[f].next # NoNode =>
                  next'[head'] = loc[f].next
           /\ pc[f] \in {"d_hp1", "d_again"} /\ loc[f].next = NoNode => sawEmpty[f]
    BY <1>2, <2>2 DEF Remembers
  <2>4. pc[f] \in TailLabels /\ k2[loc[f].tail] = "queue" =>
           /\ kind[loc[f].tail] = "queue"
           /\ next[loc[f].tail] # NoNode => next'[loc[f].tail] = next[loc[f].tail]
    BY <1>2, <2>1 DEF Protects, Guarded
  <2> QED BY <1>1, <1>2, <2>3, <2>4 DEF Remembers, TailLabels
<1> QED BY <1>4, <1>5, <1>6

-----------------------------------------------------------------------------
(* Types.                                                                  *)

\* The nodes that a step dereferences or stores are nodes.
LEMMA PointersSet ==
    ASSUME QueueTypeOK, NEW e \in Execs, NEW kind, NEW by, PlacesOK(kind, by)
    PROVE  /\ pc[e] \in TailLabels => loc[e].tail \in Nodes
           /\ pc[e] \in HeadLabels \cup HandLabels => loc[e].head \in Nodes
           /\ pc[e] \in SuccessorLabels => loc[e].next \in Nodes
           /\ pc[e] \in PrivateLabels \cup {"e_swing"} => loc[e].node \in Nodes
           /\ pc[e] = "e_help" => loc[e].next \in Nodes
           /\ pc[e] = "s_sort" => loc[e].curr \in Nodes
BY DEF PlacesOK, Possesses, Protects, Remembers, Guarded, QueueTypeOK, LocType, NodeOrNull

\* The local pointers stay nodes or NULL in every step.
LEMMA LocStep ==
    ASSUME QueueTypeOK, NEW e \in Execs, Step(e), NEW kind, NEW by, PlacesOK(kind, by)
    PROVE  loc' \in [Execs -> LocType]
<1> USE DEF Onward, QueueTypeOK, NodeOrNull
<1>1. CASE EnqueueStart(e)  BY <1>1, LocalType DEF EnqueueStart
<1>2. CASE EnqueueTail(e)  BY <1>2, LocalType DEF EnqueueTail
<1>3. CASE EnqueueHazard(e)  BY <1>3, LocalType DEF EnqueueHazard
<1>4. CASE EnqueueCheck(e)  BY <1>4, LocalType DEF EnqueueCheck
<1>5. CASE EnqueueNext(e)
  BY <1>5, LocalType, PointersSet DEF EnqueueNext, TailLabels, HeadLabels, LocType
<1>6. CASE EnqueueAgain(e)  BY <1>6, LocalType DEF EnqueueAgain
<1>7. CASE EnqueueHelp(e)  BY <1>7, LocalType DEF EnqueueHelp
<1>8. CASE EnqueueCas(e)  BY <1>8, LocalType DEF EnqueueCas
<1>9. CASE EnqueueSwing(e)  BY <1>9, LocalType DEF EnqueueSwing
<1>10. CASE EnqueueDone(e)  BY <1>10, LocalType DEF EnqueueDone
<1>11. CASE DequeueHead(e)  BY <1>11, LocalType DEF DequeueHead
<1>12. CASE DequeueHazard(e)  BY <1>12, LocalType DEF DequeueHazard
<1>13. CASE DequeueCheck(e)  BY <1>13, LocalType DEF DequeueCheck
<1>14. CASE DequeueTail(e)  BY <1>14, LocalType DEF DequeueTail
<1>15. CASE DequeueNext(e)
  BY <1>15, LocalType, PointersSet DEF DequeueNext, TailLabels, HeadLabels, LocType
<1>16. CASE DequeueHazardNext(e)  BY <1>16, LocalType DEF DequeueHazardNext
<1>17. CASE DequeueAgain(e)  BY <1>17, LocalType DEF DequeueAgain
<1>18. CASE DequeueHelp(e)  BY <1>18, LocalType DEF DequeueHelp
<1>19. CASE DequeueCas(e)  BY <1>19, LocalType DEF DequeueCas
<1>20. CASE DequeueData(e)  BY <1>20, LocalType DEF DequeueData
<1>21. CASE DequeueUnhazard(e)  BY <1>21, LocalType DEF DequeueUnhazard
<1>22. CASE DequeueEmpty(e)  BY <1>22, LocalType DEF DequeueEmpty
<1>23. CASE DequeueDone(e)  BY <1>23, LocalType DEF DequeueDone
<1>24. CASE Retire(e)  BY <1>24, LocalType DEF Retire
<1>25. CASE Scan(e)  BY <1>25, LocalType DEF Scan
<1>26. CASE ScanStart(e)  BY <1>26, LocalType DEF ScanStart
<1>27. CASE ScanNext(e)
  BY <1>27, LocalType, PointersSet DEF ScanNext, TailLabels, HeadLabels, LocType
<1>28. CASE ScanSort(e)  BY <1>28, LocalType DEF ScanSort
<1>29. QED
  BY <1>1, <1>2, <1>3, <1>4, <1>5, <1>6, <1>7, <1>8, <1>9, <1>10, <1>11, <1>12,
     <1>13, <1>14, <1>15, <1>16, <1>17, <1>18, <1>19, <1>20, <1>21, <1>22, <1>23,
     <1>24, <1>25, <1>26, <1>27, <1>28 DEF Step

\* Every step keeps the types.
LEMMA TypeStep ==
    ASSUME QueueTypeOK, NEW e \in Execs, Step(e), NEW kind, NEW by, PlacesOK(kind, by)
    PROVE  QueueTypeOK'
<1>0. loc' \in [Execs -> LocType]
  BY LocStep
<1>a. /\ loc[e].tail \in NodeOrNull /\ loc[e].head \in NodeOrNull
      /\ loc[e].next \in NodeOrNull /\ loc[e].curr \in NodeOrNull
  BY DEF QueueTypeOK, LocType
<1>b. scan[e].pos \in Nat /\ scan[e].ptab \subseteq Nodes
  BY DEF QueueTypeOK
<1>c. pc[e] = "scan" => scan[e].pos < 2 * NumExecs
  BY DEF PlacesOK, Protects
<1> USE <1>a, <1>b, <1>0, PointersSet DEF QueueTypeOK, Goto, Retry, Onward, Hazard, queueVars, hazardVars,
        callVars, NodeOrNull, NoScan, PrivateLabels, TailLabels, HeadLabels, SuccessorLabels,
        HandLabels, SortLabels, OtherLabels
<1>1. CASE EnqueueStart(e)  BY <1>1 DEF EnqueueStart
<1>2. CASE EnqueueTail(e)  BY <1>2 DEF EnqueueTail
<1>3. CASE EnqueueHazard(e)  BY <1>3 DEF EnqueueHazard
<1>4. CASE EnqueueCheck(e)  BY <1>4 DEF EnqueueCheck
<1>5. CASE EnqueueNext(e)  BY <1>5 DEF EnqueueNext
<1>6. CASE EnqueueAgain(e)  BY <1>6 DEF EnqueueAgain
<1>7. CASE EnqueueHelp(e)  BY <1>7 DEF EnqueueHelp
<1>8. CASE EnqueueCas(e)  BY <1>8 DEF EnqueueCas
<1>9. CASE EnqueueSwing(e)  BY <1>9 DEF EnqueueSwing
<1>10. CASE EnqueueDone(e)  BY <1>10 DEF EnqueueDone
<1>11. CASE DequeueHead(e)  BY <1>11 DEF DequeueHead
<1>12. CASE DequeueHazard(e)  BY <1>12 DEF DequeueHazard
<1>13. CASE DequeueCheck(e)  BY <1>13 DEF DequeueCheck
<1>14. CASE DequeueTail(e)  BY <1>14 DEF DequeueTail
<1>15. CASE DequeueNext(e)  BY <1>15 DEF DequeueNext
<1>16. CASE DequeueHazardNext(e)  BY <1>16 DEF DequeueHazardNext
<1>17. CASE DequeueAgain(e)  BY <1>17 DEF DequeueAgain
<1>18. CASE DequeueHelp(e)  BY <1>18 DEF DequeueHelp
<1>19. CASE DequeueCas(e)  BY <1>19 DEF DequeueCas
<1>20. CASE DequeueData(e)  BY <1>20 DEF DequeueData
<1>21. CASE DequeueUnhazard(e)  BY <1>21 DEF DequeueUnhazard
<1>22. CASE DequeueEmpty(e)  BY <1>22 DEF DequeueEmpty
<1>23. CASE DequeueDone(e)  BY <1>23 DEF DequeueDone
<1>24. CASE Retire(e)  BY <1>24 DEF Retire
<1>25. CASE Scan(e)
  <2> DEFINE p == scan[e].pos
             seen == {hp[p \div 2][p % 2]} \ {NoNode}
  <2>1. p \div 2 \in Execs /\ p % 2 \in 0 .. 1
    BY <1>25, <1>c, QueueAssumption DEF Scan, Execs
  <2>2. seen \subseteq Nodes
    BY <2>1
  <2>3. /\ scan' = [scan EXCEPT ![e] = [pos |-> p + 1, ptab |-> @.ptab \cup seen]]
        /\ pc' = [pc EXCEPT ![e] = IF p + 1 < 2 * NumExecs THEN "scan" ELSE "s_start"]
        /\ UNCHANGED <<head, tail, next, hp, rlist, free, sawEmpty>>
    BY <1>25 DEF Scan
  <2> HIDE DEF p, seen
  <2>4. p + 1 \in Nat
    BY DEF p
  <2> QED BY <2>2, <2>3, <2>4
<1>26. CASE ScanStart(e)  BY <1>26 DEF ScanStart
<1>27. CASE ScanNext(e)
  <2>1. scan' \in [Execs -> [pos : Nat, ptab : SUBSET Nodes]]
    BY <1>27 DEF ScanNext
  <2>2. pc' = [pc EXCEPT ![e] = "d_done"] \/ pc' = [pc EXCEPT ![e] = "s_sort"]
    BY <1>27 DEF ScanNext
  <2>3. UNCHANGED <<head, tail, next, hp, rlist, free, sawEmpty>>
    BY <1>27 DEF ScanNext
  <2> QED BY <2>1, <2>2, <2>3
<1>28. CASE ScanSort(e)
  <2>1. /\ pc' = [pc EXCEPT ![e] = "s_next"] /\ UNCHANGED <<head, tail, hp, scan, sawEmpty>>
        /\ free' \in {free, free \cup {loc[e].curr}}
        /\ rlist' = rlist \/ rlist' = [rlist EXCEPT ![e] = loc[e].curr]
        /\ \/ next' = [next EXCEPT ![loc[e].curr] = rlist[e]]
           \/ next' = [next EXCEPT ![loc[e].curr] = NoNode]
    BY <1>28 DEF ScanSort
  <2>2. loc[e].curr \in Nodes
    BY <1>28 DEF ScanSort
  <2>3. next' \in [Nodes -> NodeOrNull] /\ free' \subseteq Nodes
    BY <2>1, <2>2
  <2>4. rlist' \in [Execs -> NodeOrNull]
    BY <2>1, <2>2
  <2>5. pc' \in [Execs -> PrivateLabels \cup TailLabels \cup HeadLabels
                        \cup HandLabels \cup SortLabels \cup OtherLabels]
    BY <2>1
  <2> QED BY <2>1, <2>3, <2>4, <2>5
<1>29. QED
  BY <1>1, <1>2, <1>3, <1>4, <1>5, <1>6, <1>7, <1>8, <1>9, <1>10, <1>11, <1>12,
     <1>13, <1>14, <1>15, <1>16, <1>17, <1>18, <1>19, <1>20, <1>21, <1>22, <1>23,
     <1>24, <1>25, <1>26, <1>27, <1>28 DEF Step

-----------------------------------------------------------------------------
(* Steps that leave the queue as it is.                                    *)

Own(kind, by, e) == Possesses(kind, by, e) /\ Protects(kind, by, e) /\ Remembers(kind, e)

\* A node that the executor itself protects stays protected.
LEMMA GuardOwn ==
    ASSUME QueueTypeOK, NEW e \in Execs, Step(e),
           NEW j \in 0 .. 1, NEW n,
           NEW kind, NEW by \in [Nodes -> Execs], NEW k2, NEW b2,
           Guarded(kind, by, e, j, n), hp'[e][j] = hp[e][j], pc'[e] \notin ScanLabels,
           k2[n] \in {"queue", "hand"} \/ (k2[n] = kind[n] /\ b2[n] = by[n])
    PROVE  Guarded(k2, b2, e, j, n)'
<1>1. CASE by[n] = e
  BY <1>1 DEF Guarded, Passed, ScanLabels
<1>2. CASE by[n] # e
  <2>1. by[n] \in Execs
    BY DEF Guarded
  <2>2. pc'[by[n]] = pc[by[n]] /\ scan'[by[n]] = scan[by[n]]
    BY <1>2, <2>1, Frame
  <2> QED BY <2>2 DEF Guarded, Passed
<1> QED BY <1>1, <1>2

\* A step that changes no link, no end of a list and no set of nodes.
LEMMA QuietKept ==
    ASSUME QueueTypeOK, NEW e \in Execs, Step(e),
           NEW kind, NEW by \in [Nodes -> Execs], PlacesOK(kind, by),
           UNCHANGED <<head, tail, next, free>>,
           Own(kind, by, e)'
    PROVE  PlacesOK(kind, by)'
<1>1. Change(kind, by, kind, by, e)
  BY DEF Change
<1>2. Shared(kind, by)'
  BY DEF PlacesOK, Shared, Closed, Injective, Root, Linked
<1> QED BY <1>1, <1>2, OthersKept DEF PlacesOK, Own

\* The enqueuer reads, sets its hazard pointer and looks again.
LEMMA EnqueueLooks ==
    ASSUME QueueTypeOK, NEW e \in Execs, Step(e),
           NEW kind \in [Nodes -> Kinds], NEW by \in [Nodes -> Execs], PlacesOK(kind, by),
           \/ EnqueueTail(e) \/ EnqueueHazard(e) \/ EnqueueCheck(e) \/ EnqueueNext(e)
           \/ EnqueueAgain(e) \/ EnqueueDone(e)
    PROVE  PlacesOK(kind, by)'
<1> USE QueueAssumption DEF PrivateLabels, TailLabels, HeadLabels, SuccessorLabels, HandLabels,
    SortLabels, OtherLabels, ScanLabels, Goto, Local, Hazard, Retry, Onward, queueVars,
    hazardVars, callVars, NoLoc, LocType, NodeOrNull
<1>0. /\ UNCHANGED <<head, tail, next, free, rlist>>
      /\ Own(kind, by, e) /\ Shared(kind, by)
  BY DEF EnqueueTail, EnqueueHazard, EnqueueCheck, EnqueueNext, EnqueueAgain, EnqueueDone,
         PlacesOK, Own
<1>1. CASE EnqueueTail(e)
  <2>2. Own(kind, by, e)'
    BY <1>1, <1>0 DEF EnqueueTail, QueueTypeOK, Own, Possesses, Protects, Remembers, Root
  <2> QED BY <1>0, <2>2, QuietKept
<1>2. CASE EnqueueHazard(e)
  <2>2. Own(kind, by, e)'
    BY <1>2, <1>0 DEF EnqueueHazard, QueueTypeOK, Own, Possesses, Protects, Remembers, Root
  <2> QED BY <1>0, <2>2, QuietKept
<1>3. CASE EnqueueCheck(e)
  <2>2. pc'[e] \in TailLabels => Guarded(kind, by, e, 0, loc[e].tail)'
    BY <1>3, <1>0 DEF EnqueueCheck, QueueTypeOK, Own, Protects, Guarded, Shared
  <2>3. Own(kind, by, e)'
    BY <1>3, <1>0, <2>2 DEF EnqueueCheck, QueueTypeOK, Own, Possesses, Protects, Remembers, Root
  <2> QED BY <1>0, <2>3, QuietKept
<1>4. CASE EnqueueNext(e)
  <2>0. Guarded(kind, by, e, 0, loc[e].tail)
    BY <1>4, <1>0 DEF EnqueueNext, Own, Protects
  <2>1. loc'[e].tail = loc[e].tail /\ hp' = hp /\ pc'[e] \notin ScanLabels
    BY <1>4 DEF EnqueueNext, QueueTypeOK
  <2>2. Guarded(kind, by, e, 0, loc[e].tail)'
    BY <2>0, <2>1, GuardOwn
  <2>3. Own(kind, by, e)'
    BY <1>4, <1>0, <2>2 DEF EnqueueNext, QueueTypeOK, Own, Possesses, Protects, Remembers, Root
  <2> QED BY <1>0, <2>3, QuietKept
<1>5. CASE EnqueueAgain(e)
  <2>0. Guarded(kind, by, e, 0, loc[e].tail)
    BY <1>5, <1>0 DEF EnqueueAgain, Own, Protects
  <2>1. /\ pc'[e] \in TailLabels => loc'[e].tail = loc[e].tail
        /\ hp' = hp /\ pc'[e] \notin ScanLabels
    BY <1>5 DEF EnqueueAgain, QueueTypeOK
  <2>2. pc'[e] \in TailLabels => Guarded(kind, by, e, 0, loc[e].tail)'
    BY <2>0, <2>1, GuardOwn
  <2>3. Own(kind, by, e)'
    BY <1>5, <1>0, <2>2 DEF EnqueueAgain, QueueTypeOK, Own, Possesses, Protects, Remembers, Root
  <2> QED BY <1>0, <2>3, QuietKept
<1>6. CASE EnqueueDone(e)
  <2>2. Own(kind, by, e)'
    BY <1>6, <1>0 DEF EnqueueDone, QueueTypeOK, Own, Possesses, Protects, Remembers, Root
  <2> QED BY <1>0, <2>2, QuietKept
<1> QED BY <1>1, <1>2, <1>3, <1>4, <1>5, <1>6

\* The dequeuer reads, sets its hazard pointers, looks again and takes them back.
LEMMA DequeueLooks ==
    ASSUME QueueTypeOK, NEW e \in Execs, Step(e),
           NEW kind \in [Nodes -> Kinds], NEW by \in [Nodes -> Execs], PlacesOK(kind, by),
           \/ DequeueHead(e) \/ DequeueHazard(e) \/ DequeueCheck(e) \/ DequeueTail(e)
           \/ DequeueNext(e) \/ DequeueHazardNext(e) \/ DequeueAgain(e) \/ DequeueData(e)
           \/ DequeueUnhazard(e) \/ DequeueEmpty(e) \/ DequeueDone(e)
    PROVE  PlacesOK(kind, by)'
<1> USE QueueAssumption DEF PrivateLabels, TailLabels, HeadLabels, SuccessorLabels, HandLabels,
    SortLabels, OtherLabels, ScanLabels, Goto, Local, Hazard, Retry, Onward, queueVars,
    hazardVars, callVars, NoLoc, LocType, NodeOrNull
<1>0. /\ UNCHANGED <<head, tail, next, free, rlist>>
      /\ Own(kind, by, e) /\ Shared(kind, by)
  BY DEF DequeueHead, DequeueHazard, DequeueCheck, DequeueTail, DequeueNext,
         DequeueHazardNext, DequeueAgain, DequeueData, DequeueUnhazard, DequeueEmpty,
         DequeueDone, PlacesOK, Own
<1>1. CASE DequeueHead(e)
  <2>1. Own(kind, by, e)'
    BY <1>1, <1>0 DEF DequeueHead, QueueTypeOK, Own, Possesses, Protects, Remembers, Root
  <2> QED BY <1>0, <2>1, QuietKept
<1>2. CASE DequeueHazard(e)
  <2>1. Own(kind, by, e)'
    BY <1>2, <1>0 DEF DequeueHazard, QueueTypeOK, Own, Possesses, Protects, Remembers, Root
  <2> QED BY <1>0, <2>1, QuietKept
<1>3. CASE DequeueCheck(e)
  <2>1. pc'[e] \in HeadLabels => Guarded(kind, by, e, 0, loc[e].head)'
    BY <1>3, <1>0 DEF DequeueCheck, QueueTypeOK, Own, Protects, Guarded, Shared
  <2>2. Own(kind, by, e)'
    BY <1>3, <1>0, <2>1 DEF DequeueCheck, QueueTypeOK, Own, Possesses, Protects, Remembers, Root
  <2> QED BY <1>0, <2>2, QuietKept
<1>4. CASE DequeueTail(e)
  <2>1. Guarded(kind, by, e, 0, loc[e].head)
    BY <1>4, <1>0 DEF DequeueTail, Own, Protects
  <2>2. loc'[e].head = loc[e].head /\ hp' = hp /\ pc'[e] \notin ScanLabels
    BY <1>4 DEF DequeueTail, QueueTypeOK
  <2>3. Guarded(kind, by, e, 0, loc[e].head)'
    BY <2>1, <2>2, GuardOwn
  <2>4. Own(kind, by, e)'
    BY <1>4, <1>0, <2>1, <2>3 DEF DequeueTail, QueueTypeOK, Own, Possesses, Protects, Remembers,
                                Root, Guarded, Shared
  <2> QED BY <1>0, <2>4, QuietKept
<1>5. CASE DequeueNext(e)
  <2>1. Guarded(kind, by, e, 0, loc[e].head)
    BY <1>5, <1>0 DEF DequeueNext, Own, Protects
  <2>2. loc'[e].head = loc[e].head /\ hp' = hp /\ pc'[e] \notin ScanLabels
    BY <1>5 DEF DequeueNext, QueueTypeOK
  <2>3. Guarded(kind, by, e, 0, loc[e].head)'
    BY <2>1, <2>2, GuardOwn
  <2>4. Possesses(kind, by, e)' /\ Protects(kind, by, e)'
    BY <1>5, <1>0, <2>3 DEF DequeueNext, QueueTypeOK, Own, Possesses, Protects, Root
  <2>5. /\ pc[e] = "d_next" /\ pc'[e] = "d_hp1" /\ loc'[e].next = next[loc[e].head]
        /\ loc'[e].head = loc[e].head /\ loc'[e].tail = loc[e].tail
        /\ next[head] = NoNode => sawEmpty'[e]
    <3>1. sawEmpty' = [sawEmpty EXCEPT ![e] = next[head] = NoNode]
      BY <1>5 DEF DequeueNext
    <3>2. sawEmpty'[e] = (next[head] = NoNode)
      BY <3>1 DEF QueueTypeOK
    <3>3. next[head] = NoNode => sawEmpty'[e]
      BY <3>2
    <3>4. /\ pc[e] = "d_next" /\ pc'[e] = "d_hp1" /\ loc'[e].next = next[loc[e].head]
          /\ loc'[e].head = loc[e].head /\ loc'[e].tail = loc[e].tail
      BY <1>5 DEF DequeueNext, QueueTypeOK
    <3> QED BY <3>3, <3>4
  <2>6. Remembers(kind, e)'
    BY <1>0, <2>5 DEF Own, Remembers
  <2> QED BY <1>0, <2>4, <2>6, QuietKept DEF Own
<1>6. CASE DequeueHazardNext(e)
  <2>1. Guarded(kind, by, e, 0, loc[e].head)
    BY <1>6, <1>0 DEF DequeueHazardNext, Own, Protects
  <2>2. loc'[e].head = loc[e].head /\ hp'[e][0] = hp[e][0] /\ pc'[e] \notin ScanLabels
    BY <1>6 DEF DequeueHazardNext, QueueTypeOK
  <2>3. Guarded(kind, by, e, 0, loc[e].head)'
    BY <2>1, <2>2, GuardOwn
  <2>4. Own(kind, by, e)'
    BY <1>6, <1>0, <2>1, <2>3 DEF DequeueHazardNext, QueueTypeOK, Own, Possesses, Protects, Remembers,
                                Root, Guarded, Shared
  <2> QED BY <1>0, <2>4, QuietKept
<1>7. CASE DequeueAgain(e)
  <2>1. Guarded(kind, by, e, 0, loc[e].head) /\ hp[e][1] = loc[e].next
    BY <1>7, <1>0 DEF DequeueAgain, Own, Protects
  <2>2. /\ pc'[e] \in HeadLabels \cup SuccessorLabels => loc' = loc /\ head = loc[e].head
        /\ hp' = hp /\ pc'[e] \notin ScanLabels
    BY <1>7 DEF DequeueAgain, QueueTypeOK
  <2>3. pc'[e] \in HeadLabels => Guarded(kind, by, e, 0, loc[e].head)'
    BY <2>1, <2>2, GuardOwn
  <2>4. pc'[e] \in SuccessorLabels =>
           /\ loc[e].next \in Nodes /\ kind[loc[e].next] = "queue"
    <3>1. pc'[e] \in SuccessorLabels => loc[e].next \in Nodes
      BY <1>7 DEF DequeueAgain, QueueTypeOK
    <3>2. pc'[e] \in SuccessorLabels => next[head] = loc[e].next
      BY <1>7, <1>0, <2>2, <3>1 DEF DequeueAgain, Own, Remembers, Shared
    <3> QED BY <1>0, <3>1, <3>2 DEF Shared, Closed, QueueTypeOK
  <2>5. pc'[e] \in SuccessorLabels => Guarded(kind, by, e, 1, loc[e].next)'
    BY <2>1, <2>2, <2>4 DEF Guarded
  <2>6. Own(kind, by, e)'
    BY <1>7, <1>0, <2>3, <2>5 DEF DequeueAgain, QueueTypeOK, Own, Possesses, Protects,
                                  Remembers, Root
  <2> QED BY <1>0, <2>6, QuietKept
<1>8. CASE DequeueData(e)
  <2>1. Own(kind, by, e)'
    BY <1>8, <1>0 DEF DequeueData, QueueTypeOK, Own, Possesses, Protects, Remembers, Root
  <2> QED BY <1>0, <2>1, QuietKept
<1>9. CASE DequeueUnhazard(e)
  <2>1. Own(kind, by, e)'
    BY <1>9, <1>0 DEF DequeueUnhazard, QueueTypeOK, Own, Possesses, Protects, Remembers, Root
  <2> QED BY <1>0, <2>1, QuietKept
<1>10. CASE DequeueEmpty(e)
  <2>1. Own(kind, by, e)'
    BY <1>10, <1>0 DEF DequeueEmpty, QueueTypeOK, Own, Possesses, Protects, Remembers, Root
  <2> QED BY <1>0, <2>1, QuietKept
<1>11. CASE DequeueDone(e)
  <2>1. Own(kind, by, e)'
    BY <1>11, <1>0 DEF DequeueDone, QueueTypeOK, Own, Possesses, Protects, Remembers, Root
  <2> QED BY <1>0, <2>1, QuietKept
<1> QED BY <1>1, <1>2, <1>3, <1>4, <1>5, <1>6, <1>7, <1>8, <1>9, <1>10, <1>11

\* The scan reads a hazard pointer, or the successor of the node it looks at.
LEMMA ScanLooks ==
    ASSUME QueueTypeOK, NEW e \in Execs, Step(e),
           NEW kind \in [Nodes -> Kinds], NEW by \in [Nodes -> Execs], PlacesOK(kind, by),
           Scan(e) \/ ScanNext(e)
    PROVE  PlacesOK(kind, by)'
<1> USE QueueAssumption DEF PrivateLabels, TailLabels, HeadLabels, SuccessorLabels, HandLabels,
    SortLabels, ScanLabels, Goto, Local, queueVars, hazardVars, callVars, NoScan, LocType,
    NodeOrNull
<1>0. /\ UNCHANGED <<head, tail, next, free, rlist>>
      /\ Own(kind, by, e) /\ Shared(kind, by)
  BY DEF Scan, ScanNext, PlacesOK, Own
<1>1. CASE Scan(e)
  <2> DEFINE p == scan[e].pos
  <2>1. /\ pc[e] = "scan" /\ p \in Nat /\ p < 2 * NumExecs /\ scan'[e].pos = p + 1
        /\ pc'[e] = IF p + 1 < 2 * NumExecs THEN "scan" ELSE "s_start"
        /\ loc' = loc /\ hp' = hp
    BY <1>1, <1>0 DEF Scan, QueueTypeOK, Own, Protects
  <2> HIDE DEF p
  <2>2. Own(kind, by, e)'
    BY <1>0, <2>1 DEF Own, Possesses, Protects, Remembers, Root
  <2> QED BY <1>0, <2>2, QuietKept
<1>2. CASE ScanNext(e)
  <2>1. /\ pc[e] = "s_next" /\ hp' = hp
        /\ \/ pc'[e] = "d_done" /\ loc' = loc /\ scan'[e].pos = 0
           \/ /\ pc'[e] = "s_sort" /\ loc[e].curr # NoNode
              /\ loc'[e].curr = loc[e].curr /\ loc'[e].next = next[loc[e].curr]
    BY <1>2 DEF ScanNext, QueueTypeOK
  <2>2. Own(kind, by, e)'
    BY <1>0, <2>1 DEF Own, Possesses, Protects, Remembers, Root
  <2> QED BY <1>0, <2>2, QuietKept
<1> QED BY <1>1, <1>2

-----------------------------------------------------------------------------
(* Steps that move lf_tail or lf_head, and nodes.                          *)

\* A step that changes what nodes are used for, from kind and by to k2 and b2,
\* keeps the invariant for the others if it is a Change.
LEMMA MoveKept ==
    ASSUME QueueTypeOK, NEW e \in Execs, Step(e),
           NEW kind, NEW by \in [Nodes -> Execs], PlacesOK(kind, by),
           NEW k2, NEW b2, Change(kind, by, k2, b2, e),
           Shared(k2, b2)', Own(k2, b2, e)'
    PROVE  PlacesOK(k2, b2)'
BY OthersKept DEF PlacesOK, Own

\* lf_tail moves to the successor of the last node, by whoever completes an
\* enqueue.
LEMMA TailMoves ==
    ASSUME QueueTypeOK, NEW e \in Execs, Step(e),
           NEW kind \in [Nodes -> Kinds], NEW by \in [Nodes -> Execs], PlacesOK(kind, by),
           EnqueueHelp(e) \/ EnqueueSwing(e) \/ DequeueHelp(e)
    PROVE  PlacesOK(kind, by)'
<1> USE QueueAssumption DEF PrivateLabels, TailLabels, HeadLabels, SuccessorLabels, HandLabels,
    SortLabels, OtherLabels, ScanLabels, Goto, Local, Retry, queueVars,
    hazardVars, callVars, NoLoc, LocType, NodeOrNull
<1>0. /\ UNCHANGED <<head, next, free, rlist, hp, scan, sawEmpty>>
      /\ Own(kind, by, e) /\ Shared(kind, by)
  BY DEF EnqueueHelp, EnqueueSwing, DequeueHelp, PlacesOK, Own
<1>1. tail' = tail \/ (tail' = next[tail] /\ next[tail] # NoNode)
  <2>1. CASE EnqueueHelp(e)
    BY <1>0, <2>1 DEF EnqueueHelp, Own, Remembers, Shared
  <2>2. CASE EnqueueSwing(e)
    BY <1>0, <2>2 DEF EnqueueSwing, Own, Remembers, Shared
  <2>3. CASE DequeueHelp(e)
    BY <1>0, <2>3, PointersSet DEF DequeueHelp, Own, Remembers, Shared
  <2> QED BY <2>1, <2>2, <2>3
<1>2. tail' \in Nodes /\ kind[tail'] = "queue" /\ (tail' = tail \/ tail' # head)
  <2>1. kind[tail] = "queue" /\ tail \in Nodes
    BY <1>0 DEF Shared, QueueTypeOK
  <2> QED BY <1>0, <1>1, <2>1 DEF Shared, Closed, Root, Linked, QueueTypeOK
<1>3. Change(kind, by, kind, by, e)
  BY <1>0, <1>2 DEF Change
<1>4. Shared(kind, by)'
  BY <1>0, <1>2 DEF Shared, Closed, Injective, Root, Linked
<1>5. Own(kind, by, e)'
  <2>1. CASE EnqueueHelp(e)
    BY <1>0, <2>1 DEF EnqueueHelp, QueueTypeOK, Own, Possesses, Protects, Remembers, Root
  <2>2. CASE EnqueueSwing(e)
    BY <1>0, <2>2 DEF EnqueueSwing, QueueTypeOK, Own, Possesses, Protects, Remembers, Root
  <2>3. CASE DequeueHelp(e)
    BY <1>0, <2>3 DEF DequeueHelp, QueueTypeOK, Own, Possesses, Protects, Remembers, Root
  <2> QED BY <2>1, <2>2, <2>3
<1> QED BY <1>3, <1>4, <1>5, MoveKept

\* An enqueue takes a free node: nobody has it, and no list leads to it.
LEMMA NodeTaken ==
    ASSUME QueueTypeOK, NEW e \in Execs, Step(e),
           NEW kind \in [Nodes -> Kinds], NEW by \in [Nodes -> Execs], PlacesOK(kind, by),
           EnqueueStart(e)
    PROVE  \E k2 \in [Nodes -> Kinds], b2 \in [Nodes -> Execs] : PlacesOK(k2, b2)'
<1> USE QueueAssumption
<1>0. PICK n \in free : next' = [next EXCEPT ![n] = NoNode] /\ free' = free \ {n}
                           /\ loc' = [loc EXCEPT ![e]["node"] = n]
  BY DEF EnqueueStart, Local
<1>1. /\ pc[e] = "idle" /\ pc'[e] = "e_tail"
      /\ free' = free \ {n} /\ next' = [next EXCEPT ![n] = NoNode]
      /\ loc'[e].node = n
      /\ UNCHANGED <<head, tail, hp, rlist, scan, sawEmpty>>
  <2>1. loc'[e].node = n
    BY <1>0 DEF QueueTypeOK, LocType
  <2>2. /\ pc[e] = "idle" /\ pc'[e] = "e_tail"
        /\ UNCHANGED <<head, tail, hp, rlist, scan, sawEmpty>>
    BY DEF EnqueueStart, Goto, QueueTypeOK
  <2> QED BY <1>0, <2>1, <2>2
<1> DEFINE k2 == [kind EXCEPT ![n] = "private"]
           b2 == [by EXCEPT ![n] = e]
<1>2. /\ n \in Nodes /\ kind[n] = "free"
      /\ k2 \in [Nodes -> Kinds] /\ b2 \in [Nodes -> Execs]
      /\ k2[n] = "private" /\ b2[n] = e
      /\ \A m \in Nodes \ {n} : k2[m] = kind[m] /\ b2[m] = by[m] /\ next'[m] = next[m]
      /\ next'[n] = NoNode
  BY <1>1 DEF PlacesOK, Shared, QueueTypeOK, Kinds
<1> HIDE DEF k2, b2
<1>3. Change(kind, by, k2, b2, e)
  BY <1>1, <1>2 DEF Change, Linked
<1>4. Shared(kind, by) /\ Own(kind, by, e)
  BY DEF PlacesOK, Own
<1>5. \A m \in Nodes : Linked(kind, m) /\ next[m] # NoNode => next[m] \in Nodes /\ next[m] # n
  BY <1>2, <1>4 DEF Shared, Closed, Linked, QueueTypeOK, NodeOrNull
<1>6. Shared(k2, b2)'
  BY <1>1, <1>2, <1>4, <1>5 DEF Shared, Closed, Injective, Root, Linked, QueueTypeOK
<1>7. Own(k2, b2, e)'
  <2>1. Root(kind, rlist[e]) /\ rlist[e] # NoNode => Root(k2, rlist[e])'
    BY <1>1, <1>2 DEF Root, Linked
  <2> QED BY <1>1, <1>2, <1>4, <2>1 DEF Own, Possesses, Protects, Remembers, QueueTypeOK,
             PrivateLabels, TailLabels, HeadLabels, SuccessorLabels, HandLabels, SortLabels,
             ScanLabels, NodeOrNull
<1> QED BY <1>2, <1>3, <1>6, <1>7, MoveKept

\* EnqueueCas links the new node behind the last one, or behind a retired one
\* that was the last when it was read: then the new node is as good as retired.
LEMMA NodeLinked ==
    ASSUME QueueTypeOK, NEW e \in Execs, Step(e),
           NEW kind \in [Nodes -> Kinds], NEW by \in [Nodes -> Execs], PlacesOK(kind, by),
           EnqueueCas(e)
    PROVE  \E k2 \in [Nodes -> Kinds], b2 \in [Nodes -> Execs] : PlacesOK(k2, b2)'
<1> USE QueueAssumption
<1>0. /\ pc[e] = "e_cas" /\ UNCHANGED <<head, tail, free, rlist, hp, scan, sawEmpty>>
      /\ Own(kind, by, e) /\ Shared(kind, by)
  BY DEF EnqueueCas, PlacesOK, Own, hazardVars
<1>1. CASE next[loc[e].tail] # NoNode
  <2>1. /\ UNCHANGED next /\ pc'[e] = "e_tail" /\ loc'[e].node = loc[e].node
    BY <1>1 DEF EnqueueCas, Retry, Goto, QueueTypeOK, NoLoc
  <2>2. Own(kind, by, e)'
    BY <1>0, <2>1 DEF Own, Possesses, Protects, Remembers, Root, PrivateLabels, TailLabels,
       HeadLabels, SuccessorLabels, HandLabels, SortLabels, ScanLabels
  <2> QED BY <1>0, <2>1, <2>2, QuietKept
<1>2. CASE next[loc[e].tail] = NoNode
  <2>0. PICK last, n : last = loc[e].tail /\ n = loc[e].node
    OBVIOUS
  <2> DEFINE k2 == [kind EXCEPT ![n] = kind[last]]
             b2 == [by EXCEPT ![n] = by[last]]
  <2>1. /\ next' = [next EXCEPT ![last] = n] /\ pc'[e] = "e_swing" /\ loc' = loc
    BY <1>2, <2>0 DEF EnqueueCas, Onward, Goto, QueueTypeOK
  <2>2. /\ n \in Nodes /\ kind[n] = "private" /\ by[n] = e /\ next[n] = NoNode
        /\ Guarded(kind, by, e, 0, last)
    BY <1>0, <2>0 DEF Own, Possesses, Protects, PrivateLabels, TailLabels
  <2>3. last \in Nodes /\ Linked(kind, last) /\ last # n /\ next[last] = NoNode
    BY <1>0, <1>2, <2>0, <2>2 DEF Guarded, Shared, Linked
  <2>4. /\ k2 \in [Nodes -> Kinds] /\ b2 \in [Nodes -> Execs]
        /\ k2[n] = kind[last] /\ b2[n] = by[last]
        /\ \A m \in Nodes \ {n} : k2[m] = kind[m] /\ b2[m] = by[m]
        /\ \A m \in Nodes \ {last} : next'[m] = next[m]
        /\ next'[last] = n
    BY <2>1, <2>2, <2>3 DEF QueueTypeOK, Kinds
  <2> HIDE DEF k2, b2
  <2>5. Change(kind, by, k2, b2, e)
    BY <1>0, <2>2, <2>3, <2>4 DEF Change, Linked
  <2>6. \A m \in Nodes : Linked(kind, m) /\ next[m] # NoNode => next[m] \in Nodes /\ next[m] # n
    BY <1>0, <2>2 DEF Shared, Closed, Linked, QueueTypeOK, NodeOrNull
  <2>7. Shared(k2, b2)'
    <3>1. \A m \in Nodes : Linked(k2, m) => Linked(kind, m) \/ m = n
      BY <2>4 DEF Linked
    <3>2. Closed(k2, b2)'
      BY <1>0, <2>2, <2>3, <2>4, <2>6 DEF Shared, Closed, Linked
    <3>3. Injective(k2)'
      BY <1>0, <2>2, <2>3, <2>4, <2>6, <3>1 DEF Shared, Injective, Linked
    <3>4. Root(k2, head)'
      BY <1>0, <2>2, <2>3, <2>4, <3>1 DEF Shared, Root, Linked
    <3>5. \A m \in Nodes : k2[m] = "hand" => next'[m] # NoNode
      BY <1>0, <2>2, <2>3, <2>4, QueueAssumption DEF Shared, Linked
    <3>6. k2[head] = "queue" /\ k2[tail] = "queue" /\ \A m \in free : k2[m] = "free"
      BY <1>0, <2>2, <2>4 DEF Shared, QueueTypeOK
    <3> QED BY <1>0, <3>2, <3>3, <3>4, <3>5, <3>6 DEF Shared
  <2>8. Own(k2, b2, e)'
    <3>1. Guarded(k2, b2, e, 0, last)'
      <4>1. k2[last] = kind[last] /\ b2[last] = by[last] /\ pc'[e] \notin ScanLabels
        BY <2>1, <2>3, <2>4 DEF ScanLabels, SortLabels
      <4> QED BY <1>0, <2>2, <4>1, GuardOwn
    <3>2. rlist[e] # NoNode => k2[rlist[e]] = "retired" /\ b2[rlist[e]] = e
                               /\ Root(k2, rlist[e])'
      <4>1. rlist[e] # NoNode =>
                /\ rlist[e] \in Nodes /\ kind[rlist[e]] = "retired" /\ by[rlist[e]] = e
                /\ Root(kind, rlist[e]) /\ rlist[e] # n
        BY <1>0, <2>2 DEF Own, Possesses, QueueTypeOK, NodeOrNull
      <4>2. \A m \in Nodes : Linked(k2, m) => Linked(kind, m) \/ m = n
        BY <2>4 DEF Linked
      <4> QED BY <1>0, <2>2, <2>3, <2>4, <4>1, <4>2 DEF Root
    <3> QED BY <1>0, <2>0, <2>1, <2>2, <2>3, <2>4, <3>1, <3>2
        DEF Own, Possesses, Protects, Remembers, Root, PrivateLabels, TailLabels, HeadLabels,
            SuccessorLabels, HandLabels, SortLabels, ScanLabels
  <2> QED BY <2>4, <2>5, <2>7, <2>8, MoveKept
<1> QED BY <1>1, <1>2

\* DequeueCas takes the first node off the queue.
LEMMA HeadMoves ==
    ASSUME QueueTypeOK, NEW e \in Execs, Step(e),
           NEW kind \in [Nodes -> Kinds], NEW by \in [Nodes -> Execs], PlacesOK(kind, by),
           DequeueCas(e)
    PROVE  \E k2 \in [Nodes -> Kinds], b2 \in [Nodes -> Execs] : PlacesOK(k2, b2)'
<1> USE QueueAssumption
<1>0. /\ pc[e] = "d_cas" /\ UNCHANGED <<tail, next, free, rlist, hp, scan, sawEmpty>>
      /\ Own(kind, by, e) /\ Shared(kind, by)
  BY DEF DequeueCas, PlacesOK, Own, hazardVars, callVars
<1>1. CASE head # loc[e].head
  <2>1. UNCHANGED head /\ pc'[e] = "d_head"
    BY <1>1 DEF DequeueCas, Retry, Goto, QueueTypeOK
  <2>2. Own(kind, by, e)'
    BY <1>0, <2>1 DEF Own, Possesses, Protects, Remembers, Root, PrivateLabels, TailLabels,
       HeadLabels, SuccessorLabels, HandLabels, SortLabels, ScanLabels
  <2> QED BY <1>0, <2>1, <2>2, QuietKept
<1>2. CASE head = loc[e].head
  <2>0. PICK h, s : h = head /\ s = loc[e].next
    OBVIOUS
  <2> DEFINE k2 == [kind EXCEPT ![h] = "hand"]
             b2 == [by EXCEPT ![h] = e]
  <2>1. head' = s /\ pc'[e] = "d_data" /\ loc' = loc
    BY <1>2, <2>0 DEF DequeueCas, Onward, Goto, QueueTypeOK
  <2>2. Guarded(kind, by, e, 1, s) /\ s \in Nodes
    BY <1>0, <2>0 DEF Own, Protects, Guarded, SuccessorLabels
  <2>3. next[h] = s /\ tail # h /\ kind[h] = "queue" /\ h \in Nodes
    BY <1>0, <1>2, <2>0, <2>2 DEF Own, Remembers, HeadLabels, Shared, QueueTypeOK
  <2>4. s # h /\ kind[s] = "queue"
    BY <1>0, <2>0, <2>2, <2>3, QueueAssumption DEF Shared, Closed, Root, Linked
  <2>5. /\ k2 \in [Nodes -> Kinds] /\ b2 \in [Nodes -> Execs]
        /\ k2[h] = "hand" /\ b2[h] = e
        /\ \A m \in Nodes \ {h} : k2[m] = kind[m] /\ b2[m] = by[m]
    BY <2>3 DEF Kinds
  <2> HIDE DEF k2, b2
  <2>6. Change(kind, by, k2, b2, e)
    BY <1>0, <2>0, <2>1, <2>2, <2>3, <2>4, <2>5 DEF Change, Linked
  <2>7. Shared(k2, b2)'
    <3>1. Closed(k2, b2)'
      BY <1>0, <2>0, <2>2, <2>3, <2>4, <2>5 DEF Shared, Closed, Root, Linked, QueueTypeOK, NodeOrNull
    <3>2. Injective(k2)'
      BY <1>0, <2>0, <2>2, <2>3, <2>4, <2>5 DEF Shared, Injective, Linked
    <3>3. Root(k2, head)'
      BY <1>0, <2>0, <2>1, <2>2, <2>3, <2>5 DEF Shared, Injective, Root, Linked
    <3> QED BY <1>0, <2>0, <2>1, <2>2, <2>3, <2>4, <2>5, <3>1, <3>2, <3>3 DEF Shared, QueueTypeOK
  <2>8. Own(k2, b2, e)'
    <3>1. Guarded(k2, b2, e, 1, s)'
      <4>1. /\ s # h /\ hp' = hp
            /\ k2[s] = kind[s] /\ b2[s] = by[s]
            /\ pc'[e] \notin ScanLabels
        BY <1>0, <2>1, <2>2, <2>4, <2>5 DEF ScanLabels, SortLabels
      <4> QED BY <2>2, <4>1, GuardOwn
    <3>2. rlist[e] # NoNode => k2[rlist[e]] = "retired" /\ b2[rlist[e]] = e
                               /\ Root(k2, rlist[e])'
      BY <1>0, <2>3, <2>5 DEF Own, Possesses, Root, Linked, QueueTypeOK, NodeOrNull
    <3> QED BY <1>0, <1>2, <2>0, <2>1, <2>2, <2>3, <2>4, <2>5, <3>1, <3>2
        DEF Own, Possesses, Protects, Remembers, Root, PrivateLabels, TailLabels, HeadLabels,
            SuccessorLabels, HandLabels, SortLabels, ScanLabels
  <2> QED BY <2>5, <2>6, <2>7, <2>8, MoveKept
<1> QED BY <1>1, <1>2

-----------------------------------------------------------------------------
(* Steps that retire, keep and free nodes.                                 *)

\* A node that was taken off the queue goes to the front of its dequeuer's
\* retired nodes.
LEMMA NodeRetired ==
    ASSUME QueueTypeOK, NEW e \in Execs, Step(e),
           NEW kind \in [Nodes -> Kinds], NEW by \in [Nodes -> Execs], PlacesOK(kind, by),
           Retire(e)
    PROVE  \E k2 \in [Nodes -> Kinds], b2 \in [Nodes -> Execs] : PlacesOK(k2, b2)'
<1> USE QueueAssumption
<1>0. PICK h, r : h = loc[e].head /\ r = rlist[e]
  OBVIOUS
<1>1. /\ pc[e] = "retire" /\ pc'[e] \in {"scan", "d_done"}
      /\ next' = [next EXCEPT ![h] = r] /\ rlist'[e] = h
      /\ UNCHANGED <<head, tail, free, hp, scan, sawEmpty>>
  BY <1>0 DEF Retire, Goto, QueueTypeOK, callVars
<1>2. Own(kind, by, e) /\ Shared(kind, by)
  BY DEF PlacesOK, Own
<1>3. /\ h \in Nodes /\ kind[h] = "hand" /\ by[h] = e
      /\ r \in NodeOrNull
      /\ r # NoNode => r \in Nodes /\ kind[r] = "retired" /\ by[r] = e /\ Root(kind, r)
  BY <1>0, <1>1, <1>2 DEF Own, Possesses, HandLabels, QueueTypeOK, NodeOrNull
<1> DEFINE k2 == [kind EXCEPT ![h] = "retired"]
<1>4. /\ k2 \in [Nodes -> Kinds] /\ k2[h] = "retired"
      /\ \A m \in Nodes \ {h} : k2[m] = kind[m] /\ next'[m] = next[m]
      /\ next'[h] = r
  BY <1>1, <1>3 DEF QueueTypeOK, Kinds
<1> HIDE DEF k2
<1>5. Change(kind, by, k2, by, e)
  BY <1>1, <1>2, <1>3, <1>4 DEF Change, Linked, Shared
<1>6. \A m \in Nodes : Linked(kind, m) /\ next[m] # NoNode => next[m] \in Nodes /\ next[m] # h
  BY <1>2, <1>3 DEF Shared, Closed, Linked, QueueTypeOK, NodeOrNull
<1>7. Shared(k2, by)'
  <2>1. \A m \in Nodes : Linked(k2, m) => Linked(kind, m) \/ m = h
    BY <1>4 DEF Linked
  <2>2. Closed(k2, by)'
    BY <1>2, <1>3, <1>4, <1>6 DEF Shared, Closed, Linked
  <2>3. Injective(k2)'
    BY <1>2, <1>3, <1>4, <2>1 DEF Shared, Injective, Root
  <2>4. Root(k2, head)'
    BY <1>1, <1>2, <1>3, <1>4, <2>1 DEF Shared, Root
  <2>5. /\ k2[head] = "queue" /\ k2[tail] = "queue" /\ \A m \in free : k2[m] = "free"
        /\ \A m \in Nodes : k2[m] = "hand" => next'[m] # NoNode
    BY <1>2, <1>3, <1>4 DEF Shared, QueueTypeOK
  <2> QED BY <1>1, <2>2, <2>3, <2>4, <2>5 DEF Shared
<1>8. Own(k2, by, e)'
  <2>1. Root(k2, h)'
    BY <1>3, <1>4, <1>6 DEF Root, Linked
  <2> QED BY <1>1, <1>2, <1>3, <1>4, <2>1 DEF Own, Possesses, Protects, Remembers, Root,
             PrivateLabels, TailLabels, HeadLabels, SuccessorLabels, HandLabels, SortLabels,
             ScanLabels
<1> QED BY <1>4, <1>5, <1>7, <1>8, MoveKept

\* The scan takes the whole list of retired nodes.
LEMMA ScanBegins ==
    ASSUME QueueTypeOK, NEW e \in Execs, Step(e),
           NEW kind \in [Nodes -> Kinds], NEW by \in [Nodes -> Execs], PlacesOK(kind, by),
           ScanStart(e)
    PROVE  PlacesOK(kind, by)'
<1> USE QueueAssumption
<1>1. /\ pc[e] = "s_start" /\ pc'[e] = "s_next"
      /\ UNCHANGED <<head, tail, next, free, hp, scan, sawEmpty>>
      /\ loc'[e].curr = rlist[e] /\ rlist'[e] = NoNode
  BY DEF ScanStart, Local, Goto, QueueTypeOK, LocType, queueVars, callVars
<1>2. Own(kind, by, e)
  BY DEF PlacesOK, Own
<1>3. Own(kind, by, e)'
  BY <1>1, <1>2 DEF Own, Possesses, Protects, Remembers, Root,
     PrivateLabels, TailLabels, HeadLabels, SuccessorLabels, HandLabels, SortLabels, ScanLabels
<1> QED BY <1>1, <1>3, QuietKept

\* The scan puts a node back among the retired ones if its table has it, and
\* frees it otherwise.
LEMMA NodeSorted ==
    ASSUME QueueTypeOK, NEW e \in Execs, Step(e),
           NEW kind \in [Nodes -> Kinds], NEW by \in [Nodes -> Execs], PlacesOK(kind, by),
           ScanSort(e)
    PROVE  \E k2 \in [Nodes -> Kinds], b2 \in [Nodes -> Execs] : PlacesOK(k2, b2)'
<1> USE QueueAssumption
<1>0. PICK n, r, s : n = loc[e].curr /\ r = rlist[e] /\ s = loc[e].next
  OBVIOUS
<1>1. /\ pc[e] = "s_sort" /\ pc'[e] = "s_next" /\ loc'[e].curr = s
      /\ UNCHANGED <<head, tail, hp, scan, sawEmpty>>
  BY <1>0 DEF ScanSort, Goto, QueueTypeOK, LocType, callVars
<1>2. Own(kind, by, e) /\ Shared(kind, by)
  BY DEF PlacesOK, Own
<1>3. /\ n \in Nodes /\ kind[n] = "retired" /\ by[n] = e /\ Root(kind, n)
      /\ r \in NodeOrNull /\ s \in NodeOrNull
      /\ n # r /\ s # NoNode => next[n] = s
      /\ r # NoNode => r \in Nodes /\ kind[r] = "retired" /\ by[r] = e /\ Root(kind, r)
  BY <1>0, <1>1, <1>2 DEF Own, Possesses, SortLabels, QueueTypeOK, LocType, NodeOrNull
<1>4. n # r
  BY <1>0, <1>1, <1>2, <1>3 DEF Own, Possesses, SortLabels
<1>5. s # NoNode => /\ s \in Nodes /\ kind[s] = "retired" /\ by[s] = e
                    /\ s # n /\ s # r
                    /\ \A m \in Nodes \ {n} : Linked(kind, m) => next[m] # s
  BY <1>2, <1>3, <1>4 DEF Shared, Closed, Injective, Root, Linked, NodeOrNull
<1>6. CASE n \in scan[e].ptab
  <2>1. next' = [next EXCEPT ![n] = r] /\ rlist'[e] = n /\ free' = free
    BY <1>0, <1>6 DEF ScanSort, QueueTypeOK
  <2>2. next'[n] = r /\ \A m \in Nodes \ {n} : next'[m] = next[m]
    BY <1>3, <2>1 DEF QueueTypeOK
  <2>3. Change(kind, by, kind, by, e)
    BY <1>1, <1>2, <1>3, <2>2 DEF Change, Linked, Shared
  <2>4. Shared(kind, by)'
    <3>1. Closed(kind, by)'
      BY <1>2, <1>3, <2>2 DEF Shared, Closed
    <3>2. Injective(kind)'
      BY <1>2, <1>3, <2>2 DEF Shared, Injective, Root
    <3>3. Root(kind, head)'
      BY <1>1, <1>2, <1>3, <2>2 DEF Shared, Root
    <3> QED BY <1>1, <1>2, <1>3, <2>1, <2>2, <3>1, <3>2, <3>3 DEF Shared
  <2>5. Own(kind, by, e)'
    <3>1. Root(kind, n)' /\ (s # NoNode => Root(kind, s)')
      BY <1>3, <1>4, <1>5, <2>2 DEF Root
    <3> QED BY <1>1, <1>2, <1>3, <1>5, <2>1, <3>1 DEF Own, Possesses, Protects, Remembers,
               PrivateLabels, TailLabels, HeadLabels, SuccessorLabels, HandLabels,
               SortLabels, ScanLabels, Root, Linked
  <2> QED BY <2>3, <2>4, <2>5, MoveKept
<1>7. CASE n \notin scan[e].ptab
  <2> DEFINE k2 == [kind EXCEPT ![n] = "free"]
  <2>1. next' = [next EXCEPT ![n] = NoNode] /\ rlist'[e] = r /\ free' = free \cup {n}
    BY <1>0, <1>7 DEF ScanSort, QueueTypeOK
  <2>2. /\ next'[n] = NoNode /\ \A m \in Nodes \ {n} : next'[m] = next[m] /\ k2[m] = kind[m]
        /\ k2[n] = "free" /\ k2 \in [Nodes -> Kinds]
    BY <1>3, <2>1 DEF QueueTypeOK, Kinds
  <2> HIDE DEF k2
  <2>3. Change(kind, by, k2, by, e)
    BY <1>1, <1>2, <1>3, <1>7, <2>2 DEF Change, Linked, Shared, SortLabels
  <2>4. \A m \in Nodes : Linked(k2, m) => Linked(kind, m) /\ m # n
    BY <2>2 DEF Linked
  <2>5. Shared(k2, by)'
    <3>1. Closed(k2, by)'
      BY <1>2, <1>3, <2>2, <2>4 DEF Shared, Closed, Root, Linked, QueueTypeOK, NodeOrNull
    <3>2. Injective(k2)'
      BY <1>2, <1>3, <2>2, <2>4 DEF Shared, Injective
    <3>3. Root(k2, head)'
      BY <1>1, <1>2, <1>3, <2>2, <2>4 DEF Shared, Root
    <3>4. /\ k2[head] = "queue" /\ k2[tail] = "queue" /\ \A m \in free \cup {n} : k2[m] = "free"
          /\ \A m \in Nodes : k2[m] = "hand" => next'[m] # NoNode
      BY <1>2, <1>3, <2>2 DEF Shared, QueueTypeOK
    <3> QED BY <1>1, <2>1, <3>1, <3>2, <3>3, <3>4 DEF Shared
  <2>6. Own(k2, by, e)'
    <3>1. (r # NoNode => Root(k2, r)') /\ (s # NoNode => Root(k2, s)')
      BY <1>3, <1>5, <2>2, <2>4 DEF Root
    <3>2. /\ r # NoNode => k2[r] = "retired"
          /\ s # NoNode => k2[s] = "retired"
      BY <1>3, <1>4, <1>5, <2>2
    <3> QED BY <1>1, <1>2, <1>3, <1>5, <2>1, <3>1, <3>2 DEF Own, Possesses, Protects,
               Remembers, PrivateLabels, TailLabels, HeadLabels, SuccessorLabels, HandLabels,
               SortLabels, ScanLabels, Root, Linked
  <2> QED BY <2>2, <2>3, <2>5, <2>6, MoveKept
<1> QED BY <1>6, <1>7

-----------------------------------------------------------------------------
(* The invariant, and what follows from it.                                *)

\* At the start the sentinel is the queue and all other nodes are free.
LEMMA HazardInit ==
    ASSUME Init
    PROVE  HazardInv
<1> USE QueueAssumption
<1>1. QueueTypeOK
  BY DEF Init, QueueTypeOK, LocType, NoLoc, NoScan, NodeOrNull, OtherLabels
<1>2. EmptyWasTrue
  BY DEF Init, EmptyWasTrue
<1>3. 0 \in Execs
  BY DEF Execs
<1> DEFINE kind == [n \in Nodes |-> IF n = Sentinel THEN "queue" ELSE "free"]
           by == [n \in Nodes |-> 0]
<1>4. /\ kind \in [Nodes -> Kinds] /\ by \in [Nodes -> Execs]
      /\ kind[Sentinel] = "queue" /\ \A n \in Nodes \ {Sentinel} : kind[n] = "free"
  BY <1>3 DEF Kinds
<1> HIDE DEF kind, by
<1>5. Shared(kind, by)
  BY <1>4 DEF Init, Shared, Closed, Injective, Root, Linked
<1>6. ASSUME NEW e \in Execs
      PROVE  Possesses(kind, by, e) /\ Protects(kind, by, e) /\ Remembers(kind, e)
  <2>1. pc[e] = "idle" /\ rlist[e] = NoNode /\ scan[e].pos = 0
    BY DEF Init, NoScan
  <2> QED BY <2>1 DEF Possesses, Protects, Remembers, PrivateLabels, TailLabels, HeadLabels,
             SuccessorLabels, HandLabels, SortLabels
<1> QED BY <1>1, <1>2, <1>4, <1>5, <1>6 DEF HazardInv, PlacesOK

\* What a dequeuer saw when it read the successor of the dummy node is still
\* so when it looks at lf_head again: a step to the empty result was right.
LEMMA EmptyStep ==
    ASSUME HazardInv, NEW e \in Execs, Step(e)
    PROVE  EmptyWasTrue'
<1> USE DEF Goto, Onward, Retry
<1>1. QueueTypeOK /\ EmptyWasTrue
  BY DEF HazardInv
<1>2. PICK kind \in [Nodes -> Kinds], by \in [Nodes -> Execs] : PlacesOK(kind, by)
  BY DEF HazardInv
<1>3. ASSUME NEW f \in Execs, f # e, pc'[f] \in {"d_empty", "d_none"}
      PROVE  sawEmpty'[f]
  <2>1. pc'[f] = pc[f] /\ sawEmpty'[f] = sawEmpty[f]
    BY <1>1, <1>3, Frame
  <2> QED BY <1>1, <1>3, <2>1 DEF EmptyWasTrue
<1>4. ASSUME pc'[e] \in {"d_empty", "d_none"}
      PROVE  sawEmpty'[e]
  <2>1. DequeueAgain(e) \/ DequeueEmpty(e)
    BY <1>1, <1>4 DEF Step, QueueTypeOK, EnqueueStart, EnqueueTail, EnqueueHazard,
       EnqueueCheck, EnqueueNext, EnqueueAgain, EnqueueHelp, EnqueueCas, EnqueueSwing,
       EnqueueDone, DequeueHead, DequeueHazard, DequeueCheck, DequeueTail, DequeueNext,
       DequeueHazardNext, DequeueHelp, DequeueCas, DequeueData, DequeueUnhazard,
       DequeueDone, Retire, Scan, ScanStart, ScanNext, ScanSort
  <2>2. CASE DequeueAgain(e)
    <3>1. /\ pc[e] = "d_again" /\ sawEmpty' = sawEmpty
          /\ head = loc[e].head /\ loc[e].next = NoNode
      BY <1>1, <1>4, <2>2 DEF DequeueAgain, QueueTypeOK, callVars
    <3>2. kind[loc[e].head] = "queue"
      BY <1>2, <3>1 DEF PlacesOK, Shared
    <3> QED BY <1>2, <3>1, <3>2 DEF PlacesOK, Remembers, HeadLabels
  <2>3. CASE DequeueEmpty(e)
    BY <1>1, <2>3 DEF DequeueEmpty, EmptyWasTrue, callVars
  <2> QED BY <2>1, <2>2, <2>3
<1> QED BY <1>3, <1>4 DEF EmptyWasTrue

\* The invariant is inductive.
LEMMA HazardStep ==
    ASSUME HazardInv, [Next]_vars
    PROVE  HazardInv'
<1>1. QueueTypeOK /\ EmptyWasTrue
  BY DEF HazardInv
<1>2. PICK kind \in [Nodes -> Kinds], by \in [Nodes -> Execs] : PlacesOK(kind, by)
  BY DEF HazardInv
<1>3. CASE UNCHANGED vars
  <2>1. UNCHANGED <<head, tail, next, hp, rlist, free, pc, loc, scan, sawEmpty>>
    BY <1>3 DEF vars
  <2>2. PlacesOK(kind, by)'
    BY <1>2, <2>1 DEF PlacesOK, Shared, Closed, Injective, Root, Possesses, Protects, Guarded,
       Passed, Remembers
  <2>3. QueueTypeOK' /\ EmptyWasTrue'
    BY <1>1, <2>1 DEF QueueTypeOK, EmptyWasTrue
  <2> QED BY <2>2, <2>3 DEF HazardInv
<1>4. ASSUME NEW e \in Execs, Step(e)
      PROVE  HazardInv'
  <2>1. QueueTypeOK'
    BY <1>1, <1>2, <1>4, TypeStep
  <2>2. EmptyWasTrue'
    BY <1>4, EmptyStep
  <2>3. \E k2 \in [Nodes -> Kinds], b2 \in [Nodes -> Execs] : PlacesOK(k2, b2)'
    <3>1. CASE \/ EnqueueTail(e) \/ EnqueueHazard(e) \/ EnqueueCheck(e) \/ EnqueueNext(e)
               \/ EnqueueAgain(e) \/ EnqueueDone(e)
      BY <1>1, <1>2, <1>4, <3>1, EnqueueLooks
    <3>2. CASE \/ DequeueHead(e) \/ DequeueHazard(e) \/ DequeueCheck(e) \/ DequeueTail(e)
               \/ DequeueNext(e) \/ DequeueHazardNext(e) \/ DequeueAgain(e) \/ DequeueData(e)
               \/ DequeueUnhazard(e) \/ DequeueEmpty(e) \/ DequeueDone(e)
      BY <1>1, <1>2, <1>4, <3>2, DequeueLooks
    <3>3. CASE Scan(e) \/ ScanNext(e)
      BY <1>1, <1>2, <1>4, <3>3, ScanLooks
    <3>4. CASE EnqueueHelp(e) \/ EnqueueSwing(e) \/ DequeueHelp(e)
      BY <1>1, <1>2, <1>4, <3>4, TailMoves
    <3>5. CASE EnqueueStart(e)
      BY <1>1, <1>2, <1>4, <3>5, NodeTaken
    <3>6. CASE EnqueueCas(e)
      BY <1>1, <1>2, <1>4, <3>6, NodeLinked
    <3>7. CASE DequeueCas(e)
      BY <1>1, <1>2, <1>4, <3>7, HeadMoves
    <3>8. CASE Retire(e)
      BY <1>1, <1>2, <1>4, <3>8, NodeRetired
    <3>9. CASE ScanStart(e)
      BY <1>1, <1>2, <1>4, <3>9, ScanBegins
    <3>10. CASE ScanSort(e)
      BY <1>1, <1>2, <1>4, <3>10, NodeSorted
    <3> QED BY <1>4, <3>1, <3>2, <3>3, <3>4, <3>5, <3>6, <3>7, <3>8, <3>9, <3>10 DEF Step
  <2> QED BY <2>1, <2>2, <2>3 DEF HazardInv
<1> QED BY <1>3, <1>4 DEF Next

\* What the invariant is for.
LEMMA HazardSafe ==
    ASSUME HazardInv
    PROVE  EmptyWasTrue /\ ProtectedNotFree
<1>1. PICK kind \in [Nodes -> Kinds], by \in [Nodes -> Execs] : PlacesOK(kind, by)
  BY DEF HazardInv
<1>2. \A n \in free : kind[n] = "free"
  BY <1>1 DEF PlacesOK, Shared
<1>3. \A e \in Execs : Protects(kind, by, e)
  BY <1>1 DEF PlacesOK
<1>4. ProtectedNotFree
  BY <1>2, <1>3 DEF ProtectedNotFree, Protects, Guarded, TailLabels, HeadLabels,
     SuccessorLabels
<1> QED BY <1>4 DEF HazardInv

\* Wherever the executors are stopped, every node is free, in the queue, an
\* enqueuer's, a dequeuer's or retired by one executor, and nodes that hazard
\* pointers protect are not among those a scan will free.
THEOREM HazardInvariant == Spec => []HazardInv
<1>1. Init => HazardInv
  BY HazardInit
<1>2. HazardInv /\ [Next]_vars => HazardInv'
  BY HazardStep
<1> QED BY <1>1, <1>2, PTL DEF Spec

\* lf_thread_queue_dequeue returns NULL only if the queue was empty while it ran.
THEOREM DequeuedEmptyWasEmpty == Spec => []EmptyWasTrue
BY HazardSafe, HazardInvariant, PTL

\* No executor works on a node that the allocator could hand out again.
THEOREM HazardPointersProtect == Spec => []ProtectedNotFree
BY HazardSafe, HazardInvariant, PTL
=============================================================================
