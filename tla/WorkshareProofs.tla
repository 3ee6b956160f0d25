------------------------- MODULE WorkshareProofs -------------------------
(***************************************************************************)
(* The workshare queue is what cc/lf_thread_queue.h promises but for one   *)
(* kind of step: an enqueue whose CAS succeeds on a node that has left the *)
(* queue.  Such a step loses its thread; every other enqueue and dequeue   *)
(* takes effect at one moment, for any number of enqueuing and dequeuing   *)
(* executors, threads and nodes, whatever the order of their steps.        *)
(***************************************************************************)
EXTENDS LFThreadQueueProofs, FiniteSetTheorems, WellFoundedInduction

\* The nodes that hold the queue, the dummy node first: from lf_head along
\* lfn_next to NULL, without a cycle.
Path(q) ==
    /\ q \in Seq(Nodes) /\ Len(q) > 0
    /\ q[1] = head
    /\ \A i \in 1 .. Len(q) - 1 : next[q[i]] = q[i + 1]
    /\ next[q[Len(q)]] = NoNode
    /\ \A i, j \in 1 .. Len(q) : q[i] = q[j] => i = j

\* A list without a cycle: the nodes from n on along f, which is lfn_next now
\* or after a step, up to NULL.
Trail(f, n, q) ==
    /\ q \in Seq(Nodes)
    /\ n = IF Len(q) = 0 THEN NoNode ELSE q[1]
    /\ \A i \in 1 .. Len(q) - 1 : f[q[i]] = q[i + 1]
    /\ Len(q) > 0 => f[q[Len(q)]] = NoNode
    /\ \A i, j \in 1 .. Len(q) : q[i] = q[j] => i = j

NodesOf(q) == {q[i] : i \in DOMAIN q}

\* Where an executor has no thread in val[e].
EmptyHanded == {"idle", "e_swing", "e_done", "d_head", "d_hp", "d_check", "d_tail", "d_next",
                "d_hp1", "d_again", "d_help", "d_cas", "d_data", "d_empty", "d_none"}

\* A thread that is to be enqueued is in its node.
ValuesOK ==
    /\ data \in [Nodes -> Threads \cup {NoThread}]
    /\ val \in [Execs -> Threads \cup {NoThread}]
    /\ pool \subseteq Threads
    /\ \A e \in Execs :
           /\ pc[e] \in PrivateLabels => val[e] \in Threads /\ data[loc[e].node] = val[e]
           /\ pc[e] \in EmptyHanded => val[e] = NoThread

FifoInv ==
    /\ HazardInv
    /\ ValuesOK
    /\ \E q : Path(q)

-----------------------------------------------------------------------------
(* The queue as a sequence.                                                *)

\* Induction over a set of natural numbers.
LEMMA SetInduction ==
    ASSUME NEW S, 0 \in S, \A n \in Nat : n \in S => n + 1 \in S
    PROVE  Nat \subseteq S
<1> SUFFICES ASSUME Nat \ S # {} PROVE FALSE
  OBVIOUS
<1> DEFINE R == OpToRel(<, Nat)
<1>1. IsWellFoundedOn(R, Nat)
  BY NatLessThanWellFounded
<1>2. R = {ss \in Nat \X Nat : ss[1] < ss[2]}
  BY DEF OpToRel
<1> HIDE DEF R
<1>3. PICK m \in Nat \ S : \A y \in Nat \ S : ~ (<<y, m>> \in R)
  BY <1>1, WFMin
<1>4. m # 0
  OBVIOUS
<1>5. \A k \in Nat : k < m => <<k, m>> \in R
  BY <1>2
<1>6. m - 1 \in Nat /\ m - 1 < m /\ (m - 1) + 1 = m
  BY <1>4
<1>7. m - 1 \in S
  BY <1>3, <1>5, <1>6
<1> QED BY <1>6, <1>7

\* Nodes that differ are no more than there are.
LEMMA DistinctLength ==
    ASSUME NEW q \in Seq(Nodes), \A i, j \in 1 .. Len(q) : q[i] = q[j] => i = j
    PROVE  Cardinality(Nodes) \in Nat /\ Len(q) \in Nat /\ Len(q) <= Cardinality(Nodes)
<1>1. q \in [1 .. Len(q) -> Nodes] /\ Len(q) \in Nat
  OBVIOUS
<1>2. q \in Injection(1 .. Len(q), Nodes)
  BY <1>1 DEF Injection, IsInjective
<1>3. Cardinality(1 .. Len(q)) <= Cardinality(Nodes)
  BY <1>2, FS_Injection, QueueAssumption
<1>4. Cardinality(1 .. Len(q)) = Len(q)
  <2>1. 1 \in Int /\ Len(q) \in Int
    BY <1>1
  <2>2. Cardinality(1 .. Len(q)) = IF 1 > Len(q) THEN 0 ELSE Len(q) - 1 + 1
    BY <2>1, FS_Interval
  <2> QED BY <1>1, <2>2
<1>5. Cardinality(Nodes) \in Nat
  BY FS_CardinalityType, QueueAssumption
<1> QED BY <1>1, <1>3, <1>4, <1>5

\* So a list without a cycle is no longer than there are nodes.
LEMMA TrailLength ==
    ASSUME NEW f, NEW n, NEW q, Trail(f, n, q)
    PROVE  Cardinality(Nodes) \in Nat /\ Len(q) \in Nat /\ Len(q) <= Cardinality(Nodes)
BY DistinctLength DEF Trail

\* Walk is the function that its recursive definition describes, if there is
\* one, and the list gives one.
LEMMA WalkOfTrail ==
    ASSUME NEW n, NEW q, Trail(next, n, q)
    PROVE  Walk(n) = [k \in 0 .. Cardinality(Nodes) |->
                          IF k < Len(q) THEN q[k + 1] ELSE NoNode]
<1> DEFINE N == Cardinality(Nodes)
           after == [m \in Nodes \cup {NoNode} |-> IF m = NoNode THEN NoNode ELSE next[m]]
           Follows(h) == h = [k \in 0 .. N |-> IF k = 0 THEN n ELSE after[h[k - 1]]]
           g == [k \in 0 .. N |-> IF k < Len(q) THEN q[k + 1] ELSE NoNode]
<1>1. N \in Nat /\ Len(q) \in Nat /\ Len(q) <= N
  BY TrailLength
<1>2. Walk(n) = CHOOSE h : Follows(h)
  BY DEF Walk
<1>3. q \in [1 .. Len(q) -> Nodes]
  BY DEF Trail
<1> HIDE DEF N
<1>4. Follows(g)
  <2>1. ASSUME NEW k \in 0 .. N, k # 0
        PROVE  g[k] = after[g[k - 1]]
    <3>1. k - 1 \in 0 .. N /\ k \in 1 .. N
      BY <1>1, <2>1
    <3>2. CASE k < Len(q)
      <4>1. g[k] = q[k + 1] /\ g[k - 1] = q[k] /\ q[k] \in Nodes /\ next[q[k]] = q[k + 1]
        BY <1>1, <1>3, <3>1, <3>2 DEF Trail
      <4> HIDE DEF g
      <4> QED BY <4>1, <3>1, QueueAssumption
    <3>3. CASE k = Len(q)
      <4>1. g[k] = NoNode /\ g[k - 1] = q[Len(q)] /\ q[k] \in Nodes /\ next[q[k]] = NoNode
        BY <1>1, <1>3, <3>1, <3>3 DEF Trail
      <4> HIDE DEF g
      <4> QED BY <4>1, <3>3, QueueAssumption
    <3>4. CASE k > Len(q)
      <4>1. g[k] = NoNode /\ g[k - 1] = NoNode
        BY <1>1, <3>1, <3>4
      <4> HIDE DEF g
      <4> QED BY <4>1
    <3> QED BY <1>1, <3>1, <3>2, <3>3, <3>4
  <2>2. g[0] = n /\ DOMAIN g = 0 .. N
    BY <1>1, <1>3 DEF Trail
  <2>3. g = [k \in 0 .. N |-> g[k]]
    OBVIOUS
  <2> HIDE DEF g, after
  <2> QED BY <2>1, <2>2, <2>3
<1> HIDE DEF Follows, g
<1>5. Follows(Walk(n))
  BY <1>2, <1>4
<1>6. \A k \in 0 .. N : Walk(n)[k] = g[k]
  <2> DEFINE w == Walk(n)
             S == {k \in Nat : k \in 0 .. N => w[k] = g[k]}
  <2>1. w = [k \in 0 .. N |-> IF k = 0 THEN n ELSE after[w[k - 1]]]
    BY <1>5 DEF Follows
  <2>2. g = [k \in 0 .. N |-> IF k = 0 THEN n ELSE after[g[k - 1]]]
    BY <1>4 DEF Follows
  <2> HIDE DEF w, after
  <2>3. 0 \in S
    BY <1>1, <2>1, <2>2
  <2>4. ASSUME NEW k \in Nat, k \in S
        PROVE  k + 1 \in S
    <3>1. CASE k + 1 \in 0 .. N
      <4>1. k \in 0 .. N /\ k + 1 # 0 /\ (k + 1) - 1 = k
        BY <1>1, <3>1
      <4>2. w[k + 1] = after[w[k]] /\ g[k + 1] = after[g[k]]
        BY <2>1, <2>2, <3>1, <4>1
      <4> QED BY <2>4, <3>1, <4>1, <4>2
    <3>2. CASE k + 1 \notin 0 .. N
      BY <3>2
    <3> QED BY <3>1, <3>2
  <2> HIDE DEF S
  <2>5. Nat \subseteq S
    BY <2>3, <2>4, SetInduction
  <2> QED BY <1>1, <2>5 DEF S, w
<1>7. Walk(n) = [k \in 0 .. N |-> Walk(n)[k]]
  BY <1>5 DEF Follows
<1>8. \A k \in 0 .. N : g[k] = IF k < Len(q) THEN q[k + 1] ELSE NoNode
  BY DEF g
<1> QED BY <1>6, <1>7, <1>8 DEF N

\* A list without a cycle is what Chain finds.
LEMMA ChainOfTrail ==
    ASSUME NEW n, NEW q, Trail(next, n, q)
    PROVE  Chain(n) = q
<1>1. Len(q) \in Nat /\ q \in [1 .. Len(q) -> Nodes] /\ q \in Seq(Nodes)
  BY DEF Trail
<1>2. CASE n = NoNode
  <2>1. Len(q) = 0
    BY <1>1, <1>2, QueueAssumption DEF Trail
  <2>2. q = <<>>
    BY <1>1, <2>1
  <2> QED BY <1>2, <2>2 DEF Chain
<1>3. CASE n # NoNode
  <2>1. Len(q) > 0 /\ q[1] = n
    BY <1>1, <1>3 DEF Trail
  <2>2. CASE next[n] = NoNode
    <3>1. Len(q) = 1
      <4>1. Len(q) > 1 => next[q[1]] = q[2] /\ q[2] \in Nodes
        BY <1>1 DEF Trail
      <4> QED BY <1>1, <2>1, <2>2, <4>1, QueueAssumption
    <3>2. q = <<n>>
      BY <1>1, <2>1, <3>1
    <3> QED BY <1>3, <2>2, <3>2 DEF Chain
  <2>3. CASE next[n] # NoNode
    <3> DEFINE w == Walk(n)
               steps == {k \in 0 .. Cardinality(Nodes) : w[k] # NoNode}
    <3>2. Chain(n) = [k \in 1 .. Cardinality(steps) |-> w[k - 1]]
      BY <1>3, <2>3 DEF Chain
    <3>3. w = [k \in 0 .. Cardinality(Nodes) |-> IF k < Len(q) THEN q[k + 1] ELSE NoNode]
      BY WalkOfTrail
    <3>4. Cardinality(Nodes) \in Nat /\ Len(q) <= Cardinality(Nodes)
      BY TrailLength
    <3> HIDE DEF w
    <3>5. steps = 0 .. Len(q) - 1
      BY <1>1, <3>3, <3>4, QueueAssumption
    <3>6. Cardinality(steps) = Len(q)
      <4>1. 0 \in Int /\ Len(q) - 1 \in Int
        BY <1>1
      <4>2. Cardinality(0 .. Len(q) - 1) = IF 0 > Len(q) - 1 THEN 0 ELSE Len(q) - 1 - 0 + 1
        BY <4>1, FS_Interval
      <4> HIDE DEF steps
      <4> QED BY <1>1, <2>1, <3>5, <4>2
    <3>7. \A k \in 1 .. Len(q) : w[k - 1] = q[k]
      BY <1>1, <3>3, <3>4
    <3>8. q = [k \in 1 .. Len(q) |-> q[k]]
      BY <1>1
    <3> HIDE DEF steps
    <3> QED BY <3>2, <3>6, <3>7, <3>8
  <2> QED BY <2>2, <2>3
<1> QED BY <1>2, <1>3

\* The queue is such a list, and holds the threads behind its first node.
LEMMA ContentsOfPath ==
    ASSUME NEW q, Path(q)
    PROVE  Contents = [i \in 1 .. Len(q) - 1 |-> data[q[i + 1]]]
<1>1. Trail(next, head, q)
  BY DEF Path, Trail
<1>2. Chain(head) = q
  BY <1>1, ChainOfTrail
<1> QED BY <1>2 DEF Contents

-----------------------------------------------------------------------------
(* What a step may do to the queue's nodes and threads.                    *)

\* Where an executor comes from, and what it takes along.
LEMMA Moves ==
    ASSUME QueueTypeOK, NEW e \in Execs, Step(e)
    PROVE  /\ pc'[e] \in PrivateLabels =>
                  EnqueueStart(e) \/ (pc[e] \in PrivateLabels /\ loc'[e].node = loc[e].node)
           /\ pc'[e] \in EmptyHanded =>
                  pc[e] \in EmptyHanded \/ EnqueueCas(e) \/ DequeueDone(e)
           /\ pc'[e] = "d_data" => DequeueCas(e) /\ loc' = loc /\ head = loc[e].head
           /\ pc[e] = "d_data" => DequeueData(e)
<1> USE DEF PrivateLabels, EmptyHanded, QueueTypeOK, LocType, Goto, Local, Hazard,
        Retry, Onward, NoLoc
<1>1. CASE EnqueueStart(e)  BY <1>1 DEF EnqueueStart
<1>2. CASE EnqueueTail(e)  BY <1>2 DEF EnqueueTail
<1>3. CASE EnqueueHazard(e)  BY <1>3 DEF EnqueueHazard
<1>4. CASE EnqueueCheck(e)  BY <1>4 DEF EnqueueCheck
<1>5. CASE EnqueueNext(e)  BY <1>5 DEF EnqueueNext
<1>6. CASE EnqueueAgain(e)  BY <1>6 DEF EnqueueAgain
<1>7. CASE EnqueueHelp(e)  BY <1>7 DEF EnqueueHelp
<1>8. CASE EnqueueCas(e)  BY <1>8 DEF EnqueueCas
<1>9. CASE EnqueueSwing(e)  BY <1>9 DEF EnqueueSwing
<1>10. CASE EnqueueDone(e)  BY <1>10 DEF EnqueueDone
<1>11. CASE DequeueHead(e)  BY <1>11 DEF DequeueHead
<1>12. CASE DequeueHazard(e)  BY <1>12 DEF DequeueHazard
<1>13. CASE DequeueCheck(e)  BY <1>13 DEF DequeueCheck
<1>14. CASE DequeueTail(e)  BY <1>14 DEF DequeueTail
<1>15. CASE DequeueNext(e)  BY <1>15 DEF DequeueNext
<1>16. CASE DequeueHazardNext(e)  BY <1>16 DEF DequeueHazardNext
<1>17. CASE DequeueAgain(e)  BY <1>17 DEF DequeueAgain
<1>18. CASE DequeueHelp(e)  BY <1>18 DEF DequeueHelp
<1>19. CASE DequeueCas(e)  BY <1>19 DEF DequeueCas
<1>20. CASE DequeueData(e)  BY <1>20 DEF DequeueData
<1>21. CASE DequeueUnhazard(e)  BY <1>21 DEF DequeueUnhazard
<1>22. CASE DequeueEmpty(e)  BY <1>22 DEF DequeueEmpty
<1>23. CASE DequeueDone(e)  BY <1>23 DEF DequeueDone
<1>24. CASE Retire(e)  BY <1>24 DEF Retire
<1>25. CASE Scan(e)  BY <1>25 DEF Scan
<1>26. CASE ScanStart(e)  BY <1>26 DEF ScanStart
<1>27. CASE ScanNext(e)  BY <1>27 DEF ScanNext
<1>28. CASE ScanSort(e)  BY <1>28 DEF ScanSort
<1>29. QED
  BY <1>1, <1>2, <1>3, <1>4, <1>5, <1>6, <1>7, <1>8, <1>9, <1>10, <1>11, <1>12,
     <1>13, <1>14, <1>15, <1>16, <1>17, <1>18, <1>19, <1>20, <1>21, <1>22, <1>23,
     <1>24, <1>25, <1>26, <1>27, <1>28 DEF Step

\* Five kinds of steps touch threads, four touch links and three an end.
LEMMA Untouched ==
    ASSUME NEW e \in Execs, Step(e)
    PROVE  /\ \/ EnqueueStart(e) \/ EnqueueCas(e) \/ DequeueData(e) \/ DequeueDone(e)
              \/ ScanSort(e) \/ UNCHANGED <<data, val, pool>>
           /\ \/ EnqueueStart(e) \/ EnqueueCas(e) \/ Retire(e) \/ ScanSort(e)
              \/ UNCHANGED next
           /\ DequeueCas(e) \/ UNCHANGED head
           /\ EnqueueHelp(e) \/ EnqueueSwing(e) \/ DequeueHelp(e) \/ UNCHANGED tail
<1> USE DEF queueVars, callVars
<1>1. CASE EnqueueStart(e)  BY <1>1 DEF EnqueueStart
<1>2. CASE EnqueueTail(e)  BY <1>2 DEF EnqueueTail
<1>3. CASE EnqueueHazard(e)  BY <1>3 DEF EnqueueHazard
<1>4. CASE EnqueueCheck(e)  BY <1>4 DEF EnqueueCheck
<1>5. CASE EnqueueNext(e)  BY <1>5 DEF EnqueueNext
<1>6. CASE EnqueueAgain(e)  BY <1>6 DEF EnqueueAgain
<1>7. CASE EnqueueHelp(e)  BY <1>7 DEF EnqueueHelp
<1>8. CASE EnqueueCas(e)  BY <1>8 DEF EnqueueCas
<1>9. CASE EnqueueSwing(e)  BY <1>9 DEF EnqueueSwing
<1>10. CASE EnqueueDone(e)  BY <1>10 DEF EnqueueDone
<1>11. CASE DequeueHead(e)  BY <1>11 DEF DequeueHead
<1>12. CASE DequeueHazard(e)  BY <1>12 DEF DequeueHazard
<1>13. CASE DequeueCheck(e)  BY <1>13 DEF DequeueCheck
<1>14. CASE DequeueTail(e)  BY <1>14 DEF DequeueTail
<1>15. CASE DequeueNext(e)  BY <1>15 DEF DequeueNext
<1>16. CASE DequeueHazardNext(e)  BY <1>16 DEF DequeueHazardNext
<1>17. CASE DequeueAgain(e)  BY <1>17 DEF DequeueAgain
<1>18. CASE DequeueHelp(e)  BY <1>18 DEF DequeueHelp
<1>19. CASE DequeueCas(e)  BY <1>19 DEF DequeueCas
<1>20. CASE DequeueData(e)  BY <1>20 DEF DequeueData
<1>21. CASE DequeueUnhazard(e)  BY <1>21 DEF DequeueUnhazard
<1>22. CASE DequeueEmpty(e)  BY <1>22 DEF DequeueEmpty
<1>23. CASE DequeueDone(e)  BY <1>23 DEF DequeueDone
<1>24. CASE Retire(e)  BY <1>24 DEF Retire
<1>25. CASE Scan(e)  BY <1>25 DEF Scan
<1>26. CASE ScanStart(e)  BY <1>26 DEF ScanStart
<1>27. CASE ScanNext(e)  BY <1>27 DEF ScanNext
<1>28. CASE ScanSort(e)  BY <1>28 DEF ScanSort
<1>29. QED
  BY <1>1, <1>2, <1>3, <1>4, <1>5, <1>6, <1>7, <1>8, <1>9, <1>10, <1>11, <1>12,
     <1>13, <1>14, <1>15, <1>16, <1>17, <1>18, <1>19, <1>20, <1>21, <1>22, <1>23,
     <1>24, <1>25, <1>26, <1>27, <1>28 DEF Step

\* A free node is filled in and a retired one freed; the links of the nodes in
\* the queue change only where a node is linked to the last one.
LEMMA NodesKept ==
    ASSUME QueueTypeOK, ValuesOK, NEW e \in Execs, Step(e),
           NEW kind, NEW by, PlacesOK(kind, by), NEW n \in Nodes
    PROVE  /\ data'[n] # data[n] =>
                  \/ kind[n] = "free" /\ n \in free /\ EnqueueStart(e)
                  \/ /\ kind[n] = "retired" /\ by[n] = e
                     /\ pc[e] \in SortLabels /\ n \notin scan[e].ptab
           /\ kind[n] = "queue" /\ next'[n] # next[n] => EnqueueCas(e)
<1>1. CASE EnqueueStart(e)
  <2>1. PICK m \in free : \E t : /\ data' = [data EXCEPT ![m] = t]
                                 /\ next' = [next EXCEPT ![m] = NoNode]
    BY <1>1 DEF EnqueueStart
  <2>2. n # m => data'[n] = data[n] /\ next'[n] = next[n]
    BY <2>1 DEF QueueTypeOK, ValuesOK
  <2> QED BY <1>1, <2>1, <2>2 DEF PlacesOK, Shared
<1>2. CASE Retire(e)
  <2>1. kind[loc[e].head] = "hand"
    BY <1>2 DEF Retire, PlacesOK, Possesses, HandLabels
  <2> QED BY <1>2, <2>1 DEF Retire, QueueTypeOK
<1>3. CASE ScanSort(e)
  <2>1. kind[loc[e].curr] = "retired" /\ by[loc[e].curr] = e
    BY <1>3 DEF ScanSort, PlacesOK, Possesses, SortLabels
  <2>2. /\ \A m \in Nodes \ {loc[e].curr} : data'[m] = data[m] /\ next'[m] = next[m]
        /\ data' = data \/ loc[e].curr \notin scan[e].ptab
    BY <1>3 DEF ScanSort, QueueTypeOK, ValuesOK
  <2> QED BY <1>3, <2>1, <2>2 DEF ScanSort, SortLabels
<1>4. CASE UNCHANGED <<data, next>> \/ EnqueueCas(e)
  BY <1>4 DEF EnqueueCas
<1>5. CASE UNCHANGED next /\ (DequeueData(e) \/ DequeueDone(e))
  BY <1>5 DEF DequeueData, DequeueDone, queueVars
<1> QED BY <1>1, <1>2, <1>3, <1>4, <1>5, Untouched

-----------------------------------------------------------------------------
(* The steps of the queue.                                                 *)

\* The CAS of an enqueue that links its node to the last one of the queue.
Links(e, q) ==
    /\ EnqueueCas(e)
    /\ next[loc[e].tail] = NoNode
    /\ loc[e].tail \in NodesOf(q)

\* A CAS that succeeds otherwise is a late one.
LEMMA LinksOrLate ==
    ASSUME NEW e, NEW q, Path(q)
    PROVE  LateLink(e) <=> EnqueueCas(e) /\ next[loc[e].tail] = NoNode /\ ~Links(e, q)
<1>1. Chain(head) = q
  <2>1. Trail(next, head, q)
    BY DEF Path, Trail
  <2> QED BY <2>1, ChainOfTrail
<1>2. OnChain(head) = NodesOf(q)
  BY <1>1 DEF OnChain, NodesOf
<1> QED BY <1>2 DEF LateLink, Links

\* Every node of the path is in the queue.
LEMMA PathInQueue ==
    ASSUME QueueTypeOK, NEW kind, NEW by, PlacesOK(kind, by), NEW q, Path(q)
    PROVE  \A i \in 1 .. Len(q) : q[i] \in Nodes /\ kind[q[i]] = "queue"
<1> DEFINE S == {i \in Nat : i < Len(q) => kind[q[i + 1]] = "queue"}
<1>1. Len(q) \in Nat /\ Len(q) > 0 /\ q \in [1 .. Len(q) -> Nodes]
  BY DEF Path
<1>2. Shared(kind, by)
  BY DEF PlacesOK
<1>3. 0 \in S
  BY <1>1, <1>2 DEF Path, Shared
<1>4. ASSUME NEW i \in Nat, i \in S
      PROVE  i + 1 \in S
  <2>1. CASE i + 1 < Len(q)
    <3>1. i + 1 \in 1 .. Len(q) - 1 /\ (i + 1) + 1 \in 1 .. Len(q)
      BY <1>1, <2>1
    <3>2. next[q[i + 1]] = q[(i + 1) + 1] /\ q[i + 1] \in Nodes /\ q[(i + 1) + 1] \in Nodes
      BY <1>1, <3>1 DEF Path
    <3>3. kind[q[i + 1]] = "queue"
      BY <1>1, <1>4, <2>1
    <3>4. kind[q[(i + 1) + 1]] = "queue"
      BY <1>2, <3>2, <3>3, QueueAssumption DEF Shared, Closed
    <3> QED BY <3>4
  <2>2. CASE ~(i + 1 < Len(q))
    BY <2>2
  <2> QED BY <2>1, <2>2
<1> HIDE DEF S
<1>5. Nat \subseteq S
  BY <1>3, <1>4, SetInduction
<1>6. ASSUME NEW i \in 1 .. Len(q)
      PROVE  kind[q[i]] = "queue"
  <2>1. i - 1 \in Nat /\ i - 1 < Len(q) /\ (i - 1) + 1 = i
    BY <1>1
  <2> QED BY <1>5, <2>1 DEF S
<1> QED BY <1>1, <1>6

\* Most steps leave the queue as it is, a late link among them.
LEMMA QueueKept ==
    ASSUME QueueTypeOK, ValuesOK, NEW e \in Execs, Step(e),
           NEW kind, NEW by, PlacesOK(kind, by), NEW q, Path(q),
           ~Links(e, q), head' = head
    PROVE  Path(q)'
<1>0. Len(q) \in Nat /\ Len(q) > 0 /\ q \in [1 .. Len(q) -> Nodes] /\ DOMAIN q = 1 .. Len(q)
  BY DEF Path
<1>1. ASSUME NEW i \in 1 .. Len(q)
      PROVE  next'[q[i]] = next[q[i]]
  <2>1. q[i] \in Nodes /\ kind[q[i]] = "queue" /\ q[i] \in NodesOf(q)
    BY <1>0, PathInQueue DEF NodesOf
  <2>2. CASE EnqueueCas(e)
    <3>1. CASE next[loc[e].tail] = NoNode
      <4>1. loc[e].tail # q[i]
        BY <2>1, <2>2, <3>1 DEF Links
      <4>2. next' = [next EXCEPT ![loc[e].tail] = loc[e].node]
        BY <2>2, <3>1 DEF EnqueueCas
      <4> QED BY <2>1, <4>1, <4>2 DEF QueueTypeOK
    <3>2. CASE next[loc[e].tail] # NoNode
      BY <2>2, <3>2 DEF EnqueueCas
    <3> QED BY <3>1, <3>2
  <2>3. CASE ~EnqueueCas(e)
    BY <2>1, <2>3, NodesKept
  <2> QED BY <2>2, <2>3
<1>2. \A i \in 1 .. Len(q) - 1 : next'[q[i]] = q[i + 1]
  BY <1>0, <1>1 DEF Path
<1>3. next'[q[Len(q)]] = NoNode
  BY <1>0, <1>1 DEF Path
<1> QED BY <1>2, <1>3 DEF Path

\* The enqueuer's CAS finds the last node, the only one of the queue whose
\* successor is NULL, and appends its own.
LEMMA QueueGrows ==
    ASSUME QueueTypeOK, NEW e \in Execs, Step(e),
           NEW kind, NEW by, PlacesOK(kind, by), NEW q, Path(q), Links(e, q),
           NEW n, n = loc[e].node
    PROVE  n \in Nodes /\ kind[n] = "private" /\ Path(Append(q, n))'
<1>1. Len(q) \in Nat /\ Len(q) > 0 /\ q \in [1 .. Len(q) -> Nodes] /\ q \in Seq(Nodes)
  BY DEF Path
<1>2. /\ pc[e] = "e_cas" /\ loc[e].tail = q[Len(q)]
      /\ next[q[Len(q)]] = NoNode /\ q[Len(q)] \in Nodes
  <2>1. PICK i \in 1 .. Len(q) : loc[e].tail = q[i]
    BY <1>1 DEF Links, NodesOf
  <2>2. CASE i = Len(q)
    BY <1>1, <2>1, <2>2 DEF Links, EnqueueCas, Path
  <2>3. CASE i # Len(q)
    <3>1. i \in 1 .. Len(q) - 1 /\ i + 1 \in 1 .. Len(q)
      <4>1. Len(q) \in Nat
        BY <1>1
      <4> QED BY <2>3, <4>1
    <3>2. next[q[i]] = q[i + 1] /\ q[i + 1] # NoNode
      BY <1>1, <3>1, QueueAssumption DEF Path
    <3> QED BY <2>1, <3>2 DEF Links
  <2> QED BY <2>2, <2>3
<1>3. n \in Nodes /\ kind[n] = "private" /\ next[n] = NoNode
  BY <1>2 DEF PlacesOK, Possesses, PrivateLabels
<1>4. \A i \in 1 .. Len(q) : q[i] # n
  BY <1>3, PathInQueue
<1>5. next' = [next EXCEPT ![q[Len(q)]] = n] /\ UNCHANGED head
  BY <1>2 DEF Links, EnqueueCas
<1> DEFINE r == Append(q, n)
<1>6. /\ r \in Seq(Nodes) /\ Len(r) = Len(q) + 1
      /\ \A i \in 1 .. Len(q) : r[i] = q[i]
      /\ r[Len(q) + 1] = n
  BY <1>1, <1>3
<1> HIDE DEF r
<1>7. next'[q[Len(q)]] = n /\ \A m \in Nodes \ {q[Len(q)]} : next'[m] = next[m]
  BY <1>2, <1>5 DEF QueueTypeOK
<1>8. Path(r)'
  <2>1. \A i \in 1 .. Len(r) - 1 : next'[r[i]] = r[i + 1]
    <3> SUFFICES ASSUME NEW i \in 1 .. Len(q)
                 PROVE  next'[r[i]] = r[i + 1]
      BY <1>1, <1>6
    <3>1. CASE i = Len(q)
      BY <1>1, <1>6, <1>7, <3>1
    <3>2. CASE i # Len(q)
      <4>1. i \in 1 .. Len(q) - 1 /\ i + 1 \in 1 .. Len(q) /\ Len(q) \in 1 .. Len(q)
        <5>1. Len(q) \in Nat
          BY <1>1
        <5> QED BY <3>2, <5>1
      <4>2. next[q[i]] = q[i + 1] /\ q[i] # q[Len(q)]
        BY <3>2, <4>1 DEF Path
      <4>3. r[i] = q[i] /\ r[i + 1] = q[i + 1] /\ q[i] \in Nodes
        BY <1>1, <1>6, <4>1
      <4> QED BY <1>7, <4>2, <4>3
    <3> QED BY <3>1, <3>2
  <2>2. next'[r[Len(r)]] = NoNode
    <3>1. n # q[Len(q)]
      BY <1>1, <1>4
    <3> QED BY <1>3, <1>6, <1>7, <3>1
  <2>3. ASSUME NEW i \in 1 .. Len(r), NEW j \in 1 .. Len(r), r[i] = r[j]
        PROVE  i = j
    <3>1. (i \in 1 .. Len(q) \/ i = Len(q) + 1) /\ (j \in 1 .. Len(q) \/ j = Len(q) + 1)
      BY <1>1, <1>6
    <3> QED BY <1>4, <1>6, <2>3, <3>1 DEF Path
  <2>4. r[1] = head' /\ Len(r) > 0 /\ r \in Seq(Nodes)
    BY <1>1, <1>5, <1>6 DEF Path
  <2>5. \A i, j \in 1 .. Len(r) : r[i] = r[j] => i = j
    BY <2>3
  <2> QED BY ONLY <2>1, <2>2, <2>4, <2>5 DEF Path
<1> QED BY <1>3, <1>8 DEF r

\* A dequeuer's CAS takes the dummy node off: its successor is the new one.
LEMMA QueueShrinks ==
    ASSUME QueueTypeOK, NEW e \in Execs, Step(e), DequeueCas(e),
           head = loc[e].head,
           NEW kind, NEW by, PlacesOK(kind, by), NEW q, Path(q)
    PROVE  /\ Len(q) > 1 /\ loc[e].next = q[2] /\ loc' = loc
           /\ Path(Tail(q))'
<1>1. Len(q) \in Nat /\ Len(q) > 0 /\ q \in [1 .. Len(q) -> Nodes] /\ q \in Seq(Nodes)
  BY DEF Path
<1>2. pc[e] = "d_cas" /\ kind[head] = "queue" /\ loc[e].next \in Nodes
  BY DEF DequeueCas, PlacesOK, Shared, Protects, Guarded, SuccessorLabels
<1>3. tail # head /\ next[head] = loc[e].next /\ next[head] # NoNode
  BY <1>2, QueueAssumption DEF PlacesOK, Remembers, HeadLabels
<1>4. Len(q) > 1 /\ loc[e].next = q[2]
  <2>1. Len(q) # 1
    BY <1>3 DEF Path
  <2>2. 1 \in 1 .. Len(q) - 1
    BY <1>1, <2>1
  <2> QED BY <1>1, <1>3, <2>1, <2>2 DEF Path
<1>5. /\ head' = q[2] /\ loc' = loc /\ pc'[e] = "d_data" /\ UNCHANGED <<tail, next>>
  BY <1>4 DEF DequeueCas, Onward, Retry, Goto, QueueTypeOK
<1> DEFINE r == Tail(q)
<1>6. /\ r \in Seq(Nodes) /\ Len(r) = Len(q) - 1
      /\ \A i \in 1 .. Len(q) - 1 : r[i] = q[i + 1]
  BY <1>1, <1>4
<1> HIDE DEF r
<1>7. r[Len(r)] = q[Len(q)] /\ r[1] = q[2] /\ Len(r) > 0
  BY <1>1, <1>4, <1>6
<1>8. Path(r)'
  <2>1. \A i \in 1 .. Len(r) - 1 : next'[r[i]] = r[i + 1]
    <3> SUFFICES ASSUME NEW i \in 1 .. Len(r) - 1
                 PROVE  next'[r[i]] = r[i + 1]
      OBVIOUS
    <3>1. /\ i \in 1 .. Len(q) - 1 /\ i + 1 \in 1 .. Len(q) - 1
      BY <1>1, <1>6
    <3>2. next[q[i + 1]] = q[(i + 1) + 1]
      BY <3>1 DEF Path
    <3> QED BY <1>5, <1>6, <3>1, <3>2
  <2>2. next'[r[Len(r)]] = NoNode
    BY <1>5, <1>7 DEF Path
  <2>3. ASSUME NEW i \in 1 .. Len(r), NEW j \in 1 .. Len(r), r[i] = r[j]
        PROVE  i = j
    <3>1. /\ i \in Nat /\ j \in Nat
          /\ i \in 1 .. Len(q) - 1 /\ j \in 1 .. Len(q) - 1
          /\ i + 1 \in 1 .. Len(q) /\ j + 1 \in 1 .. Len(q)
      BY <1>1, <1>6
    <3>2. q[i + 1] = q[j + 1]
      BY <1>6, <2>3, <3>1
    <3>3. i + 1 = j + 1
      BY <3>1, <3>2 DEF Path
    <3> QED BY <3>1, <3>3
  <2> QED BY <1>5, <1>6, <1>7, <2>1, <2>2, <2>3 DEF Path
<1> QED BY <1>4, <1>5, <1>8 DEF r

\* The threads in the executors' hands and in their nodes.
LEMMA ValuesStep ==
    ASSUME QueueTypeOK, ValuesOK, NEW e \in Execs, Step(e),
           NEW kind, NEW by, PlacesOK(kind, by)
    PROVE  ValuesOK' /\ \A f \in Execs \ {e} : val'[f] = val[f]
<1>1. CASE EnqueueStart(e)
  <2>1. PICK t \in pool, n \in free :
            /\ pool' = pool \ {t} /\ val' = [val EXCEPT ![e] = t]
            /\ data' = [data EXCEPT ![n] = t] /\ loc' = [loc EXCEPT ![e]["node"] = n]
            /\ pc' = [pc EXCEPT ![e] = "e_tail"]
    BY <1>1 DEF EnqueueStart, Local, Goto
  <2>2. n \in Nodes /\ t \in Threads /\ kind[n] = "free"
    BY <2>1 DEF QueueTypeOK, ValuesOK, PlacesOK, Shared
  <2>3. /\ data' \in [Nodes -> Threads \cup {NoThread}] /\ val' \in [Execs -> Threads \cup {NoThread}]
        /\ pool' \subseteq Threads
    BY <2>1, <2>2 DEF ValuesOK
  <2>4. val'[e] = t /\ data'[n] = t /\ loc'[e].node = n /\ pc'[e] = "e_tail"
    BY <2>1, <2>2 DEF ValuesOK, QueueTypeOK, LocType
  <2>5. ASSUME NEW f \in Execs \ {e}
        PROVE  /\ val'[f] = val[f] /\ pc'[f] = pc[f] /\ loc'[f] = loc[f]
               /\ pc[f] \in PrivateLabels => data'[loc[f].node] = data[loc[f].node]
    <3>1. val'[f] = val[f] /\ pc'[f] = pc[f] /\ loc'[f] = loc[f]
      BY <2>1, Frame DEF ValuesOK
    <3>2. pc[f] \in PrivateLabels => loc[f].node \in Nodes /\ loc[f].node # n
      BY <2>2 DEF PlacesOK, Possesses
    <3> QED BY <2>1, <3>1, <3>2 DEF ValuesOK
  <2> QED BY <2>2, <2>3, <2>4, <2>5 DEF ValuesOK, EmptyHanded
<1>2. CASE ~EnqueueStart(e)
  <2>1. /\ data' \in [Nodes -> Threads \cup {NoThread}]
        /\ val' \in [Execs -> Threads \cup {NoThread}]
        /\ pool' \subseteq Threads
        /\ \A f \in Execs \ {e} : val'[f] = val[f]
    <3>1. CASE UNCHANGED <<data, val, pool>>
      BY <3>1 DEF ValuesOK
    <3>2. CASE EnqueueCas(e)
      BY <3>2 DEF EnqueueCas, ValuesOK
    <3>3. CASE DequeueData(e)
      <4>1. loc[e].next \in Nodes
        BY <3>3 DEF DequeueData, PlacesOK, Protects, Guarded, SuccessorLabels
      <4> QED BY <3>3, <4>1 DEF DequeueData, ValuesOK, queueVars
    <3>4. CASE DequeueDone(e)
      BY <3>4 DEF DequeueDone, ValuesOK, queueVars
    <3>5. CASE ScanSort(e)
      BY <3>5 DEF ScanSort, ValuesOK, callVars
    <3> QED BY <1>2, <3>1, <3>2, <3>3, <3>4, <3>5, Untouched
  <2>2. ASSUME NEW f \in Execs, pc[f] \in PrivateLabels
        PROVE  data'[loc[f].node] = data[loc[f].node] /\ loc[f].node \in Nodes
    <3>1. loc[f].node \in Nodes /\ kind[loc[f].node] = "private"
      BY <2>2 DEF PlacesOK, Possesses
    <3> QED BY <3>1, NodesKept
  <2>3. pc'[e] \in PrivateLabels => val'[e] \in Threads /\ data'[loc'[e].node] = val'[e]
    <3>1. pc'[e] \in PrivateLabels => pc[e] \in PrivateLabels /\ loc'[e].node = loc[e].node
      BY <1>2, Moves
    <3>2. pc'[e] \in PrivateLabels => val'[e] = val[e]
      <4>1. CASE EnqueueCas(e)
        BY <4>1 DEF EnqueueCas, Onward, Goto, QueueTypeOK, PrivateLabels
      <4>2. CASE DequeueData(e) \/ DequeueDone(e) \/ ScanSort(e)
        BY <3>1, <4>2 DEF DequeueData, DequeueDone, ScanSort, PrivateLabels
      <4> QED BY <1>2, <4>1, <4>2, Untouched
    <3> QED BY <2>2, <3>1, <3>2 DEF ValuesOK
  <2>4. pc'[e] \in EmptyHanded => val'[e] = NoThread
    <3>1. CASE EnqueueCas(e)
      BY <3>1 DEF EnqueueCas, Retry, Goto, QueueTypeOK, EmptyHanded, ValuesOK
    <3>2. CASE DequeueData(e)
      BY <3>2 DEF DequeueData, Goto, QueueTypeOK, EmptyHanded
    <3>3. CASE DequeueDone(e)
      BY <3>3 DEF DequeueDone, ValuesOK
    <3>4. CASE ScanSort(e)
      BY <3>4 DEF ScanSort, Goto, QueueTypeOK, EmptyHanded
    <3>5. CASE UNCHANGED val
      BY <3>1, <3>3, <3>5, Moves DEF ValuesOK
    <3> QED BY <1>2, <3>1, <3>2, <3>3, <3>4, <3>5, Untouched
  <2>5. \A f \in Execs \ {e} : pc'[f] = pc[f] /\ loc'[f] = loc[f]
    BY Frame
  <2> QED BY <2>1, <2>2, <2>3, <2>4, <2>5 DEF ValuesOK
<1> QED BY <1>1, <1>2

-----------------------------------------------------------------------------
(* The invariant.                                                          *)

\* The sentinel alone is the empty queue.
LEMMA FifoInvInit ==
    ASSUME Init
    PROVE  FifoInv
<1>1. HazardInv
  BY HazardInit
<1>2. ValuesOK
  BY QueueAssumption DEF Init, ValuesOK, PrivateLabels
<1> DEFINE q == <<Sentinel>>
<1>3. q \in Seq(Nodes) /\ Len(q) = 1 /\ q[1] = Sentinel
  BY QueueAssumption
<1> HIDE DEF q
<1>4. Path(q)
  <2>1. \A i, j \in 1 .. Len(q) : i = j
    BY <1>3
  <2>2. \A i \in 1 .. Len(q) - 1 : FALSE
    BY <1>3
  <2> QED BY <1>3, <2>1, <2>2, QueueAssumption DEF Init, Path
<1> QED BY <1>1, <1>2, <1>4 DEF FifoInv

\* The invariant is inductive.
LEMMA FifoInvStep ==
    ASSUME FifoInv, [Next]_vars
    PROVE  FifoInv'
<1>1. QueueTypeOK /\ HazardInv /\ ValuesOK
  BY DEF FifoInv, HazardInv
<1>2. HazardInv'
  BY <1>1, HazardStep
<1>3. PICK kind \in [Nodes -> Kinds], by \in [Nodes -> Execs] : PlacesOK(kind, by)
  BY <1>1 DEF HazardInv
<1>4. PICK q : Path(q)
  BY DEF FifoInv
<1>5. CASE UNCHANGED vars
  <2>1. ValuesOK' /\ Path(q)'
    BY <1>1, <1>4, <1>5 DEF vars, ValuesOK, Path
  <2> QED BY <1>2, <2>1 DEF FifoInv
<1>6. ASSUME NEW e \in Execs, Step(e)
      PROVE  FifoInv'
  <2>1. ValuesOK'
    BY <1>1, <1>3, <1>6, ValuesStep
  <2>2. \E r : Path(r)'
    <3>1. CASE Links(e, q)
      <4>1. PICK n : n = loc[e].node
        OBVIOUS
      <4>2. Path(Append(q, n))'
        BY <1>1, <1>3, <1>4, <1>6, <3>1, <4>1, QueueGrows
      <4> QED BY <4>2
    <3>2. CASE DequeueCas(e) /\ head = loc[e].head
      <4>1. Path(Tail(q))'
        BY <1>1, <1>3, <1>4, <1>6, <3>2, QueueShrinks
      <4> QED BY <4>1
    <3>3. CASE ~Links(e, q) /\ ~(DequeueCas(e) /\ head = loc[e].head)
      <4>1. head' = head
        BY <1>6, <3>3, Untouched DEF DequeueCas
      <4>2. Path(q)'
        BY <1>1, <1>3, <1>4, <1>6, <3>3, <4>1, QueueKept
      <4> QED BY <4>2
    <3> QED BY <3>1, <3>2, <3>3
  <2> QED BY <1>2, <2>1, <2>2 DEF FifoInv
<1> QED BY <1>5, <1>6 DEF Next


-----------------------------------------------------------------------------
(* The queue implements the FIFO.                                          *)

\* What the path holds, in the state before a step and in the one after it.
ContentsOK == \A q : Path(q) => Contents = [i \in 1 .. Len(q) - 1 |-> data[q[i + 1]]]

\* The threads of the queue are those of the nodes behind the dummy node.
LEMMA ContentsRight == ContentsOK
BY ContentsOfPath DEF ContentsOK

\* The thread that e is about to enqueue or has dequeued; between the CAS of a
\* dequeue and the read of lfn_data it is still in its node.
Held(e) == IF pc[e] = "d_data" THEN data[loc[e].next] ELSE val[e]

\* What the FIFO's variables are before and after a step.
AllHeld == [e \in Execs |-> Held(e)]

\* No step takes another executor's thread: not even the one that is still in
\* a node, because its hazard pointer keeps the node from being freed.
LEMMA HeldOther ==
    ASSUME QueueTypeOK, ValuesOK, NEW e \in Execs, Step(e),
           NEW kind, NEW by, PlacesOK(kind, by), NEW f \in Execs, f # e
    PROVE  Held(f)' = Held(f)
<1>1. pc'[f] = pc[f] /\ loc'[f] = loc[f]
  BY Frame
<1>2. val'[f] = val[f]
  BY ValuesStep
<1>3. ASSUME pc[f] = "d_data"
      PROVE  data'[loc[f].next] = data[loc[f].next]
  <2>1. Guarded(kind, by, f, 1, loc[f].next)
    BY <1>3 DEF PlacesOK, Protects, SuccessorLabels
  <2>2. loc[f].next \in Nodes /\ kind[loc[f].next] # "free"
    BY <2>1 DEF Guarded
  <2>3. ASSUME kind[loc[f].next] = "retired", by[loc[f].next] = e, pc[e] \in SortLabels
        PROVE  loc[f].next \in scan[e].ptab
    BY <2>1, <2>3 DEF Guarded, Passed
  <2> QED BY <2>2, <2>3, NodesKept
<1> QED BY <1>1, <1>2, <1>3 DEF Held

\* So a step of e changes at most what e holds.
LEMMA HeldStep ==
    ASSUME QueueTypeOK, ValuesOK, NEW e \in Execs, Step(e),
           NEW kind, NEW by, PlacesOK(kind, by)
    PROVE  AllHeld' = [AllHeld EXCEPT ![e] = Held(e)']
<1>1. \A f \in Execs \ {e} : Held(f)' = Held(f)
  BY HeldOther
<1> QED BY <1>1 DEF AllHeld

\* A step that leaves the list alone leaves the threads in the queue.
LEMMA ContentsKept ==
    ASSUME QueueTypeOK, ValuesOK, ContentsOK, ContentsOK',
           NEW e \in Execs, Step(e), NEW kind, NEW by, PlacesOK(kind, by),
           NEW q, Path(q), ~Links(e, q), head' = head
    PROVE  Contents' = Contents
<1>1. Path(q)'
  BY QueueKept
<1>2. Len(q) \in Nat /\ q \in [1 .. Len(q) -> Nodes]
  BY DEF Path
<1>3. ASSUME NEW i \in 1 .. Len(q) - 1
      PROVE  data'[q[i + 1]] = data[q[i + 1]]
  <2>1. i + 1 \in 1 .. Len(q)
    BY <1>2
  <2>2. q[i + 1] \in Nodes /\ kind[q[i + 1]] = "queue"
    BY <2>1, PathInQueue
  <2> QED BY <2>2, NodesKept
<1>4. Contents = [i \in 1 .. Len(q) - 1 |-> data[q[i + 1]]]
  BY DEF ContentsOK
<1>5. Contents' = [i \in 1 .. Len(q) - 1 |-> data'[q[i + 1]]]
  BY <1>1 DEF ContentsOK
<1> QED BY <1>3, <1>4, <1>5

\* A CAS that succeeds takes the enqueuer's thread out of its hands.
LEMMA CasGives ==
    ASSUME QueueTypeOK, ValuesOK, NEW e \in Execs, EnqueueCas(e),
           next[loc[e].tail] = NoNode
    PROVE  /\ pc[e] = "e_cas" /\ UNCHANGED <<data, pool>>
           /\ Held(e) = val[e] /\ val[e] \in Threads /\ data[loc[e].node] = val[e]
           /\ Held(e)' = NoThread
<1>1. /\ pc[e] = "e_cas" /\ data' = data /\ pool' = pool
      /\ val' = [val EXCEPT ![e] = NoThread] /\ pc' = [pc EXCEPT ![e] = "e_swing"]
  BY DEF EnqueueCas, Onward, Goto
<1>2. val[e] \in Threads /\ data[loc[e].node] = val[e] /\ Held(e) = val[e]
  BY <1>1 DEF ValuesOK, PrivateLabels, Held
<1>3. Held(e)' = NoThread
  BY <1>1 DEF QueueTypeOK, ValuesOK, Held
<1> QED BY <1>1, <1>2, <1>3

\* The enqueuer's CAS is the enqueue.
LEMMA CasEnqueues ==
    ASSUME QueueTypeOK, ValuesOK, ContentsOK, ContentsOK',
           NEW e \in Execs, Step(e), NEW kind, NEW by, PlacesOK(kind, by),
           NEW q, Path(q), Links(e, q)
    PROVE  /\ Held(e) \in Threads /\ Held(e)' = NoThread
           /\ Contents' = Append(Contents, Held(e))
           /\ UNCHANGED pool
<1>1. PICK n : n = loc[e].node
  OBVIOUS
<1>2. n \in Nodes /\ Path(Append(q, n))'
  BY <1>1, QueueGrows
<1>3. /\ Len(q) \in Nat /\ Len(q) > 0 /\ q \in [1 .. Len(q) -> Nodes] /\ q \in Seq(Nodes)
  BY DEF Path
<1>4. /\ UNCHANGED <<data, pool>> /\ Held(e)' = NoThread
      /\ val[e] \in Threads /\ data[n] = val[e] /\ Held(e) = val[e]
  BY <1>1, CasGives DEF Links
<1>15. PICK r : r = Append(q, n)
  OBVIOUS
<1>16. Path(r)'
  BY <1>2, <1>15 DEF Path
<1>7. Len(r) = Len(q) + 1 /\ (\A i \in 1 .. Len(q) : r[i] = q[i]) /\ r[Len(q) + 1] = n
  BY <1>2, <1>3, <1>15
<1>8. Contents = [i \in 1 .. Len(q) - 1 |-> data[q[i + 1]]]
  BY DEF ContentsOK
<1>9. Contents' = [i \in 1 .. Len(r) - 1 |-> data[r[i + 1]]]
  BY <1>4, <1>16 DEF ContentsOK
<1>10. Contents \in Seq(Threads \cup {NoThread}) /\ Len(Contents) = Len(q) - 1
  <2>1. \A i \in 1 .. Len(q) - 1 : i + 1 \in 1 .. Len(q)
    BY <1>3
  <2>2. \A i \in 1 .. Len(q) - 1 : data[q[i + 1]] \in Threads \cup {NoThread}
    BY <1>3, <2>1 DEF ValuesOK
  <2> QED BY <1>3, <1>8, <2>2
<1>11. Append(Contents, val[e]) =
           [i \in 1 .. Len(q) |-> IF i = Len(q) THEN val[e] ELSE Contents[i]]
  <2> DEFINE c == Contents
  <2>1. c \in Seq(Threads \cup {NoThread}) /\ Len(c) = Len(q) - 1 /\ Len(q) \in Nat
    BY <1>3, <1>10
  <2> HIDE DEF c
  <2>2. Append(c, val[e]) = [i \in 1 .. Len(c) + 1 |-> IF i = Len(c) + 1 THEN val[e] ELSE c[i]]
    BY <2>1
  <2>3. Len(c) + 1 = Len(q)
    BY <2>1
  <2> QED BY <2>2, <2>3 DEF c
<1>12. ASSUME NEW i \in 1 .. Len(q)
       PROVE  data[r[i + 1]] = IF i = Len(q) THEN val[e] ELSE Contents[i]
  <2>1. CASE i = Len(q)
    BY <1>4, <1>7, <2>1
  <2>2. CASE i # Len(q)
    <3>1. i + 1 \in 1 .. Len(q) /\ i \in 1 .. Len(q) - 1
      <4>1. Len(q) \in Nat
        BY <1>3
      <4> QED BY <2>2, <4>1
    <3> QED BY <1>7, <1>8, <2>2, <3>1
  <2> QED BY <2>1, <2>2
<1>13. 1 .. Len(r) - 1 = 1 .. Len(q)
  BY <1>3, <1>7
<1>14. Contents' = Append(Contents, val[e])
  BY <1>9, <1>11, <1>12, <1>13
<1> QED BY <1>4, <1>14

\* A dequeuer's CAS is the dequeue of the thread in the second node.
LEMMA CasDequeues ==
    ASSUME QueueTypeOK, ValuesOK, ContentsOK, ContentsOK',
           NEW e \in Execs, Step(e), DequeueCas(e), head = loc[e].head,
           NEW kind, NEW by, PlacesOK(kind, by), NEW q, Path(q)
    PROVE  /\ Held(e) = NoThread
           /\ Contents # <<>> /\ Held(e)' = Head(Contents) /\ Contents' = Tail(Contents)
           /\ UNCHANGED pool
<1>1. /\ Len(q) > 1 /\ loc[e].next = q[2] /\ loc' = loc /\ Path(Tail(q))'
  BY QueueShrinks
<1>2. /\ Len(q) \in Nat /\ q \in [1 .. Len(q) -> Nodes] /\ q \in Seq(Nodes)
  BY DEF Path
<1>3. pc[e] = "d_cas" /\ UNCHANGED <<data, val, pool>>
  BY DEF DequeueCas, callVars
<1>4. pc'[e] = "d_data"
  <2>1. next[head] # NoNode /\ loc[e].next \in Nodes
    <3>1. 1 \in 1 .. Len(q) - 1
      BY <1>1, <1>2
    <3>2. next[q[1]] = q[2] /\ q[2] \in Nodes
      BY <1>1, <1>2, <3>1 DEF Path
    <3> QED BY <1>1, <3>2, QueueAssumption DEF Path
  <2> QED BY DEF DequeueCas, Onward, Goto, QueueTypeOK
<1>5. Held(e) = NoThread /\ Held(e)' = data[q[2]]
  BY <1>1, <1>3, <1>4 DEF Held, ValuesOK, EmptyHanded
<1>6. Contents = [i \in 1 .. Len(q) - 1 |-> data[q[i + 1]]]
  BY DEF ContentsOK
<1>15. PICK r : r = Tail(q)
  OBVIOUS
<1>16. Path(r)'
  BY <1>1, <1>15 DEF Path
<1>7. Len(r) = Len(q) - 1 /\ \A i \in 1 .. Len(q) - 1 : r[i] = q[i + 1]
  BY <1>1, <1>2, <1>15
<1>8. Contents' = [i \in 1 .. Len(r) - 1 |-> data[r[i + 1]]]
  BY <1>3, <1>16 DEF ContentsOK
<1>9. Contents \in Seq(Threads \cup {NoThread}) /\ Len(Contents) = Len(q) - 1
  <2>1. \A i \in 1 .. Len(q) - 1 : i + 1 \in 1 .. Len(q)
    BY <1>2
  <2>2. \A i \in 1 .. Len(q) - 1 : data[q[i + 1]] \in Threads \cup {NoThread}
    BY <1>2, <2>1 DEF ValuesOK
  <2> QED BY <1>1, <1>2, <1>6, <2>2
<1>10. 1 \in 1 .. Len(q) - 1 /\ Contents # <<>>
  BY <1>1, <1>2, <1>9
<1>11. Head(Contents) = data[q[2]]
  BY <1>6, <1>9, <1>10
<1>12. Tail(Contents) = [i \in 1 .. Len(q) - 2 |-> Contents[i + 1]]
  <2> DEFINE c == Contents
  <2>1. c \in Seq(Threads \cup {NoThread}) /\ Len(c) = Len(q) - 1 /\ Len(q) \in Nat
    BY <1>2, <1>9
  <2> HIDE DEF c
  <2>2. Tail(c) = [i \in 1 .. Len(c) - 1 |-> c[i + 1]]
    <3>1. Len(c) > 0
      BY <1>1, <1>2, <2>1
    <3>2. Tail(c) \in Seq(Threads \cup {NoThread}) /\ Len(Tail(c)) = Len(c) - 1
      BY <2>1, <3>1
    <3>3. \A i \in 1 .. Len(c) - 1 : Tail(c)[i] = c[i + 1]
      BY <2>1, <3>1
    <3>4. PICK d : d = Tail(c)
      OBVIOUS
    <3>5. d \in Seq(Threads \cup {NoThread}) /\ Len(d) = Len(c) - 1
      BY <3>2, <3>4
    <3>6. \A i \in 1 .. Len(c) - 1 : d[i] = c[i + 1]
      BY <3>3, <3>4
    <3>7. d = [i \in 1 .. Len(d) |-> d[i]]
      BY <3>5
    <3> QED BY <3>4, <3>5, <3>6, <3>7
  <2>3. Len(c) - 1 = Len(q) - 2
    BY <2>1
  <2> QED BY <2>2, <2>3 DEF c
<1>13. ASSUME NEW i \in 1 .. Len(q) - 2
       PROVE  data[r[i + 1]] = Contents[i + 1]
  <2>1. i + 1 \in 1 .. Len(q) - 1
    BY <1>2
  <2> QED BY <1>6, <1>7, <2>1
<1>14. 1 .. Len(r) - 1 = 1 .. Len(q) - 2
  BY <1>1, <1>2, <1>7
<1> QED BY <1>3, <1>5, <1>8, <1>10, <1>11, <1>12, <1>13, <1>14


\* A step of the FIFO, or an enqueue that loses its thread.
LossyNext == Fifo!FifoNext \/ \E e \in Execs : LateLink(e) /\ Fifo!Lose(e)

\* Every step is such a step or none: lf_thread_queue_enqueue takes effect at
\* its CAS of lfn_next, lf_thread_queue_dequeue at its CAS of lf_head.
LEMMA FifoStep ==
    ASSUME FifoInv, ContentsOK, ContentsOK', [Next]_vars
    PROVE  [LossyNext]_<<Contents, AllHeld, pool>>
<1>1. QueueTypeOK /\ HazardInv /\ ValuesOK
  BY DEF FifoInv, HazardInv
<1>2. PICK kind \in [Nodes -> Kinds], by \in [Nodes -> Execs] : PlacesOK(kind, by)
  BY <1>1 DEF HazardInv
<1>3. PICK q : Path(q)
  BY DEF FifoInv
<1>4. CASE UNCHANGED vars
  <2>1. Path(q)'
    BY <1>3, <1>4 DEF vars, Path
  <2>2. Contents' = [i \in 1 .. Len(q) - 1 |-> data'[q[i + 1]]]
    BY <2>1 DEF ContentsOK
  <2>3. Contents = [i \in 1 .. Len(q) - 1 |-> data[q[i + 1]]]
    BY <1>3 DEF ContentsOK
  <2>4. AllHeld' = AllHeld /\ data' = data /\ pool' = pool
    BY <1>4 DEF vars, AllHeld, Held
  <2> QED BY <2>2, <2>3, <2>4
<1>5. ASSUME NEW e \in Execs, Step(e)
      PROVE  [LossyNext]_<<Contents, AllHeld, pool>>
  <2>1. AllHeld' = [AllHeld EXCEPT ![e] = Held(e)']
    BY <1>1, <1>2, <1>5, HeldStep
  <2>2. AllHeld[e] = Held(e) /\ AllHeld = [AllHeld EXCEPT ![e] = Held(e)]
    BY DEF AllHeld
  <2>3. ASSUME Held(e)' = Held(e), Contents' = Contents, pool' = pool
        PROVE  UNCHANGED <<Contents, AllHeld, pool>>
    BY <2>1, <2>2, <2>3
  <2>4. CASE Links(e, q)
    <3>1. /\ Held(e) \in Threads /\ Held(e)' = NoThread
          /\ Contents' = Append(Contents, Held(e)) /\ UNCHANGED pool
      BY <1>1, <1>2, <1>3, <1>5, <2>4, CasEnqueues
    <3>2. Fifo!Enqueue(e)
      BY <2>1, <2>2, <3>1, QueueAssumption DEF Fifo!Enqueue, AllHeld, Held
    <3> QED BY <3>2 DEF LossyNext, Fifo!FifoNext
  <2>5. CASE DequeueCas(e) /\ head = loc[e].head
    <3>1. /\ Held(e) = NoThread
          /\ Contents # <<>> /\ Held(e)' = Head(Contents) /\ Contents' = Tail(Contents)
          /\ UNCHANGED pool
      BY <1>1, <1>2, <1>3, <1>5, <2>5, CasDequeues
    <3>2. Fifo!Dequeue(e)
      BY <2>1, <2>2, <3>1 DEF Fifo!Dequeue, AllHeld, Held
    <3> QED BY <3>2 DEF LossyNext, Fifo!FifoNext
  <2>6. CASE LateLink(e)
    <3>1. /\ EnqueueCas(e) /\ next[loc[e].tail] = NoNode /\ ~Links(e, q) /\ head' = head
      BY <1>3, <2>6, LinksOrLate DEF EnqueueCas
    <3>2. Contents' = Contents
      BY <1>1, <1>2, <1>3, <1>5, <3>1, ContentsKept
    <3>3. Held(e) \in Threads /\ Held(e)' = NoThread /\ UNCHANGED pool
      BY <1>1, <3>1, CasGives
    <3>4. Fifo!Lose(e)
      BY <2>1, <2>2, <3>2, <3>3, QueueAssumption DEF Fifo!Lose, AllHeld, Held
    <3> QED BY <2>6, <3>4 DEF LossyNext
  <2>7. CASE ~Links(e, q) /\ ~LateLink(e) /\ ~(DequeueCas(e) /\ head = loc[e].head)
    <3>1. head' = head
      BY <1>5, <2>7, Untouched DEF DequeueCas
    <3>2. Contents' = Contents
      BY <1>1, <1>2, <1>3, <1>5, <2>7, <3>1, ContentsKept
    <3>3. CASE EnqueueStart(e)
      <4>1. PICK t \in pool : pool' = pool \ {t} /\ val' = [val EXCEPT ![e] = t]
        BY <3>3 DEF EnqueueStart
      <4>2. pc[e] = "idle" /\ pc' = [pc EXCEPT ![e] = "e_tail"] /\ t \in Threads
        BY <1>1, <3>3, <4>1 DEF EnqueueStart, Goto, ValuesOK
      <4>3. Held(e) = NoThread /\ Held(e)' = t
        BY <1>1, <4>1, <4>2 DEF Held, ValuesOK, EmptyHanded, QueueTypeOK
      <4>4. Fifo!Accept(e, t)
        BY <2>1, <2>2, <3>2, <4>1, <4>3 DEF Fifo!Accept, AllHeld, Held
      <4> QED BY <4>2, <4>4 DEF LossyNext, Fifo!FifoNext
    <3>4. CASE DequeueDone(e)
      <4>1. /\ pc[e] \in {"d_none", "d_done"} /\ pc' = [pc EXCEPT ![e] = "idle"]
            /\ pool' = pool \cup ({val[e]} \ {NoThread})
            /\ val' = [val EXCEPT ![e] = NoThread]
        BY <3>4 DEF DequeueDone, Goto
      <4>2. Held(e) = val[e] /\ Held(e)' = NoThread
        BY <1>1, <4>1 DEF Held, ValuesOK, QueueTypeOK
      <4>3. CASE val[e] = NoThread
        <5>1. pool' = pool
          BY <4>1, <4>3
        <5> QED BY <2>3, <3>2, <4>2, <4>3, <5>1
      <4>4. CASE val[e] # NoThread
        <5>1. pool' = pool \cup {Held(e)}
          BY <4>1, <4>2, <4>4
        <5>2. Fifo!Deliver(e)
          BY <2>1, <2>2, <3>2, <4>2, <4>4, <5>1 DEF Fifo!Deliver, AllHeld, Held
        <5> QED BY <5>2 DEF LossyNext, Fifo!FifoNext
      <4> QED BY <4>3, <4>4
    <3>5. CASE DequeueData(e)
      <4>1. /\ pc[e] = "d_data" /\ pc' = [pc EXCEPT ![e] = "d_unhp1"]
            /\ val' = [val EXCEPT ![e] = data[loc[e].next]] /\ pool' = pool
        BY <3>5 DEF DequeueData, Goto
      <4>2. Held(e)' = Held(e)
        BY <1>1, <4>1 DEF Held, ValuesOK, QueueTypeOK
      <4> QED BY <2>3, <3>2, <4>1, <4>2
    <3>6. CASE ~EnqueueStart(e) /\ ~DequeueDone(e) /\ ~DequeueData(e)
      <4>1. val' = val /\ pool' = pool
        <5>1. EnqueueCas(e) => next[loc[e].tail] # NoNode
          BY <1>3, <2>7, LinksOrLate
        <5> QED BY <1>5, <3>6, <5>1, Untouched DEF EnqueueCas, ScanSort, callVars
      <4>2. pc[e] # "d_data" /\ pc'[e] # "d_data"
        <5>1. ~(DequeueCas(e) /\ head = loc[e].head)
          BY <2>7
        <5> QED BY <1>1, <1>5, <3>6, <5>1, Moves
      <4>3. Held(e)' = Held(e)
        BY <4>1, <4>2 DEF Held
      <4> QED BY <2>3, <3>2, <4>1, <4>3
    <3> QED BY <3>3, <3>4, <3>5, <3>6
  <2> QED BY <2>4, <2>5, <2>6, <2>7
<1> QED BY <1>4, <1>5 DEF Next

\* The queue starts empty and all threads outside.
LEMMA FifoStart ==
    ASSUME Init
    PROVE  Fifo!FifoInit
<1> DEFINE q == <<Sentinel>>
<1>1. q \in Seq(Nodes) /\ Len(q) = 1 /\ q[1] = Sentinel
  BY QueueAssumption
<1> HIDE DEF q
<1>2. Path(q)
  <2>1. \A i, j \in 1 .. Len(q) : i = j
    BY <1>1
  <2>2. \A i \in 1 .. Len(q) - 1 : FALSE
    BY <1>1
  <2> QED BY <1>1, <2>1, <2>2, QueueAssumption DEF Init, Path
<1>3. Contents = [i \in 1 .. 0 |-> data[q[i + 1]]]
  <2>1. Contents = [i \in 1 .. Len(q) - 1 |-> data[q[i + 1]]]
    BY <1>2, ContentsOfPath
  <2>2. 1 .. Len(q) - 1 = 1 .. 0
    BY <1>1
  <2> QED BY <2>1, <2>2
<1>4. Contents = <<>>
  BY <1>3
<1>5. AllHeld = [e \in Execs |-> NoThread] /\ pool = Threads
  BY DEF Init, AllHeld, Held
<1> QED BY <1>4, <1>5 DEF Fifo!FifoInit, AllHeld, Held

\* Whoever enqueues and dequeues, the nodes from lf_head on are a list without
\* a cycle that ends with NULL, and a thread that is being enqueued is in its
\* node: no late link breaks the queue itself.
THEOREM FifoInvariant == Spec => []FifoInv
<1>1. Init => FifoInv
  BY FifoInvInit
<1>2. FifoInv /\ [Next]_vars => FifoInv'
  BY FifoInvStep
<1> QED BY <1>1, <1>2, PTL DEF Spec

\* lf_thread_queue_enqueue and lf_thread_queue_dequeue are atomic but for late
\* links: a thread is lost only by an enqueue whose CAS succeeds on a node that
\* has left the queue, and none is duplicated or reordered.
THEOREM LossyQueue == Spec => ImplementsLossyFifo
<1>1. Init => FifoInv /\ Fifo!FifoInit
  BY FifoInvInit, FifoStart
<1>2. FifoInv /\ [Next]_vars => FifoInv'
  BY FifoInvStep
<1>3. FifoInv /\ ContentsOK /\ ContentsOK' /\ [Next]_vars
      => [Fifo!FifoNext \/ \E e \in Execs : LateLink(e) /\ Fifo!Lose(e)]_Fifo!fifoVars
  BY FifoStep DEF LossyNext, Fifo!fifoVars, AllHeld, Held
<1>4. ContentsOK
  BY ContentsRight
<1> QED BY <1>1, <1>2, <1>3, <1>4, PTL DEF Spec, ImplementsLossyFifo

\* A late link changes the state.
LEMMA LateChanges ==
    ASSUME QueueTypeOK, NEW e \in Execs, LateLink(e)
    PROVE  ~UNCHANGED vars
<1>1. pc[e] = "e_cas" /\ pc' = [pc EXCEPT ![e] = "e_swing"]
  BY DEF LateLink, EnqueueCas, Onward, Goto
<1>2. pc' # pc
  BY <1>1 DEF QueueTypeOK
<1> QED BY <1>2 DEF vars

\* As long as no late link happens, lf_thread_queue_enqueue and
\* lf_thread_queue_dequeue are atomic: the queue is a FIFO that loses,
\* duplicates and reorders no thread, however many executors enqueue.
THEOREM AtomicQueue ==
    Spec /\ [][\A e \in Execs : ~LateLink(e)]_vars => ImplementsFifo
<1>1. Init => FifoInv /\ Fifo!FifoInit
  BY FifoInvInit, FifoStart
<1>2. FifoInv /\ [Next]_vars => FifoInv'
  BY FifoInvStep
<1>3. ASSUME FifoInv, ContentsOK, ContentsOK', [Next]_vars, [\A e \in Execs : ~LateLink(e)]_vars
      PROVE  [Fifo!FifoNext]_Fifo!fifoVars
  <2>1. [LossyNext]_<<Contents, AllHeld, pool>>
    BY <1>3, FifoStep
  <2>2. ASSUME NEW e \in Execs, LateLink(e)
        PROVE  FALSE
    BY <1>3, <2>2, LateChanges DEF FifoInv, HazardInv
  <2> QED BY <2>1, <2>2 DEF LossyNext, Fifo!fifoVars, AllHeld, Held
<1>4. ContentsOK
  BY ContentsRight
<1> QED BY <1>1, <1>2, <1>3, <1>4, PTL DEF Spec, ImplementsFifo, Fifo!FifoSpec
-----------------------------------------------------------------------------
(* Every node is in one place.                                             *)

\* The nodes that a scan has taken from the retired ones and not sorted yet.
Unsorted(e) == IF pc[e] \in SortLabels THEN loc[e].curr ELSE NoNode

\* The queue, the retired nodes and those a scan has left are lists.
ListsOK(q, kept, left) ==
    /\ Path(q)
    /\ \A e \in Execs :
           /\ Trail(next, rlist[e], kept[e])
           /\ Trail(next, Unsorted(e), left[e])
           /\ pc[e] = "s_sort" => loc[e].curr # NoNode /\ loc[e].next = next[loc[e].curr]

\* An enqueuer's node before it is linked, a dequeuer's after it has moved
\* lf_head, and what a scan has left.
InHand(e, unsorted, n) ==
    \/ pc[e] \in PrivateLabels /\ loc[e].node = n
    \/ pc[e] \in HandLabels /\ loc[e].head = n
    \/ n \in NodesOf(unsorted)

\* Which of these holds a node; by[n] is the executor for the last two.
SpotsOK(spot, by, q, kept, left) ==
    \A n \in Nodes :
        /\ n \in free <=> spot[n] = "free"
        /\ n \in NodesOf(q) <=> spot[n] = "queue"
        /\ \A e \in Execs :
               /\ n \in NodesOf(kept[e]) <=> spot[n] = "retired" /\ by[n] = e
               /\ InHand(e, left[e], n) <=> spot[n] = "hand" /\ by[n] = e

Spots == {"free", "queue", "retired", "hand"}

Account ==
    \E spot \in [Nodes -> Spots], by \in [Nodes -> Execs], q \in Seq(Nodes),
       kept, left \in [Execs -> Seq(Nodes)] :
        ListsOK(q, kept, left) /\ SpotsOK(spot, by, q, kept, left)

AccountInv == FifoInv /\ Account

\* A list stays the same when no link in it changes.
LEMMA TrailKept ==
    ASSUME NEW f, NEW g, NEW n, NEW q, Trail(f, n, q), \A m \in NodesOf(q) : g[m] = f[m]
    PROVE  Trail(g, n, q)
<1>1. Len(q) \in Nat /\ q \in [1 .. Len(q) -> Nodes]
  BY DEF Trail
<1>2. \A i \in 1 .. Len(q) : g[q[i]] = f[q[i]]
  BY <1>1 DEF NodesOf
<1>3. \A i \in 1 .. Len(q) - 1 : g[q[i]] = q[i + 1]
  BY <1>1, <1>2 DEF Trail
<1>4. Len(q) > 0 => g[q[Len(q)]] = NoNode
  BY <1>1, <1>2 DEF Trail
<1> QED BY <1>3, <1>4 DEF Trail

\* A node that is put in front becomes the first one.
LEMMA TrailGrows ==
    ASSUME NEW f, NEW g, NEW n, NEW q, Trail(f, n, q), \A x \in NodesOf(q) : g[x] = f[x],
           NEW m \in Nodes, m \notin NodesOf(q), g[m] = n
    PROVE  \E r \in Seq(Nodes) : /\ Trail(g, m, r) /\ NodesOf(r) = NodesOf(q) \cup {m}
                                 /\ Len(q) \in Nat /\ Len(r) = Len(q) + 1
<1>1. Len(q) \in Nat /\ q \in [1 .. Len(q) -> Nodes] /\ q \in Seq(Nodes)
  BY DEF Trail
<1>2. Trail(g, n, q)
  BY TrailKept
<1>3. PICK r : r = <<m>> \o q
  OBVIOUS
<1>4. /\ r \in Seq(Nodes) /\ Len(r) = Len(q) + 1 /\ r[1] = m
      /\ \A i \in 1 .. Len(q) : r[i + 1] = q[i]
  BY <1>1, <1>3
<1>5. \A i \in 1 .. Len(r) : i = 1 \/ (i - 1 \in 1 .. Len(q) /\ r[i] = q[i - 1])
  <2> SUFFICES ASSUME NEW i \in 1 .. Len(r), i # 1
               PROVE  i - 1 \in 1 .. Len(q) /\ r[i] = q[i - 1]
    OBVIOUS
  <2>1. i - 1 \in 1 .. Len(q) /\ (i - 1) + 1 = i
    BY <1>1, <1>4
  <2> QED BY <1>4, <2>1
<1>6. NodesOf(r) = NodesOf(q) \cup {m}
  <2>1. DOMAIN r = 1 .. Len(r) /\ DOMAIN q = 1 .. Len(q)
    BY <1>1, <1>4
  <2>2. ASSUME NEW i \in 1 .. Len(r) PROVE r[i] \in NodesOf(q) \cup {m}
    BY <1>4, <1>5, <2>1, <2>2 DEF NodesOf
  <2>3. ASSUME NEW i \in 1 .. Len(q) PROVE q[i] \in NodesOf(r)
    <3>1. i + 1 \in 1 .. Len(r) /\ r[i + 1] = q[i]
      BY <1>1, <1>4
    <3> QED BY <2>1, <3>1 DEF NodesOf
  <2>4. m \in NodesOf(r)
    <3>1. 1 \in 1 .. Len(r) /\ r[1] = m
      BY <1>1, <1>4
    <3> QED BY <2>1, <3>1 DEF NodesOf
  <2>5. \A x \in NodesOf(r) : x \in NodesOf(q) \cup {m}
    BY <2>1, <2>2 DEF NodesOf
  <2>6. \A x \in NodesOf(q) : x \in NodesOf(r)
    BY <2>1, <2>3 DEF NodesOf
  <2> QED BY <2>4, <2>5, <2>6
<1>7. \A i \in 1 .. Len(r) - 1 : g[r[i]] = r[i + 1]
  <2> SUFFICES ASSUME NEW i \in 1 .. Len(q) PROVE g[r[i]] = r[i + 1]
    BY <1>1, <1>4
  <2>1. CASE i = 1
    <3>1. n = q[1]
      BY <1>1, <2>1 DEF Trail
    <3> QED BY <1>4, <2>1, <3>1
  <2>2. CASE i # 1
    <3>1. i - 1 \in 1 .. Len(q) - 1 /\ (i - 1) + 1 = i /\ i \in 1 .. Len(r)
      BY <1>1, <1>4, <2>2
    <3>2. g[q[i - 1]] = q[i] /\ r[i] = q[i - 1] /\ r[i + 1] = q[i]
      <4>1. g[q[i - 1]] = q[(i - 1) + 1]
        BY <1>2, <3>1 DEF Trail
      <4> QED BY <1>4, <1>5, <2>2, <3>1, <4>1
    <3> QED BY <3>2
  <2> QED BY <2>1, <2>2
<1>8. g[r[Len(r)]] = NoNode
  <2>1. CASE Len(q) = 0
    BY <1>4, <2>1 DEF Trail
  <2>2. CASE Len(q) # 0
    <3>1. Len(q) \in 1 .. Len(q) /\ Len(q) > 0
      BY <1>1, <2>2
    <3>2. r[Len(r)] = q[Len(q)]
      BY <1>4, <3>1
    <3> QED BY <1>2, <3>1, <3>2 DEF Trail
  <2> QED BY <2>1, <2>2
<1>9. ASSUME NEW i \in 1 .. Len(r), NEW j \in 1 .. Len(r), r[i] = r[j]
      PROVE  i = j
  <2>1. \A k \in 1 .. Len(q) : q[k] # m
    BY <1>1 DEF NodesOf
  <2>2. CASE i = 1 \/ j = 1
    BY <1>4, <1>5, <1>9, <2>1, <2>2
  <2>3. CASE i # 1 /\ j # 1
    <3>1. /\ i - 1 \in 1 .. Len(q) /\ j - 1 \in 1 .. Len(q)
          /\ q[i - 1] = q[j - 1]
      BY <1>5, <1>9, <2>3
    <3>2. i - 1 = j - 1
      BY <3>1 DEF Trail
    <3> QED BY <1>4, <3>2
  <2> QED BY <2>2, <2>3
<1>10. Len(r) > 0
  BY <1>1, <1>4
<1> QED BY <1>1, <1>4, <1>6, <1>7, <1>8, <1>9, <1>10 DEF Trail

\* Taking the first node off leaves the list that starts at its successor.
LEMMA TrailShrinks ==
    ASSUME NEW f, NEW n, NEW q, Trail(f, n, q), n # NoNode
    PROVE  /\ n \in Nodes /\ n \in NodesOf(q)
           /\ \E r \in Seq(Nodes) : /\ Len(q) > 0 /\ r = Tail(q)
                                    /\ Trail(f, f[n], r) /\ NodesOf(r) = NodesOf(q) \ {n}
<1>1. Len(q) \in Nat /\ q \in [1 .. Len(q) -> Nodes] /\ q \in Seq(Nodes)
  BY DEF Trail
<1>2. Len(q) > 0 /\ q[1] = n /\ n \in Nodes /\ n \in NodesOf(q)
  BY <1>1 DEF Trail, NodesOf
<1>3. PICK r : r = Tail(q)
  OBVIOUS
<1>4. /\ r \in Seq(Nodes) /\ Len(r) = Len(q) - 1
      /\ \A i \in 1 .. Len(r) : r[i] = q[i + 1]
  BY <1>1, <1>2, <1>3
<1>5. Len(r) \in Nat /\ \A i \in 1 .. Len(r) : i \in Nat /\ i + 1 \in 1 .. Len(q) /\ i + 1 # 1
  BY <1>1, <1>4
<1>6. NodesOf(r) = NodesOf(q) \ {n}
  <2>1. DOMAIN r = 1 .. Len(r) /\ DOMAIN q = 1 .. Len(q)
    BY <1>1, <1>4
  <2>2. ASSUME NEW i \in 1 .. Len(r) PROVE r[i] \in NodesOf(q) \ {n}
    <3>1. i + 1 \in 1 .. Len(q) /\ i + 1 # 1 /\ 1 \in 1 .. Len(q) /\ r[i] = q[i + 1]
      BY <1>1, <1>2, <1>4, <1>5
    <3>2. q[i + 1] # q[1]
      BY <3>1 DEF Trail
    <3> QED BY <1>2, <2>1, <3>1, <3>2 DEF NodesOf
  <2>3. ASSUME NEW i \in 1 .. Len(q), q[i] # n PROVE q[i] \in NodesOf(r)
    <3>1. i # 1
      BY <1>2, <2>3
    <3>2. i - 1 \in 1 .. Len(r) /\ (i - 1) + 1 = i
      BY <1>1, <1>4, <3>1
    <3> QED BY <1>4, <2>1, <3>2 DEF NodesOf
  <2> QED BY <2>1, <2>2, <2>3 DEF NodesOf
<1>7. f[n] = IF Len(r) = 0 THEN NoNode ELSE r[1]
  <2>1. CASE Len(q) = 1
    BY <1>2, <1>4, <2>1 DEF Trail
  <2>2. CASE Len(q) # 1
    <3>1. 1 \in 1 .. Len(q) - 1 /\ 1 \in 1 .. Len(r) /\ Len(r) # 0
      BY <1>1, <1>2, <1>4, <2>2
    <3> QED BY <1>2, <1>4, <3>1 DEF Trail
  <2> QED BY <2>1, <2>2
<1>8. \A i \in 1 .. Len(r) - 1 : f[r[i]] = r[i + 1]
  <2> SUFFICES ASSUME NEW i \in 1 .. Len(r) - 1 PROVE f[r[i]] = r[i + 1]
    OBVIOUS
  <2>1. i \in 1 .. Len(r) /\ i + 1 \in 1 .. Len(r) /\ i + 1 \in 1 .. Len(q) - 1
    BY <1>1, <1>4
  <2>2. f[q[i + 1]] = q[(i + 1) + 1]
    BY <2>1 DEF Trail
  <2> QED BY <1>4, <2>1, <2>2
<1>9. Len(r) > 0 => f[r[Len(r)]] = NoNode
  <2> SUFFICES ASSUME Len(r) > 0 PROVE f[r[Len(r)]] = NoNode
    OBVIOUS
  <2>1. Len(r) \in 1 .. Len(r) /\ Len(r) + 1 = Len(q)
    BY <1>1, <1>4
  <2>2. r[Len(r)] = q[Len(q)]
    BY <1>4, <2>1
  <2> QED BY <1>2, <2>2 DEF Trail
<1>10. ASSUME NEW i \in 1 .. Len(r), NEW j \in 1 .. Len(r), r[i] = r[j]
       PROVE  i = j
  <2>1. q[i + 1] = q[j + 1] /\ i + 1 \in 1 .. Len(q) /\ j + 1 \in 1 .. Len(q)
    BY <1>4, <1>5, <1>10
  <2>2. i + 1 = j + 1
    BY <2>1 DEF Trail
  <2> QED BY <1>5, <2>2
<1>11. Trail(f, f[n], r)
  BY <1>4, <1>7, <1>8, <1>9, <1>10 DEF Trail
<1> QED BY <1>2, <1>3, <1>4, <1>6, <1>11

\* From NULL there is no node.
LEMMA TrailEmpty ==
    ASSUME NEW f, NEW g, NEW q, Trail(f, NoNode, q)
    PROVE  Trail(g, NoNode, q) /\ NodesOf(q) = {}
<1>1. Len(q) \in Nat /\ q \in [1 .. Len(q) -> Nodes]
  BY DEF Trail
<1>2. Len(q) = 0
  BY <1>1, QueueAssumption DEF Trail
<1>3. NodesOf(q) = {}
  BY <1>1, <1>2 DEF NodesOf
<1> QED BY <1>2, <1>3, TrailKept

\* A step that changes the link of one node changes no list of another
\* executor that the node is not on.
LEMMA OtherLists ==
    ASSUME QueueTypeOK, NEW e \in Execs, Step(e),
           NEW q, NEW kept, NEW left, ListsOK(q, kept, left),
           NEW x, \A m \in Nodes \ {x} : next'[m] = next[m],
           NEW f \in Execs, f # e, x \notin NodesOf(kept[f]), x \notin NodesOf(left[f])
    PROVE  /\ Trail(next', rlist'[f], kept[f])
           /\ Trail(next', Unsorted(f)', left[f])
           /\ pc'[f] = "s_sort" =>
                  loc'[f].curr # NoNode /\ loc'[f].next = next'[loc'[f].curr]
           /\ \A n : InHand(f, left[f], n)' <=> InHand(f, left[f], n)
<1>1. rlist'[f] = rlist[f] /\ pc'[f] = pc[f] /\ loc'[f] = loc[f]
  BY Frame
<1>2. Trail(next, rlist[f], kept[f]) /\ Trail(next, Unsorted(f), left[f])
  BY DEF ListsOK
<1>3. NodesOf(kept[f]) \subseteq Nodes /\ NodesOf(left[f]) \subseteq Nodes
  BY <1>2 DEF Trail, NodesOf
<1>4. Trail(next', rlist[f], kept[f]) /\ Trail(next', Unsorted(f), left[f])
  BY <1>2, <1>3, TrailKept
<1>5. Unsorted(f)' = Unsorted(f)
  BY <1>1 DEF Unsorted
<1>6. ASSUME pc[f] = "s_sort"
      PROVE  loc[f].curr # NoNode /\ loc[f].next = next'[loc[f].curr]
  <2>1. loc[f].curr # NoNode /\ loc[f].next = next[loc[f].curr] /\ Unsorted(f) = loc[f].curr
    BY <1>6 DEF ListsOK, Unsorted, SortLabels
  <2>2. loc[f].curr \in NodesOf(left[f])
    BY <1>2, <2>1, TrailShrinks
  <2> QED BY <1>3, <2>1, <2>2
<1>7. \A n : InHand(f, left[f], n)' <=> InHand(f, left[f], n)
  BY <1>1 DEF InHand
<1> QED BY <1>1, <1>4, <1>5, <1>6, <1>7

\* The other steps leave every node where it is.
LEMMA PlacesKept ==
    ASSUME QueueTypeOK, NEW e \in Execs, Step(e),
           ~EnqueueStart(e), ~(DequeueCas(e) /\ head = loc[e].head),
           EnqueueCas(e) => next[loc[e].tail] # NoNode,
           ~Retire(e), ~ScanStart(e), ~ScanSort(e)
    PROVE  /\ UNCHANGED <<head, next, free, rlist>>
           /\ pc'[e] \in PrivateLabels <=> pc[e] \in PrivateLabels
           /\ pc[e] \in PrivateLabels => loc'[e].node = loc[e].node
           /\ pc'[e] \in HandLabels <=> pc[e] \in HandLabels
           /\ pc[e] \in HandLabels => loc'[e].head = loc[e].head
           /\ Unsorted(e)' = Unsorted(e)
           /\ pc'[e] = "s_sort" => loc'[e].curr # NoNode /\ loc'[e].next = next'[loc'[e].curr]
<1> USE DEF PrivateLabels, HandLabels, SortLabels, Unsorted, QueueTypeOK, LocType, Goto, Local,
        Hazard, Retry, Onward, NoLoc, queueVars, hazardVars, callVars
<1>1. CASE EnqueueTail(e)  BY <1>1 DEF EnqueueTail
<1>2. CASE EnqueueHazard(e)  BY <1>2 DEF EnqueueHazard
<1>3. CASE EnqueueCheck(e)  BY <1>3 DEF EnqueueCheck
<1>4. CASE EnqueueNext(e)  BY <1>4 DEF EnqueueNext
<1>5. CASE EnqueueAgain(e)  BY <1>5 DEF EnqueueAgain
<1>6. CASE EnqueueHelp(e)  BY <1>6 DEF EnqueueHelp
<1>7. CASE EnqueueSwing(e)  BY <1>7 DEF EnqueueSwing
<1>8. CASE EnqueueDone(e)  BY <1>8 DEF EnqueueDone
<1>9. CASE DequeueHead(e)  BY <1>9 DEF DequeueHead
<1>10. CASE DequeueHazard(e)  BY <1>10 DEF DequeueHazard
<1>11. CASE DequeueCheck(e)  BY <1>11 DEF DequeueCheck
<1>12. CASE DequeueTail(e)  BY <1>12 DEF DequeueTail
<1>13. CASE DequeueNext(e)  BY <1>13 DEF DequeueNext
<1>14. CASE DequeueHazardNext(e)  BY <1>14 DEF DequeueHazardNext
<1>15. CASE DequeueAgain(e)  BY <1>15 DEF DequeueAgain
<1>16. CASE DequeueHelp(e)  BY <1>16 DEF DequeueHelp
<1>17. CASE DequeueCas(e)  BY <1>17 DEF DequeueCas
<1>18. CASE DequeueData(e)  BY <1>18 DEF DequeueData
<1>19. CASE DequeueUnhazard(e)  BY <1>19 DEF DequeueUnhazard
<1>20. CASE DequeueEmpty(e)  BY <1>20 DEF DequeueEmpty
<1>21. CASE DequeueDone(e)  BY <1>21 DEF DequeueDone
<1>22. CASE Scan(e)  BY <1>22 DEF Scan
<1>23. CASE ScanNext(e)  BY <1>23 DEF ScanNext
<1>24. CASE EnqueueCas(e)  BY <1>24 DEF EnqueueCas
<1>25. QED
  BY <1>1, <1>2, <1>3, <1>4, <1>5, <1>6, <1>7, <1>8, <1>9, <1>10, <1>11, <1>12,
     <1>13, <1>14, <1>15, <1>16, <1>17, <1>18, <1>19, <1>20, <1>21, <1>22, <1>23, <1>24 DEF Step

\* So the account stays the same.
LEMMA AccountKept ==
    ASSUME QueueTypeOK, NEW e \in Execs, Step(e),
           ~EnqueueStart(e), ~(DequeueCas(e) /\ head = loc[e].head),
           EnqueueCas(e) => next[loc[e].tail] # NoNode,
           ~Retire(e), ~ScanStart(e), ~ScanSort(e),
           NEW spot, NEW by, NEW q, NEW kept, NEW left,
           ListsOK(q, kept, left), SpotsOK(spot, by, q, kept, left), Path(q)'
    PROVE  ListsOK(q, kept, left)' /\ SpotsOK(spot, by, q, kept, left)'
<1>1. UNCHANGED <<next, free, rlist>>
  BY PlacesKept
<1>2. ASSUME NEW f \in Execs
      PROVE  /\ Trail(next', rlist'[f], kept[f])
             /\ Trail(next', Unsorted(f)', left[f])
             /\ pc'[f] = "s_sort" =>
                    loc'[f].curr # NoNode /\ loc'[f].next = next'[loc'[f].curr]
             /\ \A n : InHand(f, left[f], n)' <=> InHand(f, left[f], n)
  <2>1. CASE f = e
    <3>1. Trail(next, rlist[e], kept[e]) /\ Trail(next, Unsorted(e), left[e])
      BY DEF ListsOK
    <3>2. Unsorted(e)' = Unsorted(e)
      BY PlacesKept
    <3>3. \A n : InHand(e, left[e], n)' <=> InHand(e, left[e], n)
      BY PlacesKept DEF InHand
    <3> QED BY <1>1, <2>1, <3>1, <3>2, <3>3, PlacesKept
  <2>2. CASE f # e
    <3>1. /\ Trail(next, rlist[f], kept[f]) /\ Trail(next, Unsorted(f), left[f])
          /\ pc[f] = "s_sort" => loc[f].curr # NoNode /\ loc[f].next = next[loc[f].curr]
      BY DEF ListsOK
    <3>2. pc'[f] = pc[f] /\ loc'[f] = loc[f]
      BY <2>2, Frame
    <3>3. Unsorted(f)' = Unsorted(f) /\ \A n : InHand(f, left[f], n)' <=> InHand(f, left[f], n)
      BY <3>2 DEF Unsorted, InHand
    <3> QED BY <1>1, <3>1, <3>2, <3>3
  <2> QED BY <2>1, <2>2
<1> QED BY <1>1, <1>2 DEF ListsOK, SpotsOK

\* What the steps that move a node start from.
Before(spot, by, q, kept, left) ==
    /\ spot \in [Nodes -> Spots] /\ by \in [Nodes -> Execs] /\ q \in Seq(Nodes)
    /\ kept \in [Execs -> Seq(Nodes)] /\ left \in [Execs -> Seq(Nodes)]
    /\ ListsOK(q, kept, left) /\ SpotsOK(spot, by, q, kept, left)

\* A node is on no list but the one its spot says.
LEMMA OnNoOtherList ==
    ASSUME NEW spot, NEW by, NEW q, NEW kept, NEW left, Before(spot, by, q, kept, left),
           NEW n \in Nodes
    PROVE  /\ n \in free <=> spot[n] = "free"
           /\ n \in NodesOf(q) <=> spot[n] = "queue"
           /\ \A f \in Execs :
                  /\ n \in NodesOf(kept[f]) <=> spot[n] = "retired" /\ by[n] = f
                  /\ InHand(f, left[f], n) <=> spot[n] = "hand" /\ by[n] = f
                  /\ ~(spot[n] = "hand" /\ by[n] = f) => n \notin NodesOf(left[f])
                  /\ pc[f] \notin SortLabels => n \notin NodesOf(left[f])
<1>1. \A f \in Execs : n \in NodesOf(left[f]) => InHand(f, left[f], n)
  BY DEF InHand
<1>2. ASSUME NEW f \in Execs, pc[f] \notin SortLabels
      PROVE  NodesOf(left[f]) = {}
  <2>1. Trail(next, NoNode, left[f])
    BY <1>2 DEF Before, ListsOK, Unsorted
  <2> QED BY <2>1, TrailEmpty
<1> QED BY <1>1, <1>2 DEF Before, SpotsOK

\* A step moves node n to spot k of executor e and leaves the others.
Moved(n, k, e, q, kept, left, q2, kept2, left2) ==
    /\ \A m \in Nodes \ {n} :
           /\ m \in free' <=> m \in free
           /\ m \in NodesOf(q2) <=> m \in NodesOf(q)
           /\ \A f \in Execs :
                  /\ m \in NodesOf(kept2[f]) <=> m \in NodesOf(kept[f])
                  /\ InHand(f, left2[f], m)' <=> InHand(f, left[f], m)
    /\ n \in free' <=> k = "free"
    /\ n \in NodesOf(q2) <=> k = "queue"
    /\ \A f \in Execs : /\ n \in NodesOf(kept2[f]) <=> k = "retired" /\ e = f
                        /\ InHand(f, left2[f], n)' <=> k = "hand" /\ e = f

\* Such a step keeps every node in one place.
LEMMA NodeMoved ==
    ASSUME NEW spot, NEW by, NEW q, NEW kept, NEW left, Before(spot, by, q, kept, left),
           NEW q2, NEW kept2, NEW left2, NEW n \in Nodes, NEW k \in Spots, NEW e \in Execs,
           Moved(n, k, e, q, kept, left, q2, kept2, left2)
    PROVE  \E s2 \in [Nodes -> Spots], b2 \in [Nodes -> Execs] :
               SpotsOK(s2, b2, q2, kept2, left2)'
<1>1. PICK s2 : s2 = [spot EXCEPT ![n] = k]
  OBVIOUS
<1>2. PICK b2 : b2 = [by EXCEPT ![n] = e]
  OBVIOUS
<1>3. /\ s2 \in [Nodes -> Spots] /\ b2 \in [Nodes -> Execs]
      /\ s2[n] = k /\ b2[n] = e
      /\ \A m \in Nodes \ {n} : s2[m] = spot[m] /\ b2[m] = by[m]
  BY <1>1, <1>2 DEF Before
<1>4. ASSUME NEW m \in Nodes
      PROVE  /\ m \in free' <=> s2[m] = "free"
             /\ m \in NodesOf(q2) <=> s2[m] = "queue"
             /\ \A f \in Execs :
                    /\ m \in NodesOf(kept2[f]) <=> s2[m] = "retired" /\ b2[m] = f
                    /\ InHand(f, left2[f], m)' <=> s2[m] = "hand" /\ b2[m] = f
  <2>1. CASE m = n
    BY <1>3, <2>1 DEF Moved
  <2>2. CASE m # n
    <3>1. /\ m \in free <=> spot[m] = "free"
          /\ m \in NodesOf(q) <=> spot[m] = "queue"
          /\ \A f \in Execs :
                 /\ m \in NodesOf(kept[f]) <=> spot[m] = "retired" /\ by[m] = f
                 /\ InHand(f, left[f], m) <=> spot[m] = "hand" /\ by[m] = f
      BY DEF Before, SpotsOK
    <3>2. s2[m] = spot[m] /\ b2[m] = by[m]
      BY <1>3, <2>2
    <3> QED BY <2>2, <3>1, <3>2 DEF Moved
  <2> QED BY <2>1, <2>2
<1>5. SpotsOK(s2, b2, q2, kept2, left2)'
  BY <1>4 DEF SpotsOK
<1> QED BY <1>3, <1>5

\* An enqueuer takes a free node.
LEMMA AccountTaken ==
    ASSUME QueueTypeOK, NEW e \in Execs, Step(e), EnqueueStart(e),
           NEW spot, NEW by, NEW q, NEW kept, NEW left, Before(spot, by, q, kept, left),
           Path(q)'
    PROVE  Account'
<1>1. PICK n \in free : /\ free' = free \ {n} /\ next' = [next EXCEPT ![n] = NoNode]
                        /\ loc' = [loc EXCEPT ![e]["node"] = n]
  BY DEF EnqueueStart, Local
<1>2. /\ n \in Nodes /\ pc[e] = "idle" /\ pc' = [pc EXCEPT ![e] = "e_tail"] /\ rlist' = rlist
  BY <1>1 DEF QueueTypeOK, EnqueueStart, Goto
<1>3. \A m \in Nodes \ {n} : next'[m] = next[m]
  BY <1>1 DEF QueueTypeOK
<1>4. pc'[e] = "e_tail" /\ loc'[e].node = n
  BY <1>1, <1>2 DEF QueueTypeOK, LocType
<1>5. /\ n \notin NodesOf(q)
      /\ \A f \in Execs : /\ n \notin NodesOf(kept[f]) /\ n \notin NodesOf(left[f])
                          /\ ~InHand(f, left[f], n)
  BY <1>1, <1>2, OnNoOtherList
<1>6. ASSUME NEW f \in Execs
      PROVE  /\ Trail(next', rlist'[f], kept[f])
             /\ Trail(next', Unsorted(f)', left[f])
             /\ pc'[f] = "s_sort" =>
                    loc'[f].curr # NoNode /\ loc'[f].next = next'[loc'[f].curr]
             /\ \A m : InHand(f, left[f], m)' <=> InHand(f, left[f], m) \/ (f = e /\ m = n)
  <2>1. CASE f = e
    <3>1. Trail(next, rlist[e], kept[e]) /\ Trail(next, NoNode, left[e])
      BY <1>2 DEF Before, ListsOK, Unsorted, SortLabels
    <3>2. NodesOf(kept[e]) \subseteq Nodes
      BY <3>1 DEF Trail, NodesOf
    <3>3. Trail(next', rlist[e], kept[e]) /\ Trail(next', NoNode, left[e])
      BY <1>3, <1>5, <3>1, <3>2, TrailKept, TrailEmpty
    <3>4. Unsorted(e)' = NoNode
      BY <1>4 DEF Unsorted, SortLabels
    <3>5. \A m : InHand(e, left[e], m)' <=> InHand(e, left[e], m) \/ m = n
      BY <1>2, <1>4 DEF InHand, PrivateLabels, HandLabels
    <3> QED BY <1>2, <1>4, <2>1, <3>3, <3>4, <3>5
  <2>2. CASE f # e
    <3>1. ListsOK(q, kept, left)
      BY DEF Before
    <3>2. /\ Trail(next', rlist'[f], kept[f])
          /\ Trail(next', Unsorted(f)', left[f])
          /\ pc'[f] = "s_sort" =>
                 loc'[f].curr # NoNode /\ loc'[f].next = next'[loc'[f].curr]
          /\ \A m : InHand(f, left[f], m)' <=> InHand(f, left[f], m)
      BY <1>3, <1>5, <2>2, <3>1, OtherLists
    <3> QED BY <2>2, <3>2
  <2> QED BY <2>1, <2>2
<1>7. ListsOK(q, kept, left)'
  BY <1>6 DEF ListsOK
<1>8. PICK k : k = "hand"
  OBVIOUS
<1>9. PICK s2 \in [Nodes -> Spots], b2 \in [Nodes -> Execs] : SpotsOK(s2, b2, q, kept, left)'
  <2>1. /\ \A m \in Nodes \ {n} :
               /\ m \in free' <=> m \in free
               /\ \A f \in Execs : InHand(f, left[f], m)' <=> InHand(f, left[f], m)
        /\ n \notin free'
        /\ \A f \in Execs : InHand(f, left[f], n)' <=> e = f
    BY <1>1, <1>5, <1>6
  <2>2. k \in Spots
    BY <1>8 DEF Spots
  <2>3. Moved(n, k, e, q, kept, left, q, kept, left)
    BY <1>5, <1>8, <2>1 DEF Moved
  <2> QED BY <1>2, <2>2, <2>3, NodeMoved
<1> QED BY <1>7, <1>9 DEF Before, Account

\* The enqueuer's node becomes the last one of the queue.
LEMMA AccountLinked ==
    ASSUME QueueTypeOK, NEW e \in Execs, Step(e), EnqueueCas(e),
           next[loc[e].tail] = NoNode, loc[e].tail \in Nodes,
           NEW spot, NEW by, NEW q, NEW kept, NEW left, Before(spot, by, q, kept, left),
           loc[e].tail \in NodesOf(q),
           NEW n \in Nodes, n = loc[e].node, Path(Append(q, n))'
    PROVE  Account'
<1>1. PICK x : x = loc[e].tail
  OBVIOUS
<1>2. /\ pc[e] = "e_cas" /\ pc' = [pc EXCEPT ![e] = "e_swing"] /\ loc' = loc
      /\ next' = [next EXCEPT ![x] = n] /\ UNCHANGED <<free, rlist>>
  BY <1>1, QueueAssumption DEF EnqueueCas, Onward, Goto, hazardVars
<1>3. \A m \in Nodes \ {x} : next'[m] = next[m]
  BY <1>2 DEF QueueTypeOK
<1>4. pc'[e] = "e_swing" /\ loc'[e] = loc[e]
  BY <1>2 DEF QueueTypeOK
<1>5. InHand(e, left[e], n)
  BY <1>2 DEF InHand, PrivateLabels
<1>6. spot[n] = "hand" /\ by[n] = e /\ spot[x] = "queue"
  BY <1>1, <1>5, OnNoOtherList
<1>7. \A f \in Execs : x \notin NodesOf(kept[f]) /\ x \notin NodesOf(left[f])
  BY <1>1, <1>6, OnNoOtherList
<1>8. PICK r : r = Append(q, n)
  OBVIOUS
<1>9. r \in Seq(Nodes) /\ NodesOf(r) = NodesOf(q) \cup {n}
  <2>1. /\ q \in Seq(Nodes) /\ q \in [1 .. Len(q) -> Nodes] /\ Len(q) \in Nat
    BY DEF Before
  <2>2. /\ r \in Seq(Nodes) /\ Len(r) = Len(q) + 1
        /\ \A i \in 1 .. Len(q) : r[i] = q[i]
        /\ r[Len(q) + 1] = n
    BY <1>8, <2>1
  <2>3. \A i \in 1 .. Len(r) : i \in 1 .. Len(q) \/ i = Len(q) + 1
    BY <2>1, <2>2
  <2>4. \A i \in 1 .. Len(q) : i \in 1 .. Len(r)
    BY <2>1, <2>2
  <2>5. Len(q) + 1 \in 1 .. Len(r)
    BY <2>1, <2>2
  <2>6. DOMAIN r = 1 .. Len(r) /\ DOMAIN q = 1 .. Len(q)
    BY <2>1, <2>2
  <2>7. n \in NodesOf(r)
    BY <2>2, <2>5, <2>6 DEF NodesOf
  <2>8. \A m \in NodesOf(q) : m \in NodesOf(r)
    BY <2>2, <2>4, <2>6 DEF NodesOf
  <2>9. \A m \in NodesOf(r) : m \in NodesOf(q) \cup {n}
    BY <2>2, <2>3, <2>6 DEF NodesOf
  <2> QED BY <2>2, <2>7, <2>8, <2>9
<1>10. Path(r)'
  BY <1>8
<1>11. ASSUME NEW f \in Execs
       PROVE  /\ Trail(next', rlist'[f], kept[f])
              /\ Trail(next', Unsorted(f)', left[f])
              /\ pc'[f] = "s_sort" =>
                     loc'[f].curr # NoNode /\ loc'[f].next = next'[loc'[f].curr]
              /\ \A m \in Nodes : InHand(f, left[f], m)' <=>
                     InHand(f, left[f], m) /\ ~(f = e /\ m = n)
  <2>1. CASE f = e
    <3>1. Trail(next, rlist[e], kept[e]) /\ Trail(next, NoNode, left[e])
      BY <1>2 DEF Before, ListsOK, Unsorted, SortLabels
    <3>2. NodesOf(kept[e]) \subseteq Nodes
      BY <3>1 DEF Trail, NodesOf
    <3>3. Trail(next', rlist[e], kept[e]) /\ Trail(next', NoNode, left[e]) /\ NodesOf(left[e]) = {}
      BY <1>3, <1>7, <3>1, <3>2, TrailKept, TrailEmpty
    <3>4. Unsorted(e)' = NoNode
      BY <1>4 DEF Unsorted, SortLabels
    <3>5. \A m : InHand(e, left[e], m)' <=> InHand(e, left[e], m) /\ m # n
      BY <1>2, <1>4, <3>3 DEF InHand, PrivateLabels, HandLabels
    <3> QED BY <1>2, <1>4, <2>1, <3>3, <3>4, <3>5
  <2>2. CASE f # e
    <3>1. ListsOK(q, kept, left)
      BY DEF Before
    <3>2. /\ Trail(next', rlist'[f], kept[f])
          /\ Trail(next', Unsorted(f)', left[f])
          /\ pc'[f] = "s_sort" =>
                 loc'[f].curr # NoNode /\ loc'[f].next = next'[loc'[f].curr]
          /\ \A m : InHand(f, left[f], m)' <=> InHand(f, left[f], m)
      BY <1>3, <1>7, <2>2, <3>1, OtherLists
    <3> QED BY <2>2, <3>2
  <2> QED BY <2>1, <2>2
<1>12. ListsOK(r, kept, left)'
  BY <1>10, <1>11 DEF ListsOK
<1>13. PICK k : k = "queue"
  OBVIOUS
<1>14. PICK s2 \in [Nodes -> Spots], b2 \in [Nodes -> Execs] : SpotsOK(s2, b2, r, kept, left)'
  <2>1. k \in Spots
    BY <1>13 DEF Spots
  <2>2. \A f \in Execs : n \notin NodesOf(kept[f]) /\ ~InHand(f, left[f], n)'
    BY <1>6, <1>11, OnNoOtherList
  <2>3. n \notin free
    BY <1>6, OnNoOtherList
  <2>4. Moved(n, k, e, q, kept, left, r, kept, left)
    BY <1>2, <1>9, <1>11, <1>13, <2>2, <2>3 DEF Moved
  <2> QED BY <2>1, <2>4, NodeMoved
<1> QED BY <1>9, <1>12, <1>14 DEF Before, Account

\* A dequeuer takes the node that was first.
LEMMA AccountUnlinked ==
    ASSUME QueueTypeOK, NEW e \in Execs, Step(e), DequeueCas(e), head = loc[e].head,
           loc' = loc, pc'[e] = "d_data",
           NEW spot, NEW by, NEW q, NEW kept, NEW left, Before(spot, by, q, kept, left),
           Path(Tail(q))'
    PROVE  Account'
<1>1. PICK n : n = head
  OBVIOUS
<1>2. PICK r : r = Tail(q)
  OBVIOUS
<1>3. n \in Nodes /\ n \in NodesOf(q) /\ r \in Seq(Nodes) /\ NodesOf(r) = NodesOf(q) \ {n}
  <2>1. Trail(next, n, q)
    BY <1>1 DEF Before, ListsOK, Path, Trail
  <2>2. n # NoNode
    BY <1>1, QueueAssumption DEF QueueTypeOK
  <2> QED BY <1>2, <2>1, <2>2, TrailShrinks
<1>4. spot[n] = "queue"
  BY <1>3, OnNoOtherList
<1>5. pc[e] = "d_cas" /\ loc[e].head = n /\ UNCHANGED <<next, free, rlist>>
  BY <1>1 DEF DequeueCas, hazardVars
<1>6. ASSUME NEW f \in Execs
      PROVE  /\ Trail(next', rlist'[f], kept[f])
             /\ Trail(next', Unsorted(f)', left[f])
             /\ pc'[f] = "s_sort" =>
                    loc'[f].curr # NoNode /\ loc'[f].next = next'[loc'[f].curr]
             /\ \A m : InHand(f, left[f], m)' <=> InHand(f, left[f], m) \/ (f = e /\ m = n)
  <2>1. /\ Trail(next, rlist[f], kept[f]) /\ Trail(next, Unsorted(f), left[f])
        /\ pc[f] = "s_sort" => loc[f].curr # NoNode /\ loc[f].next = next[loc[f].curr]
    BY DEF Before, ListsOK
  <2>2. Unsorted(f)' = Unsorted(f) /\ (pc'[f] = "s_sort" => pc[f] = "s_sort")
    BY <1>5, Frame DEF Unsorted, SortLabels
  <2>3. \A m : InHand(f, left[f], m)' <=> InHand(f, left[f], m) \/ (f = e /\ m = n)
    <3>1. CASE f = e
      BY <1>5, <3>1 DEF InHand, PrivateLabels, HandLabels
    <3>2. CASE f # e
      BY <3>2, Frame DEF InHand
    <3> QED BY <3>1, <3>2
  <2> QED BY <1>5, <2>1, <2>2, <2>3
<1>7. ListsOK(r, kept, left)'
  BY <1>2, <1>6 DEF ListsOK
<1>8. PICK k : k = "hand"
  OBVIOUS
<1>9. PICK s2 \in [Nodes -> Spots], b2 \in [Nodes -> Execs] : SpotsOK(s2, b2, r, kept, left)'
  <2>1. k \in Spots
    BY <1>8 DEF Spots
  <2>2. n \notin free /\ \A f \in Execs : n \notin NodesOf(kept[f]) /\ ~InHand(f, left[f], n)
    BY <1>3, <1>4, OnNoOtherList
  <2>3. Moved(n, k, e, q, kept, left, r, kept, left)
    BY <1>3, <1>5, <1>6, <1>8, <2>2 DEF Moved
  <2> QED BY <1>3, <2>1, <2>3, NodeMoved
<1> QED BY <1>3, <1>7, <1>9 DEF Before, Account

\* The node is retired: the first of the executor's list.
LEMMA AccountRetired ==
    ASSUME QueueTypeOK, NEW e \in Execs, Step(e), Retire(e), loc[e].head \in Nodes,
           NEW spot, NEW by, NEW q, NEW kept, NEW left, Before(spot, by, q, kept, left),
           Path(q)'
    PROVE  Account'
<1>1. PICK n \in Nodes : n = loc[e].head
  OBVIOUS
<1>2. /\ pc[e] = "retire" /\ pc'[e] \in {"scan", "d_done"} /\ free' = free
      /\ next' = [next EXCEPT ![n] = rlist[e]] /\ rlist' = [rlist EXCEPT ![e] = n]
  BY <1>1 DEF Retire, Goto, QueueTypeOK
<1>3. /\ \A m \in Nodes \ {n} : next'[m] = next[m]
      /\ next'[n] = rlist[e] /\ rlist'[e] = n
  BY <1>2 DEF QueueTypeOK
<1>4. InHand(e, left[e], n)
  BY <1>1, <1>2 DEF InHand, HandLabels
<1>5. spot[n] = "hand" /\ by[n] = e
  BY <1>4, OnNoOtherList
<1>6. /\ n \notin free /\ n \notin NodesOf(q)
      /\ \A f \in Execs : n \notin NodesOf(kept[f]) /\ n \notin NodesOf(left[f])
      /\ \A f \in Execs \ {e} : ~InHand(f, left[f], n)
  <2>1. pc[e] \notin SortLabels
    BY <1>2 DEF SortLabels
  <2> QED BY <1>5, <2>1, OnNoOtherList
<1>7. Trail(next, rlist[e], kept[e]) /\ Trail(next, NoNode, left[e])
  BY <1>2 DEF Before, ListsOK, Unsorted, SortLabels
<1>8. PICK r \in Seq(Nodes) : Trail(next', n, r) /\ NodesOf(r) = NodesOf(kept[e]) \cup {n}
  <2>1. \A m \in NodesOf(kept[e]) : next'[m] = next[m]
    BY <1>3, <1>6, <1>7 DEF Trail, NodesOf
  <2> QED BY <1>3, <1>6, <1>7, <2>1, TrailGrows
<1>9. PICK k2 : k2 = [kept EXCEPT ![e] = r]
  OBVIOUS
<1>10. k2 \in [Execs -> Seq(Nodes)] /\ k2[e] = r /\ \A f \in Execs \ {e} : k2[f] = kept[f]
  BY <1>9 DEF Before
<1>11. NodesOf(left[e]) = {} /\ Trail(next', NoNode, left[e])
  BY <1>7, TrailEmpty
<1>12. ASSUME NEW f \in Execs
       PROVE  /\ Trail(next', rlist'[f], k2[f])
              /\ Trail(next', Unsorted(f)', left[f])
              /\ pc'[f] = "s_sort" =>
                     loc'[f].curr # NoNode /\ loc'[f].next = next'[loc'[f].curr]
              /\ \A m : InHand(f, left[f], m)' <=> InHand(f, left[f], m) /\ ~(f = e /\ m = n)
  <2>1. CASE f = e
    <3>1. Unsorted(e)' = NoNode
      BY <1>2 DEF Unsorted, SortLabels
    <3>2. \A m : InHand(e, left[e], m)' <=> InHand(e, left[e], m) /\ m # n
      BY <1>1, <1>2, <1>11 DEF InHand, PrivateLabels, HandLabels
    <3> QED BY <1>2, <1>3, <1>8, <1>10, <1>11, <2>1, <3>1, <3>2
  <2>2. CASE f # e
    <3>1. ListsOK(q, kept, left)
      BY DEF Before
    <3>2. /\ Trail(next', rlist'[f], kept[f])
          /\ Trail(next', Unsorted(f)', left[f])
          /\ pc'[f] = "s_sort" =>
                 loc'[f].curr # NoNode /\ loc'[f].next = next'[loc'[f].curr]
          /\ \A m : InHand(f, left[f], m)' <=> InHand(f, left[f], m)
      BY <1>3, <1>6, <2>2, <3>1, OtherLists
    <3> QED BY <1>10, <2>2, <3>2
  <2> QED BY <2>1, <2>2
<1>13. ListsOK(q, k2, left)'
  BY <1>12 DEF ListsOK
<1>14. PICK k : k = "retired"
  OBVIOUS
<1>15. PICK s2 \in [Nodes -> Spots], b2 \in [Nodes -> Execs] : SpotsOK(s2, b2, q, k2, left)'
  <2>1. k \in Spots
    BY <1>14 DEF Spots
  <2>2. \A f \in Execs : ~InHand(f, left[f], n)'
    BY <1>6, <1>12
  <2>3. \A f \in Execs : n \in NodesOf(k2[f]) <=> e = f
    BY <1>6, <1>8, <1>10
  <2>4. \A f \in Execs, m \in Nodes \ {n} : m \in NodesOf(k2[f]) <=> m \in NodesOf(kept[f])
    BY <1>8, <1>10
  <2>5. Moved(n, k, e, q, kept, left, q, k2, left)
    BY <1>2, <1>6, <1>12, <1>14, <2>2, <2>3, <2>4 DEF Moved
  <2> QED BY <2>1, <2>5, NodeMoved
<1> QED BY <1>10, <1>13, <1>15 DEF Before, Account

\* A scan takes the retired nodes in hand.
LEMMA AccountScanned ==
    ASSUME QueueTypeOK, NEW e \in Execs, Step(e), ScanStart(e),
           NEW spot, NEW by, NEW q, NEW kept, NEW left, Before(spot, by, q, kept, left),
           Path(q)'
    PROVE  Account'
<1>1. /\ pc[e] = "s_start" /\ pc'[e] = "s_next" /\ UNCHANGED <<next, free>>
      /\ loc'[e].curr = rlist[e] /\ rlist'[e] = NoNode
  BY DEF ScanStart, Goto, Local, QueueTypeOK, LocType, queueVars
<1>2. Trail(next, rlist[e], kept[e]) /\ Trail(next, NoNode, left[e])
  BY <1>1 DEF Before, ListsOK, Unsorted, SortLabels
<1>3. NodesOf(left[e]) = {}
  BY <1>2, TrailEmpty
<1>4. PICK k2 : k2 = [kept EXCEPT ![e] = left[e]]
  OBVIOUS
<1>5. PICK l2 : l2 = [left EXCEPT ![e] = kept[e]]
  OBVIOUS
<1>6. /\ k2 \in [Execs -> Seq(Nodes)] /\ l2 \in [Execs -> Seq(Nodes)]
      /\ k2[e] = left[e] /\ l2[e] = kept[e]
      /\ \A f \in Execs \ {e} : k2[f] = kept[f] /\ l2[f] = left[f]
  BY <1>4, <1>5 DEF Before
<1>7. ASSUME NEW f \in Execs
      PROVE  /\ Trail(next', rlist'[f], k2[f])
             /\ Trail(next', Unsorted(f)', l2[f])
             /\ pc'[f] = "s_sort" =>
                    loc'[f].curr # NoNode /\ loc'[f].next = next'[loc'[f].curr]
             /\ \A m : InHand(f, l2[f], m)' <=>
                    IF f = e THEN m \in NodesOf(kept[e]) ELSE InHand(f, left[f], m)
  <2>1. CASE f = e
    <3>1. Unsorted(e)' = rlist[e]
      BY <1>1 DEF Unsorted, SortLabels
    <3>2. \A m : InHand(e, l2[e], m)' <=> m \in NodesOf(kept[e])
      BY <1>1, <1>6 DEF InHand, PrivateLabels, HandLabels
    <3> QED BY <1>1, <1>2, <1>6, <2>1, <3>1, <3>2
  <2>2. CASE f # e
    <3>1. /\ Trail(next, rlist[f], kept[f]) /\ Trail(next, Unsorted(f), left[f])
          /\ pc[f] = "s_sort" => loc[f].curr # NoNode /\ loc[f].next = next[loc[f].curr]
      BY DEF Before, ListsOK
    <3>2. pc'[f] = pc[f] /\ loc'[f] = loc[f] /\ rlist'[f] = rlist[f]
      BY <2>2, Frame
    <3>3. Unsorted(f)' = Unsorted(f) /\ \A m : InHand(f, left[f], m)' <=> InHand(f, left[f], m)
      BY <3>2 DEF Unsorted, InHand
    <3> QED BY <1>1, <1>6, <2>2, <3>1, <3>2, <3>3
  <2> QED BY <2>1, <2>2
<1>8. ListsOK(q, k2, l2)'
  BY <1>7 DEF ListsOK
<1>9. PICK s2 : s2 = [m \in Nodes |-> IF spot[m] = "retired" /\ by[m] = e THEN "hand" ELSE spot[m]]
  OBVIOUS
<1>10. s2 \in [Nodes -> Spots]
  BY <1>9 DEF Before, Spots
<1>11. SpotsOK(s2, by, q, k2, l2)'
  <2> SUFFICES ASSUME NEW m \in Nodes
               PROVE  /\ m \in free' <=> s2[m] = "free"
                      /\ m \in NodesOf(q) <=> s2[m] = "queue"
                      /\ \A f \in Execs :
                             /\ m \in NodesOf(k2[f]) <=> s2[m] = "retired" /\ by[m] = f
                             /\ InHand(f, l2[f], m)' <=> s2[m] = "hand" /\ by[m] = f
    BY DEF SpotsOK
  <2>1. /\ m \in free <=> spot[m] = "free"
        /\ m \in NodesOf(q) <=> spot[m] = "queue"
        /\ \A f \in Execs :
               /\ m \in NodesOf(kept[f]) <=> spot[m] = "retired" /\ by[m] = f
               /\ InHand(f, left[f], m) <=> spot[m] = "hand" /\ by[m] = f
    BY DEF Before, SpotsOK
  <2>2. s2[m] = IF spot[m] = "retired" /\ by[m] = e THEN "hand" ELSE spot[m]
    BY <1>9
  <2>3. ~InHand(e, left[e], m)
    BY <1>1, <1>3 DEF InHand, PrivateLabels, HandLabels
  <2>4. m \in free' <=> s2[m] = "free"
    BY <1>1, <2>1, <2>2
  <2>5. m \in NodesOf(q) <=> s2[m] = "queue"
    BY <2>1, <2>2
  <2>6. ASSUME NEW f \in Execs
        PROVE  /\ m \in NodesOf(k2[f]) <=> s2[m] = "retired" /\ by[m] = f
               /\ InHand(f, l2[f], m)' <=> s2[m] = "hand" /\ by[m] = f
    <3>1. InHand(f, l2[f], m)' <=>
              IF f = e THEN m \in NodesOf(kept[e]) ELSE InHand(f, left[f], m)
      BY <1>7
    <3>2. m \in NodesOf(k2[f]) <=> f # e /\ m \in NodesOf(kept[f])
      BY <1>3, <1>6
    <3> QED BY <2>1, <2>2, <2>3, <3>1, <3>2
  <2> QED BY <2>4, <2>5, <2>6
<1> QED BY <1>6, <1>8, <1>10, <1>11 DEF Before, Account

\* A node that was seen in a hazard pointer is retired again, another freed.
LEMMA AccountSorted ==
    ASSUME QueueTypeOK, NEW e \in Execs, Step(e), ScanSort(e),
           NEW spot, NEW by, NEW q, NEW kept, NEW left, Before(spot, by, q, kept, left),
           Path(q)'
    PROVE  Account'
<1>1. PICK n : n = loc[e].curr
  OBVIOUS
<1>2. /\ pc[e] = "s_sort" /\ pc'[e] = "s_next" /\ loc'[e].curr = loc[e].next
      /\ n # NoNode /\ loc[e].next = next[n]
  BY <1>1 DEF ScanSort, Goto, QueueTypeOK, LocType, Before, ListsOK
<1>3. Trail(next, rlist[e], kept[e]) /\ Trail(next, n, left[e])
  BY <1>1, <1>2 DEF Before, ListsOK, Unsorted, SortLabels
<1>4. PICK t \in Seq(Nodes) : Trail(next, next[n], t) /\ NodesOf(t) = NodesOf(left[e]) \ {n}
  BY <1>2, <1>3, TrailShrinks
<1>5. n \in Nodes /\ n \in NodesOf(left[e])
  BY <1>2, <1>3, TrailShrinks
<1>6. spot[n] = "hand" /\ by[n] = e
  BY <1>5, OnNoOtherList DEF InHand
<1>7. /\ n \notin free /\ n \notin NodesOf(q)
      /\ \A f \in Execs : n \notin NodesOf(kept[f]) /\ n \notin NodesOf(t)
      /\ \A f \in Execs \ {e} : ~InHand(f, left[f], n) /\ n \notin NodesOf(left[f])
  BY <1>4, <1>5, <1>6, OnNoOtherList
<1>8. PICK l2 : l2 = [left EXCEPT ![e] = t]
  OBVIOUS
<1>9. l2 \in [Execs -> Seq(Nodes)] /\ l2[e] = t /\ \A f \in Execs \ {e} : l2[f] = left[f]
  BY <1>8 DEF Before
<1>10. \A m \in Nodes \ {n} : next'[m] = next[m]
  BY <1>1, <1>5 DEF ScanSort, QueueTypeOK
<1>11. Trail(next', next[n], t)
  <2>1. NodesOf(t) \subseteq Nodes
    BY <1>4 DEF NodesOf
  <2> QED BY <1>4, <1>7, <1>10, <2>1, TrailKept
<1>12. NodesOf(kept[e]) \subseteq Nodes
  BY <1>3 DEF Trail, NodesOf
<1>13. PICK k2 \in [Execs -> Seq(Nodes)], k \in {"retired", "free"} :
           /\ Trail(next', rlist'[e], k2[e])
           /\ \A f \in Execs \ {e} : k2[f] = kept[f]
           /\ NodesOf(k2[e]) = NodesOf(kept[e]) \cup (IF k = "retired" THEN {n} ELSE {})
           /\ free' = free \cup (IF k = "free" THEN {n} ELSE {})
  <2>1. CASE n \in scan[e].ptab
    <3>1. next'[n] = rlist[e] /\ rlist'[e] = n /\ free' = free
      BY <1>1, <1>5, <2>1 DEF ScanSort, QueueTypeOK
    <3>2. \A m \in NodesOf(kept[e]) : next'[m] = next[m]
      BY <1>7, <1>10, <1>12
    <3>3. PICK r \in Seq(Nodes) : Trail(next', n, r) /\ NodesOf(r) = NodesOf(kept[e]) \cup {n}
      <4>1. Trail(next, rlist[e], kept[e]) /\ n \in Nodes /\ n \notin NodesOf(kept[e])
        BY <1>3, <1>5, <1>7
      <4> QED BY <3>1, <3>2, <4>1, TrailGrows
    <3>4. PICK k2 : k2 = [kept EXCEPT ![e] = r]
      OBVIOUS
    <3>5. k2 \in [Execs -> Seq(Nodes)] /\ k2[e] = r /\ \A f \in Execs \ {e} : k2[f] = kept[f]
      BY <3>4 DEF Before
    <3>6. PICK k \in {"retired", "free"} : k = "retired"
      OBVIOUS
    <3>7. NodesOf(k2[e]) = NodesOf(kept[e]) \cup (IF k = "retired" THEN {n} ELSE {})
      BY <3>3, <3>5, <3>6
    <3>8. free' = free \cup (IF k = "free" THEN {n} ELSE {})
      BY <3>1, <3>6
    <3> QED BY <3>1, <3>3, <3>5, <3>7, <3>8
  <2>2. CASE n \notin scan[e].ptab
    <3>1. rlist' = rlist /\ free' = free \cup {n}
      BY <1>1, <2>2 DEF ScanSort
    <3>2. \A m \in NodesOf(kept[e]) : next'[m] = next[m]
      BY <1>7, <1>10, <1>12
    <3>3. Trail(next', rlist'[e], kept[e])
      BY <1>3, <3>1, <3>2, TrailKept
    <3>4. PICK k \in {"retired", "free"} : k = "free"
      OBVIOUS
    <3>5. NodesOf(kept[e]) = NodesOf(kept[e]) \cup (IF k = "retired" THEN {n} ELSE {})
      BY <3>4
    <3>6. free' = free \cup (IF k = "free" THEN {n} ELSE {})
      BY <3>1, <3>4
    <3>7. kept \in [Execs -> Seq(Nodes)]
      BY DEF Before
    <3> QED BY <3>3, <3>5, <3>6, <3>7
  <2> QED BY <2>1, <2>2
<1>14. ASSUME NEW f \in Execs
       PROVE  /\ Trail(next', rlist'[f], k2[f])
              /\ Trail(next', Unsorted(f)', l2[f])
              /\ pc'[f] = "s_sort" =>
                     loc'[f].curr # NoNode /\ loc'[f].next = next'[loc'[f].curr]
              /\ \A m : InHand(f, l2[f], m)' <=> InHand(f, left[f], m) /\ ~(f = e /\ m = n)
  <2>1. CASE f = e
    <3>1. Unsorted(e)' = next[n]
      BY <1>2 DEF Unsorted, SortLabels
    <3>2. \A m : InHand(e, l2[e], m)' <=> InHand(e, left[e], m) /\ m # n
      BY <1>2, <1>4, <1>9 DEF InHand, PrivateLabels, HandLabels
    <3> QED BY <1>2, <1>9, <1>11, <1>13, <2>1, <3>1, <3>2
  <2>2. CASE f # e
    <3>1. ListsOK(q, kept, left)
      BY DEF Before
    <3>2. /\ Trail(next', rlist'[f], kept[f])
          /\ Trail(next', Unsorted(f)', left[f])
          /\ pc'[f] = "s_sort" =>
                 loc'[f].curr # NoNode /\ loc'[f].next = next'[loc'[f].curr]
          /\ \A m : InHand(f, left[f], m)' <=> InHand(f, left[f], m)
      BY <1>7, <1>10, <2>2, <3>1, OtherLists
    <3> QED BY <1>9, <1>13, <2>2, <3>2
  <2> QED BY <2>1, <2>2
<1>15. ListsOK(q, k2, l2)'
  BY <1>14 DEF ListsOK
<1>16. PICK s2 \in [Nodes -> Spots], b2 \in [Nodes -> Execs] : SpotsOK(s2, b2, q, k2, l2)'
  <2>1. k \in Spots
    BY DEF Spots
  <2>2. \A f \in Execs : ~InHand(f, l2[f], n)'
    BY <1>7, <1>14
  <2>3. \A f \in Execs : n \in NodesOf(k2[f]) <=> k = "retired" /\ e = f
    BY <1>7, <1>13
  <2>4. \A f \in Execs, m \in Nodes \ {n} : m \in NodesOf(k2[f]) <=> m \in NodesOf(kept[f])
    BY <1>13
  <2>5. /\ \A m \in Nodes \ {n} : m \in free' <=> m \in free
        /\ n \in free' <=> k = "free"
        /\ k # "queue" /\ k # "hand"
    BY <1>7, <1>13
  <2>6. \A f \in Execs, m \in Nodes \ {n} : InHand(f, l2[f], m)' <=> InHand(f, left[f], m)
    BY <1>14
  <2>7. Moved(n, k, e, q, kept, left, q, k2, l2)
    BY <1>7, <2>2, <2>3, <2>4, <2>5, <2>6 DEF Moved
  <2> QED BY <1>5, <2>1, <2>7, NodeMoved
<1> QED BY <1>9, <1>15, <1>16 DEF Before, Account

\* At the start the sentinel is the queue and the other nodes are free.
LEMMA AccountInit ==
    ASSUME Init
    PROVE  Account
<1> DEFINE q == <<Sentinel>>
<1>1. q \in Seq(Nodes) /\ Len(q) = 1 /\ q[1] = Sentinel /\ NodesOf(q) = {Sentinel}
  BY QueueAssumption DEF NodesOf
<1> HIDE DEF q
<1>2. Path(q)
  <2>1. \A i, j \in 1 .. Len(q) : i = j
    BY <1>1
  <2>2. \A i \in 1 .. Len(q) - 1 : FALSE
    BY <1>1
  <2> QED BY <1>1, <2>1, <2>2, QueueAssumption DEF Init, Path
<1> DEFINE none == <<>>
<1>3. none \in Seq(Nodes) /\ Len(none) = 0 /\ NodesOf(none) = {}
  BY DEF NodesOf
<1>4. Trail(next, NoNode, none)
  BY <1>3 DEF Trail
<1> HIDE DEF none
<1>5. PICK kept \in [Execs -> Seq(Nodes)] : \A e \in Execs : kept[e] = none
  <2>1. [e \in Execs |-> none] \in [Execs -> Seq(Nodes)]
    BY <1>3
  <2> QED BY <2>1
<1>6. PICK spot \in [Nodes -> Spots] :
          \A n \in Nodes : spot[n] = IF n = Sentinel THEN "queue" ELSE "free"
  <2>1. [n \in Nodes |-> IF n = Sentinel THEN "queue" ELSE "free"] \in [Nodes -> Spots]
    BY DEF Spots
  <2> QED BY <2>1
<1>7. PICK by \in [Nodes -> Execs] : TRUE
  <2>1. 0 \in Execs
    BY QueueAssumption DEF Execs
  <2>2. [n \in Nodes |-> 0] \in [Nodes -> Execs]
    BY <2>1
  <2> QED BY <2>2
<1>8. \A e \in Execs : pc[e] = "idle" /\ rlist[e] = NoNode /\ Unsorted(e) = NoNode
  BY DEF Init, Unsorted, SortLabels
<1>9. ListsOK(q, kept, kept)
  BY <1>2, <1>4, <1>5, <1>8 DEF ListsOK
<1>10. SpotsOK(spot, by, q, kept, kept)
  <2>1. free = Nodes \ {Sentinel}
    BY DEF Init
  <2>2. \A e \in Execs, n \in Nodes : n \notin NodesOf(kept[e]) /\ ~InHand(e, kept[e], n)
    BY <1>3, <1>5, <1>8 DEF InHand, PrivateLabels, HandLabels
  <2> QED BY <1>1, <1>6, <2>1, <2>2 DEF SpotsOK
<1> QED BY <1>1, <1>5, <1>6, <1>7, <1>9, <1>10 DEF Account

\* The account stays right in every step that is not a late link.
LEMMA AccountStep ==
    ASSUME AccountInv, [Next]_vars, [\A e \in Execs : ~LateLink(e)]_vars
    PROVE  AccountInv'
<1>1. FifoInv'
  BY FifoInvStep DEF AccountInv
<1>2. QueueTypeOK /\ ValuesOK /\ HazardInv
  BY DEF AccountInv, FifoInv, HazardInv
<1>3. PICK kind \in [Nodes -> Kinds], owner \in [Nodes -> Execs] : PlacesOK(kind, owner)
  BY <1>2 DEF HazardInv
<1>4. PICK spot \in [Nodes -> Spots], by \in [Nodes -> Execs], q \in Seq(Nodes),
           kept \in [Execs -> Seq(Nodes)], left \in [Execs -> Seq(Nodes)] :
          ListsOK(q, kept, left) /\ SpotsOK(spot, by, q, kept, left)
  BY DEF AccountInv, Account
<1>5. Before(spot, by, q, kept, left) /\ Path(q)
  BY <1>4 DEF Before, ListsOK
<1>7. CASE UNCHANGED vars
  <2>1. ListsOK(q, kept, left)' /\ SpotsOK(spot, by, q, kept, left)'
    <3>1. \A e \in Execs : Unsorted(e)' = Unsorted(e)
      BY <1>7 DEF vars, Unsorted
    <3>2. Path(q)'
      BY <1>5, <1>7 DEF vars, Path
    <3>3. ListsOK(q, kept, left)'
      BY <1>4, <1>7, <3>1, <3>2 DEF vars, ListsOK
    <3>4. \A e \in Execs, n \in Nodes : InHand(e, left[e], n)' <=> InHand(e, left[e], n)
      BY <1>7 DEF vars, InHand
    <3>5. SpotsOK(spot, by, q, kept, left)'
      BY <1>4, <1>7, <3>4 DEF vars, SpotsOK
    <3> QED BY <3>3, <3>5
  <2> QED BY <1>1, <1>5, <2>1 DEF AccountInv, Account, Before
<1>9. ASSUME NEW e \in Execs, LateLink(e)
      PROVE  FALSE
  BY <1>2, <1>9, LateChanges
<1>8. ASSUME NEW e \in Execs, Step(e)
      PROVE  AccountInv'
  <2>1. CASE Links(e, q)
    <3>1. PICK n : n = loc[e].node
      OBVIOUS
    <3>2. n \in Nodes /\ Path(Append(q, n))'
      BY <1>2, <1>3, <1>5, <1>8, <2>1, <3>1, QueueGrows
    <3>3. /\ EnqueueCas(e) /\ next[loc[e].tail] = NoNode
          /\ loc[e].tail \in NodesOf(q) /\ loc[e].tail \in Nodes
      <4>1. NodesOf(q) \subseteq Nodes
        BY <1>5 DEF Path, NodesOf
      <4> QED BY <2>1, <4>1 DEF Links
    <3>4. Account'
      BY <1>2, <1>5, <1>8, <3>1, <3>2, <3>3, AccountLinked
    <3> QED BY <1>1, <3>4 DEF AccountInv
  <2>2. CASE DequeueCas(e) /\ head = loc[e].head
    <3>1. loc' = loc /\ Path(Tail(q))'
      BY <1>2, <1>3, <1>5, <1>8, <2>2, QueueShrinks
    <3>2. pc'[e] = "d_data"
      BY <1>2, <2>2 DEF DequeueCas, Onward, Goto, QueueTypeOK
    <3>3. Account'
      BY <1>2, <1>5, <1>8, <2>2, <3>1, <3>2, AccountUnlinked
    <3> QED BY <1>1, <3>3 DEF AccountInv
  <2>3. CASE ~Links(e, q) /\ ~(DequeueCas(e) /\ head = loc[e].head)
    <3>1. head' = head
      BY <1>8, <2>3, Untouched DEF DequeueCas
    <3>2. Path(q)'
      BY <1>2, <1>3, <1>5, <1>8, <2>3, <3>1, QueueKept
    <3>3. CASE EnqueueStart(e)
      <4>1. Account'
        BY <1>2, <1>5, <1>8, <3>2, <3>3, AccountTaken
      <4> QED BY <1>1, <4>1 DEF AccountInv
    <3>4. CASE Retire(e)
      <4>1. loc[e].head \in Nodes
        BY <1>3, <3>4 DEF Retire, PlacesOK, Possesses, HandLabels
      <4>2. Account'
        BY <1>2, <1>5, <1>8, <3>2, <3>4, <4>1, AccountRetired
      <4> QED BY <1>1, <4>2 DEF AccountInv
    <3>5. CASE ScanStart(e)
      <4>1. Account'
        BY <1>2, <1>5, <1>8, <3>2, <3>5, AccountScanned
      <4> QED BY <1>1, <4>1 DEF AccountInv
    <3>6. CASE ScanSort(e)
      <4>1. Account'
        BY <1>2, <1>5, <1>8, <3>2, <3>6, AccountSorted
      <4> QED BY <1>1, <4>1 DEF AccountInv
    <3>7. CASE ~EnqueueStart(e) /\ ~Retire(e) /\ ~ScanStart(e) /\ ~ScanSort(e)
      <4>1. EnqueueCas(e) => next[loc[e].tail] # NoNode
        BY <1>5, <1>9, <2>3, LinksOrLate
      <4>2. ListsOK(q, kept, left)' /\ SpotsOK(spot, by, q, kept, left)'
        BY <1>2, <1>4, <1>8, <2>3, <3>2, <3>7, <4>1, AccountKept
      <4> QED BY <1>1, <1>5, <4>2 DEF AccountInv, Account, Before
    <3> QED BY <3>3, <3>4, <3>5, <3>6, <3>7
  <2> QED BY <2>1, <2>2, <2>3
<1> QED BY <1>7, <1>8 DEF Next

\* The account gives NodesAccounted: OnChain finds the nodes of each list.
LEMMA AccountSafe ==
    ASSUME AccountInv
    PROVE  NodesAccounted
<1>1. PICK spot \in [Nodes -> Spots], by \in [Nodes -> Execs], q \in Seq(Nodes),
           kept \in [Execs -> Seq(Nodes)], left \in [Execs -> Seq(Nodes)] :
          ListsOK(q, kept, left) /\ SpotsOK(spot, by, q, kept, left)
  BY DEF AccountInv, Account
<1>2. ASSUME NEW n, NEW r, Trail(next, n, r)
      PROVE  OnChain(n) = NodesOf(r)
  BY <1>2, ChainOfTrail DEF OnChain, NodesOf
<1>3. OnChain(head) = NodesOf(q)
  <2>1. Trail(next, head, q)
    BY <1>1 DEF ListsOK, Path, Trail
  <2> QED BY <1>2, <2>1
<1>4. \A e \in Execs : OnChain(rlist[e]) = NodesOf(kept[e])
  BY <1>1, <1>2 DEF ListsOK
<1>5. ASSUME NEW e \in Execs
      PROVE  /\ pc[e] = "s_next" => OnChain(loc[e].curr) = NodesOf(left[e])
             /\ pc[e] = "s_sort" => {loc[e].curr} \cup OnChain(loc[e].next) = NodesOf(left[e])
             /\ pc[e] \notin {"s_next", "s_sort"} => NodesOf(left[e]) = {}
  <2>1. Trail(next, Unsorted(e), left[e])
    BY <1>1 DEF ListsOK
  <2>2. CASE pc[e] = "s_next"
    BY <1>2, <2>1, <2>2 DEF Unsorted, SortLabels
  <2>3. CASE pc[e] = "s_sort"
    <3>1. /\ loc[e].curr # NoNode /\ loc[e].next = next[loc[e].curr]
          /\ Trail(next, loc[e].curr, left[e])
      BY <1>1, <2>1, <2>3 DEF ListsOK, Unsorted, SortLabels
    <3>2. PICK t : /\ Trail(next, loc[e].next, t)
                   /\ NodesOf(t) = NodesOf(left[e]) \ {loc[e].curr}
                   /\ loc[e].curr \in NodesOf(left[e])
      BY <3>1, TrailShrinks
    <3>3. OnChain(loc[e].next) = NodesOf(left[e]) \ {loc[e].curr}
      BY <1>2, <3>2
    <3> QED BY <2>3, <3>2, <3>3
  <2>4. CASE pc[e] \notin {"s_next", "s_sort"}
    BY <2>1, <2>4, TrailEmpty DEF Unsorted, SortLabels
  <2> QED BY <2>2, <2>3, <2>4
<1> DEFINE Hand(e, n) ==
               \/ pc[e] \in {"e_tail", "e_hp", "e_check", "e_next", "e_again",
                             "e_help", "e_cas"} /\ loc[e].node = n
               \/ pc[e] \in {"d_data", "d_unhp1", "retire"} /\ loc[e].head = n
               \/ pc[e] = "s_next" /\ n \in OnChain(loc[e].curr)
               \/ pc[e] = "s_sort" /\ n \in {loc[e].curr} \cup OnChain(loc[e].next)
           Places(n) == {"free" : x \in {n} \cap free}
                        \cup {"queue" : x \in {n} \cap OnChain(head)}
                        \cup {<<"retired", e>> : e \in {f \in Execs : n \in OnChain(rlist[f])}}
                        \cup {<<"hand", e>> : e \in {f \in Execs : Hand(f, n)}}
<1>6. \A e \in Execs, n \in Nodes : Hand(e, n) <=> InHand(e, left[e], n)
  BY <1>5 DEF InHand, PrivateLabels, HandLabels
<1>7. ASSUME NEW n \in Nodes
      PROVE  Cardinality(Places(n)) = 1
  <2>1. /\ n \in free <=> spot[n] = "free"
        /\ n \in OnChain(head) <=> spot[n] = "queue"
        /\ \A e \in Execs :
               /\ n \in OnChain(rlist[e]) <=> spot[n] = "retired" /\ by[n] = e
               /\ Hand(e, n) <=> spot[n] = "hand" /\ by[n] = e
    BY <1>1, <1>3, <1>4, <1>6 DEF SpotsOK
  <2> HIDE DEF Hand
  <2>2. \E p : Places(n) = {p}
    <3>1. by[n] \in Execs
      OBVIOUS
    <3>2. CASE spot[n] = "free"
      <4>1. Places(n) = {"free"}
        BY <2>1, <3>2
      <4> QED BY <4>1
    <3>3. CASE spot[n] = "queue"
      <4>1. Places(n) = {"queue"}
        BY <2>1, <3>3
      <4> QED BY <4>1
    <3>4. CASE spot[n] = "retired"
      <4>1. Places(n) = {<<"retired", by[n]>>}
        BY <2>1, <3>1, <3>4
      <4> QED BY <4>1
    <3>5. CASE spot[n] = "hand"
      <4>1. Places(n) = {<<"hand", by[n]>>}
        BY <2>1, <3>1, <3>5
      <4> QED BY <4>1
    <3> QED BY <3>2, <3>3, <3>4, <3>5 DEF Spots
  <2> HIDE DEF Places
  <2> QED BY <2>2, FS_Singleton
<1> QED BY <1>7 DEF NodesAccounted

\* As long as no late link happens no node of the workshare queue is lost or
\* used twice: each is in the allocator, the queue, the retired nodes of one
\* executor or the hands of one executor, and nowhere else.
THEOREM EveryNodeInOnePlace ==
    Spec /\ [][\A e \in Execs : ~LateLink(e)]_vars => []NodesAccounted
<1>1. Init => AccountInv
  BY FifoInvInit, AccountInit DEF AccountInv
<1>2. AccountInv /\ [Next]_vars /\ [\A e \in Execs : ~LateLink(e)]_vars => AccountInv'
  BY AccountStep
<1>3. AccountInv => NodesAccounted
  BY AccountSafe
<1> QED BY <1>1, <1>2, <1>3, PTL DEF Spec
-----------------------------------------------------------------------------
(* What a scan finds.                                                      *)

\* There is one list from a node on.
LEMMA TrailUnique ==
    ASSUME NEW f, NEW n, NEW q, Trail(f, n, q), NEW r, Trail(f, n, r)
    PROVE  q = r
<1>1. /\ Len(q) \in Nat /\ q \in [1 .. Len(q) -> Nodes] /\ q \in Seq(Nodes)
      /\ Len(r) \in Nat /\ r \in [1 .. Len(r) -> Nodes] /\ r \in Seq(Nodes)
      /\ NoNode \notin Nodes
  BY QueueAssumption DEF Trail
<1> DEFINE S == {i \in Nat : /\ i < Len(q) <=> i < Len(r)
                             /\ i < Len(q) => q[i + 1] = r[i + 1]}
<1>2. 0 \in S
  <2>1. Len(q) = 0 <=> n = NoNode
    BY <1>1 DEF Trail
  <2>2. Len(r) = 0 <=> n = NoNode
    BY <1>1 DEF Trail
  <2> QED BY <1>1, <2>1, <2>2 DEF Trail
<1>3. ASSUME NEW i \in Nat, i \in S
      PROVE  i + 1 \in S
  <2>1. CASE i + 1 < Len(q) \/ i + 1 < Len(r)
    <3>1. i < Len(q) /\ i < Len(r) /\ q[i + 1] = r[i + 1]
      BY <1>1, <1>3, <2>1
    <3>2. i + 1 \in 1 .. Len(q) /\ i + 1 \in 1 .. Len(r)
      BY <1>1, <3>1
    <3>3. f[q[i + 1]] = IF i + 1 < Len(q) THEN q[(i + 1) + 1] ELSE NoNode
      BY <1>1, <3>2 DEF Trail
    <3>4. f[r[i + 1]] = IF i + 1 < Len(r) THEN r[(i + 1) + 1] ELSE NoNode
      BY <1>1, <3>2 DEF Trail
    <3>5. i + 1 < Len(q) => q[(i + 1) + 1] \in Nodes
      BY <1>1
    <3>6. i + 1 < Len(r) => r[(i + 1) + 1] \in Nodes
      BY <1>1
    <3> QED BY <1>1, <3>1, <3>3, <3>4, <3>5, <3>6
  <2>2. CASE ~(i + 1 < Len(q) \/ i + 1 < Len(r))
    BY <2>2
  <2> QED BY <2>1, <2>2
<1> HIDE DEF S
<1>4. Nat \subseteq S
  BY <1>2, <1>3, SetInduction
<1>5. Len(q) = Len(r)
  <2>1. Len(q) \in S /\ Len(r) \in S
    BY <1>1, <1>4
  <2>2. ~(Len(q) < Len(r))
    BY <1>1, <2>1 DEF S
  <2>3. ~(Len(r) < Len(q))
    BY <1>1, <2>1 DEF S
  <2>4. Len(q) \in Nat /\ Len(r) \in Nat
    BY <1>1
  <2> QED BY <2>2, <2>3, <2>4
<1>6. ASSUME NEW i \in 1 .. Len(q)
      PROVE  q[i] = r[i]
  <2>1. i - 1 \in Nat /\ i - 1 < Len(q) /\ (i - 1) + 1 = i
    BY <1>1
  <2> QED BY <1>4, <2>1 DEF S
<1> QED BY <1>1, <1>5, <1>6

\* The retired nodes of e, and those its scan has left.
Lists(e, kept, left) == Trail(next, rlist[e], kept) /\ Trail(next, Unsorted(e), left)

\* rcount[e] counts the retired nodes; the table of a scan has a node for every
\* hazard pointer at most, and what the scan has kept is in it.
ScanOK(e) ==
    /\ pc[e] \in {"scan", "s_start"} => rcount[e] > Threshold
    /\ Cardinality(scan[e].ptab) <= scan[e].pos
    /\ scan[e].pos <= 2 * NumExecs
    /\ \A kept, left : Lists(e, kept, left) =>
           /\ Len(kept) = rcount[e]
           /\ pc[e] \in SortLabels => NodesOf(kept) \subseteq scan[e].ptab

\* The scan of e has freed no node yet.
Full(e) == \A kept, left : Lists(e, kept, left) => Len(kept) + Len(left) > Threshold

\* No step touches the lists of another executor: what it links is its own, free
\* or in the queue.
LEMMA OthersLists ==
    ASSUME QueueTypeOK, HazardInv, NEW f \in Execs, Step(f),
           NEW spot, NEW by, NEW q, NEW kept, NEW left, Before(spot, by, q, kept, left), ~LateLink(f),
           NEW e \in Execs, e # f
    PROVE  /\ Trail(next', rlist'[e], kept[e]) /\ Trail(next', Unsorted(e)', left[e])
           /\ Trail(next, rlist[e], kept[e]) /\ Trail(next, Unsorted(e), left[e])
<1>1. ListsOK(q, kept, left) /\ Path(q)
  BY DEF Before, ListsOK
<1>2. Trail(next, rlist[e], kept[e]) /\ Trail(next, Unsorted(e), left[e])
  BY <1>1 DEF ListsOK
<1>3. rlist'[e] = rlist[e] /\ Unsorted(e)' = Unsorted(e)
  BY Frame DEF Unsorted
<1>4. ASSUME NEW x \in Nodes, \A m \in Nodes \ {x} : next'[m] = next[m],
             ~(spot[x] \in {"retired", "hand"} /\ by[x] = e)
      PROVE  Trail(next', rlist'[e], kept[e]) /\ Trail(next', Unsorted(e)', left[e])
  <2>1. x \notin NodesOf(kept[e]) /\ x \notin NodesOf(left[e])
    BY <1>4, OnNoOtherList
  <2> QED BY <1>1, <1>4, <2>1, OtherLists
<1>5. CASE EnqueueStart(f)
  <2>1. PICK n \in free : next' = [next EXCEPT ![n] = NoNode]
    BY <1>5 DEF EnqueueStart
  <2>2. n \in Nodes /\ spot[n] = "free"
    <3>1. n \in Nodes
      BY DEF QueueTypeOK
    <3> QED BY <3>1, OnNoOtherList
  <2>3. \A m \in Nodes \ {n} : next'[m] = next[m]
    BY <2>1 DEF QueueTypeOK
  <2> QED BY <1>2, <1>4, <2>2, <2>3
<1>6. CASE EnqueueCas(f)
  <2>1. PICK n : n = loc[f].tail
    OBVIOUS
  <2>2. CASE next[n] = NoNode
    <3>1. n \in NodesOf(q)
      BY <1>1, <1>6, <2>1, <2>2, LinksOrLate DEF Links
    <3>2. n \in Nodes
      BY <1>1, <3>1 DEF Path, NodesOf
    <3>3. spot[n] = "queue"
      BY <3>1, <3>2, OnNoOtherList
    <3>4. \A m \in Nodes \ {n} : next'[m] = next[m]
      BY <1>6, <2>1 DEF EnqueueCas, QueueTypeOK
    <3> QED BY <1>2, <1>4, <3>2, <3>3, <3>4
  <2>3. CASE next[n] # NoNode
    <3>1. next' = next
      BY <1>6, <2>1, <2>3 DEF EnqueueCas
    <3> QED BY <1>2, <1>3, <3>1
  <2> QED BY <2>2, <2>3
<1>7. CASE Retire(f)
  <2>1. PICK n : n = loc[f].head
    OBVIOUS
  <2>2. InHand(f, left[f], n)
    BY <1>7, <2>1 DEF Retire, InHand, HandLabels
  <2>3. n \in Nodes
    BY <1>7, <2>1 DEF Retire, HazardInv, PlacesOK, Possesses, HandLabels
  <2>4. spot[n] = "hand" /\ by[n] = f
    BY <2>2, <2>3, OnNoOtherList
  <2>5. \A m \in Nodes \ {n} : next'[m] = next[m]
    BY <1>7, <2>1 DEF Retire, QueueTypeOK
  <2> QED BY <1>2, <1>4, <2>3, <2>4, <2>5
<1>8. CASE ScanSort(f)
  <2>1. PICK n : n = loc[f].curr
    OBVIOUS
  <2>2. n \in Nodes /\ n \in NodesOf(left[f])
    <3>1. n # NoNode /\ Trail(next, n, left[f])
      BY <1>1, <1>8, <2>1 DEF ScanSort, ListsOK, Unsorted, SortLabels
    <3> QED BY <3>1, TrailShrinks
  <2>3. spot[n] = "hand" /\ by[n] = f
    BY <2>2, OnNoOtherList DEF InHand
  <2>4. \A m \in Nodes \ {n} : next'[m] = next[m]
    BY <1>8, <2>1 DEF ScanSort, QueueTypeOK
  <2> QED BY <1>2, <1>4, <2>2, <2>3, <2>4
<1>9. CASE UNCHANGED next
  BY <1>2, <1>3, <1>9
<1> QED BY <1>2, <1>5, <1>6, <1>7, <1>8, <1>9, Untouched

\* So another executor's scan goes on as it was.
LEMMA OthersScan ==
    ASSUME QueueTypeOK, HazardInv, NEW f \in Execs, Step(f), rcount \in [Execs -> Nat],
           NEW spot, NEW by, NEW q, NEW kept, NEW left, Before(spot, by, q, kept, left), ~LateLink(f),
           NEW e \in Execs, e # f, ScanOK(e)
    PROVE  ScanOK(e)' /\ (Full(e) => Full(e)')
<1>1. /\ pc'[e] = pc[e] /\ scan'[e] = scan[e] /\ rcount'[e] = rcount[e]
  <2>1. pc'[e] = pc[e] /\ scan'[e] = scan[e]
    BY Frame
  <2>2. Retire(f) \/ ScanStart(f) \/ ScanSort(f) \/ UNCHANGED rcount
    BY DEF Step, hazardVars, EnqueueStart, EnqueueTail, EnqueueHazard, EnqueueCheck,
       EnqueueNext, EnqueueAgain, EnqueueHelp, EnqueueCas, EnqueueSwing, EnqueueDone,
       DequeueHead, DequeueHazard, DequeueCheck, DequeueTail, DequeueNext,
       DequeueHazardNext, DequeueAgain, DequeueHelp, DequeueCas, DequeueData,
       DequeueUnhazard, DequeueEmpty, DequeueDone, Scan, ScanNext
  <2>3. rcount'[e] = rcount[e]
    BY <2>2 DEF Retire, ScanStart, ScanSort
  <2> QED BY <2>1, <2>3
<1>2. PICK k, l : k = kept[e] /\ l = left[e]
  OBVIOUS
<1>3. /\ Trail(next', rlist'[e], k) /\ Trail(next', Unsorted(e)', l)
      /\ Trail(next, rlist[e], k) /\ Trail(next, Unsorted(e), l)
  BY <1>2, OthersLists
<1>4. \A k2, l2 : Lists(e, k2, l2)' => k2 = k /\ l2 = l
  BY <1>3, TrailUnique DEF Lists
<1>5. Lists(e, k, l)
  BY <1>3 DEF Lists
<1>6. ScanOK(e)'
  BY <1>1, <1>4, <1>5 DEF ScanOK
<1>7. Full(e) => Full(e)'
  BY <1>4, <1>5 DEF Full
<1> QED BY <1>6, <1>7

\* A step that neither retires nor sorts leaves an executor's lists alone; only
\* scans write the table.
LEMMA QuietScan ==
    ASSUME QueueTypeOK, NEW e \in Execs, Step(e), ~Retire(e), ~ScanStart(e), ~ScanSort(e)
    PROVE  /\ rlist' = rlist /\ rcount' = rcount /\ Unsorted(e)' = Unsorted(e)
           /\ Scan(e) \/ ScanNext(e) \/ UNCHANGED scan
           /\ Scan(e) \/ pc'[e] \notin {"scan", "s_start"}
           /\ pc'[e] \in SortLabels => pc[e] = "s_next" /\ scan' = scan
<1> USE DEF SortLabels, Unsorted, QueueTypeOK, LocType, Goto, Local,
        Hazard, Retry, Onward, NoLoc, queueVars, hazardVars, callVars
<1>1. CASE EnqueueTail(e)  BY <1>1 DEF EnqueueTail
<1>2. CASE EnqueueHazard(e)  BY <1>2 DEF EnqueueHazard
<1>3. CASE EnqueueCheck(e)  BY <1>3 DEF EnqueueCheck
<1>4. CASE EnqueueNext(e)  BY <1>4 DEF EnqueueNext
<1>5. CASE EnqueueAgain(e)  BY <1>5 DEF EnqueueAgain
<1>6. CASE EnqueueHelp(e)  BY <1>6 DEF EnqueueHelp
<1>7. CASE EnqueueSwing(e)  BY <1>7 DEF EnqueueSwing
<1>8. CASE EnqueueDone(e)  BY <1>8 DEF EnqueueDone
<1>9. CASE DequeueHead(e)  BY <1>9 DEF DequeueHead
<1>10. CASE DequeueHazard(e)  BY <1>10 DEF DequeueHazard
<1>11. CASE DequeueCheck(e)  BY <1>11 DEF DequeueCheck
<1>12. CASE DequeueTail(e)  BY <1>12 DEF DequeueTail
<1>13. CASE DequeueNext(e)  BY <1>13 DEF DequeueNext
<1>14. CASE DequeueHazardNext(e)  BY <1>14 DEF DequeueHazardNext
<1>15. CASE DequeueAgain(e)  BY <1>15 DEF DequeueAgain
<1>16. CASE DequeueHelp(e)  BY <1>16 DEF DequeueHelp
<1>17. CASE DequeueCas(e)  BY <1>17 DEF DequeueCas
<1>18. CASE DequeueData(e)  BY <1>18 DEF DequeueData
<1>19. CASE DequeueUnhazard(e)  BY <1>19 DEF DequeueUnhazard
<1>20. CASE DequeueEmpty(e)  BY <1>20 DEF DequeueEmpty
<1>21. CASE DequeueDone(e)  BY <1>21 DEF DequeueDone
<1>22. CASE Scan(e)  BY <1>22 DEF Scan
<1>23. CASE ScanNext(e)  BY <1>23 DEF ScanNext
<1>24. CASE EnqueueStart(e)  BY <1>24 DEF EnqueueStart
<1>25. CASE EnqueueCas(e)  BY <1>25 DEF EnqueueCas
<1>26. QED
  BY <1>1, <1>2, <1>3, <1>4, <1>5, <1>6, <1>7, <1>8, <1>9, <1>10, <1>11, <1>12,
     <1>13, <1>14, <1>15, <1>16, <1>17, <1>18, <1>19, <1>20, <1>21, <1>22, <1>23,
     <1>24, <1>25 DEF Step

\* What a step of the executor itself does to its scan: a node that is sorted
\* and not freed is kept.
LEMMA OwnScan ==
    ASSUME QueueTypeOK, HazardInv, NEW e \in Execs, Step(e), rcount \in [Execs -> Nat],
           NEW spot, NEW by, NEW q, NEW kept, NEW left, Before(spot, by, q, kept, left), ~LateLink(e),
           ScanOK(e)
    PROVE  /\ ScanOK(e)'
           /\ /\ pc'[e] \in SortLabels
              /\ pc[e] \in SortLabels => Full(e) /\ free' = free
              => Full(e)'
<1>1. PICK k, l : k = kept[e] /\ l = left[e]
  OBVIOUS
<1>2. /\ Trail(next, rlist[e], k) /\ Trail(next, Unsorted(e), l)
      /\ pc[e] = "s_sort" => loc[e].curr # NoNode /\ loc[e].next = next[loc[e].curr]
      /\ Len(k) \in Nat /\ Len(l) \in Nat
      /\ NodesOf(k) \subseteq Nodes /\ NodesOf(l) \subseteq Nodes
  <2>1. /\ Trail(next, rlist[e], k) /\ Trail(next, Unsorted(e), l)
        /\ pc[e] = "s_sort" => loc[e].curr # NoNode /\ loc[e].next = next[loc[e].curr]
    BY <1>1 DEF Before, ListsOK
  <2> QED BY <2>1 DEF Trail, NodesOf
<1>3. Lists(e, k, l)
  BY <1>2 DEF Lists
<1>4. /\ Len(k) = rcount[e]
      /\ pc[e] \in SortLabels => NodesOf(k) \subseteq scan[e].ptab
      /\ pc[e] \in {"scan", "s_start"} => rcount[e] > Threshold
      /\ Cardinality(scan[e].ptab) <= scan[e].pos
      /\ scan[e].pos <= 2 * NumExecs
  BY <1>3 DEF ScanOK
<1>5. ASSUME NEW k2, NEW l2, Trail(next', rlist'[e], k2), Trail(next', Unsorted(e)', l2)
      PROVE  \A k3, l3 : Lists(e, k3, l3)' => k3 = k2 /\ l3 = l2
  BY <1>5, TrailUnique DEF Lists
<1>6. \A n \in Nodes :
          /\ spot[n] \notin {"retired", "hand"} => n \notin NodesOf(k) /\ n \notin NodesOf(l)
          /\ n \in NodesOf(l) => spot[n] = "hand"
          /\ spot[n] = "hand" => n \notin NodesOf(k)
  BY <1>1, OnNoOtherList DEF InHand
<1>7. CASE Retire(e)
  <2>1. PICK n : n = loc[e].head
    OBVIOUS
  <2>2. /\ pc[e] = "retire" /\ pc'[e] = IF rcount[e] >= Threshold THEN "scan" ELSE "d_done"
        /\ scan' = scan /\ rcount'[e] = rcount[e] + 1
    BY <1>7 DEF Retire, Goto, QueueTypeOK
  <2>3. n \in Nodes
    BY <1>7, <2>1 DEF Retire, HazardInv, PlacesOK, Possesses, HandLabels
  <2>4. spot[n] = "hand"
    <3>1. InHand(e, left[e], n)
      BY <2>1, <2>2 DEF InHand, HandLabels
    <3> QED BY <2>3, <3>1, OnNoOtherList
  <2>5. /\ \A m \in Nodes \ {n} : next'[m] = next[m]
        /\ next'[n] = rlist[e] /\ rlist'[e] = n
    BY <1>7, <2>1, <2>3 DEF Retire, QueueTypeOK
  <2>6. n \notin NodesOf(k) /\ \A m \in NodesOf(k) : next'[m] = next[m]
    BY <1>2, <1>6, <2>3, <2>4, <2>5
  <2>7. PICK k2 \in Seq(Nodes) : Trail(next', n, k2) /\ Len(k2) = Len(k) + 1
    BY <1>2, <2>3, <2>5, <2>6, TrailGrows
  <2>8. Trail(next', Unsorted(e)', l)
    <3>1. Unsorted(e) = NoNode /\ Unsorted(e)' = NoNode
      BY <2>2 DEF Unsorted, SortLabels
    <3> QED BY <1>2, <3>1, TrailEmpty
  <2>9. \A k3, l3 : Lists(e, k3, l3)' => k3 = k2
    BY <1>5, <2>5, <2>7, <2>8
  <2>10. pc'[e] \notin SortLabels /\ (pc'[e] \in {"scan", "s_start"} => rcount'[e] > Threshold)
    BY <1>2, <1>4, <2>2, QueueAssumption DEF SortLabels
  <2>11. Len(k2) = rcount'[e]
    BY <1>4, <2>2, <2>7
  <2> QED BY <1>4, <2>2, <2>9, <2>10, <2>11 DEF ScanOK
<1>8. CASE ScanStart(e)
  <2>1. /\ pc[e] = "s_start" /\ pc'[e] = "s_next" /\ UNCHANGED <<next, scan>>
        /\ loc'[e].curr = rlist[e] /\ rlist'[e] = NoNode /\ rcount'[e] = 0
    BY <1>8 DEF ScanStart, Goto, Local, QueueTypeOK, LocType, queueVars
  <2>2. Unsorted(e) = NoNode /\ Unsorted(e)' = rlist[e]
    BY <2>1 DEF Unsorted, SortLabels
  <2>3. Trail(next', rlist'[e], l) /\ NodesOf(l) = {} /\ Len(l) = 0
    <3>1. NodesOf(l) = {} /\ Trail(next', NoNode, l)
      BY <1>2, <2>2, TrailEmpty
    <3>2. Len(l) = 0
      BY <1>2, <2>2, QueueAssumption DEF Trail
    <3> QED BY <2>1, <3>1, <3>2
  <2>4. Trail(next', Unsorted(e)', k)
    BY <1>2, <2>1, <2>2
  <2>5. \A k3, l3 : Lists(e, k3, l3)' => k3 = l /\ l3 = k
    BY <1>5, <2>3, <2>4
  <2>6. Len(l) + Len(k) > Threshold
    BY <1>2, <1>4, <2>1, <2>3, QueueAssumption
  <2> QED BY <1>4, <2>1, <2>3, <2>5, <2>6 DEF ScanOK, Full
<1>9. CASE ScanSort(e)
  <2>1. PICK n : n = loc[e].curr
    OBVIOUS
  <2>2. /\ pc[e] = "s_sort" /\ pc'[e] = "s_next" /\ loc'[e].curr = next[n] /\ scan' = scan
        /\ n # NoNode /\ Unsorted(e) = n /\ Unsorted(e)' = next[n]
    <3>1. /\ pc[e] = "s_sort" /\ pc'[e] = "s_next" /\ loc'[e].curr = loc[e].next /\ scan' = scan
      BY <1>9 DEF ScanSort, Goto, QueueTypeOK, LocType
    <3> QED BY <1>2, <2>1, <3>1 DEF Unsorted, SortLabels
  <2>3. n \in Nodes /\ n \in NodesOf(l)
    BY <1>2, <2>2, TrailShrinks
  <2>4. PICK t \in Seq(Nodes) : /\ Len(l) > 0 /\ t = Tail(l)
                                /\ Trail(next, next[n], t) /\ NodesOf(t) = NodesOf(l) \ {n}
    BY <1>2, <2>2, TrailShrinks
  <2>5. \A m \in Nodes \ {n} : next'[m] = next[m]
    BY <1>9, <2>1, <2>3 DEF ScanSort, QueueTypeOK
  <2>6. Trail(next', Unsorted(e)', t) /\ Len(l) = Len(t) + 1 /\ Len(t) \in Nat
    <3>1. \A m \in NodesOf(t) : next'[m] = next[m]
      BY <1>2, <2>4, <2>5
    <3>2. Trail(next', next[n], t)
      BY <2>4, <3>1, TrailKept
    <3>3. l \in Seq(Nodes)
      BY <1>2 DEF Trail
    <3>4. Len(l) = Len(t) + 1 /\ Len(t) \in Nat
      BY <2>4, <3>3
    <3> QED BY <2>2, <3>2, <3>4
  <2>7. n \notin NodesOf(k) /\ \A m \in NodesOf(k) : next'[m] = next[m]
    BY <1>2, <1>6, <2>3, <2>5
  <2>8. pc[e] \in SortLabels /\ pc'[e] \in SortLabels /\ pc'[e] \notin {"scan", "s_start"}
    BY <2>2 DEF SortLabels
  <2>9. CASE n \in scan[e].ptab
    <3>1. next'[n] = rlist[e] /\ rlist'[e] = n /\ rcount'[e] = rcount[e] + 1
      BY <1>9, <2>1, <2>3, <2>9 DEF ScanSort, QueueTypeOK
    <3>2. PICK k2 \in Seq(Nodes) : /\ Trail(next', n, k2) /\ NodesOf(k2) = NodesOf(k) \cup {n}
                                   /\ Len(k2) = Len(k) + 1
      BY <1>2, <2>3, <2>7, <3>1, TrailGrows
    <3>3. \A k3, l3 : Lists(e, k3, l3)' => k3 = k2 /\ l3 = t
      BY <1>5, <2>6, <3>1, <3>2
    <3>4. Len(k2) = rcount'[e] /\ NodesOf(k2) \subseteq scan'[e].ptab
      BY <1>4, <2>2, <2>8, <2>9, <3>1, <3>2
    <3>5. Len(k2) + Len(t) = Len(k) + Len(l)
      BY <1>2, <2>6, <3>2
    <3>6. Full(e) => Len(k2) + Len(t) > Threshold
      BY <1>3, <3>5 DEF Full
    <3>7. Full(e) => Full(e)'
      BY <3>3, <3>6 DEF Full
    <3> QED BY <1>4, <2>2, <2>8, <3>3, <3>4, <3>7 DEF ScanOK
  <2>10. CASE n \notin scan[e].ptab
    <3>1. rlist' = rlist /\ rcount' = rcount /\ free' = free \cup {n}
      BY <1>9, <2>1, <2>10 DEF ScanSort
    <3>2. free' # free
      <4>1. n \notin free
        BY <1>6, <2>3, OnNoOtherList
      <4> QED BY <3>1, <4>1
    <3>3. Trail(next', rlist'[e], k)
      BY <1>2, <2>7, <3>1, TrailKept
    <3>4. \A k3, l3 : Lists(e, k3, l3)' => k3 = k /\ l3 = t
      BY <1>5, <2>6, <3>3
    <3> QED BY <1>4, <2>2, <2>8, <3>1, <3>2, <3>4 DEF ScanOK
  <2> QED BY <2>9, <2>10
<1>10. CASE ~Retire(e) /\ ~ScanStart(e) /\ ~ScanSort(e)
  <2>1. /\ rlist' = rlist /\ rcount' = rcount /\ Unsorted(e)' = Unsorted(e)
        /\ Scan(e) \/ ScanNext(e) \/ UNCHANGED scan
        /\ Scan(e) \/ pc'[e] \notin {"scan", "s_start"}
        /\ pc'[e] \in SortLabels => pc[e] = "s_next" /\ scan' = scan
    BY <1>10, QuietScan
  <2>2. \A m \in NodesOf(k) \cup NodesOf(l) : next'[m] = next[m]
    <3>1. CASE EnqueueStart(e)
      <4>1. PICK n \in free : next' = [next EXCEPT ![n] = NoNode]
        BY <3>1 DEF EnqueueStart
      <4>2. n \in Nodes /\ spot[n] = "free"
        <5>1. n \in Nodes
          BY DEF QueueTypeOK
        <5> QED BY <5>1, OnNoOtherList
      <4> QED BY <1>2, <1>6, <4>1, <4>2 DEF QueueTypeOK
    <3>2. CASE EnqueueCas(e)
      <4>1. PICK n : n = loc[e].tail
        OBVIOUS
      <4>2. CASE next[n] = NoNode
        <5>1. Path(q)
          BY DEF Before, ListsOK
        <5>2. n \in NodesOf(q)
          BY <3>2, <4>1, <4>2, <5>1, LinksOrLate DEF Links
        <5>3. n \in Nodes
          BY <5>1, <5>2 DEF Path, NodesOf
        <5>4. spot[n] = "queue"
          BY <5>2, <5>3, OnNoOtherList
        <5>5. \A m \in Nodes \ {n} : next'[m] = next[m]
          BY <3>2, <4>1 DEF EnqueueCas, QueueTypeOK
        <5> QED BY <1>2, <1>6, <5>3, <5>4, <5>5
      <4>3. CASE next[n] # NoNode
        <5>1. next' = next
          BY <3>2, <4>1, <4>3 DEF EnqueueCas
        <5> QED BY <5>1
      <4> QED BY <4>2, <4>3
    <3> QED BY <1>10, <3>1, <3>2, Untouched
  <2>3. Trail(next', rlist'[e], k) /\ Trail(next', Unsorted(e)', l)
    BY <1>2, <2>1, <2>2, TrailKept
  <2>4. \A k3, l3 : Lists(e, k3, l3)' => k3 = k /\ l3 = l
    BY <1>5, <2>3
  <2>5. Full(e) => Full(e)'
    BY <1>3, <2>4 DEF Full
  <2>6. pc'[e] \in SortLabels => pc[e] \in SortLabels
    BY <2>1 DEF SortLabels
  <2>7. /\ pc'[e] \in {"scan", "s_start"} => rcount'[e] > Threshold
        /\ Cardinality(scan'[e].ptab) <= scan'[e].pos
        /\ scan'[e].pos <= 2 * NumExecs
    <3>1. CASE Scan(e)
      <4>1. PICK pos, ptab : pos = scan[e].pos /\ ptab = scan[e].ptab
        OBVIOUS
      <4>2. PICK x : x = hp[pos \div 2][pos % 2]
        OBVIOUS
      <4>3. /\ pc[e] = "scan" /\ scan'[e].pos = pos + 1 /\ scan'[e].ptab = ptab \cup ({x} \ {NoNode})
        BY <3>1, <4>1, <4>2 DEF Scan, QueueTypeOK
      <4>4. pos < 2 * NumExecs
        BY <4>1, <4>3 DEF HazardInv, PlacesOK, Protects
      <4>5. pos \in Nat /\ ptab \subseteq Nodes
        BY <4>1 DEF QueueTypeOK
      <4>6. IsFiniteSet(ptab)
        BY <4>5, QueueAssumption, FS_Subset
      <4>7. Cardinality(ptab) \in Nat
        BY <4>6, FS_CardinalityType
      <4>8. Cardinality(scan'[e].ptab) <= Cardinality(ptab) + 1
        <5>1. CASE x = NoNode
          <6>1. scan'[e].ptab = ptab
            BY <4>3, <5>1
          <6> QED BY <4>7, <6>1
        <5>2. CASE x # NoNode
          <6>1. scan'[e].ptab = ptab \cup {x}
            BY <4>3, <5>2
          <6>2. Cardinality(ptab \cup {x}) = IF x \in ptab THEN Cardinality(ptab) ELSE Cardinality(ptab) + 1
            BY <4>6, FS_AddElement
          <6> QED BY <4>7, <6>1, <6>2
        <5> QED BY <5>1, <5>2
      <4>9. scan'[e].pos = pos + 1 /\ Cardinality(ptab) <= pos /\ NumExecs \in Nat
        BY <1>4, <4>1, <4>3, QueueAssumption
      <4>10. Cardinality(scan'[e].ptab) <= scan'[e].pos
        <5>1. PICK a, b \in Nat : a = Cardinality(scan'[e].ptab) /\ b = Cardinality(ptab)
          <6>1. IsFiniteSet(scan'[e].ptab)
            BY <4>3, <4>6, FS_AddElement, FS_Subset
          <6> QED BY <4>7, <6>1, FS_CardinalityType
        <5> QED BY <4>5, <4>8, <4>9, <5>1
      <4>11. scan'[e].pos <= 2 * NumExecs
        BY <4>4, <4>5, <4>9
      <4> QED BY <1>4, <2>1, <4>3, <4>10, <4>11
    <3>2. CASE ScanNext(e) /\ ~Scan(e)
      <4>1. scan'[e] = NoScan \/ scan'[e] = scan[e]
        BY <3>2 DEF ScanNext, QueueTypeOK
      <4>2. CASE scan'[e] = NoScan
        <5>1. scan'[e].ptab = {} /\ scan'[e].pos = 0
          BY <4>2 DEF NoScan
        <5>2. Cardinality(scan'[e].ptab) = 0
          BY <5>1, FS_EmptySet
        <5>3. 0 <= 2 * NumExecs
          BY QueueAssumption
        <5> QED BY <2>1, <3>2, <5>1, <5>2, <5>3
      <4> QED BY <1>4, <2>1, <3>2, <4>1, <4>2
    <3>3. CASE UNCHANGED scan /\ ~Scan(e)
      BY <1>4, <2>1, <3>3
    <3> QED BY <2>1, <3>1, <3>2, <3>3
  <2>8. pc'[e] \in SortLabels => NodesOf(k) \subseteq scan'[e].ptab
    BY <1>4, <2>1, <2>6
  <2>9. Len(k) = rcount'[e]
    BY <1>4, <2>1
  <2>10. ScanOK(e)'
    BY <2>4, <2>7, <2>8, <2>9 DEF ScanOK
  <2> QED BY <2>5, <2>6, <2>10
<1> QED BY <1>7, <1>8, <1>9, <1>10

\* A scan that has sorted every node and freed none would have found more nodes
\* in its table than there are hazard pointers.
LEMMA ScanFrees ==
    ASSUME QueueTypeOK, Account, NEW e \in Execs, ScanOK(e), Threshold >= 2 * NumExecs,
           pc[e] \in SortLabels, loc[e].curr = NoNode
    PROVE  ~Full(e)
<1>1. PICK q, kept, left : ListsOK(q, kept, left)
  BY DEF Account
<1>2. PICK k, l : k = kept[e] /\ l = left[e]
  OBVIOUS
<1>3. Trail(next, rlist[e], k) /\ Trail(next, NoNode, l) /\ Lists(e, k, l)
  BY <1>1, <1>2 DEF ListsOK, Lists, Unsorted
<1>4. Len(l) = 0 /\ Len(k) \in Nat /\ k \in [1 .. Len(k) -> Nodes]
  BY <1>3, QueueAssumption DEF Trail
<1>5. PICK table : table = scan[e].ptab
  OBVIOUS
<1>6. /\ NodesOf(k) \subseteq table /\ table \subseteq Nodes
      /\ Cardinality(table) <= scan[e].pos /\ scan[e].pos <= 2 * NumExecs /\ scan[e].pos \in Nat
  BY <1>3, <1>5 DEF ScanOK, QueueTypeOK
<1>7. k \in Injection(1 .. Len(k), table)
  <2>1. \A i \in 1 .. Len(k) : k[i] \in table
    BY <1>4, <1>6 DEF NodesOf
  <2> QED BY <1>3, <1>4, <2>1 DEF Trail, Injection, IsInjective
<1>8. IsFiniteSet(table)
  BY <1>6, QueueAssumption, FS_Subset
<1>9. Cardinality(1 .. Len(k)) <= Cardinality(table) /\ Cardinality(table) \in Nat
  BY <1>7, <1>8, FS_Injection, FS_CardinalityType
<1>10. Cardinality(1 .. Len(k)) = Len(k)
  <2>1. 1 \in Int /\ Len(k) \in Int
    BY <1>4
  <2>2. Cardinality(1 .. Len(k)) = IF 1 > Len(k) THEN 0 ELSE Len(k) - 1 + 1
    BY <2>1, FS_Interval
  <2> QED BY <1>4, <2>2
<1>11. ~(Len(k) + Len(l) > Threshold)
  BY <1>4, <1>6, <1>9, <1>10, QueueAssumption
<1> QED BY <1>3, <1>11 DEF Full

\* Every step keeps count of the retired nodes and of the hazard pointers.
LEMMA ScanStep ==
    ASSUME AccountInv, rcount \in [Execs -> Nat],
           NEW f \in Execs, Step(f), ~LateLink(f), NEW e \in Execs, ScanOK(e)
    PROVE  /\ ScanOK(e)'
           /\ e # f /\ Full(e) => Full(e)'
           /\ /\ pc'[f] \in SortLabels
              /\ pc[f] \in SortLabels => Full(f) /\ free' = free
              /\ e = f
              => Full(f)'
<1>1. QueueTypeOK /\ HazardInv
  BY DEF AccountInv, FifoInv, HazardInv
<1>2. PICK spot \in [Nodes -> Spots], by \in [Nodes -> Execs], q \in Seq(Nodes),
           kept \in [Execs -> Seq(Nodes)], left \in [Execs -> Seq(Nodes)] :
          ListsOK(q, kept, left) /\ SpotsOK(spot, by, q, kept, left)
  BY DEF AccountInv, Account
<1>3. Before(spot, by, q, kept, left) /\ Path(q)
  BY <1>2 DEF Before, ListsOK
<1>5. CASE e # f
  BY <1>1, <1>3, <1>5, OthersScan
<1>6. CASE e = f
  BY <1>1, <1>3, <1>6, OwnScan
<1> QED BY <1>5, <1>6

\* At the start nothing is retired.
LEMMA ScanInit ==
    ASSUME Init, NEW e \in Execs
    PROVE  ScanOK(e)
<1>1. /\ rlist[e] = NoNode /\ rcount[e] = 0 /\ pc[e] = "idle" /\ scan[e] = NoScan
  BY DEF Init
<1>2. scan[e].pos = 0 /\ scan[e].ptab = {} /\ 0 <= 2 * NumExecs
  BY <1>1, QueueAssumption DEF NoScan
<1>3. Cardinality(scan[e].ptab) = 0
  BY <1>2, FS_EmptySet
<1>4. ASSUME NEW k, NEW l, Lists(e, k, l)
      PROVE  Len(k) = 0
  BY <1>1, <1>4, QueueAssumption DEF Lists, Trail
<1> QED BY <1>1, <1>2, <1>3, <1>4 DEF ScanOK, SortLabels
-----------------------------------------------------------------------------
(* A list whose end is not known.                                          *)

\* lfn_next, and nothing behind NULL.
After == [m \in Nodes \cup {NoNode} |-> IF m = NoNode THEN NoNode ELSE next[m]]

\* Following lfn_next a given number of times is possible from any node.
LEMMA WalkFollows ==
    ASSUME NEW n
    PROVE  Walk(n) = [k \in 0 .. Cardinality(Nodes) |->
                          IF k = 0 THEN n ELSE After[Walk(n)[k - 1]]]
<1> DEFINE N == Cardinality(Nodes)
           Follows(h, k) == h = [j \in 0 .. k |-> IF j = 0 THEN n ELSE After[h[j - 1]]]
           S == {k \in Nat : \E h : Follows(h, k)}
<1>1. Walk(n) = CHOOSE h : Follows(h, N)
  BY DEF Walk, After
<1>2. N \in Nat
  BY FS_CardinalityType, QueueAssumption
<1> HIDE DEF N
<1>3. 0 \in S
  <2>1. Follows([j \in 0 .. 0 |-> n], 0)
    OBVIOUS
  <2> QED BY <2>1
<1>4. ASSUME NEW k \in Nat, k \in S
      PROVE  k + 1 \in S
  <2>1. PICK h : Follows(h, k)
    BY <1>4
  <2> DEFINE g == [j \in 0 .. k + 1 |-> IF j <= k THEN h[j] ELSE After[h[k]]]
  <2>2. ASSUME NEW j \in 0 .. k + 1
        PROVE  g[j] = IF j = 0 THEN n ELSE After[g[j - 1]]
    <3>1. CASE j = 0
      BY <2>1, <3>1
    <3>2. CASE j \in 1 .. k
      <4>1. j \in 0 .. k /\ j - 1 \in 0 .. k /\ j # 0 /\ j \in 0 .. k + 1 /\ j - 1 \in 0 .. k + 1
        BY <3>2
      <4>2. g[j] = h[j] /\ g[j - 1] = h[j - 1]
        BY <4>1
      <4>3. h[j] = After[h[j - 1]]
        BY <2>1, <4>1
      <4> QED BY <4>1, <4>2, <4>3
    <3>3. CASE j = k + 1
      <4>1. g[j] = After[h[k]] /\ g[j - 1] = h[k]
        BY <3>3
      <4> QED BY <3>3, <4>1
    <3> QED BY <2>2, <3>1, <3>2, <3>3
  <2>3. g = [j \in 0 .. k + 1 |-> g[j]]
    OBVIOUS
  <2> HIDE DEF g
  <2>4. Follows(g, k + 1)
    BY <2>2, <2>3
  <2> QED BY <2>4
<1> HIDE DEF S
<1>5. Nat \subseteq S
  BY <1>3, <1>4, SetInduction
<1>6. \E h : Follows(h, N)
  BY <1>2, <1>5 DEF S
<1> HIDE DEF Follows
<1>7. Follows(Walk(n), N)
  BY <1>1, <1>6
<1> QED BY <1>7 DEF Follows, N

\* Chain starts with the nodes that are known to be linked.
LEMMA ChainStarts ==
    ASSUME NEW n, NEW q \in Seq(Nodes), Len(q) > 0, q[1] = n,
           \A i \in 1 .. Len(q) - 1 : next[q[i]] = q[i + 1],
           \A i, j \in 1 .. Len(q) : q[i] = q[j] => i = j
    PROVE  \E m \in Nat : /\ DOMAIN Chain(n) = 1 .. m /\ m >= Len(q)
                          /\ \A i \in 1 .. Len(q) : Chain(n)[i] = q[i]
<1>1. Len(q) \in Nat /\ q \in [1 .. Len(q) -> Nodes] /\ n \in Nodes /\ n # NoNode
  BY QueueAssumption
<1>2. CASE next[n] = NoNode
  <2>1. Len(q) = 1
    <3>1. Len(q) > 1 => next[q[1]] = q[2] /\ q[2] \in Nodes
      BY <1>1
    <3> QED BY <1>1, <1>2, <3>1, QueueAssumption
  <2>2. Chain(n) = <<n>>
    BY <1>1, <1>2 DEF Chain
  <2> QED BY <1>1, <2>1, <2>2
<1>3. CASE next[n] # NoNode
  <2> DEFINE N == Cardinality(Nodes)
             w == Walk(n)
             steps == {k \in 0 .. N : w[k] # NoNode}
  <2>1. Chain(n) = [k \in 1 .. Cardinality(steps) |-> w[k - 1]]
    BY <1>1, <1>3 DEF Chain
  <2>2. w = [k \in 0 .. N |-> IF k = 0 THEN n ELSE After[w[k - 1]]]
    BY WalkFollows
  <2>3. N \in Nat /\ Len(q) <= N
    BY DistinctLength
  <2> HIDE DEF w, N
  <2>4. \A k \in 0 .. Len(q) - 1 : w[k] = q[k + 1]
    <3> DEFINE S == {k \in Nat : k < Len(q) => w[k] = q[k + 1]}
    <3>1. 0 \in S
      BY <2>2, <2>3
    <3>2. ASSUME NEW k \in Nat, k \in S
          PROVE  k + 1 \in S
      <4>1. CASE k + 1 < Len(q)
        <5>1. /\ k + 1 \in 0 .. N /\ k + 1 # 0 /\ (k + 1) - 1 = k
              /\ k < Len(q) /\ k + 1 \in 1 .. Len(q) - 1 /\ k + 1 \in 1 .. Len(q)
          BY <1>1, <2>3, <4>1
        <5>2. w[k + 1] = After[w[k]]
          BY <2>2, <5>1
        <5>3. w[k] = q[k + 1] /\ q[k + 1] \in Nodes /\ q[k + 1] # NoNode
          BY <1>1, <3>2, <5>1, QueueAssumption
        <5>4. After[q[k + 1]] = next[q[k + 1]]
          BY <5>3 DEF After
        <5>5. next[q[k + 1]] = q[(k + 1) + 1]
          BY <5>1
        <5> QED BY <5>2, <5>3, <5>4, <5>5
      <4>2. CASE ~(k + 1 < Len(q))
        BY <4>2
      <4> QED BY <4>1, <4>2
    <3> HIDE DEF S
    <3>3. Nat \subseteq S
      BY <3>1, <3>2, SetInduction
    <3> QED BY <1>1, <3>3 DEF S
  <2>5. 0 .. Len(q) - 1 \subseteq steps
    BY <1>1, <2>3, <2>4, QueueAssumption
  <2>6. IsFiniteSet(steps)
    <3>1. IsFiniteSet(0 .. N)
      BY <2>3, FS_Interval
    <3>2. steps \subseteq 0 .. N
      OBVIOUS
    <3> QED BY <3>1, <3>2, FS_Subset
  <2> HIDE DEF steps
  <2>7. Cardinality(0 .. Len(q) - 1) = Len(q)
    <3>1. 0 \in Int /\ Len(q) - 1 \in Int
      BY <1>1
    <3>2. Cardinality(0 .. Len(q) - 1) = IF 0 > Len(q) - 1 THEN 0 ELSE Len(q) - 1 - 0 + 1
      BY <3>1, FS_Interval
    <3> QED BY <1>1, <3>2
  <2>8. Cardinality(steps) \in Nat /\ Cardinality(steps) >= Len(q)
    BY <1>1, <2>5, <2>6, <2>7, FS_Subset, FS_CardinalityType
  <2>9. \A i \in 1 .. Len(q) : Chain(n)[i] = q[i]
    BY <1>1, <2>1, <2>4, <2>8
  <2> QED BY <2>1, <2>8, <2>9
<1> QED BY <1>2, <1>3

\* The nodes of a list up to the first place of one.
UpTo(c, last) == {c[k] : k \in {j \in DOMAIN c : \A i \in 1 .. j - 1 : c[i] # last}}

\* So the nodes up to one that is known are found.
LEMMA BeginningFound ==
    ASSUME NEW n, NEW q \in Seq(Nodes), Len(q) > 0, q[1] = n,
           \A i \in 1 .. Len(q) - 1 : next[q[i]] = q[i + 1],
           \A i, j \in 1 .. Len(q) : q[i] = q[j] => i = j
    PROVE  UpTo(Chain(n), q[Len(q)]) = NodesOf(q)
<1> DEFINE c == Chain(n)
           upTo == {j \in DOMAIN c : \A i \in 1 .. j - 1 : c[i] # q[Len(q)]}
<1>1. Len(q) \in Nat /\ DOMAIN q = 1 .. Len(q)
  OBVIOUS
<1>2. PICK m \in Nat : /\ DOMAIN c = 1 .. m /\ m >= Len(q)
                       /\ \A i \in 1 .. Len(q) : c[i] = q[i]
  BY ChainStarts
<1> HIDE DEF c
<1>3. upTo = 1 .. Len(q)
  <2>1. ASSUME NEW j \in 1 .. m, j > Len(q)
        PROVE  j \notin upTo
    <3>1. Len(q) \in 1 .. j - 1 /\ c[Len(q)] = q[Len(q)]
      BY <1>1, <1>2, <2>1
    <3> QED BY <3>1
  <2>2. ASSUME NEW j \in 1 .. Len(q)
        PROVE  j \in upTo
    <3>1. ASSUME NEW i \in 1 .. j - 1
          PROVE  c[i] # q[Len(q)]
      <4>1. \A l, x \in Nat, y \in Int :
                l > 0 /\ x <= l /\ y \in 1 .. x - 1
                => y \in 1 .. l /\ l \in 1 .. l /\ y # l
        OBVIOUS
      <4>2. i \in 1 .. Len(q) /\ Len(q) \in 1 .. Len(q) /\ i # Len(q)
        <5>1. j \in Nat /\ j <= Len(q) /\ i \in Int
          BY <1>1, <2>2
        <5> QED BY <1>1, <3>1, <4>1, <5>1
      <4> QED BY <1>2, <4>2
    <3>2. j \in 1 .. m
      BY <1>1, <1>2, <2>2
    <3> QED BY <1>2, <3>1, <3>2
  <2>3. upTo \subseteq 1 .. m
    BY <1>2
  <2> HIDE DEF upTo
  <2>4. \A j : j \in upTo <=> j \in 1 .. Len(q)
    <3>1. \A j \in upTo : j \in 1 .. m /\ ~(j > Len(q))
      BY <2>1, <2>3
    <3>2. \A j \in 1 .. m : ~(j > Len(q)) => j \in 1 .. Len(q)
      BY <1>1, <1>2
    <3> QED BY <2>2, <3>1, <3>2
  <2> QED BY <2>4
<1> HIDE DEF upTo
<1>4. {c[k] : k \in upTo} = NodesOf(q)
  BY <1>1, <1>2, <1>3 DEF NodesOf
<1> QED BY <1>4 DEF c, upTo, UpTo
=============================================================================
