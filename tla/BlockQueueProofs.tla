-------------------------- MODULE BlockQueueProofs --------------------------
(***************************************************************************)
(* Until a stale pop or a late link, the queue of partial blocks is that   *)
(* of LFThreadQueue for every number of executors, all of which may        *)
(* enqueue, of descriptors and of slices: that its nodes come from slices, *)
(* and go back in batches onto a lock-free stack, is seen by nobody but    *)
(* its allocator.  Hence it is a FIFO, its allocator neither loses a node  *)
(* nor hands one out twice, and no scan gives back an empty batch.         *)
(***************************************************************************)
EXTENDS LFBlockQueue, TLAPS, FiniteSetTheorems

\* The lemmas about LFThreadQueue, for the queue with its allocator hidden.
P == INSTANCE WorkshareProofs WITH
    NumExecs <- BlockExecs, Enqueuers <- BlockEnqueuers, FairExecs <- {},
    Threads <- QueuedBlocks, NoThread <- NoBlock,
    Nodes <- BlockNodes, Sentinel <- FirstNode, NoNode <- NoBlock,
    Threshold <- HptrThreshold,
    head <- bqHead, tail <- bqTail, next <- tqNext, data <- tqData, hp <- bqHp,
    rlist <- bqRlist, rcount <- bqRcount, free <- bqFree, pool <- tqPool,
    pc <- tqPc, val <- tqVal, loc <- tqLoc, scan <- bqScan, sawEmpty <- bqSaw

\* The nodes of finitely many slices are finitely many.
LEMMA Instance == P!QueueAssumption
<1>1. IsFiniteSet(BlockNodes)
  <2>1. IsFiniteSet(0 .. NodesPerPage - 1)
    BY BlockQueueAssumption, FS_Interval
  <2> QED BY <2>1, BlockQueueAssumption, FS_Product DEF BlockNodes
<1>2. FirstNode \in BlockNodes
  BY BlockQueueAssumption DEF BlockNodes, FirstNode
<1>3. P!IsFiniteSet(BlockNodes)
  BY <1>1 DEF IsFiniteSet, P!IsFiniteSet
<1>4. BlockEnqueuers \subseteq P!Execs /\ {} \subseteq P!Execs
  BY BlockQueueAssumption DEF P!Execs, BlockCallers
<1>5. HptrThreshold \in Nat
  BY BlockQueueAssumption DEF HptrThreshold
<1> QED BY <1>2, <1>3, <1>4, <1>5, BlockQueueAssumption DEF P!QueueAssumption

-----------------------------------------------------------------------------
(* The invariant.                                                          *)

NodeOrNone == BlockNodes \cup {NoBlock}

\* Where an executor is in the steps of LFThreadQueue.
QueueLabels == P!PrivateLabels \cup P!TailLabels \cup P!HeadLabels \cup P!HandLabels
               \cup P!SortLabels \cup P!OtherLabels

BlockTypeOK ==
    /\ bqNext \in [BlockNodes -> NodeOrNone]
    /\ bqData \in [BlockNodes -> QueuedBlocks \cup {NoBlock}]
    /\ bqRcount \in [BlockCallers -> Nat]
    /\ bqNodes \in NodeOrNone
    /\ bqPages \subseteq NodePages
    /\ bqBatch \in [BlockCallers -> [head : NodeOrNone, tail : NodeOrNone]]
    /\ bqPool \subseteq QueuedBlocks
    /\ bqPc \in [BlockCallers -> QueueLabels \cup AllocLabels \cup BatchLabels]
    /\ bqVal \in [BlockCallers -> QueuedBlocks \cup {NoBlock}]
    /\ bqLoc \in [BlockCallers -> P!LocType]

\* What an executor has in its local variables.
LabelOK(e) ==
    LET l == bqLoc[e] IN
    /\ bqPc[e] \in {"idle", "scan", "s_start"} => l = B!NoLoc
    /\ bqPc[e] \in P!SortLabels => l.head = NoBlock /\ l.tail = NoBlock /\ l.node = NoBlock
    /\ bqPc[e] = "s_next" /\ l.curr = NoBlock => l.next = NoBlock
    /\ bqPc[e] \in AllocLabels => e \in BlockEnqueuers /\ bqVal[e] \in QueuedBlocks
    /\ bqPc[e] \notin P!SortLabels \cup BatchLabels => bqBatch[e] = NoBatch

\* The nodes of slice p are the allocator's or in use: p is mapped, and is not
\* the new slice of an executor that has not tried to put it onto the stack.
Live(p) ==
    /\ p \in bqPages
    /\ \A e \in BlockCallers : bqPc[e] = "a_pageCas" => bqLoc[e].node[1] # p

\* The nodes q of a batch, linked from free_head to free_tail.
Segment(next, batch, q) ==
    /\ q \in Seq(BlockNodes)
    /\ batch = IF Len(q) = 0 THEN NoBatch ELSE [head |-> q[1], tail |-> q[Len(q)]]
    /\ \A i \in 1 .. Len(q) - 1 : next[q[i]] = q[i + 1]
    /\ \A i, j \in 1 .. Len(q) : q[i] = q[j] => i = j

\* A free node of a live slice is on the stack or in one batch.
FreePlaced(stack, bat) ==
    \A n \in BlockNodes :
        /\ n \in P!NodesOf(stack) => n \in bqFree /\ Live(n[1])
        /\ \A e \in BlockCallers : n \in P!NodesOf(bat[e]) =>
               /\ n \in bqFree /\ Live(n[1]) /\ n \notin P!NodesOf(stack)
               /\ \A f \in BlockCallers \ {e} : n \notin P!NodesOf(bat[f])
        /\ n \in bqFree /\ Live(n[1]) =>
               \/ n \in P!NodesOf(stack)
               \/ \E e \in BlockCallers : n \in P!NodesOf(bat[e])
        /\ n \notin bqFree => Live(n[1])

FreeListsOK(stack, bat) ==
    /\ P!Trail(bqNext, bqNodes, stack)
    /\ \A e \in BlockCallers : Segment(bqNext, bqBatch[e], bat[e])
    /\ FreePlaced(stack, bat)

\* The list in a new slice.
PageLinked(next, p) ==
    \A k \in 1 .. NodesPerPage - 1 :
        next[<<p, k>>] = IF k < NodesPerPage - 1 THEN <<p, k + 1>> ELSE NoBlock

\* What an executor has read of the stack may be out of date; a new slice is
\* linked; who gives back a batch has one, linked to what it has read.
AllocOK(e) ==
    LET l == bqLoc[e] IN
    /\ bqPc[e] \in {"a_next", "a_cas"} => l.node \in BlockNodes
    /\ bqPc[e] = "a_pageCas" =>
           \E p \in bqPages : l.node = <<p, 0>> /\ PageLinked(bqNext, p)
    /\ bqPc[e] = "f_cas" =>
           bqBatch[e].tail # NoBlock /\ bqNext[bqBatch[e].tail] = l.next

FreeNodesOK ==
    \E stack \in Seq(BlockNodes), bat \in [BlockCallers -> Seq(BlockNodes)] :
        FreeListsOK(stack, bat) /\ \A e \in BlockCallers : AllocOK(e)

\* Executors that map slices map different ones.
SlicesApart ==
    \A e, f \in BlockCallers :
        /\ bqPc[e] = "a_pageCas" /\ bqPc[f] = "a_pageCas"
        /\ bqLoc[e].node[1] = bqLoc[f].node[1]
        => e = f

\* Every descriptor is in the queue, with one executor or in the pool.
OnePlace(q, held, outside) ==
    /\ q \in Seq(QueuedBlocks)
    /\ held \in [BlockCallers -> QueuedBlocks \cup {NoBlock}]
    /\ outside \subseteq QueuedBlocks
    /\ \A e \in BlockCallers : held[e] \notin outside
    /\ \A i \in 1 .. Len(q) : q[i] \notin outside
    /\ \A e, f \in BlockCallers : held[e] = held[f] /\ held[e] # NoBlock => e = f
    /\ \A e \in BlockCallers, i \in 1 .. Len(q) : q[i] # held[e]
    /\ \A i, j \in 1 .. Len(q) : q[i] = q[j] => i = j

\* What is about to be enqueued is not in the pool, nor with two executors.
BlocksOK ==
    /\ OnePlace(P!Contents, P!AllHeld, tqPool)
    /\ \A e \in Allocating : bqVal[e] \notin bqPool
    /\ \A e, f \in Allocating : bqVal[e] = bqVal[f] => e = f

\* The inductive invariant.
BlockInv ==
    /\ P!AccountInv
    /\ BlockTypeOK
    /\ \A e \in BlockCallers : LabelOK(e)
    /\ FreeNodesOK
    /\ SlicesApart
    /\ BlocksOK

\* Undisturbed, of the instance whose lemmas are used.
Quiet == \A e \in BlockCallers : ~StalePop(e) /\ ~P!LateLink(e)

-----------------------------------------------------------------------------
(* Every step is one of LFThreadQueue's, or changes what is hidden.        *)

\* No executor of the queue works on a free node.
LEMMA InUse ==
    ASSUME P!HazardInv, NEW e \in BlockCallers
    PROVE  /\ tqPc[e] \in P!TailLabels => tqLoc[e].tail \in BlockNodes \ bqFree
           /\ tqPc[e] \in P!HeadLabels \cup P!HandLabels => tqLoc[e].head \in BlockNodes \ bqFree
           /\ tqPc[e] \in P!SuccessorLabels => tqLoc[e].next \in BlockNodes \ bqFree
           /\ tqPc[e] \in P!SortLabels /\ tqLoc[e].curr # NoBlock =>
                  tqLoc[e].curr \in BlockNodes \ bqFree
           /\ tqPc[e] = "s_sort" => tqLoc[e].curr \in BlockNodes
           /\ bqHead \in BlockNodes \ bqFree
<1>1. P!QueueTypeOK /\ P!QueueAssumption /\ e \in P!Execs
  BY Instance DEF P!HazardInv, P!Execs, BlockCallers
<1>2. PICK kind, by : P!PlacesOK(kind, by)
  BY DEF P!HazardInv
<1>3. /\ P!Shared(kind, by) /\ P!Possesses(kind, by, e)
      /\ P!Protects(kind, by, e)
  BY <1>1, <1>2 DEF P!PlacesOK
<1>4. /\ tqPc[e] \in P!TailLabels => tqLoc[e].tail \in BlockNodes
      /\ tqPc[e] \in P!HeadLabels \cup P!HandLabels => tqLoc[e].head \in BlockNodes
      /\ tqPc[e] \in P!SuccessorLabels => tqLoc[e].next \in BlockNodes
      /\ tqPc[e] = "s_sort" => tqLoc[e].curr \in BlockNodes
  BY <1>1, <1>2, P!PointersSet
<1>5. /\ tqPc[e] \in P!TailLabels => kind[tqLoc[e].tail] # "free"
      /\ tqPc[e] \in P!HeadLabels => kind[tqLoc[e].head] # "free"
      /\ tqPc[e] \in P!SuccessorLabels => kind[tqLoc[e].next] # "free"
  BY <1>3 DEF P!Protects, P!Guarded
<1>6. /\ tqPc[e] \in P!HandLabels => kind[tqLoc[e].head] # "free"
      /\ tqPc[e] \in P!SortLabels /\ tqLoc[e].curr # NoBlock => kind[tqLoc[e].curr] # "free"
  BY <1>3 DEF P!Possesses
<1>7. tqLoc[e].curr \in BlockNodes \cup {NoBlock} /\ bqHead \in BlockNodes
  BY <1>1 DEF P!QueueTypeOK, P!LocType, P!NodeOrNull
<1>8. kind[bqHead] # "free" /\ \A n \in bqFree : kind[n] = "free"
  BY <1>3 DEF P!Shared
<1> QED BY <1>4, <1>5, <1>6, <1>7, <1>8

\* Outside the allocator and the batches the queue shows what there is.
LEMMA Shown ==
    ASSUME BlockTypeOK, NEW e \in BlockCallers, bqPc[e] \notin AllocLabels \cup BatchLabels
    PROVE  /\ tqPc[e] = bqPc[e] /\ tqLoc[e] = bqLoc[e] /\ tqVal[e] = bqVal[e]
           /\ \A n \in BlockNodes \ bqFree : tqNext[n] = bqNext[n] /\ tqData[n] = bqData[n]
           /\ tqPool = bqPool \cup {bqVal[f] : f \in Allocating \ {e}}
BY DEF tqPc, tqLoc, tqVal, tqNext, tqData, tqPool, Allocating

\* A step of the queue proper, in what is hidden and in what is shown.
LEMMA ShownStep ==
    ASSUME BlockTypeOK, NEW e \in BlockCallers, bqPc[e] \notin AllocLabels \cup BatchLabels,
           NEW label, label \notin AllocLabels \cup BatchLabels, B!Goto(e, label)
    PROVE  /\ P!Goto(e, label)
           /\ UNCHANGED bqLoc => UNCHANGED tqLoc
           /\ \A l : bqLoc' = [bqLoc EXCEPT ![e] = l] => tqLoc' = [tqLoc EXCEPT ![e] = l]
           /\ \A field, n : B!Local(e, field, n) => P!Local(e, field, n)
           /\ UNCHANGED bqVal => UNCHANGED tqVal
           /\ \A v : bqVal' = [bqVal EXCEPT ![e] = v] => tqVal' = [tqVal EXCEPT ![e] = v]
           /\ UNCHANGED <<bqFree, bqNext>> => UNCHANGED tqNext
           /\ UNCHANGED <<bqFree, bqData>> => UNCHANGED tqData
           /\ UNCHANGED <<bqPool, bqVal>> => UNCHANGED tqPool
           /\ \A v, t : bqVal' = [bqVal EXCEPT ![e] = v] /\ bqPool' = bqPool \cup t =>
                  tqPool' = tqPool \cup t
<1>1. /\ bqPc' = [bqPc EXCEPT ![e] = label] /\ bqPc'[e] = label
      /\ \A f \in BlockCallers \ {e} : bqPc'[f] = bqPc[f]
  BY DEF B!Goto, BlockTypeOK
<1>2. P!Goto(e, label)
  BY <1>1 DEF P!Goto, tqPc
<1>3. ASSUME UNCHANGED bqLoc  PROVE  UNCHANGED tqLoc
  BY <1>1, <1>3 DEF tqLoc
<1>4. ASSUME NEW l, bqLoc' = [bqLoc EXCEPT ![e] = l]
      PROVE  tqLoc' = [tqLoc EXCEPT ![e] = l]
  BY <1>1, <1>4 DEF tqLoc, BlockTypeOK
<1>5. ASSUME NEW field, NEW n, B!Local(e, field, n)
      PROVE  P!Local(e, field, n)
  <2>1. bqLoc' = [bqLoc EXCEPT ![e] = [bqLoc[e] EXCEPT ![field] = n]]
    BY <1>5 DEF B!Local
  <2>2. tqLoc' = [tqLoc EXCEPT ![e] = [bqLoc[e] EXCEPT ![field] = n]]
    BY <1>4, <2>1
  <2>3. tqLoc[e] = bqLoc[e]
    BY Shown
  <2> QED BY <2>2, <2>3 DEF P!Local
<1>6. ASSUME UNCHANGED bqVal  PROVE  UNCHANGED tqVal
  BY <1>1, <1>6 DEF tqVal
<1>7. ASSUME NEW v, bqVal' = [bqVal EXCEPT ![e] = v]
      PROVE  tqVal' = [tqVal EXCEPT ![e] = v]
  BY <1>1, <1>7 DEF tqVal, BlockTypeOK
<1>8. /\ UNCHANGED <<bqFree, bqNext>> => UNCHANGED tqNext
      /\ UNCHANGED <<bqFree, bqData>> => UNCHANGED tqData
  BY DEF tqNext, tqData
<1>9. Allocating' = Allocating /\ e \notin Allocating /\ Allocating \subseteq BlockCallers
  BY <1>1 DEF Allocating
<1>10. ASSUME UNCHANGED <<bqPool, bqVal>>  PROVE  UNCHANGED tqPool
  BY <1>9, <1>10 DEF tqPool
<1>11. ASSUME NEW v, NEW t, bqVal' = [bqVal EXCEPT ![e] = v], bqPool' = bqPool \cup t
       PROVE  tqPool' = tqPool \cup t
  <2>1. \A f \in Allocating : bqVal'[f] = bqVal[f]
    BY <1>9, <1>11 DEF BlockTypeOK
  <2> QED BY <1>9, <1>11, <2>1 DEF tqPool
<1> QED BY <1>2, <1>3, <1>4, <1>5, <1>6, <1>7, <1>8, <1>10, <1>11

\* An attempt that fails is tried again.
LEMMA ShownRetry ==
    ASSUME BlockTypeOK, NEW e \in BlockCallers, bqPc[e] \notin AllocLabels \cup BatchLabels,
           NEW label, label \notin AllocLabels \cup BatchLabels
    PROVE  /\ B!Retry(e, label) => P!Retry(e, label) /\ P!Goto(e, label) /\ B!Goto(e, label)
           /\ B!Onward(e, label) => P!Onward(e, label) /\ P!Goto(e, label) /\ B!Goto(e, label)
<1>1. ASSUME B!Retry(e, label)
      PROVE  P!Retry(e, label) /\ P!Goto(e, label) /\ B!Goto(e, label)
  <2>1. /\ B!Goto(e, label)
        /\ bqLoc' = [bqLoc EXCEPT ![e] = [B!NoLoc EXCEPT !.node = bqLoc[e].node]]
    BY <1>1 DEF B!Retry
  <2>2. /\ P!Goto(e, label)
        /\ tqLoc' = [tqLoc EXCEPT ![e] = [B!NoLoc EXCEPT !.node = bqLoc[e].node]]
    BY <2>1, ShownStep
  <2>3. tqLoc[e] = bqLoc[e]
    BY Shown
  <2> QED BY <2>1, <2>2, <2>3 DEF P!Retry, P!NoLoc, B!NoLoc
<1>2. ASSUME B!Onward(e, label)
      PROVE  P!Onward(e, label) /\ P!Goto(e, label) /\ B!Goto(e, label)
  <2>1. B!Goto(e, label) /\ UNCHANGED bqLoc
    BY <1>2 DEF B!Onward
  <2> QED BY <2>1, ShownStep DEF P!Onward
<1> QED BY <1>1, <1>2

\* lf_block_queue_try_enqueue: the node it links behind is not free.
LEMMA EnqueueShown ==
    ASSUME BlockTypeOK, P!HazardInv, NEW e \in BlockCallers, BlockEnqueue(e)
    PROVE  P!Step(e)
<1> USE DEF B!queueVars, P!queueVars, B!hazardVars, P!hazardVars, B!callVars, P!callVars,
        blockOwn, AllocLabels, BatchLabels
<1> UNCHANGED bqFree
  BY DEF BlockEnqueue
<1>1. ASSUME B!EnqueueTail(e)  PROVE  P!EnqueueTail(e)
  <2>1. B!Goto(e, "e_hp") /\ bqPc[e] = "e_tail"
    BY <1>1 DEF B!EnqueueTail
  <2> QED BY <1>1, <2>1, ShownStep, Shown DEF B!EnqueueTail, P!EnqueueTail
<1>2. ASSUME B!EnqueueHazard(e)  PROVE  P!EnqueueHazard(e)
  <2>1. B!Goto(e, "e_check") /\ bqPc[e] = "e_hp"
    BY <1>2 DEF B!EnqueueHazard
  <2> QED
    BY <1>2, <2>1, ShownStep, Shown DEF B!EnqueueHazard, P!EnqueueHazard, B!Hazard, P!Hazard
<1>3. ASSUME B!EnqueueCheck(e)  PROVE  P!EnqueueCheck(e)
  <2>1. bqPc[e] = "e_check"
    BY <1>3 DEF B!EnqueueCheck
  <2>2. \/ bqTail = bqLoc[e].tail /\ P!Onward(e, "e_next") /\ B!Goto(e, "e_next")
        \/ bqTail # bqLoc[e].tail /\ P!Retry(e, "e_tail") /\ B!Goto(e, "e_tail")
    BY <1>3, <2>1, ShownRetry DEF B!EnqueueCheck
  <2>3. UNCHANGED <<tqNext, tqData, tqVal, tqPool>>
    BY <1>3, <2>1, <2>2, ShownStep DEF B!EnqueueCheck
  <2> QED BY <1>3, <2>1, <2>2, <2>3, Shown DEF B!EnqueueCheck, P!EnqueueCheck
<1>4. ASSUME B!EnqueueNext(e)  PROVE  P!EnqueueNext(e)
  <2>1. B!Goto(e, "e_again") /\ bqPc[e] = "e_next"
    BY <1>4 DEF B!EnqueueNext
  <2>2. tqNext[tqLoc[e].tail] = bqNext[bqLoc[e].tail]
    BY <2>1, InUse, Shown DEF P!TailLabels
  <2> QED BY <1>4, <2>1, <2>2, ShownStep, Shown DEF B!EnqueueNext, P!EnqueueNext
<1>5. ASSUME B!EnqueueAgain(e)  PROVE  P!EnqueueAgain(e)
  <2>1. bqPc[e] = "e_again"
    BY <1>5 DEF B!EnqueueAgain
  <2>2. \/ bqTail # bqLoc[e].tail /\ P!Retry(e, "e_tail") /\ B!Goto(e, "e_tail")
        \/ /\ bqTail = bqLoc[e].tail /\ bqLoc[e].next # NoBlock
           /\ P!Onward(e, "e_help") /\ B!Goto(e, "e_help")
        \/ /\ bqTail = bqLoc[e].tail /\ bqLoc[e].next = NoBlock
           /\ P!Onward(e, "e_cas") /\ B!Goto(e, "e_cas")
    BY <1>5, <2>1, ShownRetry DEF B!EnqueueAgain
  <2>3. UNCHANGED <<tqNext, tqData, tqVal, tqPool>>
    BY <1>5, <2>1, <2>2, ShownStep DEF B!EnqueueAgain
  <2> QED BY <1>5, <2>1, <2>2, <2>3, Shown DEF B!EnqueueAgain, P!EnqueueAgain
<1>6. ASSUME B!EnqueueHelp(e)  PROVE  P!EnqueueHelp(e)
  <2>1. bqPc[e] = "e_help" /\ P!Retry(e, "e_tail") /\ B!Goto(e, "e_tail")
    BY <1>6, ShownRetry DEF B!EnqueueHelp
  <2> QED BY <1>6, <2>1, ShownStep, Shown DEF B!EnqueueHelp, P!EnqueueHelp
<1>7. ASSUME B!EnqueueCas(e)  PROVE  P!EnqueueCas(e)
  <2> DEFINE last == bqLoc[e].tail
  <2>1. bqPc[e] = "e_cas"
    BY <1>7 DEF B!EnqueueCas
  <2>2. last \in BlockNodes \ bqFree /\ tqNext[last] = bqNext[last] /\ tqLoc[e].tail = last
    BY <2>1, InUse, Shown DEF P!TailLabels
  <2>3. CASE bqNext[last] = NoBlock
    <3>1. P!Onward(e, "e_swing") /\ B!Goto(e, "e_swing")
      BY <1>7, <2>1, <2>3, ShownRetry DEF B!EnqueueCas
    <3>2. /\ bqNext' = [bqNext EXCEPT ![last] = bqLoc[e].node]
          /\ bqVal' = [bqVal EXCEPT ![e] = NoBlock]
          /\ bqPool' = bqPool \cup {}
      BY <1>7, <2>3 DEF B!EnqueueCas
    <3>3. tqNext' = [tqNext EXCEPT ![last] = bqLoc[e].node]
      BY <2>2, <3>2 DEF tqNext, BlockTypeOK
    <3>4. /\ tqVal' = [tqVal EXCEPT ![e] = NoBlock] /\ tqPool' = tqPool \cup {}
          /\ UNCHANGED bqData => UNCHANGED tqData
      BY <2>1, <3>1, <3>2, ShownStep
    <3> QED
      BY <1>7, <2>1, <2>2, <2>3, <3>1, <3>3, <3>4, Shown DEF B!EnqueueCas, P!EnqueueCas
  <2>4. CASE bqNext[last] # NoBlock
    <3>1. P!Retry(e, "e_tail") /\ B!Goto(e, "e_tail")
      BY <1>7, <2>1, <2>4, ShownRetry DEF B!EnqueueCas
    <3>2. UNCHANGED <<tqNext, tqData, tqVal, tqPool>>
      BY <1>7, <2>1, <2>4, <3>1, ShownStep DEF B!EnqueueCas
    <3> QED BY <1>7, <2>1, <2>2, <2>4, <3>1, <3>2, Shown DEF B!EnqueueCas, P!EnqueueCas
  <2> QED BY <2>3, <2>4
<1>8. ASSUME B!EnqueueSwing(e)  PROVE  P!EnqueueSwing(e)
  <2>1. B!Goto(e, "e_done") /\ bqPc[e] = "e_swing"
    BY <1>8 DEF B!EnqueueSwing
  <2> QED BY <1>8, <2>1, ShownStep, Shown DEF B!EnqueueSwing, P!EnqueueSwing
<1>9. ASSUME B!EnqueueDone(e)  PROVE  P!EnqueueDone(e)
  <2>1. B!Goto(e, "idle") /\ bqPc[e] = "e_done"
    BY <1>9 DEF B!EnqueueDone
  <2> QED
    BY <1>9, <2>1, ShownStep, Shown
       DEF B!EnqueueDone, P!EnqueueDone, B!Hazard, P!Hazard, B!NoLoc, P!NoLoc
<1> QED
  BY <1>1, <1>2, <1>3, <1>4, <1>5, <1>6, <1>7, <1>8, <1>9 DEF BlockEnqueue, P!Step

\* lf_block_queue_try_dequeue: neither the node it takes off nor the one behind
\* it is free.
LEMMA DequeueShown ==
    ASSUME BlockTypeOK, P!HazardInv, NEW e \in BlockCallers,
           lf_block_queue_dequeue(e) \/ BlockDequeue(e)
    PROVE  P!Step(e)
<1> USE DEF B!queueVars, P!queueVars, B!hazardVars, P!hazardVars, B!callVars, P!callVars,
        blockOwn, AllocLabels, BatchLabels
<1> UNCHANGED bqFree
  BY DEF lf_block_queue_dequeue, BlockDequeue
<1>1. ASSUME B!DequeueHead(e)  PROVE  P!DequeueHead(e)
  <2>1. B!Goto(e, "d_hp") /\ bqPc[e] \in {"idle", "d_head"}
    BY <1>1 DEF B!DequeueHead
  <2> QED BY <1>1, <2>1, ShownStep, Shown DEF B!DequeueHead, P!DequeueHead
<1>2. ASSUME B!DequeueHazard(e)  PROVE  P!DequeueHazard(e)
  <2>1. B!Goto(e, "d_check") /\ bqPc[e] = "d_hp"
    BY <1>2 DEF B!DequeueHazard
  <2> QED
    BY <1>2, <2>1, ShownStep, Shown DEF B!DequeueHazard, P!DequeueHazard, B!Hazard, P!Hazard
<1>3. ASSUME B!DequeueCheck(e)  PROVE  P!DequeueCheck(e)
  <2>1. bqPc[e] = "d_check"
    BY <1>3 DEF B!DequeueCheck
  <2>2. \/ bqHead = bqLoc[e].head /\ P!Onward(e, "d_tail") /\ B!Goto(e, "d_tail")
        \/ bqHead # bqLoc[e].head /\ P!Retry(e, "d_head") /\ B!Goto(e, "d_head")
    BY <1>3, <2>1, ShownRetry DEF B!DequeueCheck
  <2>3. UNCHANGED <<tqNext, tqData, tqVal, tqPool>>
    BY <1>3, <2>1, <2>2, ShownStep DEF B!DequeueCheck
  <2> QED BY <1>3, <2>1, <2>2, <2>3, Shown DEF B!DequeueCheck, P!DequeueCheck
<1>4. ASSUME B!DequeueTail(e)  PROVE  P!DequeueTail(e)
  <2>1. B!Goto(e, "d_next") /\ bqPc[e] = "d_tail"
    BY <1>4 DEF B!DequeueTail
  <2> QED BY <1>4, <2>1, ShownStep, Shown DEF B!DequeueTail, P!DequeueTail
<1>5. ASSUME B!DequeueNext(e)  PROVE  P!DequeueNext(e)
  <2>1. B!Goto(e, "d_hp1") /\ bqPc[e] = "d_next"
    BY <1>5 DEF B!DequeueNext
  <2>2. tqNext[tqLoc[e].head] = bqNext[bqLoc[e].head] /\ tqNext[bqHead] = bqNext[bqHead]
    BY <2>1, InUse, Shown DEF P!HeadLabels
  <2> QED BY <1>5, <2>1, <2>2, ShownStep, Shown DEF B!DequeueNext, P!DequeueNext
<1>6. ASSUME B!DequeueHazardNext(e)  PROVE  P!DequeueHazardNext(e)
  <2>1. B!Goto(e, "d_again") /\ bqPc[e] = "d_hp1"
    BY <1>6 DEF B!DequeueHazardNext
  <2> QED
    BY <1>6, <2>1, ShownStep, Shown
       DEF B!DequeueHazardNext, P!DequeueHazardNext, B!Hazard, P!Hazard
<1>7. ASSUME B!DequeueAgain(e)  PROVE  P!DequeueAgain(e)
  <2> DEFINE label == CASE bqLoc[e].next = NoBlock -> "d_empty"
                        [] bqLoc[e].next # NoBlock /\ bqHead = bqLoc[e].tail -> "d_help"
                        [] bqLoc[e].next # NoBlock /\ bqHead # bqLoc[e].tail -> "d_cas"
  <2>1. bqPc[e] = "d_again"
    BY <1>7 DEF B!DequeueAgain
  <2>2. label \notin AllocLabels \cup BatchLabels
    OBVIOUS
  <2>3. \/ bqHead # bqLoc[e].head /\ B!Retry(e, "d_head")
        \/ bqHead = bqLoc[e].head /\ B!Onward(e, label)
    BY <1>7 DEF B!DequeueAgain
  <2>4. /\ \/ bqHead # bqLoc[e].head /\ P!Retry(e, "d_head")
           \/ bqHead = bqLoc[e].head /\ P!Onward(e, label)
        /\ B!Goto(e, "d_head") \/ B!Goto(e, label)
    <3> HIDE DEF label
    <3> QED BY <2>1, <2>2, <2>3, ShownRetry
  <2>5. UNCHANGED <<tqNext, tqData, tqVal, tqPool>>
    <3> HIDE DEF label
    <3> QED BY <1>7, <2>1, <2>2, <2>4, ShownStep DEF B!DequeueAgain
  <2>6. \/ bqHead # tqLoc[e].head /\ P!Retry(e, "d_head")
        \/ /\ bqHead = tqLoc[e].head
           /\ P!Onward(e, CASE tqLoc[e].next = NoBlock -> "d_empty"
                            [] tqLoc[e].next # NoBlock /\ bqHead = tqLoc[e].tail -> "d_help"
                            [] tqLoc[e].next # NoBlock /\ bqHead # tqLoc[e].tail -> "d_cas")
    <3>1. tqLoc[e] = bqLoc[e]
      BY <2>1, Shown
    <3> QED BY <2>4, <3>1
  <2> QED BY <1>7, <2>1, <2>5, <2>6, Shown DEF B!DequeueAgain, P!DequeueAgain
<1>8. ASSUME B!DequeueHelp(e)  PROVE  P!DequeueHelp(e)
  <2>1. bqPc[e] = "d_help" /\ P!Retry(e, "d_head") /\ B!Goto(e, "d_head")
    BY <1>8, ShownRetry DEF B!DequeueHelp
  <2> QED BY <1>8, <2>1, ShownStep, Shown DEF B!DequeueHelp, P!DequeueHelp
<1>9. ASSUME B!DequeueCas(e)  PROVE  P!DequeueCas(e)
  <2>1. bqPc[e] = "d_cas"
    BY <1>9 DEF B!DequeueCas
  <2>2. \/ /\ bqHead = bqLoc[e].head /\ bqHead' = bqLoc[e].next
           /\ P!Onward(e, "d_data") /\ B!Goto(e, "d_data")
        \/ /\ bqHead # bqLoc[e].head /\ UNCHANGED bqHead
           /\ P!Retry(e, "d_head") /\ B!Goto(e, "d_head")
    BY <1>9, <2>1, ShownRetry DEF B!DequeueCas
  <2>3. UNCHANGED <<tqNext, tqData, tqVal, tqPool>>
    BY <1>9, <2>1, <2>2, ShownStep DEF B!DequeueCas
  <2> QED BY <1>9, <2>1, <2>2, <2>3, Shown DEF B!DequeueCas, P!DequeueCas
<1>10. ASSUME B!DequeueData(e)  PROVE  P!DequeueData(e)
  <2>1. B!Goto(e, "d_unhp1") /\ bqPc[e] = "d_data"
    BY <1>10 DEF B!DequeueData
  <2>2. tqData[tqLoc[e].next] = bqData[bqLoc[e].next] /\ tqLoc[e] = bqLoc[e]
    BY <2>1, InUse, Shown DEF P!SuccessorLabels
  <2>3. /\ bqVal' = [bqVal EXCEPT ![e] = bqData[bqLoc[e].next]]
        /\ bqLoc' = [bqLoc EXCEPT ![e] = [B!NoLoc EXCEPT !.head = bqLoc[e].head]]
        /\ bqPool' = bqPool \cup {}
    BY <1>10 DEF B!DequeueData
  <2>4. /\ tqVal' = [tqVal EXCEPT ![e] = bqData[bqLoc[e].next]]
        /\ tqLoc' = [tqLoc EXCEPT ![e] = [B!NoLoc EXCEPT !.head = bqLoc[e].head]]
        /\ tqPool' = tqPool \cup {}
        /\ P!Goto(e, "d_unhp1") /\ UNCHANGED <<tqNext, tqData>>
    <3>1. UNCHANGED <<bqNext, bqData>>
      BY <1>10 DEF B!DequeueData
    <3> QED BY <2>1, <2>3, <3>1, ShownStep
  <2> QED
    BY <1>10, <2>1, <2>2, <2>4, Shown DEF B!DequeueData, P!DequeueData, B!NoLoc, P!NoLoc
<1>11. ASSUME B!DequeueUnhazard(e)  PROVE  P!DequeueUnhazard(e)
  <2>1. B!Goto(e, "retire") /\ bqPc[e] = "d_unhp1"
    BY <1>11 DEF B!DequeueUnhazard
  <2> QED
    BY <1>11, <2>1, ShownStep, Shown
       DEF B!DequeueUnhazard, P!DequeueUnhazard, B!Hazard, P!Hazard
<1>12. ASSUME B!DequeueEmpty(e)  PROVE  P!DequeueEmpty(e)
  <2>1. B!Goto(e, "d_none") /\ bqPc[e] = "d_empty"
    BY <1>12 DEF B!DequeueEmpty
  <2> QED
    BY <1>12, <2>1, ShownStep, Shown DEF B!DequeueEmpty, P!DequeueEmpty, B!Hazard, P!Hazard
<1>13. ASSUME B!DequeueDone(e)  PROVE  P!DequeueDone(e)
  <2>1. B!Goto(e, "idle") /\ bqPc[e] \in {"d_none", "d_done"}
    BY <1>13 DEF B!DequeueDone
  <2>2. /\ bqVal' = [bqVal EXCEPT ![e] = NoBlock]
        /\ bqLoc' = [bqLoc EXCEPT ![e] = B!NoLoc]
        /\ bqPool' = bqPool \cup ({bqVal[e]} \ {NoBlock})
        /\ UNCHANGED <<bqNext, bqData>>
    BY <1>13 DEF B!DequeueDone
  <2>3. /\ tqVal' = [tqVal EXCEPT ![e] = NoBlock]
        /\ tqLoc' = [tqLoc EXCEPT ![e] = B!NoLoc]
        /\ tqPool' = tqPool \cup ({bqVal[e]} \ {NoBlock})
        /\ P!Goto(e, "idle") /\ UNCHANGED <<tqNext, tqData>>
    BY <2>1, <2>2, ShownStep
  <2> QED
    BY <1>13, <2>1, <2>3, Shown
       DEF B!DequeueDone, P!DequeueDone, B!Hazard, P!Hazard, B!NoLoc, P!NoLoc
<1> QED
  BY <1>1, <1>2, <1>3, <1>4, <1>5, <1>6, <1>7, <1>8, <1>9, <1>10, <1>11, <1>12, <1>13
     DEF lf_block_queue_dequeue, BlockDequeue, P!Step

\* lf_block_queue_node_retire and the scan up to its table: the node that is
\* retired is not free.
LEMMA RetireShown ==
    ASSUME BlockTypeOK, P!HazardInv, NEW e \in BlockCallers, BlockRetire(e)
    PROVE  P!Step(e)
<1> USE DEF B!queueVars, P!queueVars, B!hazardVars, P!hazardVars, B!callVars, P!callVars,
        blockOwn, AllocLabels, BatchLabels
<1> UNCHANGED bqFree
  BY DEF BlockRetire
<1>1. ASSUME B!Retire(e)  PROVE  P!Retire(e)
  <2> DEFINE n == bqLoc[e].head
             label == IF bqRcount[e] >= HptrThreshold THEN "scan" ELSE "d_done"
  <2>1. bqPc[e] = "retire" /\ B!Goto(e, label) /\ label \notin AllocLabels \cup BatchLabels
    BY <1>1 DEF B!Retire
  <2>2. n \in BlockNodes \ bqFree /\ tqLoc[e] = bqLoc[e] /\ tqPc[e] = bqPc[e]
    BY <2>1, InUse, Shown DEF P!HandLabels
  <2>3. /\ bqNext' = [bqNext EXCEPT ![n] = bqRlist[e]]
        /\ bqLoc' = [bqLoc EXCEPT ![e] = B!NoLoc]
        /\ UNCHANGED <<bqData, bqVal, bqPool>>
    BY <1>1 DEF B!Retire
  <2>4. tqNext' = [tqNext EXCEPT ![n] = bqRlist[e]]
    BY <2>2, <2>3 DEF tqNext, BlockTypeOK
  <2>5. /\ tqLoc' = [tqLoc EXCEPT ![e] = B!NoLoc] /\ P!Goto(e, label)
        /\ UNCHANGED <<tqData, tqVal, tqPool>>
    <3> HIDE DEF label
    <3> QED BY <2>1, <2>3, ShownStep
  <2> QED BY <1>1, <2>1, <2>2, <2>4, <2>5 DEF B!Retire, P!Retire, B!NoLoc, P!NoLoc
<1>2. ASSUME B!Scan(e)  PROVE  P!Scan(e)
  <2> DEFINE label == IF bqScan[e].pos + 1 < 2 * BlockExecs THEN "scan" ELSE "s_start"
  <2>1. bqPc[e] = "scan" /\ B!Goto(e, label) /\ label \notin AllocLabels \cup BatchLabels
    BY <1>2 DEF B!Scan
  <2>2. /\ P!Goto(e, label) /\ tqPc[e] = bqPc[e]
        /\ UNCHANGED bqLoc => UNCHANGED tqLoc
        /\ UNCHANGED <<bqFree, bqNext>> => UNCHANGED tqNext
        /\ UNCHANGED <<bqFree, bqData>> => UNCHANGED tqData
        /\ UNCHANGED <<bqPool, bqVal>> => UNCHANGED tqPool
        /\ UNCHANGED bqVal => UNCHANGED tqVal
    <3> HIDE DEF label
    <3> QED BY <2>1, ShownStep, Shown
  <2> QED BY <1>2, <2>1, <2>2 DEF B!Scan, P!Scan
<1>3. ASSUME B!ScanStart(e)  PROVE  P!ScanStart(e)
  <2>1. B!Goto(e, "s_next") /\ bqPc[e] = "s_start"
    BY <1>3 DEF B!ScanStart
  <2> QED BY <1>3, <2>1, ShownStep, Shown DEF B!ScanStart, P!ScanStart
<1> QED BY <1>1, <1>2, <1>3 DEF BlockRetire, P!Step

-----------------------------------------------------------------------------
(* lf_block_queue_scan_free_rlist.                                         *)

\* The look at the next retired node; at the end of the list the batch is
\* given back, which is no step of LFThreadQueue.
LEMMA ScanNextShown ==
    ASSUME BlockTypeOK, P!HazardInv, NEW e \in BlockCallers, LabelOK(e), BlockScanNext(e)
    PROVE  P!Step(e) \/ UNCHANGED P!vars
<1> USE DEF B!queueVars, P!queueVars, B!hazardVars, P!hazardVars, B!callVars, P!callVars,
        blockQueueVars, blockHazardVars, blockCallVars, blockOwn
<1>1. /\ bqPc[e] = "s_next"
      /\ UNCHANGED <<blockQueueVars, blockHazardVars, blockCallVars, bqScan, blockOwn>>
      /\ bqPc[e] \notin AllocLabels \cup BatchLabels
  BY DEF BlockScanNext, AllocLabels, BatchLabels
<1>2. UNCHANGED <<tqNext, tqData>>
  BY <1>1 DEF tqNext, tqData
<1>3. CASE bqLoc[e].curr = NoBlock
  <2>1. bqPc' = [bqPc EXCEPT ![e] = "f_read"] /\ UNCHANGED bqLoc
    BY <1>3 DEF BlockScanNext, B!Onward, B!Goto
  <2>2. bqLoc[e] = B!NoLoc
    BY <1>1, <1>3 DEF LabelOK, BlockTypeOK, P!LocType, B!NoLoc, P!SortLabels
  <2>3. /\ tqPc' = tqPc
        /\ Allocating' = Allocating
    BY <1>1, <2>1 DEF tqPc, Allocating, BlockTypeOK, AllocLabels, BatchLabels
  <2>4. tqLoc' = tqLoc
    BY <1>1, <2>1, <2>2 DEF tqLoc, BlockTypeOK, AllocLabels, BatchLabels
  <2>5. tqVal' = tqVal
    BY <1>1, <2>1 DEF tqVal, BlockTypeOK, AllocLabels
  <2>6. tqPool' = tqPool
    BY <1>1, <2>3 DEF tqPool
  <2> QED BY <1>1, <1>2, <2>3, <2>4, <2>5, <2>6 DEF P!vars
<1>4. CASE bqLoc[e].curr # NoBlock
  <2>1. B!Local(e, "next", bqNext[bqLoc[e].curr]) /\ B!Goto(e, "s_sort")
    BY <1>4 DEF BlockScanNext
  <2>2. /\ tqNext[tqLoc[e].curr] = bqNext[bqLoc[e].curr]
        /\ tqPc[e] = "s_next" /\ tqLoc[e].curr # NoBlock
    BY <1>1, <1>4, InUse, Shown DEF P!SortLabels
  <2>3. /\ P!Local(e, "next", bqNext[bqLoc[e].curr]) /\ P!Goto(e, "s_sort")
        /\ UNCHANGED <<tqVal, tqPool>>
    BY <1>1, <2>1, ShownStep DEF AllocLabels, BatchLabels
  <2>4. P!ScanNext(e)
    BY <1>1, <1>2, <2>2, <2>3 DEF P!ScanNext
  <2> QED BY <2>4 DEF P!Step
<1> QED BY <1>3, <1>4

\* A node is kept or joins the batch; the end of the batch is free already, so
\* that its link is not seen.
LEMMA ScanSortShown ==
    ASSUME BlockTypeOK, P!HazardInv, NEW e \in BlockCallers, BlockScanSort(e),
           bqBatch[e].head # NoBlock => bqBatch[e].tail \in bqFree
    PROVE  P!Step(e)
<1> DEFINE n == bqLoc[e].curr
           batch == bqBatch[e]
<1>1. /\ bqPc[e] = "s_sort" /\ B!Goto(e, "s_next")
      /\ bqLoc' = [bqLoc EXCEPT ![e].curr = bqLoc[e].next]
      /\ UNCHANGED <<bqHead, bqTail, bqData, bqHp, bqNodes, blockCallVars, bqScan>>
  BY DEF BlockScanSort
<1>2. bqPc[e] \notin AllocLabels \cup BatchLabels /\ "s_next" \notin AllocLabels \cup BatchLabels
  BY <1>1 DEF AllocLabels, BatchLabels
<1>3. /\ tqPc[e] = "s_sort" /\ tqLoc[e] = bqLoc[e] /\ n \in BlockNodes \ bqFree
  <2>1. tqPc[e] = "s_sort" /\ tqLoc[e] = bqLoc[e]
    BY <1>1, <1>2, Shown
  <2>2. n \in BlockNodes /\ n # NoBlock
    BY <2>1, InUse, BlockQueueAssumption
  <2> QED BY <2>1, <2>2, InUse DEF P!SortLabels
<1>4. /\ P!Goto(e, "s_next") /\ UNCHANGED <<tqVal, tqPool>>
      /\ tqLoc' = [tqLoc EXCEPT ![e].curr = tqLoc[e].next]
  <2>1. bqLoc' = [bqLoc EXCEPT ![e] = [bqLoc[e] EXCEPT !.curr = bqLoc[e].next]]
    BY <1>1
  <2>2. /\ P!Goto(e, "s_next") /\ UNCHANGED <<tqVal, tqPool>>
        /\ tqLoc' = [tqLoc EXCEPT ![e] = [bqLoc[e] EXCEPT !.curr = bqLoc[e].next]]
    BY <1>1, <1>2, <2>1, ShownStep DEF blockCallVars
  <2> QED BY <1>3, <2>2
<1>5. CASE n \in bqScan[e].ptab
  <2>1. /\ bqNext' = [bqNext EXCEPT ![n] = bqRlist[e]]
        /\ bqRlist' = [bqRlist EXCEPT ![e] = n]
        /\ bqRcount' = [bqRcount EXCEPT ![e] = @ + 1]
        /\ UNCHANGED bqFree
    BY <1>5 DEF BlockScanSort
  <2>2. tqNext' = [tqNext EXCEPT ![n] = bqRlist[e]] /\ UNCHANGED tqData
    BY <1>1, <1>3, <2>1 DEF tqNext, tqData, BlockTypeOK
  <2>3. P!ScanSort(e)
    BY <1>1, <1>3, <1>4, <1>5, <2>1, <2>2 DEF P!ScanSort, P!callVars, blockCallVars
  <2> QED BY <2>3 DEF P!Step
<1>6. CASE n \notin bqScan[e].ptab
  <2>1. /\ bqFree' = bqFree \cup {n} /\ UNCHANGED <<bqRlist, bqRcount>>
        /\ bqNext' = bqNext \/ (batch.tail \in bqFree /\ bqNext' = [bqNext EXCEPT ![batch.tail] = n])
    BY <1>6 DEF BlockScanSort
  <2>2. tqNext' = [tqNext EXCEPT ![n] = NoBlock]
    BY <1>3, <2>1 DEF tqNext, BlockTypeOK
  <2>3. tqData' = [tqData EXCEPT ![n] = NoBlock]
    BY <1>1, <1>3, <2>1 DEF tqData, BlockTypeOK
  <2>4. P!ScanSort(e)
    BY <1>1, <1>3, <1>4, <1>6, <2>1, <2>2, <2>3 DEF P!ScanSort, P!callVars, blockCallVars
  <2> QED BY <2>4 DEF P!Step
<1> QED BY <1>5, <1>6

\* The batch is linked to the stack, which nobody sees, and put onto it, which
\* is the end of the scan.
LEMMA BatchShown ==
    ASSUME BlockTypeOK, NEW e \in BlockCallers, BatchLink(e) \/ BatchCas(e),
           bqPc[e] = "f_read" => bqBatch[e].tail \in bqFree \cup {NoBlock}
    PROVE  P!Step(e) \/ UNCHANGED P!vars
<1> USE DEF blockQueueVars, blockHazardVars, blockCallVars, blockOwn
<1>1. /\ bqPc[e] \in {"f_read", "f_cas"} /\ bqPc[e] \in BatchLabels /\ bqPc[e] \notin AllocLabels
      /\ UNCHANGED <<bqHead, bqTail, bqData, bqHp, bqRlist, bqRcount, bqPool, bqVal, bqSaw, bqFree>>
  BY DEF BatchLink, BatchCas, AllocLabels, BatchLabels
<1>2. tqNext' = tqNext /\ tqData' = tqData
  <2>1. BatchLink(e) => bqNext' = [bqNext EXCEPT ![bqBatch[e].tail] = bqNodes]
                        /\ bqPc[e] = "f_read" /\ bqBatch[e].tail # NoBlock
    BY DEF BatchLink
  <2>2. BatchCas(e) => bqNext' = bqNext
    BY DEF BatchCas
  <2> QED BY <1>1, <2>1, <2>2 DEF tqNext, tqData, BlockTypeOK
<1>3. CASE BatchLink(e) \/ (BatchCas(e) /\ bqNodes # bqLoc[e].next)
  <2>1. /\ bqPc'[e] \in BatchLabels /\ bqPc'[e] \notin AllocLabels
        /\ \A f \in BlockCallers \ {e} : bqPc'[f] = bqPc[f] /\ bqLoc'[f] = bqLoc[f]
        /\ UNCHANGED bqScan
    BY <1>3 DEF BatchLink, BatchCas, B!Goto, B!Local, B!Onward, BlockTypeOK, AllocLabels, BatchLabels
  <2>2. tqPc' = tqPc /\ Allocating' = Allocating
    BY <1>1, <2>1 DEF tqPc, Allocating
  <2>3. tqLoc' = tqLoc /\ tqVal' = tqVal
    BY <1>1, <2>1 DEF tqLoc, tqVal
  <2>4. tqPool' = tqPool
    BY <1>1, <2>2 DEF tqPool
  <2> QED BY <1>1, <1>2, <2>1, <2>2, <2>3, <2>4 DEF P!vars
<1>4. CASE BatchCas(e) /\ bqNodes = bqLoc[e].next
  <2>1. /\ bqPc' = [bqPc EXCEPT ![e] = "d_done"]
        /\ bqLoc' = [bqLoc EXCEPT ![e] = B!NoLoc]
        /\ bqScan' = [bqScan EXCEPT ![e] = B!NoScan]
    BY <1>1, <1>4 DEF BatchCas, B!Onward, B!Goto, AllocLabels, BatchLabels
  <2>2. /\ tqPc[e] = "s_next" /\ tqLoc[e] = B!NoLoc
        /\ tqPc' = [tqPc EXCEPT ![e] = "d_done"] /\ Allocating' = Allocating
    BY <1>1, <2>1 DEF tqPc, tqLoc, Allocating, BlockTypeOK, AllocLabels, BatchLabels
  <2>3. tqLoc' = tqLoc
    BY <1>1, <2>1 DEF tqLoc, BlockTypeOK
  <2>4. tqVal' = tqVal
    BY <1>1, <2>1 DEF tqVal, BlockTypeOK, AllocLabels
  <2>5. tqPool' = tqPool
    BY <1>1, <2>2 DEF tqPool
  <2>6. P!ScanNext(e)
    BY <1>1, <1>2, <2>1, <2>2, <2>3, <2>4, <2>5
       DEF P!ScanNext, P!Goto, P!NoScan, B!NoScan, B!NoLoc, P!queueVars, P!hazardVars,
           P!callVars
  <2> QED BY <2>6 DEF P!Step
<1> QED BY <1>3, <1>4

-----------------------------------------------------------------------------
(* lf_block_queue_alloc_node.                                              *)

\* A step from one line of the allocator to another, or into it with a
\* descriptor from the pool, is not seen.
LEMMA AllocHidden ==
    ASSUME BlockTypeOK, NEW e \in BlockCallers,
           \/ bqPc[e] \in AllocLabels /\ UNCHANGED <<bqVal, bqPool>>
           \/ /\ bqPc[e] = "idle" /\ bqVal[e] = NoBlock /\ bqLoc[e] = B!NoLoc
              /\ \E b \in bqPool : /\ bqPool' = bqPool \ {b}
                                   /\ bqVal' = [bqVal EXCEPT ![e] = b],
           NEW label \in AllocLabels, B!Goto(e, label),
           \A f \in BlockCallers \ {e} : bqLoc'[f] = bqLoc[f],
           UNCHANGED <<bqHead, bqTail, bqHp, bqRlist, bqRcount, bqFree, bqScan, bqSaw>>,
           \A n \in BlockNodes \ bqFree : bqNext'[n] = bqNext[n] /\ bqData'[n] = bqData[n]
    PROVE  UNCHANGED P!vars
<1>1. /\ bqPc'[e] = label
      /\ \A f \in BlockCallers \ {e} : bqPc'[f] = bqPc[f] /\ bqVal'[f] = bqVal[f]
  BY DEF B!Goto, BlockTypeOK
<1>2. bqPc[e] \in AllocLabels \/ (bqPc[e] = "idle" /\ bqVal[e] = NoBlock /\ bqLoc[e] = B!NoLoc)
  OBVIOUS
<1>3. bqPc[e] \notin BatchLabels /\ label \notin BatchLabels
  BY <1>2 DEF AllocLabels, BatchLabels
<1>4. tqPc' = tqPc
  BY <1>1, <1>2, <1>3 DEF tqPc
<1>5. tqLoc' = tqLoc
  BY <1>1, <1>2, <1>3 DEF tqLoc
<1>6. tqVal' = tqVal
  BY <1>1, <1>2 DEF tqVal
<1>7. tqNext' = tqNext /\ tqData' = tqData
  BY DEF tqNext, tqData
<1>8. tqPool' = tqPool
  <2>1. CASE bqPc[e] \in AllocLabels /\ UNCHANGED <<bqVal, bqPool>>
    <3>1. Allocating' = Allocating
      BY <1>1, <2>1 DEF Allocating
    <3> QED BY <2>1, <3>1 DEF tqPool
  <2>2. CASE bqPc[e] = "idle" /\ \E b \in bqPool : /\ bqPool' = bqPool \ {b}
                                                   /\ bqVal' = [bqVal EXCEPT ![e] = b]
    <3>1. PICK b \in bqPool : bqPool' = bqPool \ {b} /\ bqVal' = [bqVal EXCEPT ![e] = b]
      BY <2>2
    <3>2. /\ Allocating' = Allocating \cup {e} /\ e \notin Allocating
          /\ bqVal'[e] = b /\ \A f \in Allocating : bqVal'[f] = bqVal[f]
      BY <1>1, <2>2, <3>1 DEF Allocating, AllocLabels, BlockTypeOK
    <3>3. {bqVal'[f] : f \in Allocating'} = {bqVal[f] : f \in Allocating} \cup {b}
      BY <3>2
    <3> QED BY <3>1, <3>3 DEF tqPool
  <2> QED BY <2>1, <2>2
<1> QED BY <1>4, <1>5, <1>6, <1>7, <1>8 DEF P!vars

\* The step that gets a node is the start of the call as LFThreadQueue has it.
LEMMA NodeGiven ==
    ASSUME BlockTypeOK, NEW e \in BlockCallers, LabelOK(e), bqPc[e] \in AllocLabels,
           \A f \in Allocating : bqVal[f] = bqVal[e] => f = e,
           bqVal[e] \notin bqPool,
           NEW n \in bqFree, n \in BlockNodes, Filled(e, bqNext, n),
           UNCHANGED <<bqHead, bqTail, bqHp, bqRlist, bqRcount, blockCallVars, bqScan>>
    PROVE  P!EnqueueStart(e)
<1> DEFINE t == bqVal[e]
<1>1. /\ e \in BlockEnqueuers /\ t \in QueuedBlocks
      /\ "e_tail" \notin AllocLabels \cup BatchLabels
  BY DEF LabelOK, AllocLabels, BatchLabels
<1>2. /\ bqFree' = bqFree \ {n}
      /\ bqNext' = [bqNext EXCEPT ![n] = NoBlock]
      /\ bqData' = [bqData EXCEPT ![n] = t]
      /\ bqLoc' = [bqLoc EXCEPT ![e] = [B!NoLoc EXCEPT !.node = n]]
      /\ bqPc' = [bqPc EXCEPT ![e] = "e_tail"]
      /\ UNCHANGED <<bqVal, bqPool, bqSaw>>
  BY DEF Filled, B!Goto, blockCallVars
<1>3. tqPc[e] = "idle" /\ tqPc' = [tqPc EXCEPT ![e] = "e_tail"]
  BY <1>1, <1>2 DEF tqPc, BlockTypeOK
<1>4. tqVal' = [tqVal EXCEPT ![e] = t]
  BY <1>1, <1>2 DEF tqVal, BlockTypeOK
<1>5. tqLoc' = [tqLoc EXCEPT ![e]["node"] = n]
  <2>1. tqLoc[e] = B!NoLoc
    BY DEF tqLoc
  <2>2. tqLoc' = [tqLoc EXCEPT ![e] = [B!NoLoc EXCEPT !.node = n]]
    BY <1>1, <1>2 DEF tqLoc, BlockTypeOK
  <2> QED BY <2>1, <2>2
<1>6. /\ tqNext' = [tqNext EXCEPT ![n] = NoBlock]
      /\ tqData' = [tqData EXCEPT ![n] = t]
  BY <1>2 DEF tqNext, tqData, BlockTypeOK
<1>7. tqPool' = tqPool \ {t} /\ t \in tqPool
  <2>1. Allocating' = Allocating \ {e} /\ e \in Allocating
    BY <1>1, <1>2 DEF Allocating, BlockTypeOK
  <2>2. {bqVal[f] : f \in Allocating \ {e}} = {bqVal[f] : f \in Allocating} \ {t}
    BY <2>1
  <2> QED BY <1>2, <2>1, <2>2 DEF tqPool
<1> QED
  BY <1>1, <1>2, <1>3, <1>4, <1>5, <1>6, <1>7 DEF P!EnqueueStart, P!Local, P!Goto

-----------------------------------------------------------------------------
(* What a step changes.                                                    *)

\* The local variables, lists and batch of the others are not touched, and the
\* shared words only where the code writes them.
BlockFrame(e) ==
    /\ bqPc' = [bqPc EXCEPT ![e] = bqPc'[e]]
    /\ bqPc'[e] \in QueueLabels \cup AllocLabels \cup BatchLabels
    /\ bqLoc' = [bqLoc EXCEPT ![e] = bqLoc'[e]]
    /\ bqVal' = [bqVal EXCEPT ![e] = bqVal'[e]]
    /\ bqRlist' = [bqRlist EXCEPT ![e] = bqRlist'[e]]
    /\ bqRcount' = [bqRcount EXCEPT ![e] = bqRcount'[e]]
    /\ bqScan' = [bqScan EXCEPT ![e] = bqScan'[e]]
    /\ bqBatch' = [bqBatch EXCEPT ![e] = bqBatch'[e]]
    /\ \/ B!EnqueueCas(e) \/ B!Retire(e) \/ BlockScanSort(e) \/ BatchLink(e)
       \/ AllocCas(e) \/ AllocPage(e) \/ AllocPageCas(e) \/ UNCHANGED bqNext
    /\ AllocCas(e) \/ AllocPageCas(e) \/ UNCHANGED bqData
    /\ AllocCas(e) \/ AllocPageCas(e) \/ BatchCas(e) \/ UNCHANGED bqNodes
    /\ AllocPage(e) \/ AllocPageCas(e) \/ UNCHANGED bqPages
    /\ BlockScanSort(e) \/ BatchCas(e) \/ UNCHANGED bqBatch
    /\ AllocCas(e) \/ AllocPageCas(e) \/ BlockScanSort(e) \/ UNCHANGED bqFree
    /\ lf_block_queue_enqueue(e) \/ B!DequeueDone(e) \/ UNCHANGED bqPool
    /\ B!Retire(e) \/ B!ScanStart(e) \/ BlockScanSort(e) \/ UNCHANGED <<bqRlist, bqRcount>>
    /\ B!Scan(e) \/ BatchCas(e) \/ UNCHANGED bqScan
    /\ bqPc'[e] \in AllocLabels \cup BatchLabels =>
           \/ lf_block_queue_enqueue(e) \/ AllocRead(e) \/ AllocNext(e) \/ AllocCas(e)
           \/ AllocPage(e) \/ AllocPageCas(e) \/ BlockScanNext(e) \/ BatchLink(e)
           \/ BatchCas(e)

\* Every step keeps to its frame, and the labels to what they say.
LEMMA BlockFrames ==
    ASSUME BlockTypeOK, P!QueueTypeOK, NEW e \in BlockCallers, LabelOK(e), BlockStep(e)
    PROVE  BlockFrame(e) /\ LabelOK(e)'
<1> USE DEF BlockFrame, LabelOK, B!NoLoc, NoBatch, B!Goto, B!Local, B!Hazard, B!Retry, B!Onward, B!queueVars,
        B!hazardVars, B!callVars, blockQueueVars, blockHazardVars, blockCallVars, blockOwn,
        QueueLabels, P!PrivateLabels, P!TailLabels, P!HeadLabels, P!HandLabels,
        P!SortLabels, P!OtherLabels, AllocLabels, BatchLabels
<1> /\ bqPc = [f \in BlockCallers |-> bqPc[f]] /\ bqLoc = [f \in BlockCallers |-> bqLoc[f]]
    /\ bqVal = [f \in BlockCallers |-> bqVal[f]]
    /\ bqRlist = [f \in BlockCallers |-> bqRlist[f]]
    /\ bqRcount = [f \in BlockCallers |-> bqRcount[f]]
    /\ bqScan = [f \in BlockCallers |-> bqScan[f]]
    /\ bqBatch = [f \in BlockCallers |-> bqBatch[f]]
  BY DEF BlockTypeOK, P!QueueTypeOK, P!Execs, BlockCallers
<1>1. ASSUME B!EnqueueTail(e), BlockEnqueue(e)  PROVE  BlockFrame(e) /\ LabelOK(e)'
  BY <1>1 DEF B!EnqueueTail, BlockEnqueue
<1>2. ASSUME B!EnqueueHazard(e), BlockEnqueue(e)  PROVE  BlockFrame(e) /\ LabelOK(e)'
  BY <1>2 DEF B!EnqueueHazard, BlockEnqueue
<1>3. ASSUME B!EnqueueCheck(e), BlockEnqueue(e)  PROVE  BlockFrame(e) /\ LabelOK(e)'
  BY <1>3 DEF B!EnqueueCheck, BlockEnqueue
<1>4. ASSUME B!EnqueueNext(e), BlockEnqueue(e)  PROVE  BlockFrame(e) /\ LabelOK(e)'
  BY <1>4 DEF B!EnqueueNext, BlockEnqueue
<1>5. ASSUME B!EnqueueAgain(e), BlockEnqueue(e)  PROVE  BlockFrame(e) /\ LabelOK(e)'
  BY <1>5 DEF B!EnqueueAgain, BlockEnqueue
<1>6. ASSUME B!EnqueueHelp(e), BlockEnqueue(e)  PROVE  BlockFrame(e) /\ LabelOK(e)'
  BY <1>6 DEF B!EnqueueHelp, BlockEnqueue
<1>7. ASSUME B!EnqueueCas(e), BlockEnqueue(e)  PROVE  BlockFrame(e) /\ LabelOK(e)'
  BY <1>7 DEF B!EnqueueCas, BlockEnqueue
<1>8. ASSUME B!EnqueueSwing(e), BlockEnqueue(e)  PROVE  BlockFrame(e) /\ LabelOK(e)'
  BY <1>8 DEF B!EnqueueSwing, BlockEnqueue
<1>9. ASSUME B!EnqueueDone(e), BlockEnqueue(e)  PROVE  BlockFrame(e) /\ LabelOK(e)'
  BY <1>9 DEF B!EnqueueDone, BlockEnqueue
<1>10. ASSUME B!DequeueHead(e), UNCHANGED blockOwn \/ lf_block_queue_dequeue(e)
       PROVE  BlockFrame(e) /\ LabelOK(e)'
  BY <1>10 DEF B!DequeueHead, lf_block_queue_dequeue
<1>11. ASSUME B!DequeueHazard(e), UNCHANGED blockOwn \/ lf_block_queue_dequeue(e)
       PROVE  BlockFrame(e) /\ LabelOK(e)'
  BY <1>11 DEF B!DequeueHazard, lf_block_queue_dequeue
<1>12. ASSUME B!DequeueCheck(e), UNCHANGED blockOwn \/ lf_block_queue_dequeue(e)
       PROVE  BlockFrame(e) /\ LabelOK(e)'
  BY <1>12 DEF B!DequeueCheck, lf_block_queue_dequeue
<1>13. ASSUME B!DequeueTail(e), UNCHANGED blockOwn \/ lf_block_queue_dequeue(e)
       PROVE  BlockFrame(e) /\ LabelOK(e)'
  BY <1>13 DEF B!DequeueTail, lf_block_queue_dequeue
<1>14. ASSUME B!DequeueNext(e), UNCHANGED blockOwn \/ lf_block_queue_dequeue(e)
       PROVE  BlockFrame(e) /\ LabelOK(e)'
  BY <1>14 DEF B!DequeueNext, lf_block_queue_dequeue
<1>15. ASSUME B!DequeueHazardNext(e), UNCHANGED blockOwn \/ lf_block_queue_dequeue(e)
       PROVE  BlockFrame(e) /\ LabelOK(e)'
  BY <1>15 DEF B!DequeueHazardNext, lf_block_queue_dequeue
<1>16. ASSUME B!DequeueAgain(e), UNCHANGED blockOwn \/ lf_block_queue_dequeue(e)
       PROVE  BlockFrame(e) /\ LabelOK(e)'
  BY <1>16 DEF B!DequeueAgain, lf_block_queue_dequeue
<1>17. ASSUME B!DequeueHelp(e), UNCHANGED blockOwn \/ lf_block_queue_dequeue(e)
       PROVE  BlockFrame(e) /\ LabelOK(e)'
  BY <1>17 DEF B!DequeueHelp, lf_block_queue_dequeue
<1>18. ASSUME B!DequeueCas(e), UNCHANGED blockOwn \/ lf_block_queue_dequeue(e)
       PROVE  BlockFrame(e) /\ LabelOK(e)'
  BY <1>18 DEF B!DequeueCas, lf_block_queue_dequeue
<1>19. ASSUME B!DequeueData(e), UNCHANGED blockOwn \/ lf_block_queue_dequeue(e)
       PROVE  BlockFrame(e) /\ LabelOK(e)'
  BY <1>19 DEF B!DequeueData, lf_block_queue_dequeue
<1>20. ASSUME B!DequeueUnhazard(e), UNCHANGED blockOwn \/ lf_block_queue_dequeue(e)
       PROVE  BlockFrame(e) /\ LabelOK(e)'
  BY <1>20 DEF B!DequeueUnhazard, lf_block_queue_dequeue
<1>21. ASSUME B!DequeueEmpty(e), UNCHANGED blockOwn \/ lf_block_queue_dequeue(e)
       PROVE  BlockFrame(e) /\ LabelOK(e)'
  BY <1>21 DEF B!DequeueEmpty, lf_block_queue_dequeue
<1>22. ASSUME B!DequeueDone(e), UNCHANGED blockOwn \/ lf_block_queue_dequeue(e)
       PROVE  BlockFrame(e) /\ LabelOK(e)'
  BY <1>22 DEF B!DequeueDone, lf_block_queue_dequeue
<1>23. ASSUME B!Retire(e), BlockRetire(e)  PROVE  BlockFrame(e) /\ LabelOK(e)'
  BY <1>23 DEF B!Retire, BlockRetire
<1>24. ASSUME B!Scan(e), BlockRetire(e)  PROVE  BlockFrame(e) /\ LabelOK(e)'
  BY <1>24 DEF B!Scan, BlockRetire
<1>25. ASSUME B!ScanStart(e), BlockRetire(e)  PROVE  BlockFrame(e) /\ LabelOK(e)'
  <2>1. /\ bqPc' = [bqPc EXCEPT ![e] = "s_next"] /\ bqPc[e] = "s_start"
        /\ bqLoc' = [bqLoc EXCEPT ![e] = [bqLoc[e] EXCEPT !.curr = bqRlist[e]]]
    BY <1>25 DEF B!ScanStart
  <2>2. bqPc'[e] = "s_next" /\ bqLoc'[e] = [bqLoc[e] EXCEPT !.curr = bqRlist[e]]
    BY <2>1
  <2>3. LabelOK(e)'
    BY <2>1, <2>2
  <2>4. BlockFrame(e)
    BY <1>25, <2>1, <2>2 DEF B!ScanStart, BlockRetire
  <2> QED BY <2>3, <2>4
<1>26. ASSUME lf_block_queue_enqueue(e)  PROVE  BlockFrame(e) /\ LabelOK(e)'
  BY <1>26 DEF lf_block_queue_enqueue, BlockCall, BlockTypeOK
<1>27. ASSUME AllocRead(e)  PROVE  BlockFrame(e) /\ LabelOK(e)'
  BY <1>27 DEF AllocRead
<1>28. ASSUME AllocNext(e)  PROVE  BlockFrame(e) /\ LabelOK(e)'
  BY <1>28 DEF AllocNext
<1>29. ASSUME AllocCas(e)  PROVE  BlockFrame(e) /\ LabelOK(e)'
  BY <1>29 DEF AllocCas, Filled
<1>30. ASSUME AllocPage(e)  PROVE  BlockFrame(e) /\ LabelOK(e)'
  BY <1>30 DEF AllocPage
<1>31. ASSUME AllocPageCas(e)  PROVE  BlockFrame(e) /\ LabelOK(e)'
  BY <1>31 DEF AllocPageCas, Filled
<1>32. ASSUME BlockScanNext(e)  PROVE  BlockFrame(e) /\ LabelOK(e)'
  <2>1. bqPc[e] = "s_next" /\ bqPc'[e] \in {"f_read", "s_sort"}
    BY <1>32 DEF BlockScanNext
  <2>2. \/ bqLoc' = bqLoc
        \/ \E n : bqLoc' = [bqLoc EXCEPT ![e] = [bqLoc[e] EXCEPT !.next = n]]
    BY <1>32 DEF BlockScanNext
  <2>3. \/ bqLoc'[e] = bqLoc[e]
        \/ \E n : bqLoc'[e] = [bqLoc[e] EXCEPT !.next = n]
    BY <2>2
  <2>4. LabelOK(e)'
    BY <2>1, <2>3 DEF BlockTypeOK, P!LocType
  <2>5. BlockFrame(e)
    BY <1>32 DEF BlockScanNext
  <2> QED BY <2>4, <2>5
<1>33. ASSUME BlockScanSort(e)  PROVE  BlockFrame(e) /\ LabelOK(e)'
  <2>1. /\ bqPc' = [bqPc EXCEPT ![e] = "s_next"] /\ bqPc[e] = "s_sort"
        /\ bqLoc' = [bqLoc EXCEPT ![e] = [bqLoc[e] EXCEPT !.curr = bqLoc[e].next]]
    BY <1>33 DEF BlockScanSort
  <2>2. bqPc'[e] = "s_next" /\ bqLoc'[e] = [bqLoc[e] EXCEPT !.curr = bqLoc[e].next]
    BY <2>1
  <2>3. LabelOK(e)'
    BY <2>1, <2>2 DEF BlockTypeOK, P!LocType
  <2>4. BlockFrame(e)
    BY <1>33, <2>1, <2>2 DEF BlockScanSort
  <2> QED BY <2>3, <2>4
<1>34. ASSUME BatchLink(e)  PROVE  BlockFrame(e) /\ LabelOK(e)'
  BY <1>34 DEF BatchLink
<1>35. ASSUME BatchCas(e)  PROVE  BlockFrame(e) /\ LabelOK(e)'
  BY <1>35 DEF BatchCas
<1>36. BlockEnqueue(e) => BlockFrame(e) /\ LabelOK(e)'
  BY <1>1, <1>2, <1>3, <1>4, <1>5, <1>6, <1>7, <1>8, <1>9 DEF BlockEnqueue
<1>37. lf_block_queue_dequeue(e) => BlockFrame(e) /\ LabelOK(e)'
  BY <1>10 DEF lf_block_queue_dequeue
<1>38. BlockDequeue(e) => BlockFrame(e) /\ LabelOK(e)'
  BY <1>10, <1>11, <1>12, <1>13, <1>14, <1>15, <1>16, <1>17, <1>18, <1>19, <1>20, <1>21, <1>22 DEF BlockDequeue
<1>39. BlockRetire(e) => BlockFrame(e) /\ LabelOK(e)'
  BY <1>23, <1>24, <1>25 DEF BlockRetire
<1> QED
  BY <1>26, <1>27, <1>28, <1>29, <1>30, <1>31, <1>32, <1>33, <1>34, <1>35,
     <1>36, <1>37, <1>38, <1>39 DEF BlockStep

\* What the allocator does is the start of a call, or not seen.
LEMMA AllocShown ==
    ASSUME BlockInv, NEW e \in BlockCallers,
           \/ lf_block_queue_enqueue(e) \/ AllocRead(e) \/ AllocNext(e)
           \/ AllocCas(e) \/ AllocPage(e) \/ AllocPageCas(e)
    PROVE  P!Step(e) \/ UNCHANGED P!vars
<1> USE DEF blockQueueVars, blockHazardVars, blockCallVars, blockOwn
<1>1. /\ BlockTypeOK /\ LabelOK(e) /\ P!ValuesOK /\ BlocksOK
      /\ \A f \in Allocating : f \in BlockEnqueuers
  BY DEF BlockInv, P!AccountInv, P!FifoInv, LabelOK, Allocating
<1>2. PICK stack, bat : FreeListsOK(stack, bat) /\ AllocOK(e)
  BY DEF BlockInv, FreeNodesOK
<1>3. \A n \in BlockNodes \ bqFree : n[1] \in bqPages
  BY <1>2 DEF FreeListsOK, FreePlaced, Live
<1>4. ASSUME bqPc[e] \in AllocLabels
      PROVE  /\ \A f \in Allocating : bqVal[f] = bqVal[e] => f = e
             /\ bqVal[e] \notin bqPool
  <2>1. e \in Allocating
    BY <1>4 DEF Allocating
  <2> QED BY <1>1, <2>1 DEF BlocksOK
<1>5. CASE lf_block_queue_enqueue(e)
  <2>1. /\ bqPc[e] = "idle" /\ B!Goto(e, "a_read") /\ "a_read" \in AllocLabels
        /\ \E b \in bqPool : bqPool' = bqPool \ {b} /\ bqVal' = [bqVal EXCEPT ![e] = b]
        /\ UNCHANGED <<bqHead, bqTail, bqNext, bqData, bqHp, bqRlist, bqRcount, bqFree,
                       bqLoc, bqScan, bqSaw>>
    BY <1>5 DEF lf_block_queue_enqueue, BlockCall, AllocLabels
  <2>2. bqLoc[e] = B!NoLoc /\ tqPc[e] = "idle" /\ tqVal[e] = bqVal[e]
    BY <1>1, <2>1 DEF LabelOK, tqPc, tqVal, AllocLabels, BatchLabels
  <2>3. bqVal[e] = NoBlock
    BY <1>1, <2>2 DEF P!ValuesOK, P!EmptyHanded, P!Execs, BlockCallers
  <2> QED BY <1>1, <2>1, <2>2, <2>3, AllocHidden
<1>6. CASE AllocRead(e)
  <2>1. PICK label \in AllocLabels : B!Goto(e, label)
    BY <1>6 DEF AllocRead, AllocLabels
  <2>2. /\ bqPc[e] \in AllocLabels /\ \A f \in BlockCallers \ {e} : bqLoc'[f] = bqLoc[f]
        /\ UNCHANGED <<bqHead, bqTail, bqNext, bqData, bqHp, bqRlist, bqRcount, bqFree,
                       bqVal, bqPool, bqScan, bqSaw>>
    BY <1>1, <1>6 DEF AllocRead, B!Local, AllocLabels, BlockTypeOK
  <2> QED BY <1>1, <2>1, <2>2, AllocHidden
<1>7. CASE AllocNext(e)
  <2>1. /\ bqPc[e] \in AllocLabels /\ \A f \in BlockCallers \ {e} : bqLoc'[f] = bqLoc[f]
        /\ "a_cas" \in AllocLabels /\ B!Goto(e, "a_cas")
        /\ UNCHANGED <<bqHead, bqTail, bqNext, bqData, bqHp, bqRlist, bqRcount, bqFree,
                       bqVal, bqPool, bqScan, bqSaw>>
    BY <1>1, <1>7 DEF AllocNext, B!Local, AllocLabels, BlockTypeOK
  <2> QED BY <1>1, <2>1, AllocHidden
<1>8. CASE AllocCas(e)
  <2>1. bqPc[e] = "a_cas" /\ bqPc[e] \in AllocLabels
    BY <1>8 DEF AllocCas, AllocLabels
  <2>2. CASE bqNodes = bqLoc[e].node /\ Filled(e, bqNext, bqLoc[e].node)
    <3>1. P!Trail(bqNext, bqNodes, stack)
      BY <1>2 DEF FreeListsOK
    <3>2. bqLoc[e].node \in BlockNodes
      BY <1>2, <2>1 DEF AllocOK
    <3>3. bqLoc[e].node \in bqFree
      <4>1. bqNodes \in P!NodesOf(stack)
        BY <2>2, <3>1, <3>2, Instance, P!TrailShrinks, BlockQueueAssumption
      <4> QED BY <1>2, <2>2, <3>2, <4>1 DEF FreeListsOK, FreePlaced
    <3>4. UNCHANGED <<bqHead, bqTail, bqHp, bqRlist, bqRcount, blockCallVars, bqScan>>
      BY <1>8 DEF AllocCas
    <3>5. P!EnqueueStart(e)
      BY <1>1, <1>4, <2>1, <2>2, <3>2, <3>3, <3>4, NodeGiven
    <3> QED BY <3>5 DEF P!Step
  <2>3. CASE /\ bqLoc' = [bqLoc EXCEPT ![e] = B!NoLoc] /\ B!Goto(e, "a_read")
             /\ UNCHANGED <<bqNext, bqData, bqFree>>
    <3>1. /\ \A f \in BlockCallers \ {e} : bqLoc'[f] = bqLoc[f]
          /\ "a_read" \in AllocLabels
          /\ UNCHANGED <<bqHead, bqTail, bqHp, bqRlist, bqRcount, bqVal, bqPool, bqScan, bqSaw>>
      BY <1>1, <1>8, <2>3 DEF AllocCas, AllocLabels, BlockTypeOK
    <3> QED BY <1>1, <2>1, <2>3, <3>1, AllocHidden
  <2> QED BY <1>8, <2>2, <2>3 DEF AllocCas
<1>9. CASE AllocPage(e)
  <2>1. /\ bqPc[e] \in AllocLabels
        /\ \A f \in BlockCallers \ {e} : bqLoc'[f] = bqLoc[f]
        /\ UNCHANGED <<bqHead, bqTail, bqHp, bqRlist, bqRcount, bqVal, bqPool, bqFree, bqData,
                       bqScan, bqSaw>>
    BY <1>1, <1>9 DEF AllocPage, AllocLabels, B!Local, BlockTypeOK
  <2>2. \A n \in BlockNodes \ bqFree : bqNext'[n] = bqNext[n]
    BY <1>3, <1>9 DEF AllocPage, LinkedPage
  <2>3. PICK label \in AllocLabels : B!Goto(e, label)
    BY <1>9 DEF AllocPage, AllocLabels
  <2> QED BY <1>1, <2>1, <2>2, <2>3, AllocHidden
<1>10. CASE AllocPageCas(e)
  <2>1. bqPc[e] = "a_pageCas" /\ bqPc[e] \in AllocLabels
    BY <1>10 DEF AllocPageCas, AllocLabels
  <2>2. CASE bqNodes = NoBlock /\ Filled(e, bqNext, bqLoc[e].node)
    <3>1. PICK p \in bqPages : bqLoc[e].node = <<p, 0>>
      BY <1>2, <2>1 DEF AllocOK
    <3>2. bqLoc[e].node \in BlockNodes /\ bqLoc[e].node[1] = p
      BY <1>1, <3>1, BlockQueueAssumption DEF BlockTypeOK, BlockNodes
    <3>3. bqLoc[e].node \in bqFree
      BY <1>2, <2>1, <3>2 DEF FreeListsOK, FreePlaced, Live
    <3>4. UNCHANGED <<bqHead, bqTail, bqHp, bqRlist, bqRcount, blockCallVars, bqScan>>
      BY <1>10 DEF AllocPageCas
    <3>5. P!EnqueueStart(e)
      BY <1>1, <1>4, <2>1, <2>2, <3>2, <3>3, <3>4, NodeGiven
    <3> QED BY <3>5 DEF P!Step
  <2>3. CASE /\ bqLoc' = [bqLoc EXCEPT ![e] = B!NoLoc] /\ B!Goto(e, "a_read")
             /\ UNCHANGED <<bqNext, bqData, bqFree>>
    <3>1. /\ \A f \in BlockCallers \ {e} : bqLoc'[f] = bqLoc[f]
          /\ "a_read" \in AllocLabels
          /\ UNCHANGED <<bqHead, bqTail, bqHp, bqRlist, bqRcount, bqVal, bqPool, bqScan, bqSaw>>
      BY <1>1, <1>10, <2>3 DEF AllocPageCas, AllocLabels, BlockTypeOK
    <3> QED BY <1>1, <2>1, <2>3, <3>1, AllocHidden
  <2> QED BY <1>10, <2>2, <2>3 DEF AllocPageCas
<1> QED BY <1>5, <1>6, <1>7, <1>8, <1>9, <1>10

\* The node at the end of a batch is free.
LEMMA BatchEnd ==
    ASSUME NEW stack, NEW bat, FreeListsOK(stack, bat), NEW e \in BlockCallers
    PROVE  /\ bqBatch[e].head = NoBlock <=> bqBatch[e].tail = NoBlock
           /\ bqBatch[e].head = NoBlock <=> Len(bat[e]) = 0
           /\ bqBatch[e].tail # NoBlock =>
                  bqBatch[e].tail \in P!NodesOf(bat[e]) /\ bqBatch[e].tail \in bqFree
<1> DEFINE q == bat[e]
<1>1. /\ q \in Seq(BlockNodes) /\ Len(q) \in Nat
      /\ bqBatch[e] = IF Len(q) = 0 THEN NoBatch ELSE [head |-> q[1], tail |-> q[Len(q)]]
  BY DEF FreeListsOK, FreePlaced, Segment
<1>2. CASE Len(q) = 0
  BY <1>1, <1>2 DEF NoBatch
<1>3. CASE Len(q) # 0
  <2>1. q[1] \in BlockNodes /\ q[Len(q)] \in BlockNodes /\ q[Len(q)] \in P!NodesOf(q)
    BY <1>1, <1>3 DEF P!NodesOf
  <2>2. q[Len(q)] \in bqFree
    BY <2>1 DEF FreeListsOK, FreePlaced
  <2> QED BY <1>1, <1>3, <2>1, <2>2, BlockQueueAssumption
<1> QED BY <1>2, <1>3

\* The queue with its allocator hidden takes steps of LFThreadQueue.
LEMMA StepShown ==
    ASSUME BlockInv, NEW e \in BlockCallers, BlockStep(e)
    PROVE  P!Step(e) \/ UNCHANGED P!vars
<1>1. BlockTypeOK /\ P!HazardInv /\ LabelOK(e)
  BY DEF BlockInv, P!AccountInv, P!FifoInv
<1>2. PICK stack, bat : FreeListsOK(stack, bat)
  BY DEF BlockInv, FreeNodesOK
<1>3. bqBatch[e].head # NoBlock \/ bqBatch[e].tail # NoBlock => bqBatch[e].tail \in bqFree
  BY <1>2, BatchEnd
<1>4. CASE BlockEnqueue(e)
  BY <1>1, <1>4, EnqueueShown
<1>5. CASE lf_block_queue_dequeue(e) \/ BlockDequeue(e)
  BY <1>1, <1>5, DequeueShown
<1>6. CASE BlockRetire(e)
  BY <1>1, <1>6, RetireShown
<1>7. CASE BlockScanNext(e)
  BY <1>1, <1>7, ScanNextShown
<1>8. CASE BlockScanSort(e)
  BY <1>1, <1>3, <1>8, ScanSortShown
<1>9. CASE BatchLink(e) \/ BatchCas(e)
  BY <1>1, <1>3, <1>9, BatchShown
<1> QED BY <1>4, <1>5, <1>6, <1>7, <1>8, <1>9, AllocShown DEF BlockStep

-----------------------------------------------------------------------------
(* The types stay.                                                         *)

\* What a step writes is of its type, as the queue shows it where it shows it.
LEMMA BlockTypes ==
    ASSUME BlockTypeOK, P!QueueTypeOK, P!QueueTypeOK', P!ValuesOK', NEW e \in BlockCallers,
           LabelOK(e), BlockStep(e), BlockFrame(e), AllocOK(e)
    PROVE  BlockTypeOK'
<1> USE DEF NodeOrNone, P!LocType, P!NodeOrNull
<1>1. bqLoc[e] \in P!LocType /\ bqRlist[e] \in NodeOrNone /\ P!Execs = BlockCallers
  BY DEF BlockTypeOK, P!QueueTypeOK, P!Execs, BlockCallers
<1>13. ASSUME NEW l \in P!LocType, NEW n \in NodeOrNone
       PROVE  /\ [l EXCEPT !["node"] = n] \in P!LocType
              /\ [l EXCEPT !["next"] = n] \in P!LocType
  OBVIOUS
<1>14. NoBatch \in [head : NodeOrNone, tail : NodeOrNone]
  BY DEF NoBatch
<1>2. bqNext' \in [BlockNodes -> NodeOrNone]
  <2>1. CASE B!EnqueueCas(e)
    BY <1>1, <2>1 DEF B!EnqueueCas, BlockTypeOK
  <2>2. CASE B!Retire(e)
    BY <1>1, <2>2 DEF B!Retire, BlockTypeOK
  <2>3. CASE BlockScanSort(e)
    BY <1>1, <2>3 DEF BlockScanSort, BlockTypeOK
  <2>4. CASE BatchLink(e)
    BY <1>1, <2>4 DEF BatchLink, BlockTypeOK
  <2>5. CASE AllocCas(e) \/ AllocPageCas(e)
    BY <1>1, <2>5 DEF AllocCas, AllocPageCas, Filled, BlockTypeOK
  <2>6. CASE AllocPage(e)
    <3>1. ASSUME NEW p \in NodePages
          PROVE  LinkedPage(bqNext, p) \in [BlockNodes -> NodeOrNone]
      <4>1. ASSUME NEW n \in BlockNodes, n[1] = p, n[2] < NodesPerPage - 1
            PROVE  <<p, n[2] + 1>> \in BlockNodes
        BY <4>1, BlockQueueAssumption DEF BlockNodes
      <4> QED BY <4>1 DEF LinkedPage, BlockTypeOK
    <3> QED BY <2>6, <3>1 DEF AllocPage, BlockTypeOK
  <2> QED BY <2>1, <2>2, <2>3, <2>4, <2>5, <2>6 DEF BlockFrame, BlockTypeOK
<1>3. bqData' \in [BlockNodes -> QueuedBlocks \cup {NoBlock}]
  BY DEF BlockFrame, AllocCas, AllocPageCas, Filled, BlockTypeOK
<1>4. bqRcount' \in [BlockCallers -> Nat]
  BY DEF BlockFrame, B!Retire, B!ScanStart, BlockScanSort, BlockTypeOK
<1>5. bqNodes' \in NodeOrNone
  <2>1. CASE AllocCas(e)
    BY <1>1, <2>1 DEF AllocCas, BlockTypeOK
  <2>2. CASE AllocPageCas(e)
    <3>1. PICK p \in bqPages : bqLoc[e].node = <<p, 0>>
      BY <2>2 DEF AllocPageCas, AllocOK
    <3>2. <<p, 1>> \in BlockNodes
      BY <3>1, BlockQueueAssumption DEF BlockNodes, BlockTypeOK
    <3>3. bqLoc[e].node[1] = p
      BY <3>1
    <3>4. bqNodes' = <<p, 1>> \/ bqNodes' = bqNodes
      BY <2>2, <3>3 DEF AllocPageCas
    <3> QED BY <3>2, <3>4 DEF BlockTypeOK
  <2>3. CASE BatchCas(e)
    BY <2>3 DEF BatchCas, BlockTypeOK
  <2> QED BY <2>1, <2>2, <2>3 DEF BlockFrame, BlockTypeOK
<1>6. bqPages' \subseteq NodePages
  BY DEF BlockFrame, AllocPage, AllocPageCas, BlockTypeOK
<1>7. bqBatch' \in [BlockCallers -> [head : NodeOrNone, tail : NodeOrNone]]
  <2>1. CASE BatchCas(e)
    BY <1>14, <2>1 DEF BatchCas, BlockTypeOK
  <2>2. CASE BlockScanSort(e)
    <3>1. PICK b : b = bqBatch[e]
      OBVIOUS
    <3>2. b \in [head : NodeOrNone, tail : NodeOrNone] /\ bqLoc[e].curr \in NodeOrNone
      BY <1>1, <3>1 DEF BlockTypeOK
    <3>3. \/ bqBatch' = bqBatch
          \/ bqBatch' = [bqBatch EXCEPT ![e] = [head |-> bqLoc[e].curr, tail |-> bqLoc[e].curr]]
          \/ bqBatch' = [bqBatch EXCEPT ![e] = [b EXCEPT !.tail = bqLoc[e].curr]]
      BY <2>2, <3>1 DEF BlockScanSort
    <3> QED BY <3>2, <3>3 DEF BlockTypeOK
  <2> QED BY <2>1, <2>2 DEF BlockFrame, BlockTypeOK
<1>8. bqPool' \subseteq QueuedBlocks
  BY DEF BlockFrame, lf_block_queue_enqueue, B!DequeueDone, BlockTypeOK
<1>9. bqPc' \in [BlockCallers -> QueueLabels \cup AllocLabels \cup BatchLabels]
  BY DEF BlockFrame, BlockTypeOK
<1>10. bqVal'[e] \in QueuedBlocks \cup {NoBlock}
  <2>1. CASE bqPc'[e] \notin AllocLabels
    <3>1. tqVal'[e] = bqVal'[e]
      BY <2>1 DEF tqVal
    <3> QED BY <1>1, <3>1 DEF P!ValuesOK
  <2>2. CASE bqPc'[e] \in AllocLabels
    <3>1. bqPool \subseteq QueuedBlocks /\ bqVal[e] \in QueuedBlocks \cup {NoBlock}
      BY DEF BlockTypeOK
    <3>2. lf_block_queue_enqueue(e) => bqVal'[e] \in bqPool
      BY DEF lf_block_queue_enqueue, BlockTypeOK
    <3> QED
      BY <2>2, <3>1, <3>2 DEF BlockFrame, AllocRead, AllocNext, AllocCas, AllocPage, AllocPageCas,
         BlockScanNext, BatchLink, BatchCas, blockCallVars
  <2> QED BY <2>1, <2>2
<1>11. bqLoc'[e] \in P!LocType
  <2>1. CASE bqPc'[e] \notin AllocLabels \cup BatchLabels
    <3>1. tqLoc'[e] = bqLoc'[e]
      BY <2>1 DEF tqLoc
    <3> QED BY <1>1, <3>1 DEF P!QueueTypeOK
  <2>2. CASE bqPc'[e] \in AllocLabels \cup BatchLabels
    <3>1. CASE lf_block_queue_enqueue(e)
      BY <1>1, <3>1 DEF lf_block_queue_enqueue
    <3>2. CASE AllocRead(e) \/ BatchLink(e)
      <4>1. PICK l : l = bqLoc[e]
        OBVIOUS
      <4>2. \/ bqLoc' = [bqLoc EXCEPT ![e] = [l EXCEPT !["node"] = bqNodes]]
            \/ bqLoc' = [bqLoc EXCEPT ![e] = [l EXCEPT !["next"] = bqNodes]]
        BY <3>2, <4>1 DEF AllocRead, BatchLink, B!Local
      <4>3. bqNodes \in NodeOrNone /\ l \in P!LocType
        BY <1>1, <4>1 DEF BlockTypeOK
      <4>4. /\ [l EXCEPT !["node"] = bqNodes] \in P!LocType
            /\ [l EXCEPT !["next"] = bqNodes] \in P!LocType
        BY <1>13, <4>3
      <4> HIDE DEF P!LocType
      <4> QED BY <4>2, <4>4 DEF BlockTypeOK
    <3>3. CASE AllocNext(e)
      <4>1. bqLoc[e].node \in BlockNodes
        BY <3>3 DEF AllocNext, AllocOK
      <4>2. bqNext[bqLoc[e].node] \in NodeOrNone
        BY <4>1 DEF BlockTypeOK
      <4> QED BY <1>1, <3>3, <4>2 DEF AllocNext, B!Local, BlockTypeOK
    <3>4. CASE AllocCas(e) \/ AllocPageCas(e)
      <4>1. bqLoc'[e] = B!NoLoc \/ bqLoc'[e] = [B!NoLoc EXCEPT !.node = bqLoc[e].node]
        BY <3>4 DEF AllocCas, AllocPageCas, Filled, BlockTypeOK
      <4> QED BY <1>1, <4>1 DEF B!NoLoc
    <3>5. CASE AllocPage(e)
      <4>1. ASSUME NEW p \in NodePages  PROVE  <<p, 0>> \in BlockNodes
        BY BlockQueueAssumption DEF BlockNodes
      <4>2. PICK l : l = bqLoc[e]
        OBVIOUS
      <4>3. \/ bqLoc' = bqLoc
            \/ \E n \in BlockNodes : bqLoc' = [bqLoc EXCEPT ![e] = [l EXCEPT !["node"] = n]]
        BY <3>5, <4>1, <4>2 DEF AllocPage, B!Local
      <4>4. l \in P!LocType
        BY <1>1, <4>2
      <4>5. ASSUME NEW n \in BlockNodes, bqLoc' = [bqLoc EXCEPT ![e] = [l EXCEPT !["node"] = n]]
            PROVE  bqLoc'[e] \in P!LocType
        <5>1. [l EXCEPT !["node"] = n] \in P!LocType
          BY <1>13, <4>4
        <5> HIDE DEF P!LocType
        <5> QED BY <4>5, <5>1 DEF BlockTypeOK
      <4> QED BY <1>1, <4>3, <4>5
    <3>6. CASE BlockScanNext(e)
      BY <1>1, <2>2, <3>6 DEF BlockScanNext, B!Onward, B!Goto, AllocLabels, BatchLabels, BlockTypeOK
    <3>7. CASE BatchCas(e)
      BY <1>1, <3>7 DEF BatchCas, B!Onward, B!NoLoc, BlockTypeOK
    <3> QED BY <2>2, <3>1, <3>2, <3>3, <3>4, <3>5, <3>6, <3>7 DEF BlockFrame
  <2> QED BY <2>1, <2>2
<1>12. /\ bqVal' \in [BlockCallers -> QueuedBlocks \cup {NoBlock}]
       /\ bqLoc' \in [BlockCallers -> P!LocType]
  <2>1. bqVal' = [bqVal EXCEPT ![e] = bqVal'[e]] /\ bqLoc' = [bqLoc EXCEPT ![e] = bqLoc'[e]]
    BY DEF BlockFrame
  <2> QED BY <1>10, <1>11, <2>1 DEF BlockTypeOK
<1> QED
  BY <1>2, <1>3, <1>4, <1>5, <1>6, <1>7, <1>8, <1>9, <1>12 DEF BlockTypeOK
-----------------------------------------------------------------------------
(* The free nodes.                                                         *)

\* What the other executors have is not touched.
LEMMA OthersKept ==
    ASSUME BlockTypeOK, P!QueueTypeOK, NEW e \in BlockCallers, BlockFrame(e),
           NEW f \in BlockCallers, f # e
    PROVE  /\ bqPc'[f] = bqPc[f] /\ bqLoc'[f] = bqLoc[f] /\ bqVal'[f] = bqVal[f]
           /\ bqBatch'[f] = bqBatch[f] /\ bqRlist'[f] = bqRlist[f]
           /\ bqRcount'[f] = bqRcount[f] /\ bqScan'[f] = bqScan[f]
BY DEF BlockFrame, BlockTypeOK, P!QueueTypeOK, P!Execs, BlockCallers

\* No slice is new, and none becomes the allocator's.
LEMMA LiveKept ==
    ASSUME BlockTypeOK, P!QueueTypeOK, NEW e \in BlockCallers, BlockFrame(e),
           bqPc[e] # "a_pageCas", bqPc'[e] # "a_pageCas", bqPages' = bqPages
    PROVE  \A p : Live(p)' <=> Live(p)
<1>1. \A f \in BlockCallers \ {e} : bqPc'[f] = bqPc[f] /\ bqLoc'[f] = bqLoc[f]
  BY OthersKept
<1> QED BY <1>1 DEF Live

\* The nodes of a batch stay linked when none of its links changes.
LEMMA SegmentKept ==
    ASSUME NEW f, NEW g, NEW b, NEW q, Segment(f, b, q), \A n \in P!NodesOf(q) : g[n] = f[n]
    PROVE  Segment(g, b, q)
<1>1. q \in Seq(BlockNodes) /\ Len(q) \in Nat
  BY DEF Segment
<1>2. \A i \in 1 .. Len(q) - 1 : g[q[i]] = f[q[i]]
  BY <1>1 DEF P!NodesOf
<1> QED BY <1>2 DEF Segment

\* The free lists stay as they are when nothing is written to a free node.
LEMMA FreeKept ==
    ASSUME NEW stack, NEW bat, FreeListsOK(stack, bat),
           UNCHANGED <<bqFree, bqNodes, bqBatch>>,
           \A p : Live(p)' <=> Live(p),
           \A n \in BlockNodes : n \in bqFree /\ Live(n[1]) => bqNext'[n] = bqNext[n]
    PROVE  FreeListsOK(stack, bat)'
<1>1. P!Trail(bqNext, bqNodes, stack) /\ P!NodesOf(stack) \subseteq BlockNodes
  BY DEF FreeListsOK, FreePlaced, P!Trail, P!NodesOf
<1>2. \A n \in P!NodesOf(stack) : bqNext'[n] = bqNext[n]
  BY <1>1 DEF FreeListsOK, FreePlaced
<1>3. P!Trail(bqNext', bqNodes, stack)
  BY <1>1, <1>2, Instance, P!TrailKept
<1>4. ASSUME NEW f \in BlockCallers
      PROVE  Segment(bqNext', bqBatch[f], bat[f])
  <2>1. Segment(bqNext, bqBatch[f], bat[f]) /\ P!NodesOf(bat[f]) \subseteq BlockNodes
    BY DEF FreeListsOK, FreePlaced, Segment, P!NodesOf
  <2>2. \A n \in P!NodesOf(bat[f]) : bqNext'[n] = bqNext[n]
    BY <2>1 DEF FreeListsOK, FreePlaced
  <2> QED BY <2>1, <2>2, SegmentKept
<1> QED BY <1>3, <1>4 DEF FreeListsOK, FreePlaced

\* What an executor has read of the free lists stays so when its nodes do.
LEMMA AllocKept ==
    ASSUME BlockTypeOK, NEW stack, NEW bat, FreeListsOK(stack, bat), NEW f \in BlockCallers,
           AllocOK(f), bqPc'[f] = bqPc[f], bqLoc'[f] = bqLoc[f], bqBatch'[f] = bqBatch[f],
           bqPc[f] = "a_pageCas" =>
               /\ bqLoc[f].node[1] \in bqPages'
               /\ \A n \in BlockNodes : n[1] = bqLoc[f].node[1] /\ n[2] # 0 => bqNext'[n] = bqNext[n],
           \A n \in P!NodesOf(bat[f]) : bqNext'[n] = bqNext[n]
    PROVE  AllocOK(f)'
<1>1. CASE bqPc[f] \in {"a_next", "a_cas"}
  BY <1>1 DEF AllocOK
<1>2. CASE bqPc[f] = "a_pageCas"
  <2>1. PICK p \in bqPages : bqLoc[f].node = <<p, 0>> /\ PageLinked(bqNext, p)
    BY <1>2 DEF AllocOK
  <2>2. p \in NodePages /\ bqLoc[f].node[1] = p
    BY <2>1 DEF BlockTypeOK
  <2>3. ASSUME NEW k \in 1 .. NodesPerPage - 1
        PROVE  bqNext'[<<p, k>>] = bqNext[<<p, k>>]
    <3>1. <<p, k>> \in BlockNodes
      BY <2>2, BlockQueueAssumption DEF BlockNodes
    <3>2. k # 0
      OBVIOUS
    <3> QED BY <1>2, <2>2, <3>1, <3>2
  <2>4. PageLinked(bqNext', p)
    BY <2>1, <2>3 DEF PageLinked
  <2> QED BY <1>2, <2>1, <2>2, <2>4 DEF AllocOK
<1>3. CASE bqPc[f] = "f_cas"
  <2>1. bqBatch[f].tail # NoBlock /\ bqNext[bqBatch[f].tail] = bqLoc[f].next
    BY <1>3 DEF AllocOK
  <2>2. bqBatch[f].tail \in P!NodesOf(bat[f])
    BY <2>1, BatchEnd
  <2> QED BY <1>3, <2>1, <2>2 DEF AllocOK
<1> QED BY <1>1, <1>2, <1>3 DEF AllocOK

\* What FreeNodesOK says, for given lists.
FreeAs(stack, bat) ==
    /\ stack \in Seq(BlockNodes) /\ bat \in [BlockCallers -> Seq(BlockNodes)]
    /\ FreeListsOK(stack, bat) /\ \A e \in BlockCallers : AllocOK(e)

\* Before a step of e.
BeforeStep(e, stack, bat) ==
    BlockTypeOK /\ P!QueueTypeOK /\ BlockFrame(e) /\ SlicesApart /\ FreeAs(stack, bat)

\* The slice that another executor has mapped but not put onto the stack stays
\* mapped and linked.
SlicesKept(e) ==
    \A f \in BlockCallers \ {e} : bqPc[f] = "a_pageCas" =>
        /\ bqLoc[f].node[1] \in bqPages'
        /\ \A n \in BlockNodes : n[1] = bqLoc[f].node[1] /\ n[2] # 0 => bqNext'[n] = bqNext[n]

\* It is mapped and not live, and its nodes are free.
LEMMA SliceOf ==
    ASSUME NEW e \in BlockCallers, NEW stack, NEW bat, BeforeStep(e, stack, bat),
           NEW f \in BlockCallers, bqPc[f] = "a_pageCas"
    PROVE  bqLoc[f].node[1] \in bqPages /\ ~Live(bqLoc[f].node[1])
<1>1. PICK p \in bqPages : bqLoc[f].node = <<p, 0>>
  BY DEF BeforeStep, FreeAs, AllocOK
<1> QED BY <1>1 DEF Live

\* A step that keeps the slices of the others and the links of their batches.
LEMMA OthersAllocate ==
    ASSUME NEW e \in BlockCallers, NEW stack, NEW bat, BeforeStep(e, stack, bat), SlicesKept(e),
           \A f \in BlockCallers \ {e} : \A n \in P!NodesOf(bat[f]) : bqNext'[n] = bqNext[n]
    PROVE  \A f \in BlockCallers \ {e} : AllocOK(f)'
<1> SUFFICES ASSUME NEW f \in BlockCallers \ {e}  PROVE AllocOK(f)'
  OBVIOUS
<1>1. /\ bqPc'[f] = bqPc[f] /\ bqLoc'[f] = bqLoc[f] /\ bqBatch'[f] = bqBatch[f]
      /\ BlockTypeOK /\ FreeListsOK(stack, bat) /\ AllocOK(f)
  BY OthersKept DEF BeforeStep, FreeAs
<1> QED BY <1>1, AllocKept DEF SlicesKept

\* The slices of the others are kept when no link of a node that is not live changes.
LEMMA SlicesLeft ==
    ASSUME NEW e \in BlockCallers, NEW stack, NEW bat, BeforeStep(e, stack, bat),
           bqPages \subseteq bqPages',
           \A n \in BlockNodes : n[1] \in bqPages /\ ~Live(n[1]) => bqNext'[n] = bqNext[n]
    PROVE  SlicesKept(e)
BY SliceOf DEF SlicesKept

\* The first node leaves the stack.
LEMMA FreeTaken ==
    ASSUME NEW e \in BlockCallers, NEW stack, NEW bat, BeforeStep(e, stack, bat),
           AllocCas(e), bqNodes = bqLoc[e].node, ~StalePop(e)
    PROVE  FreeNodesOK'
<1>1. PICK n : n = bqLoc[e].node
  OBVIOUS
<1>2. /\ bqPc[e] = "a_cas" /\ bqNodes' = bqLoc[e].next /\ bqFree' = bqFree \ {n}
      /\ bqNext' = [bqNext EXCEPT ![n] = NoBlock] /\ bqPc'[e] = "e_tail"
      /\ UNCHANGED <<bqPages, bqBatch>>
  BY <1>1 DEF AllocCas, Filled, B!Goto, BeforeStep, BlockTypeOK
<1>3. /\ FreeListsOK(stack, bat) /\ stack \in Seq(BlockNodes)
      /\ bat \in [BlockCallers -> Seq(BlockNodes)]
      /\ n \in BlockNodes /\ bqLoc[e].next = bqNext[n]
  BY <1>1, <1>2 DEF BeforeStep, FreeAs, AllocOK, StalePop
<1>4. n \in BlockNodes /\ n # NoBlock /\ P!Trail(bqNext, n, stack) /\ n \in P!NodesOf(stack)
  <2>1. n # NoBlock /\ P!Trail(bqNext, n, stack)
    BY <1>1, <1>3, BlockQueueAssumption DEF FreeListsOK
  <2> QED BY <1>3, <2>1, Instance, P!TrailShrinks
<1>5. PICK r \in Seq(BlockNodes) :
          P!Trail(bqNext, bqNext[n], r) /\ P!NodesOf(r) = P!NodesOf(stack) \ {n}
  BY <1>4, Instance, P!TrailShrinks
<1>6. \A x \in BlockNodes \ {n} : bqNext'[x] = bqNext[x]
  BY <1>2 DEF BeforeStep, BlockTypeOK
<1>7. P!NodesOf(r) \subseteq BlockNodes \ {n} /\ \A f \in BlockCallers : P!NodesOf(bat[f]) \subseteq BlockNodes \ {n}
  <2>1. \A f \in BlockCallers : P!NodesOf(bat[f]) \subseteq BlockNodes
    BY <1>3 DEF P!NodesOf
  <2>2. P!NodesOf(r) \subseteq BlockNodes
    BY DEF P!NodesOf
  <2> QED BY <1>3, <1>4, <1>5, <2>1, <2>2 DEF FreeListsOK, FreePlaced
<1>8. P!Trail(bqNext', bqNodes', r)
  <2>1. P!Trail(bqNext', bqNext[n], r)
    BY <1>5, <1>6, <1>7, Instance, P!TrailKept
  <2> QED BY <1>2, <1>3, <2>1
<1>9. \A f \in BlockCallers : Segment(bqNext', bqBatch'[f], bat[f])
  <2>1. \A f \in BlockCallers : Segment(bqNext, bqBatch[f], bat[f])
    BY <1>3 DEF FreeListsOK, FreePlaced
  <2> QED BY <1>2, <1>6, <1>7, <2>1, SegmentKept
<1>10. \A p : Live(p)' <=> Live(p)
  BY <1>2, LiveKept DEF BeforeStep
<1>11. FreePlaced(r, bat)'
  <2>1. \A x : x \in bqFree' <=> x \in bqFree /\ x # n
    BY <1>2
  <2>2. \A x : x \in P!NodesOf(r) <=> x \in P!NodesOf(stack) /\ x # n
    BY <1>5
  <2>3. FreePlaced(stack, bat)
    BY <1>3 DEF FreeListsOK
  <2> QED BY <1>3, <1>4, <1>7, <1>10, <2>1, <2>2, <2>3 DEF FreePlaced
<1>12. \A f \in BlockCallers : AllocOK(f)'
  <2>1. AllocOK(e)'
    BY <1>2 DEF AllocOK
  <2>2. Live(n[1])
    BY <1>3, <1>4 DEF FreeListsOK, FreePlaced
  <2>3. SlicesKept(e)
    BY <1>2, <1>6, <2>2, SlicesLeft
  <2>4. \A f \in BlockCallers \ {e} : AllocOK(f)'
    BY <1>6, <1>7, <2>3, OthersAllocate
  <2> QED BY <2>1, <2>4
<1> QED BY <1>3, <1>8, <1>9, <1>11, <1>12 DEF FreeNodesOK, FreeListsOK
\* A new slice is linked up before anybody can see it.
LEMMA FreeMapped ==
    ASSUME NEW e \in BlockCallers, NEW stack, NEW bat, BeforeStep(e, stack, bat),
           NEW p \in NodePages \ bqPages, bqPc[e] = "a_page", bqPages' = bqPages \cup {p},
           bqNext' = LinkedPage(bqNext, p), B!Local(e, "node", <<p, 0>>),
           B!Goto(e, "a_pageCas"), UNCHANGED <<bqFree, bqNodes, bqBatch>>
    PROVE  FreeNodesOK'
<1>1. /\ bqPc'[e] = "a_pageCas" /\ bqLoc'[e].node = <<p, 0>> /\ bqLoc'[e].node[1] = p
  BY DEF B!Goto, B!Local, BeforeStep, BlockTypeOK, P!LocType
<1>2. /\ FreeListsOK(stack, bat) /\ FreePlaced(stack, bat) /\ stack \in Seq(BlockNodes)
      /\ bat \in [BlockCallers -> Seq(BlockNodes)]
  BY DEF BeforeStep, FreeAs, FreeListsOK
<1>3. \A f \in BlockCallers \ {e} : bqPc'[f] = bqPc[f] /\ bqLoc'[f] = bqLoc[f]
  BY OthersKept DEF BeforeStep
<1>4. ~Live(p) /\ \A x : Live(x)' <=> Live(x)
  <2>1. ~Live(p) /\ ~Live(p)'
    BY <1>1 DEF Live
  <2>2. ASSUME NEW x, x # p
        PROVE  Live(x)' <=> Live(x)
    BY <1>1, <1>3, <2>2 DEF Live
  <2> QED BY <2>1, <2>2
<1>5. \A x \in BlockNodes : x[1] # p => bqNext'[x] = bqNext[x]
  BY DEF LinkedPage
<1>6. FreeListsOK(stack, bat)'
  BY <1>2, <1>4, <1>5, FreeKept
<1>7. PageLinked(bqNext', p)
  <2>1. ASSUME NEW k \in 1 .. NodesPerPage - 1
        PROVE  bqNext'[<<p, k>>] = IF k < NodesPerPage - 1 THEN <<p, k + 1>> ELSE NoBlock
    <3>1. <<p, k>> \in BlockNodes
      BY BlockQueueAssumption DEF BlockNodes
    <3>2. k # 0
      OBVIOUS
    <3> QED BY <3>1, <3>2 DEF LinkedPage
  <2> QED BY <2>1 DEF PageLinked
<1>8. AllocOK(e)'
  BY <1>1, <1>7 DEF AllocOK
<1>9. \A f \in BlockCallers : \A n \in P!NodesOf(bat[f]) : bqNext'[n] = bqNext[n]
  <2>1. \A f \in BlockCallers : P!NodesOf(bat[f]) \subseteq BlockNodes
    BY <1>2 DEF P!NodesOf
  <2> QED BY <1>2, <1>4, <1>5, <2>1 DEF FreePlaced
<1>10. \A f \in BlockCallers \ {e} : AllocOK(f)'
  <2>1. SlicesKept(e)
    BY <1>5, SlicesLeft
  <2> QED BY <1>9, <2>1, OthersAllocate
<1> QED BY <1>2, <1>6, <1>8, <1>10 DEF FreeNodesOK

\* The slice is unmapped again when another stack is there.
LEMMA FreeUnmapped ==
    ASSUME NEW e \in BlockCallers, NEW stack, NEW bat, BeforeStep(e, stack, bat),
           AllocPageCas(e), bqNodes # NoBlock
    PROVE  FreeNodesOK'
<1>1. /\ bqPc[e] = "a_pageCas" /\ bqPages' = bqPages \ {bqLoc[e].node[1]} /\ bqPc'[e] = "a_read"
      /\ UNCHANGED <<bqNodes, bqNext, bqFree, bqBatch>>
  BY DEF AllocPageCas, B!Goto, BeforeStep, BlockTypeOK
<1>2. /\ FreeListsOK(stack, bat) /\ stack \in Seq(BlockNodes)
      /\ bat \in [BlockCallers -> Seq(BlockNodes)]
  BY DEF BeforeStep, FreeAs
<1>3. \A f \in BlockCallers \ {e} : bqPc'[f] = bqPc[f] /\ bqLoc'[f] = bqLoc[f]
  BY OthersKept DEF BeforeStep
<1>4. \A x : Live(x)' <=> Live(x)
  <2> DEFINE p == bqLoc[e].node[1]
  <2>1. bqPc[e] = "a_pageCas" /\ bqPc'[e] # "a_pageCas" /\ bqPages' = bqPages \ {p}
    BY <1>1
  <2>2. \A f \in BlockCallers : bqPc[f] = "a_pageCas" => bqLoc[f].node[1] = p \/ f # e
    OBVIOUS
  <2>3. ASSUME NEW x, x # p
        PROVE  Live(x)' <=> Live(x)
    BY <1>3, <2>1, <2>2, <2>3 DEF Live
  <2>4. ~Live(p)
    BY <2>1 DEF Live
  <2> HIDE DEF p
  <2>5. ASSUME NEW x, x = p
        PROVE  ~Live(x) /\ ~Live(x)'
    BY <2>1, <2>4, <2>5 DEF Live
  <2> QED BY <2>3, <2>5
<1>5. FreeListsOK(stack, bat)'
  BY <1>1, <1>2, <1>4, FreeKept
<1>6. AllocOK(e)'
  BY <1>1 DEF AllocOK
<1>7. \A f \in BlockCallers \ {e} : AllocOK(f)'
  <2>1. SlicesKept(e)
    BY <1>1, SliceOf DEF SlicesKept, BeforeStep, SlicesApart
  <2> QED BY <1>1, <2>1, OthersAllocate
<1> QED BY <1>2, <1>5, <1>6, <1>7 DEF FreeNodesOK

\* All nodes of a new slice but the first form a list.
LEMMA SliceStack ==
    ASSUME NEW p \in NodePages, NEW f, PageLinked(f, p)
    PROVE  \E r \in Seq(BlockNodes) :
               /\ P!Trail(f, <<p, 1>>, r)
               /\ \A x \in BlockNodes : x \in P!NodesOf(r) <=> x[1] = p /\ x # <<p, 0>>
<1> DEFINE L == NodesPerPage - 1
<1>1. PICK r : r = [k \in 1 .. L |-> <<p, k>>]
  OBVIOUS
<1>2. L \in Nat /\ L > 0 /\ NodesPerPage \in Nat /\ L = NodesPerPage - 1
  BY BlockQueueAssumption
<1>3. \A k \in 0 .. L : <<p, k>> \in BlockNodes
  BY DEF BlockNodes
<1>4. /\ r \in Seq(BlockNodes) /\ Len(r) = L /\ DOMAIN r = 1 .. L
      /\ \A k \in 1 .. L : r[k] = <<p, k>>
  <2>1. r \in [1 .. L -> BlockNodes]
    BY <1>1, <1>3
  <2> HIDE DEF L
  <2> QED BY <1>1, <1>2, <2>1
<1>5. \A k \in 1 .. L : f[<<p, k>>] = IF k < L THEN <<p, k + 1>> ELSE NoBlock
  BY DEF PageLinked
<1> HIDE DEF L
<1>6. P!Trail(f, <<p, 1>>, r)
  <2>1. r[1] = <<p, 1>>
    BY <1>2, <1>4
  <2>2. \A k \in 1 .. Len(r) - 1 : f[r[k]] = r[k + 1]
    <3>1. ASSUME NEW k \in 1 .. L - 1  PROVE k \in 1 .. L /\ k + 1 \in 1 .. L /\ k < L
      BY <1>2
    <3> QED BY <1>4, <1>5, <3>1
  <2>3. f[r[Len(r)]] = NoBlock
    <3>1. L \in 1 .. L /\ ~(L < L)
      BY <1>2
    <3> QED BY <1>4, <1>5, <3>1
  <2>4. \A i, j \in 1 .. Len(r) : r[i] = r[j] => i = j
    BY <1>4
  <2> QED BY <1>2, <1>4, <2>1, <2>2, <2>3, <2>4 DEF P!Trail
<1>7. P!NodesOf(r) = {<<p, k>> : k \in 1 .. L}
  BY <1>4 DEF P!NodesOf
<1>8. ASSUME NEW x \in BlockNodes, x[1] = p, x # <<p, 0>>
      PROVE  x \in P!NodesOf(r)
  <2>1. x = <<p, x[2]>> /\ x[2] \in 0 .. NodesPerPage - 1
    BY <1>8 DEF BlockNodes
  <2>2. x[2] \in 1 .. L
    BY <1>2, <1>8, <2>1
  <2> QED BY <1>7, <2>1, <2>2
<1>9. ASSUME NEW x \in P!NodesOf(r)
      PROVE  x[1] = p /\ x # <<p, 0>>
  <2>1. PICK k \in 1 .. L : x = <<p, k>>
    BY <1>7, <1>9
  <2> QED BY <2>1
<1> QED BY <1>4, <1>6, <1>8, <1>9

\* The nodes of a slice but the first are the new stack.
LEMMA FreeSlice ==
    ASSUME NEW e \in BlockCallers, NEW stack, NEW bat, BeforeStep(e, stack, bat),
           AllocPageCas(e), bqNodes = NoBlock
    PROVE  FreeNodesOK'
<1>1. PICK p \in bqPages : bqLoc[e].node = <<p, 0>> /\ PageLinked(bqNext, p)
  BY DEF AllocPageCas, BeforeStep, FreeAs, AllocOK
<1>2. bqLoc[e].node[1] = p /\ p \in NodePages
  BY <1>1 DEF BeforeStep, BlockTypeOK
<1>3. /\ bqPc[e] = "a_pageCas" /\ bqNodes' = <<p, 1>> /\ bqFree' = bqFree \ {<<p, 0>>}
      /\ bqNext' = [bqNext EXCEPT ![<<p, 0>>] = NoBlock] /\ bqPc'[e] = "e_tail"
      /\ UNCHANGED <<bqPages, bqBatch>>
  BY <1>1, <1>2 DEF AllocPageCas, Filled, B!Goto, BeforeStep, BlockTypeOK
<1>4. /\ FreeListsOK(stack, bat) /\ FreePlaced(stack, bat)
      /\ bat \in [BlockCallers -> Seq(BlockNodes)]
  BY DEF BeforeStep, FreeAs, FreeListsOK
<1>5. P!NodesOf(stack) = {}
  <2>1. P!Trail(bqNext, NoBlock, stack)
    BY <1>4 DEF FreeListsOK
  <2> QED BY <2>1, Instance, P!TrailEmpty
<1>6. /\ ~Live(p) /\ Live(p)'
      /\ \A x : x # p => (Live(x)' <=> Live(x))
  <2>1. \A f \in BlockCallers \ {e} : bqPc'[f] = bqPc[f] /\ bqLoc'[f] = bqLoc[f]
    BY OthersKept DEF BeforeStep
  <2>2. \A f \in BlockCallers \ {e} : bqPc[f] = "a_pageCas" => bqLoc[f].node[1] # p
    BY <1>2, <1>3 DEF BeforeStep, SlicesApart
  <2> QED BY <1>1, <1>2, <1>3, <2>1, <2>2 DEF Live
<1>7. \A k \in 0 .. NodesPerPage - 1 : <<p, k>> \in BlockNodes /\ <<p, k>> \in bqFree
  BY <1>2, <1>4, <1>6 DEF BlockNodes, FreePlaced
<1>8. PageLinked(bqNext', p)
  <2>1. \A k \in 1 .. NodesPerPage - 1 : <<p, k>> \in BlockNodes
    BY <1>7
  <2>2. \A k \in 1 .. NodesPerPage - 1 : bqNext'[<<p, k>>] = bqNext[<<p, k>>]
    BY <1>3, <2>1 DEF BeforeStep, BlockTypeOK
  <2> QED BY <1>1, <2>2 DEF PageLinked
<1>9. PICK r \in Seq(BlockNodes) :
          /\ P!Trail(bqNext', bqNodes', r)
          /\ \A x \in BlockNodes : x \in P!NodesOf(r) <=> x[1] = p /\ x # <<p, 0>>
  BY <1>2, <1>3, <1>8, SliceStack
<1>10. r \in Seq(BlockNodes)
  OBVIOUS
<1>12. P!Trail(bqNext', bqNodes', r)
  BY <1>9
<1>14. \A x \in BlockNodes : x \in P!NodesOf(r) <=> x[1] = p /\ x # <<p, 0>>
  BY <1>9
<1>15. \A f \in BlockCallers : \A x \in P!NodesOf(bat[f]) :
           x \in BlockNodes /\ x[1] # p /\ x # <<p, 0>> /\ bqNext'[x] = bqNext[x]
  <2>1. \A f \in BlockCallers : P!NodesOf(bat[f]) \subseteq BlockNodes
    BY <1>4 DEF P!NodesOf
  <2>2. \A f \in BlockCallers : \A x \in P!NodesOf(bat[f]) : x[1] # p
    BY <1>4, <1>6, <2>1 DEF FreePlaced
  <2>3. <<p, 0>>[1] = p
    OBVIOUS
  <2>4. \A x \in BlockNodes : x # <<p, 0>> => bqNext'[x] = bqNext[x]
    BY <1>3 DEF BeforeStep, BlockTypeOK
  <2> QED BY <2>1, <2>2, <2>3, <2>4
<1>16. \A f \in BlockCallers : Segment(bqNext', bqBatch'[f], bat[f])
  <2>1. \A f \in BlockCallers : Segment(bqNext, bqBatch[f], bat[f])
    BY <1>4 DEF FreeListsOK
  <2> QED BY <1>3, <1>15, <2>1, SegmentKept
<1>17. FreePlaced(r, bat)'
  <2>1. \A x : x \in bqFree' <=> x \in bqFree /\ x # <<p, 0>>
    BY <1>3
  <2>2. \A x \in BlockNodes : x[1] = p => x \in bqFree
    BY <1>4, <1>6 DEF FreePlaced
  <2>3. \A x : x \notin P!NodesOf(stack)
    BY <1>5
  <2>4. <<p, 0>>[1] = p
    OBVIOUS
  <2> QED BY <1>4, <1>6, <1>14, <1>15, <2>1, <2>2, <2>3, <2>4 DEF FreePlaced
<1>18. \A f \in BlockCallers : AllocOK(f)'
  <2>1. AllocOK(e)'
    BY <1>3 DEF AllocOK
  <2>2. SlicesKept(e)
    <3>1. \A x \in BlockNodes : x[2] # 0 => x # <<p, 0>>
      OBVIOUS
    <3>2. \A x \in BlockNodes : x # <<p, 0>> => bqNext'[x] = bqNext[x]
      BY <1>3 DEF BeforeStep, BlockTypeOK
    <3>3. \A f \in BlockCallers : bqPc[f] = "a_pageCas" => bqLoc[f].node[1] \in bqPages'
      BY <1>3, SliceOf
    <3> QED BY <3>1, <3>2, <3>3 DEF SlicesKept
  <2>3. \A f \in BlockCallers \ {e} : AllocOK(f)'
    BY <1>15, <2>2, OthersAllocate
  <2> QED BY <2>1, <2>3
<1> QED BY <1>4, <1>10, <1>12, <1>16, <1>17, <1>18 DEF FreeNodesOK, FreeListsOK
\* A node at the end of a batch.
LEMMA SegmentGrows ==
    ASSUME NEW f, NEW b, NEW q, Segment(f, b, q), NEW n \in BlockNodes, n \notin P!NodesOf(q),
           NEW g, \A x \in P!NodesOf(q) : x # b.tail => g[x] = f[x],
           b.tail # NoBlock => g[b.tail] = n,
           NEW c, c = [head |-> IF b.head = NoBlock THEN n ELSE b.head, tail |-> n]
    PROVE  /\ Append(q, n) \in Seq(BlockNodes) /\ Segment(g, c, Append(q, n))
           /\ P!NodesOf(Append(q, n)) = P!NodesOf(q) \cup {n}
<1>1. q \in Seq(BlockNodes) /\ Len(q) \in Nat /\ DOMAIN q = 1 .. Len(q)
  BY DEF Segment
<1>2. PICK r : r = Append(q, n)
  OBVIOUS
<1>3. /\ r \in Seq(BlockNodes) /\ Len(r) = Len(q) + 1 /\ DOMAIN r = 1 .. Len(q) + 1
      /\ \A i \in 1 .. Len(q) : r[i] = q[i]
      /\ r[Len(q) + 1] = n
  BY <1>1, <1>2
<1>4. P!NodesOf(r) = P!NodesOf(q) \cup {n}
  BY <1>1, <1>3 DEF P!NodesOf
<1>5. \A i \in 1 .. Len(q) : q[i] # n /\ q[i] \in BlockNodes /\ q[i] \in P!NodesOf(q)
  BY <1>1 DEF P!NodesOf
<1>6. \A i, j \in 1 .. Len(r) : r[i] = r[j] => i = j
  <2>1. \A i, j \in 1 .. Len(q) : q[i] = q[j] => i = j
    BY DEF Segment
  <2> QED BY <1>1, <1>3, <1>5, <2>1
<1>7. CASE Len(q) = 0
  <2>1. b.head = NoBlock
    BY <1>7 DEF Segment, NoBatch
  <2>2. c = [head |-> r[1], tail |-> r[Len(r)]]
    BY <1>3, <1>7, <2>1
  <2> QED BY <1>2, <1>3, <1>4, <1>6, <1>7, <2>2 DEF Segment
<1>8. CASE Len(q) # 0
  <2>1. b.head = q[1] /\ b.tail = q[Len(q)]
    BY <1>8 DEF Segment
  <2>2. q[1] # NoBlock /\ q[Len(q)] # NoBlock
    BY <1>1, <1>5, <1>8, BlockQueueAssumption
  <2>3. c = [head |-> r[1], tail |-> r[Len(r)]]
    BY <1>1, <1>3, <1>8, <2>1, <2>2
  <2>4. ASSUME NEW i \in 1 .. Len(r) - 1
        PROVE  g[r[i]] = r[i + 1]
    <3>1. CASE i = Len(q)
      BY <1>1, <1>3, <1>8, <2>1, <2>2, <3>1
    <3>2. CASE i # Len(q)
      <4>1. i \in 1 .. Len(q) - 1 /\ i \in 1 .. Len(q) /\ i + 1 \in 1 .. Len(q)
        <5>1. Len(q) \in Nat /\ Len(r) = Len(q) + 1
          BY <1>1, <1>3
        <5> QED BY <3>2, <5>1
      <4>2. f[q[i]] = q[i + 1] /\ q[i] # q[Len(q)]
        <5>1. Len(q) \in 1 .. Len(q)
          BY <1>1, <1>8
        <5> QED BY <3>2, <4>1, <5>1 DEF Segment
      <4>3. g[q[i]] = f[q[i]]
        BY <1>5, <2>1, <4>1, <4>2
      <4> QED BY <1>3, <4>1, <4>2, <4>3
    <3> QED BY <3>1, <3>2
  <2> QED BY <1>2, <1>3, <1>4, <1>6, <1>8, <2>3, <2>4 DEF Segment
<1> QED BY <1>7, <1>8

\* A batch in front of the stack.
LEMMA SegmentStacked ==
    ASSUME NEW f, NEW b, NEW q, Segment(f, b, q), NEW n, NEW stack, P!Trail(f, n, stack),
           b.tail # NoBlock, f[b.tail] = n, \A x \in P!NodesOf(q) : x \notin P!NodesOf(stack)
    PROVE  /\ q \o stack \in Seq(BlockNodes) /\ P!Trail(f, b.head, q \o stack)
           /\ P!NodesOf(q \o stack) = P!NodesOf(q) \cup P!NodesOf(stack)
<1>1. /\ q \in Seq(BlockNodes) /\ Len(q) \in Nat /\ DOMAIN q = 1 .. Len(q)
      /\ stack \in Seq(BlockNodes) /\ Len(stack) \in Nat /\ DOMAIN stack = 1 .. Len(stack)
  BY DEF Segment, P!Trail
<1>2. PICK r : r = q \o stack
  OBVIOUS
<1>3. /\ r \in Seq(BlockNodes) /\ Len(r) = Len(q) + Len(stack)
      /\ DOMAIN r = 1 .. Len(q) + Len(stack)
      /\ \A i \in 1 .. Len(q) : r[i] = q[i]
      /\ \A i \in 1 .. Len(stack) : r[Len(q) + i] = stack[i]
  BY <1>1, <1>2
<1>4. Len(q) > 0 /\ b.head = q[1] /\ b.tail = q[Len(q)]
  BY <1>1 DEF Segment, NoBatch
<1>5. \A i \in 1 .. Len(r) : i \in 1 .. Len(q) \/ \E j \in 1 .. Len(stack) : i = Len(q) + j
  <2>1. ASSUME NEW i \in 1 .. Len(r), i > Len(q)
        PROVE  i - Len(q) \in 1 .. Len(stack) /\ i = Len(q) + (i - Len(q))
    <3>1. Len(q) \in Nat /\ Len(stack) \in Nat /\ Len(r) = Len(q) + Len(stack)
      BY <1>1, <1>3
    <3> QED BY <2>1, <3>1
  <2>2. \A i \in 1 .. Len(r) : i > Len(q) \/ i \in 1 .. Len(q)
    <3>1. Len(q) \in Nat /\ Len(stack) \in Nat /\ Len(r) = Len(q) + Len(stack)
      BY <1>1, <1>3
    <3> QED BY <3>1
  <2> QED BY <2>1, <2>2
<1>6. P!NodesOf(r) = P!NodesOf(q) \cup P!NodesOf(stack)
  <2>1. \A x \in P!NodesOf(r) : x \in P!NodesOf(q) \cup P!NodesOf(stack)
    <3>1. \A i \in 1 .. Len(r) : r[i] \in P!NodesOf(q) \cup P!NodesOf(stack)
      <4>1. \A i \in 1 .. Len(q) : r[i] \in P!NodesOf(q)
        BY <1>1, <1>3 DEF P!NodesOf
      <4>2. \A j \in 1 .. Len(stack) : r[Len(q) + j] \in P!NodesOf(stack)
        BY <1>1, <1>3 DEF P!NodesOf
      <4> QED BY <1>5, <4>1, <4>2
    <3>2. DOMAIN r = 1 .. Len(r)
      BY <1>3
    <3> QED BY <3>1, <3>2 DEF P!NodesOf
  <2>2. ASSUME NEW i \in 1 .. Len(q)  PROVE q[i] \in P!NodesOf(r)
    <3>1. i \in 1 .. Len(r)
      BY <1>1, <1>3
    <3> QED BY <1>3, <3>1 DEF P!NodesOf
  <2>3. ASSUME NEW i \in 1 .. Len(stack)  PROVE stack[i] \in P!NodesOf(r)
    <3>1. Len(q) + i \in 1 .. Len(r)
      BY <1>1, <1>3
    <3> QED BY <1>3, <3>1 DEF P!NodesOf
  <2> QED BY <1>1, <2>1, <2>2, <2>3 DEF P!NodesOf
<1>7. ASSUME NEW i \in 1 .. Len(r) - 1
      PROVE  f[r[i]] = r[i + 1]
  <2>1. CASE i < Len(q)
    <3>1. i \in 1 .. Len(q) - 1 /\ i \in 1 .. Len(q) /\ i + 1 \in 1 .. Len(q)
      BY <1>1, <2>1
    <3> QED BY <1>3, <3>1 DEF Segment
  <2>2. CASE i = Len(q)
    <3>1. 1 \in 1 .. Len(stack) /\ i \in 1 .. Len(q)
      BY <1>1, <1>3, <2>2
    <3>2. n = stack[1]
      BY <1>1, <3>1 DEF P!Trail
    <3> QED BY <1>3, <1>4, <2>2, <3>1, <3>2
  <2>3. CASE i > Len(q)
    <3>1. PICK j : j = i - Len(q)
      OBVIOUS
    <3>2. /\ j \in 1 .. Len(stack) - 1 /\ j \in 1 .. Len(stack) /\ j + 1 \in 1 .. Len(stack)
          /\ i = Len(q) + j /\ i + 1 = Len(q) + (j + 1)
      BY <1>1, <1>3, <2>3, <3>1
    <3>3. f[stack[j]] = stack[j + 1]
      BY <3>2 DEF P!Trail
    <3>4. r[i] = stack[j] /\ r[i + 1] = stack[j + 1]
      BY <1>3, <3>2
    <3> QED BY <3>3, <3>4
  <2>4. i < Len(q) \/ i = Len(q) \/ i > Len(q)
    <3>1. Len(q) \in Nat /\ i \in Int
      BY <1>1
    <3> QED BY <3>1
  <2> QED BY <2>1, <2>2, <2>3, <2>4
<1>8. Len(r) > 0 /\ r[1] = b.head /\ f[r[Len(r)]] = NoBlock
  <2>1. 1 \in 1 .. Len(q) /\ Len(q) \in 1 .. Len(q)
    BY <1>1, <1>4
  <2>2. Len(r) > 0 /\ r[1] = b.head
    BY <1>1, <1>3, <1>4, <2>1
  <2>3. CASE Len(stack) = 0
    <3>1. Len(r) = Len(q) /\ n = NoBlock
      BY <1>1, <1>3, <2>3 DEF P!Trail
    <3> QED BY <1>3, <1>4, <2>1, <2>2, <3>1
  <2>4. CASE Len(stack) # 0
    <3>1. Len(stack) \in 1 .. Len(stack) /\ f[stack[Len(stack)]] = NoBlock
      BY <1>1, <2>4 DEF P!Trail
    <3>2. r[Len(r)] = stack[Len(stack)]
      BY <1>3, <3>1
    <3> QED BY <2>2, <3>1, <3>2
  <2> QED BY <2>3, <2>4
<1>9. ASSUME NEW i \in 1 .. Len(r), NEW j \in 1 .. Len(r), r[i] = r[j]
      PROVE  i = j
  <2>1. \A k \in 1 .. Len(q) : r[k] \in P!NodesOf(q) /\ r[k] = q[k]
    BY <1>1, <1>3 DEF P!NodesOf
  <2>2. \A k \in 1 .. Len(stack) :
            r[Len(q) + k] \in P!NodesOf(stack) /\ r[Len(q) + k] = stack[k]
    BY <1>1, <1>3 DEF P!NodesOf
  <2>3. CASE i \in 1 .. Len(q)
    <3>1. j \in 1 .. Len(q)
      BY <1>5, <1>9, <2>1, <2>2, <2>3
    <3> QED BY <1>9, <2>1, <2>3, <3>1 DEF Segment
  <2>4. CASE \E k \in 1 .. Len(stack) : i = Len(q) + k
    <3>1. PICK k \in 1 .. Len(stack) : i = Len(q) + k
      BY <2>4
    <3>2. PICK m \in 1 .. Len(stack) : j = Len(q) + m
      BY <1>5, <1>9, <2>1, <2>2, <3>1
    <3>3. stack[k] = stack[m]
      BY <1>9, <2>2, <3>1, <3>2
    <3> QED BY <3>1, <3>2, <3>3 DEF P!Trail
  <2> QED BY <1>5, <2>3, <2>4
<1> QED BY <1>2, <1>3, <1>6, <1>7, <1>8, <1>9 DEF P!Trail
\* A retired node that no hazard pointer protects joins the batch.
LEMMA FreeSorted ==
    ASSUME NEW e \in BlockCallers, NEW stack, NEW bat, BeforeStep(e, stack, bat),
           BlockScanSort(e), bqLoc[e].curr \notin bqScan[e].ptab,
           bqLoc[e].curr \in BlockNodes \ bqFree
    PROVE  FreeNodesOK'
<1>1. PICK n : n = bqLoc[e].curr
  OBVIOUS
<1>2. PICK b : b = bqBatch[e]
  OBVIOUS
<1>3. /\ FreeListsOK(stack, bat) /\ FreePlaced(stack, bat) /\ stack \in Seq(BlockNodes)
      /\ bat \in [BlockCallers -> Seq(BlockNodes)] /\ n \in BlockNodes /\ n \notin bqFree
      /\ Segment(bqNext, b, bat[e]) /\ b \in [head : NodeOrNone, tail : NodeOrNone]
  BY <1>1, <1>2 DEF BeforeStep, FreeAs, FreeListsOK, BlockTypeOK
<1>4. /\ b.head = NoBlock <=> b.tail = NoBlock
      /\ b.tail # NoBlock => b.tail \in P!NodesOf(bat[e]) /\ b.tail \in BlockNodes
  <2>1. P!NodesOf(bat[e]) \subseteq BlockNodes
    BY <1>3 DEF P!NodesOf
  <2> QED BY <1>2, <1>3, <2>1, BatchEnd
<1>5. /\ bqFree' = bqFree \cup {n} /\ bqPc[e] = "s_sort" /\ bqPc'[e] = "s_next"
      /\ bqNodes' = bqNodes /\ bqPages' = bqPages
      /\ b.tail # NoBlock => bqNext' = [bqNext EXCEPT ![b.tail] = n]
      /\ b.tail = NoBlock => bqNext' = bqNext
  BY <1>1, <1>2, <1>4 DEF BlockScanSort, B!Goto, BeforeStep, BlockTypeOK
<1>6. bqBatch'[e] = [head |-> IF b.head = NoBlock THEN n ELSE b.head, tail |-> n]
  <2>1. bqBatch = [f \in BlockCallers |-> bqBatch[f]]
    BY DEF BeforeStep, BlockTypeOK
  <2>2. CASE b.head = NoBlock
    BY <1>1, <1>2, <2>1, <2>2 DEF BlockScanSort
  <2>3. CASE b.head # NoBlock
    <3>1. bqBatch' = [bqBatch EXCEPT ![e] = [b EXCEPT !.tail = n]]
      BY <1>1, <1>2, <2>3 DEF BlockScanSort
    <3>2. bqBatch'[e] = [b EXCEPT !.tail = n]
      BY <2>1, <3>1
    <3> QED BY <1>3, <2>3, <3>2
  <2> QED BY <2>2, <2>3
<1>7. /\ n \notin P!NodesOf(stack) /\ \A f \in BlockCallers : n \notin P!NodesOf(bat[f])
  BY <1>3 DEF FreePlaced
<1>8. \A x \in BlockNodes : x # b.tail => bqNext'[x] = bqNext[x]
  BY <1>5 DEF BeforeStep, BlockTypeOK
<1>9. b.tail # NoBlock => bqNext'[b.tail] = n
  BY <1>4, <1>5 DEF BeforeStep, BlockTypeOK
<1>10. PICK c : c = Append(bat[e], n)
  OBVIOUS
<1>11. /\ c \in Seq(BlockNodes) /\ Segment(bqNext', bqBatch'[e], c)
       /\ P!NodesOf(c) = P!NodesOf(bat[e]) \cup {n}
  <2>1. \A x \in P!NodesOf(bat[e]) : x # b.tail => bqNext'[x] = bqNext[x]
    <3>1. P!NodesOf(bat[e]) \subseteq BlockNodes
      BY <1>3 DEF P!NodesOf
    <3> QED BY <1>8, <3>1
  <2>2. n \notin P!NodesOf(bat[e]) /\ n \in BlockNodes /\ Segment(bqNext, b, bat[e])
    BY <1>3, <1>7
  <2>3. /\ Append(bat[e], n) \in Seq(BlockNodes)
        /\ Segment(bqNext', bqBatch'[e], Append(bat[e], n))
        /\ P!NodesOf(Append(bat[e], n)) = P!NodesOf(bat[e]) \cup {n}
    BY <1>6, <1>9, <2>1, <2>2, SegmentGrows
  <2> QED BY <1>10, <2>3
<1>12. PICK news \in [BlockCallers -> Seq(BlockNodes)] : news = [bat EXCEPT ![e] = c]
  BY <1>3, <1>11
<1>13. news[e] = c /\ \A f \in BlockCallers \ {e} : news[f] = bat[f]
  BY <1>3, <1>12
<1>14. \A x \in P!NodesOf(stack) : bqNext'[x] = bqNext[x]
  <2>1. P!NodesOf(stack) \subseteq BlockNodes
    BY <1>3 DEF P!NodesOf
  <2>2. \A x \in P!NodesOf(stack) : x # b.tail
    BY <1>3, <1>4, <2>1, BlockQueueAssumption DEF FreePlaced
  <2> QED BY <1>8, <2>1, <2>2
<1>15. \A f \in BlockCallers \ {e} : \A x \in P!NodesOf(bat[f]) : bqNext'[x] = bqNext[x]
  <2>1. \A f \in BlockCallers : P!NodesOf(bat[f]) \subseteq BlockNodes
    BY <1>3 DEF P!NodesOf
  <2>2. \A f \in BlockCallers \ {e} : \A x \in P!NodesOf(bat[f]) : x # b.tail
    BY <1>3, <1>4, <2>1, BlockQueueAssumption DEF FreePlaced
  <2> QED BY <1>8, <2>1, <2>2
<1>16. \A f \in BlockCallers \ {e} :
           /\ bqPc'[f] = bqPc[f] /\ bqLoc'[f] = bqLoc[f] /\ bqBatch'[f] = bqBatch[f]
  BY OthersKept DEF BeforeStep
<1>17. P!Trail(bqNext', bqNodes', stack)
  <2>1. P!Trail(bqNext, bqNodes, stack)
    BY <1>3 DEF FreeListsOK
  <2> QED BY <1>5, <1>14, <2>1, Instance, P!TrailKept
<1>18. \A f \in BlockCallers : Segment(bqNext', bqBatch'[f], news[f])
  <2>1. ASSUME NEW f \in BlockCallers \ {e}
        PROVE  Segment(bqNext', bqBatch'[f], news[f])
    <3>1. Segment(bqNext, bqBatch[f], bat[f])
      BY <1>3 DEF FreeListsOK
    <3> QED BY <1>13, <1>15, <1>16, <3>1, SegmentKept
  <2> QED BY <1>11, <1>13, <2>1
<1>19. \A p : Live(p)' <=> Live(p)
  BY <1>5, LiveKept DEF BeforeStep
<1>20. FreePlaced(stack, news)'
  <2>1. \A x : x \in bqFree' <=> x \in bqFree \/ x = n
    BY <1>5
  <2>2. \A f \in BlockCallers : \A x : x \in P!NodesOf(news[f]) <=>
            x \in P!NodesOf(bat[f]) \/ (f = e /\ x = n)
    BY <1>11, <1>13
  <2>3. Live(n[1])
    BY <1>3 DEF FreePlaced
  <2> QED BY <1>3, <1>7, <1>19, <2>1, <2>2, <2>3 DEF FreePlaced
<1>21. \A f \in BlockCallers : AllocOK(f)'
  <2>1. AllocOK(e)'
    BY <1>5 DEF AllocOK
  <2>2. \A x \in BlockNodes : ~Live(x[1]) => x # b.tail
    <3>1. b.tail # NoBlock => Live(b.tail[1])
      BY <1>3, <1>4 DEF FreePlaced
    <3> QED BY <3>1, BlockQueueAssumption
  <2>3. SlicesKept(e)
    BY <1>5, <1>8, <2>2, SlicesLeft
  <2>4. \A f \in BlockCallers \ {e} : AllocOK(f)'
    BY <1>15, <2>3, OthersAllocate
  <2> QED BY <2>1, <2>4
<1> QED BY <1>3, <1>12, <1>17, <1>18, <1>20, <1>21 DEF FreeNodesOK, FreeListsOK

\* The last node of a batch is linked to the stack, which is not changed by that.
LEMMA FreeLinked ==
    ASSUME NEW e \in BlockCallers, NEW stack, NEW bat, BeforeStep(e, stack, bat), BatchLink(e)
    PROVE  FreeNodesOK'
<1>1. PICK n : n = bqBatch[e].tail
  OBVIOUS
<1>2. /\ FreeListsOK(stack, bat) /\ FreePlaced(stack, bat) /\ stack \in Seq(BlockNodes)
      /\ bat \in [BlockCallers -> Seq(BlockNodes)] /\ BlockTypeOK
  BY DEF BeforeStep, FreeAs, FreeListsOK
<1>3. /\ bqPc[e] = "f_read" /\ bqPc'[e] = "f_cas" /\ n # NoBlock
      /\ bqNext' = [bqNext EXCEPT ![n] = bqNodes]
      /\ UNCHANGED <<bqNodes, bqPages, bqBatch, bqFree>>
  BY <1>1, <1>2 DEF BatchLink, B!Goto, BlockTypeOK, blockHazardVars, blockOwn
<1>4. bqLoc'[e].next = bqNodes
  BY <1>2 DEF BatchLink, B!Local, BlockTypeOK, P!LocType
<1>5. n \in P!NodesOf(bat[e]) /\ n \in BlockNodes
  <2>1. n \in P!NodesOf(bat[e])
    BY <1>1, <1>2, <1>3, BatchEnd
  <2> QED BY <1>2, <2>1 DEF P!NodesOf
<1>6. bqNext'[n] = bqNodes /\ \A x \in BlockNodes : x # n => bqNext'[x] = bqNext[x]
  BY <1>2, <1>3, <1>5 DEF BlockTypeOK
<1>7. /\ P!NodesOf(stack) \subseteq BlockNodes
      /\ \A f \in BlockCallers : P!NodesOf(bat[f]) \subseteq BlockNodes
  BY <1>2 DEF P!NodesOf
<1>8. \A x \in P!NodesOf(stack) : bqNext'[x] = bqNext[x]
  BY <1>2, <1>5, <1>6, <1>7 DEF FreePlaced
<1>9. \A f \in BlockCallers \ {e} : \A x \in P!NodesOf(bat[f]) : bqNext'[x] = bqNext[x]
  BY <1>2, <1>5, <1>6, <1>7 DEF FreePlaced
<1>10. \A p : Live(p)' <=> Live(p)
  BY <1>3, LiveKept DEF BeforeStep
<1>11. P!Trail(bqNext', bqNodes', stack)
  BY <1>2, <1>3, <1>8, Instance, P!TrailKept DEF FreeListsOK
<1>12. ASSUME NEW f \in BlockCallers
       PROVE  Segment(bqNext', bqBatch[f], bat[f])
  <2>1. Segment(bqNext, bqBatch[f], bat[f])
    BY <1>2 DEF FreeListsOK
  <2>2. CASE f # e
    BY <1>9, <2>1, <2>2, SegmentKept
  <2>3. CASE f = e
    <3>1. PICK q : q = bat[e]
      OBVIOUS
    <3>2. /\ q \in Seq(BlockNodes) /\ Len(q) \in Nat /\ Len(q) # 0 /\ n = q[Len(q)]
          /\ \A i, j \in 1 .. Len(q) : q[i] = q[j] => i = j
      BY <1>1, <1>3, <2>1, <2>3, <3>1 DEF Segment, NoBatch
    <3>3. ASSUME NEW i \in 1 .. Len(q) - 1
          PROVE  bqNext'[q[i]] = q[i + 1]
      <4>1. i \in 1 .. Len(q) /\ Len(q) \in 1 .. Len(q) /\ i # Len(q)
        <5>1. Len(q) \in Nat /\ Len(q) # 0
          BY <3>2
        <5> QED BY <5>1
      <4>2. q[i] # n /\ q[i] \in BlockNodes
        BY <3>2, <4>1
      <4> QED BY <1>6, <2>1, <2>3, <3>1, <4>2 DEF Segment
    <3> QED BY <2>1, <2>3, <3>1, <3>3 DEF Segment
  <2> QED BY <2>2, <2>3
<1>13. FreePlaced(stack, bat)'
  BY <1>2, <1>3, <1>10 DEF FreePlaced
<1>14. AllocOK(e)'
  BY <1>1, <1>3, <1>4, <1>6 DEF AllocOK
<1>15. \A f \in BlockCallers \ {e} : AllocOK(f)'
  <2>1. Live(n[1])
    BY <1>2, <1>5 DEF FreePlaced
  <2>2. \A x \in BlockNodes : ~Live(x[1]) => bqNext'[x] = bqNext[x]
    BY <1>6, <2>1
  <2>3. SlicesKept(e)
    BY <1>3, <2>2, SlicesLeft
  <2> QED BY <1>9, <2>3, OthersAllocate
<1> QED BY <1>2, <1>3, <1>11, <1>12, <1>13, <1>14, <1>15 DEF FreeNodesOK, FreeListsOK

\* The batch is put onto the stack.
LEMMA FreeGiven ==
    ASSUME NEW e \in BlockCallers, NEW stack, NEW bat, BeforeStep(e, stack, bat),
           BatchCas(e), bqNodes = bqLoc[e].next
    PROVE  FreeNodesOK'
<1>1. PICK b : b = bqBatch[e]
  OBVIOUS
<1>2. /\ FreeListsOK(stack, bat) /\ FreePlaced(stack, bat) /\ stack \in Seq(BlockNodes)
      /\ bat \in [BlockCallers -> Seq(BlockNodes)] /\ BlockTypeOK
      /\ Segment(bqNext, b, bat[e]) /\ P!Trail(bqNext, bqNodes, stack)
  BY <1>1 DEF BeforeStep, FreeAs, FreeListsOK
<1>3. /\ bqPc[e] = "f_cas" /\ bqPc'[e] = "d_done" /\ bqNodes' = b.head
      /\ bqBatch' = [bqBatch EXCEPT ![e] = NoBatch]
      /\ UNCHANGED <<bqNext, bqPages, bqFree>>
  BY <1>1, <1>2 DEF BatchCas, B!Goto, BlockTypeOK, blockQueueVars
<1>4. b.tail # NoBlock /\ bqNext[b.tail] = bqNodes
  BY <1>1, <1>3 DEF BeforeStep, FreeAs, AllocOK
<1>5. P!NodesOf(stack) \subseteq BlockNodes /\ \A f \in BlockCallers : P!NodesOf(bat[f]) \subseteq BlockNodes
  BY <1>2 DEF P!NodesOf
<1>6. PICK r : r = bat[e] \o stack
  OBVIOUS
<1>7. /\ r \in Seq(BlockNodes) /\ P!Trail(bqNext, b.head, r)
      /\ P!NodesOf(r) = P!NodesOf(bat[e]) \cup P!NodesOf(stack)
  <2>1. \A x \in P!NodesOf(bat[e]) : x \notin P!NodesOf(stack)
    BY <1>2, <1>5 DEF FreePlaced
  <2> QED BY <1>2, <1>4, <1>6, <2>1, SegmentStacked
<1>8. PICK none : none = <<>>
  OBVIOUS
<1>9. none \in Seq(BlockNodes) /\ Len(none) = 0 /\ P!NodesOf(none) = {}
  BY <1>8 DEF P!NodesOf
<1>10. PICK news \in [BlockCallers -> Seq(BlockNodes)] : news = [bat EXCEPT ![e] = none]
  BY <1>2, <1>9
<1>11. news[e] = none /\ \A f \in BlockCallers \ {e} : news[f] = bat[f]
  BY <1>2, <1>10
<1>12. \A f \in BlockCallers : Segment(bqNext', bqBatch'[f], news[f])
  <2>1. Segment(bqNext', NoBatch, none)
    BY <1>9 DEF Segment
  <2>2. bqBatch'[e] = NoBatch /\ \A f \in BlockCallers \ {e} : bqBatch'[f] = bqBatch[f]
    BY <1>2, <1>3 DEF BlockTypeOK
  <2>3. \A f \in BlockCallers : Segment(bqNext', bqBatch[f], bat[f])
    BY <1>2, <1>3 DEF FreeListsOK
  <2> QED BY <1>11, <2>1, <2>2, <2>3
<1>13. \A p : Live(p)' <=> Live(p)
  BY <1>3, LiveKept DEF BeforeStep
<1>14. FreePlaced(r, news)'
  <2>1. \A f \in BlockCallers : \A x : x \in P!NodesOf(news[f]) <=>
            x \in P!NodesOf(bat[f]) /\ f # e
    BY <1>9, <1>11
  <2>2. \A x : x \in P!NodesOf(r) <=> x \in P!NodesOf(bat[e]) \/ x \in P!NodesOf(stack)
    BY <1>7
  <2> QED BY <1>2, <1>3, <1>13, <2>1, <2>2 DEF FreePlaced
<1>15. AllocOK(e)'
  BY <1>3 DEF AllocOK
<1>16. \A f \in BlockCallers \ {e} : AllocOK(f)'
  <2>1. SlicesKept(e)
    BY <1>3, SlicesLeft
  <2> QED BY <1>3, <2>1, OthersAllocate
<1> QED BY <1>3, <1>7, <1>10, <1>12, <1>14, <1>15, <1>16 DEF FreeNodesOK, FreeListsOK
\* No other step changes a free node or a list of them.
LEMMA FreeQuiet ==
    ASSUME NEW e \in BlockCallers, NEW stack, NEW bat, BeforeStep(e, stack, bat),
           P!HazardInv, BlockStep(e), ~BatchLink(e), ~AllocPageCas(e),
           ~(AllocCas(e) /\ bqNodes = bqLoc[e].node),
           ~(AllocPage(e) /\ bqPages' # bqPages),
           ~(BlockScanSort(e) /\ bqLoc[e].curr \notin bqScan[e].ptab),
           ~(BatchCas(e) /\ bqNodes = bqLoc[e].next)
    PROVE  FreeNodesOK'
<1>1. /\ BlockTypeOK /\ P!QueueTypeOK /\ BlockFrame(e) /\ FreeListsOK(stack, bat)
      /\ stack \in Seq(BlockNodes) /\ bat \in [BlockCallers -> Seq(BlockNodes)]
      /\ AllocOK(e)
  BY DEF BeforeStep, FreeAs
<1>2. UNCHANGED <<bqFree, bqNodes, bqBatch, bqPages>>
  BY <1>1 DEF BlockFrame, AllocCas, AllocPage, BlockScanSort, BatchCas, blockOwn
<1>3. ASSUME NEW n \in BlockNodes, n \in bqFree
      PROVE  bqNext'[n] = bqNext[n]
  <2>1. CASE B!EnqueueCas(e)
    <3>1. bqPc[e] = "e_cas" /\ bqPc[e] \notin AllocLabels \cup BatchLabels
      BY <2>1 DEF B!EnqueueCas, AllocLabels, BatchLabels
    <3>2. bqLoc[e].tail \notin bqFree
      BY <1>1, <3>1, InUse, Shown DEF P!TailLabels
    <3> QED BY <1>1, <1>3, <2>1, <3>2 DEF B!EnqueueCas, BlockTypeOK
  <2>2. CASE B!Retire(e)
    <3>1. bqPc[e] = "retire" /\ bqPc[e] \notin AllocLabels \cup BatchLabels
      BY <2>2 DEF B!Retire, AllocLabels, BatchLabels
    <3>2. bqLoc[e].head \notin bqFree
      BY <1>1, <3>1, InUse, Shown DEF P!HandLabels
    <3> QED BY <1>1, <1>3, <2>2, <3>2 DEF B!Retire, BlockTypeOK
  <2>3. CASE BlockScanSort(e)
    <3>1. bqPc[e] = "s_sort" /\ bqPc[e] \notin AllocLabels \cup BatchLabels
      BY <2>3 DEF BlockScanSort, AllocLabels, BatchLabels
    <3>2. bqLoc[e].curr \in BlockNodes
      BY <1>1, <3>1, InUse, Shown
    <3>3. bqLoc[e].curr \notin bqFree
      BY <1>1, <3>1, <3>2, InUse, Shown, BlockQueueAssumption DEF P!SortLabels
    <3> QED BY <1>1, <1>3, <2>3, <3>3 DEF BlockScanSort, BlockTypeOK
  <2>4. CASE AllocCas(e) \/ AllocPage(e)
    <3>1. AllocPage(e) => bqPages' = bqPages
      BY <1>2
    <3>2. \A p \in NodePages \ bqPages : bqPages \cup {p} # bqPages
      OBVIOUS
    <3> QED BY <2>4, <3>1, <3>2 DEF AllocCas, AllocPage
  <2> QED BY <1>1, <2>1, <2>2, <2>3, <2>4 DEF BlockFrame
<1>4. bqPc'[e] \in {"a_next", "a_cas", "a_pageCas", "f_cas"} => AllocRead(e) \/ AllocNext(e)
  <2>1. ASSUME bqPc'[e] \in {"a_next", "a_cas", "a_pageCas", "f_cas"}
        PROVE  AllocRead(e) \/ AllocNext(e)
    <3>1. \/ lf_block_queue_enqueue(e) \/ AllocRead(e) \/ AllocNext(e) \/ AllocCas(e)
          \/ AllocPage(e) \/ BlockScanNext(e) \/ BatchCas(e)
      BY <1>1, <2>1 DEF BlockFrame, AllocLabels, BatchLabels
    <3>2. \A label : B!Goto(e, label) => bqPc'[e] = label
      BY <1>1 DEF B!Goto, BlockTypeOK
    <3>3. ~lf_block_queue_enqueue(e)
      BY <2>1, <3>2 DEF lf_block_queue_enqueue
    <3>4. ~AllocCas(e)
      <4>1. ASSUME AllocCas(e)  PROVE B!Goto(e, "a_read")
        BY <4>1 DEF AllocCas
      <4> QED BY <2>1, <3>2, <4>1
    <3>5. ~AllocPage(e)
      <4>1. ASSUME AllocPage(e)  PROVE B!Goto(e, "panic")
        <5>1. \A p \in NodePages \ bqPages : bqPages' # bqPages \cup {p}
          BY <1>2
        <5> QED BY <4>1, <5>1 DEF AllocPage
      <4> QED BY <2>1, <3>2, <4>1
    <3>6. ~BlockScanNext(e)
      BY <2>1, <3>2 DEF BlockScanNext, B!Onward
    <3>7. ~BatchCas(e)
      BY <2>1, <3>2 DEF BatchCas, B!Onward
    <3> QED BY <3>1, <3>3, <3>4, <3>5, <3>6, <3>7
  <2> QED BY <2>1
<1>5. bqPc[e] # "a_pageCas"
  BY DEF BlockStep, lf_block_queue_enqueue, BlockCall, AllocRead, AllocNext, AllocCas, AllocPage,
     BlockEnqueue, lf_block_queue_dequeue, BlockDequeue, BlockRetire, BlockScanNext,
     BlockScanSort, BatchCas, B!EnqueueTail, B!EnqueueHazard, B!EnqueueCheck, B!EnqueueNext,
     B!EnqueueAgain, B!EnqueueHelp, B!EnqueueCas, B!EnqueueSwing, B!EnqueueDone, B!DequeueHead,
     B!DequeueHazard, B!DequeueCheck, B!DequeueTail, B!DequeueNext, B!DequeueHazardNext,
     B!DequeueAgain, B!DequeueHelp, B!DequeueCas, B!DequeueData, B!DequeueUnhazard,
     B!DequeueEmpty, B!DequeueDone, B!Retire, B!Scan, B!ScanStart
<1>6. bqPc'[e] # "a_pageCas"
  BY <1>1, <1>4 DEF AllocRead, AllocNext, B!Goto, BlockTypeOK
<1>7. \A p : Live(p)' <=> Live(p)
  BY <1>1, <1>2, <1>5, <1>6, LiveKept
<1>8. FreeListsOK(stack, bat)'
  BY <1>1, <1>2, <1>3, <1>7, FreeKept
<1>9. /\ P!NodesOf(stack) \subseteq BlockNodes /\ P!NodesOf(stack) \subseteq bqFree
      /\ \A f \in BlockCallers : P!NodesOf(bat[f]) \subseteq BlockNodes /\ P!NodesOf(bat[f]) \subseteq bqFree
  <2>1. P!NodesOf(stack) \subseteq BlockNodes
    BY <1>1 DEF P!NodesOf
  <2>2. \A f \in BlockCallers : P!NodesOf(bat[f]) \subseteq BlockNodes
    BY <1>1 DEF P!NodesOf
  <2> QED BY <1>1, <2>1, <2>2 DEF FreeListsOK, FreePlaced
<1>10. \A f \in BlockCallers \ {e} : AllocOK(f)'
  <2>1. \A n \in BlockNodes : ~Live(n[1]) => bqNext'[n] = bqNext[n]
    <3>1. \A n \in BlockNodes : ~Live(n[1]) => n \in bqFree
      BY <1>1 DEF FreeListsOK, FreePlaced
    <3> QED BY <1>3, <3>1
  <2>2. SlicesKept(e)
    BY <1>2, <2>1, SlicesLeft
  <2>3. \A f \in BlockCallers : \A n \in P!NodesOf(bat[f]) : bqNext'[n] = bqNext[n]
    BY <1>3, <1>9
  <2> QED BY <2>2, <2>3, OthersAllocate
<1>11. AllocOK(e)'
  <2>1. CASE AllocRead(e)
    <3>1. bqPc'[e] \in {"a_page", "a_next"} /\ (bqPc'[e] = "a_next" => bqNodes # NoBlock)
      BY <1>1, <2>1 DEF AllocRead, B!Goto, BlockTypeOK
    <3>2. bqLoc'[e].node = bqNodes
      BY <1>1, <2>1 DEF AllocRead, B!Local, BlockTypeOK, P!LocType
    <3> QED BY <1>1, <3>1, <3>2 DEF AllocOK, BlockTypeOK, NodeOrNone
  <2>2. CASE AllocNext(e)
    <3>1. bqPc[e] = "a_next" /\ bqPc'[e] = "a_cas"
      BY <1>1, <2>2 DEF AllocNext, B!Goto, BlockTypeOK
    <3>2. bqLoc'[e].node = bqLoc[e].node
      BY <1>1, <2>2 DEF AllocNext, B!Local, BlockTypeOK, P!LocType
    <3> QED BY <1>1, <3>1, <3>2 DEF AllocOK
  <2>3. CASE ~AllocRead(e) /\ ~AllocNext(e)
    BY <1>4, <2>3 DEF AllocOK
  <2> QED BY <2>1, <2>2, <2>3
<1> QED BY <1>1, <1>8, <1>10, <1>11 DEF FreeNodesOK

\* The free nodes stay where they are accounted for.
LEMMA FreeStep ==
    ASSUME BlockTypeOK, P!QueueTypeOK, P!HazardInv, NEW e \in BlockCallers, BlockFrame(e),
           BlockStep(e), FreeNodesOK, SlicesApart, ~StalePop(e)
    PROVE  FreeNodesOK'
<1>1. PICK stack \in Seq(BlockNodes), bat \in [BlockCallers -> Seq(BlockNodes)] :
          FreeListsOK(stack, bat) /\ \A f \in BlockCallers : AllocOK(f)
  BY DEF FreeNodesOK
<1>2. BeforeStep(e, stack, bat)
  BY <1>1 DEF BeforeStep, FreeAs
<1>3. CASE AllocCas(e) /\ bqNodes = bqLoc[e].node
  BY <1>2, <1>3, FreeTaken
<1>4. CASE AllocPage(e) /\ bqPages' # bqPages
  <2>1. PICK p \in NodePages \ bqPages :
            /\ bqPages' = bqPages \cup {p} /\ bqNext' = LinkedPage(bqNext, p)
            /\ B!Local(e, "node", <<p, 0>>) /\ B!Goto(e, "a_pageCas")
    BY <1>4 DEF AllocPage
  <2>2. bqPc[e] = "a_page" /\ UNCHANGED <<bqFree, bqNodes, bqBatch>>
    BY <1>4 DEF AllocPage, blockHazardVars
  <2> QED BY <1>2, <2>1, <2>2, FreeMapped
<1>5. CASE AllocPageCas(e)
  BY <1>2, <1>5, FreeSlice, FreeUnmapped
<1>6. CASE BlockScanSort(e) /\ bqLoc[e].curr \notin bqScan[e].ptab
  <2>1. bqPc[e] = "s_sort" /\ bqPc[e] \notin AllocLabels \cup BatchLabels
    BY <1>6 DEF BlockScanSort, AllocLabels, BatchLabels
  <2>2. bqLoc[e].curr \in BlockNodes
    BY <2>1, InUse, Shown
  <2>3. bqLoc[e].curr \notin bqFree
    BY <2>1, <2>2, InUse, Shown, BlockQueueAssumption DEF P!SortLabels
  <2> QED BY <1>2, <1>6, <2>2, <2>3, FreeSorted
<1>7. CASE BatchLink(e)
  BY <1>2, <1>7, FreeLinked
<1>8. CASE BatchCas(e) /\ bqNodes = bqLoc[e].next
  BY <1>2, <1>8, FreeGiven
<1> QED BY <1>2, <1>3, <1>4, <1>5, <1>6, <1>7, <1>8, FreeQuiet

\* A new slice was not mapped, as that of another executor is.
LEMMA ApartStep ==
    ASSUME BlockTypeOK, P!QueueTypeOK, NEW e \in BlockCallers, BlockFrame(e),
           BlockStep(e), FreeNodesOK, SlicesApart
    PROVE  SlicesApart'
<1>1. \A f \in BlockCallers \ {e} : bqPc'[f] = bqPc[f] /\ bqLoc'[f] = bqLoc[f]
  BY OthersKept
<1>2. CASE bqPc'[e] # "a_pageCas"
  BY <1>1, <1>2 DEF SlicesApart
<1>3. CASE bqPc'[e] = "a_pageCas"
  <2>1. \A label : B!Goto(e, label) => label = "a_pageCas"
    BY <1>3 DEF B!Goto, BlockTypeOK
  <2>2. AllocPage(e)
    <3>1. \/ lf_block_queue_enqueue(e) \/ AllocRead(e) \/ AllocNext(e) \/ AllocCas(e)
          \/ AllocPage(e) \/ AllocPageCas(e) \/ BlockScanNext(e) \/ BatchLink(e)
          \/ BatchCas(e)
      BY <1>3 DEF BlockFrame, AllocLabels
    <3>2. ~lf_block_queue_enqueue(e) /\ ~AllocNext(e) /\ ~BatchLink(e)
      BY <2>1 DEF lf_block_queue_enqueue, AllocNext, BatchLink
    <3>3. ~AllocRead(e)
      BY <2>1 DEF AllocRead
    <3>4. ~AllocCas(e) /\ ~AllocPageCas(e)
      BY <2>1 DEF AllocCas, AllocPageCas, Filled
    <3>5. ~BlockScanNext(e) /\ ~BatchCas(e)
      BY <2>1 DEF BlockScanNext, BatchCas, B!Onward
    <3> QED BY <3>1, <3>2, <3>3, <3>4, <3>5
  <2>3. PICK p \in NodePages \ bqPages : B!Local(e, "node", <<p, 0>>)
    BY <2>1, <2>2 DEF AllocPage
  <2>4. bqLoc'[e].node[1] = p
    BY <2>3 DEF B!Local, BlockTypeOK, P!LocType
  <2>5. ASSUME NEW f \in BlockCallers, bqPc[f] = "a_pageCas"
        PROVE  bqLoc[f].node[1] \in bqPages
    <3>1. PICK q \in bqPages : bqLoc[f].node = <<q, 0>>
      BY <2>5 DEF FreeNodesOK, AllocOK
    <3> QED BY <3>1
  <2> QED BY <1>1, <2>3, <2>4, <2>5 DEF SlicesApart
<1> QED BY <1>2, <1>3
-----------------------------------------------------------------------------
(* The descriptors.                                                        *)

\* A step of the FIFO, on values.
MoveBy(e, q, held, outside, q2, held2, outside2) ==
    \/ \E b \in outside : /\ held[e] = NoBlock /\ held2 = [held EXCEPT ![e] = b]
                          /\ outside2 = outside \ {b} /\ q2 = q
    \/ /\ held[e] # NoBlock /\ held2 = [held EXCEPT ![e] = NoBlock]
       /\ q2 = Append(q, held[e]) /\ outside2 = outside
    \/ /\ held[e] = NoBlock /\ q # <<>> /\ held2 = [held EXCEPT ![e] = Head(q)]
       /\ q2 = Tail(q) /\ outside2 = outside
    \/ /\ held[e] # NoBlock /\ held2 = [held EXCEPT ![e] = NoBlock]
       /\ outside2 = outside \cup {held[e]} /\ q2 = q

FifoMove(q, held, outside, q2, held2, outside2) ==
    \E e \in BlockCallers : MoveBy(e, q, held, outside, q2, held2, outside2)

\* A FIFO leaves every descriptor in one place.
LEMMA OnePlaceKept ==
    ASSUME NEW q, NEW held, NEW outside, OnePlace(q, held, outside),
           NEW q2, NEW held2, NEW outside2, FifoMove(q, held, outside, q2, held2, outside2)
    PROVE  OnePlace(q2, held2, outside2)
<1>1. PICK e \in BlockCallers :
        \/ \E b \in outside : /\ held[e] = NoBlock /\ held2 = [held EXCEPT ![e] = b]
                              /\ outside2 = outside \ {b} /\ q2 = q
        \/ /\ held[e] # NoBlock /\ held2 = [held EXCEPT ![e] = NoBlock]
           /\ q2 = Append(q, held[e]) /\ outside2 = outside
        \/ /\ held[e] = NoBlock /\ q # <<>> /\ held2 = [held EXCEPT ![e] = Head(q)]
           /\ q2 = Tail(q) /\ outside2 = outside
        \/ /\ held[e] # NoBlock /\ held2 = [held EXCEPT ![e] = NoBlock]
           /\ outside2 = outside \cup {held[e]} /\ q2 = q
  BY DEF FifoMove, MoveBy
<1>2. /\ q \in Seq(QueuedBlocks) /\ held \in [BlockCallers -> QueuedBlocks \cup {NoBlock}]
      /\ outside \subseteq QueuedBlocks /\ Len(q) \in Nat /\ DOMAIN q = 1 .. Len(q)
      /\ NoBlock \notin QueuedBlocks
  BY BlockQueueAssumption DEF OnePlace
<1>3. /\ \A f \in BlockCallers : held[f] \notin outside
      /\ \A i \in 1 .. Len(q) : q[i] \notin outside /\ q[i] \in QueuedBlocks
      /\ \A d, f \in BlockCallers : held[d] = held[f] /\ held[d] # NoBlock => d = f
      /\ \A f \in BlockCallers : \A i \in 1 .. Len(q) : q[i] # held[f]
      /\ \A i, j \in 1 .. Len(q) : q[i] = q[j] => i = j
  BY <1>2 DEF OnePlace
<1>4. CASE \E b \in outside : /\ held[e] = NoBlock /\ held2 = [held EXCEPT ![e] = b]
                              /\ outside2 = outside \ {b} /\ q2 = q
  <2>1. PICK b \in outside : /\ held2 = [held EXCEPT ![e] = b]
                             /\ outside2 = outside \ {b} /\ q2 = q
    BY <1>4
  <2>2. held2[e] = b /\ \A f \in BlockCallers \ {e} : held2[f] = held[f]
    BY <1>2, <2>1
  <2>3. held2 \in [BlockCallers -> QueuedBlocks \cup {NoBlock}] /\ outside2 \subseteq QueuedBlocks
    BY <1>2, <2>1
  <2> QED BY <1>2, <1>3, <2>1, <2>2, <2>3 DEF OnePlace
<1>5. CASE /\ held[e] # NoBlock /\ held2 = [held EXCEPT ![e] = NoBlock]
           /\ outside2 = outside \cup {held[e]} /\ q2 = q
  <2>1. held2[e] = NoBlock /\ \A f \in BlockCallers \ {e} : held2[f] = held[f]
    BY <1>2, <1>5
  <2>2. held2 \in [BlockCallers -> QueuedBlocks \cup {NoBlock}] /\ outside2 \subseteq QueuedBlocks
    BY <1>2, <1>5
  <2> QED BY <1>2, <1>3, <1>5, <2>1, <2>2 DEF OnePlace
<1>6. CASE /\ held[e] # NoBlock /\ held2 = [held EXCEPT ![e] = NoBlock]
           /\ q2 = Append(q, held[e]) /\ outside2 = outside
  <2>1. held2[e] = NoBlock /\ \A f \in BlockCallers \ {e} : held2[f] = held[f]
    BY <1>2, <1>6
  <2>2. held2 \in [BlockCallers -> QueuedBlocks \cup {NoBlock}] /\ held[e] \in QueuedBlocks
    BY <1>2, <1>6
  <2>3. /\ q2 \in Seq(QueuedBlocks) /\ Len(q2) = Len(q) + 1
        /\ \A i \in 1 .. Len(q) : q2[i] = q[i]
        /\ q2[Len(q) + 1] = held[e]
    BY <1>2, <1>6, <2>2
  <2>4. \A i \in 1 .. Len(q2) : i \in 1 .. Len(q) \/ i = Len(q) + 1
    <3>1. Len(q) \in Nat /\ Len(q2) = Len(q) + 1
      BY <1>2, <2>3
    <3> QED BY <3>1
  <2> QED BY <1>2, <1>3, <1>6, <2>1, <2>2, <2>3, <2>4 DEF OnePlace
<1>7. CASE /\ held[e] = NoBlock /\ q # <<>> /\ held2 = [held EXCEPT ![e] = Head(q)]
           /\ q2 = Tail(q) /\ outside2 = outside
  <2>1. Len(q) > 0 /\ Head(q) = q[1] /\ 1 \in 1 .. Len(q) /\ q[1] \in QueuedBlocks
    BY <1>2, <1>7
  <2>2. held2[e] = q[1] /\ \A f \in BlockCallers \ {e} : held2[f] = held[f]
    BY <1>2, <1>7, <2>1
  <2>3. held2 \in [BlockCallers -> QueuedBlocks \cup {NoBlock}]
    BY <1>2, <1>7, <2>1
  <2>4. /\ q2 \in Seq(QueuedBlocks) /\ Len(q2) = Len(q) - 1
        /\ \A i \in 1 .. Len(q2) : q2[i] = q[i + 1]
    BY <1>2, <1>7, <2>1
  <2>5. \A i \in 1 .. Len(q2) : i + 1 \in 1 .. Len(q) /\ i + 1 # 1
    <3>1. Len(q) \in Nat /\ Len(q2) = Len(q) - 1
      BY <1>2, <2>4
    <3> QED BY <3>1
  <2>6. \A i, j \in 1 .. Len(q2) : i + 1 = j + 1 => i = j
    BY <2>4
  <2> QED BY <1>2, <1>3, <1>7, <2>1, <2>2, <2>3, <2>4, <2>5, <2>6 DEF OnePlace
<1> QED BY <1>1, <1>4, <1>5, <1>6, <1>7

\* The queue with its allocator hidden takes a step of the FIFO or none.
LEMMA HiddenMoves ==
    ASSUME BlockInv, P!ContentsOK, P!ContentsOK', P!Next \/ UNCHANGED P!vars,
           \A f \in BlockCallers : ~P!LateLink(f)
    PROVE  \/ UNCHANGED <<P!Contents, P!AllHeld, tqPool>>
           \/ FifoMove(P!Contents, P!AllHeld, tqPool, P!Contents', P!AllHeld', tqPool')
<1>1. [P!Fifo!FifoNext]_<<P!Contents, P!AllHeld, tqPool>>
  <2>1. [P!LossyNext]_<<P!Contents, P!AllHeld, tqPool>>
    BY Instance, P!FifoStep DEF BlockInv, P!AccountInv
  <2> QED BY <2>1 DEF P!LossyNext, P!Execs, BlockCallers
<1>2. ASSUME P!Fifo!FifoNext
      PROVE  FifoMove(P!Contents, P!AllHeld, tqPool, P!Contents', P!AllHeld', tqPool')
  <2>1. PICK q, held, outside : q = P!Contents /\ held = P!AllHeld /\ outside = tqPool
    OBVIOUS
  <2>2. PICK q2, held2, outside2 : q2 = P!Contents' /\ held2 = P!AllHeld' /\ outside2 = tqPool'
    OBVIOUS
  <2>3. PICK e \in P!Execs : \/ \E t \in QueuedBlocks : P!Fifo!Accept(e, t)
                             \/ P!Fifo!Enqueue(e) \/ P!Fifo!Dequeue(e) \/ P!Fifo!Deliver(e)
    BY <1>2 DEF P!Fifo!FifoNext
  <2>4. e \in BlockCallers
    BY DEF P!Execs, BlockCallers
  <2>5. MoveBy(e, q, held, outside, q2, held2, outside2)
    <3>1. CASE \E t \in QueuedBlocks : P!Fifo!Accept(e, t)
      BY <2>1, <2>2, <3>1 DEF MoveBy, P!Fifo!Accept, P!AllHeld, P!Held
    <3>2. CASE P!Fifo!Enqueue(e)
      BY <2>1, <2>2, <3>2 DEF MoveBy, P!Fifo!Enqueue, P!AllHeld, P!Held
    <3>3. CASE P!Fifo!Dequeue(e)
      BY <2>1, <2>2, <3>3 DEF MoveBy, P!Fifo!Dequeue, P!AllHeld, P!Held
    <3>4. CASE P!Fifo!Deliver(e)
      BY <2>1, <2>2, <3>4 DEF MoveBy, P!Fifo!Deliver, P!AllHeld, P!Held
    <3> QED BY <2>3, <3>1, <3>2, <3>3, <3>4
  <2> QED BY <2>1, <2>2, <2>4, <2>5 DEF FifoMove
<1> QED BY <1>1, <1>2

\* So every descriptor stays in one place.
LEMMA FifoMoves ==
    ASSUME BlockInv, P!ContentsOK, P!ContentsOK', P!Next \/ UNCHANGED P!vars,
           \A f \in BlockCallers : ~P!LateLink(f)
    PROVE  OnePlace(P!Contents, P!AllHeld, tqPool)'
<1>1. OnePlace(P!Contents, P!AllHeld, tqPool)
  BY DEF BlockInv, BlocksOK
<1>2. CASE UNCHANGED <<P!Contents, P!AllHeld, tqPool>>
  BY <1>1, <1>2 DEF OnePlace
<1>3. CASE FifoMove(P!Contents, P!AllHeld, tqPool, P!Contents', P!AllHeld', tqPool')
  <2>1. PICK q2, held2, outside2 : q2 = P!Contents' /\ held2 = P!AllHeld' /\ outside2 = tqPool'
    OBVIOUS
  <2>2. OnePlace(q2, held2, outside2)
    BY <1>1, <1>3, <2>1, OnePlaceKept
  <2> QED BY <2>1, <2>2 DEF OnePlace
<1> QED BY <1>2, <1>3, HiddenMoves
\* Who works for the allocator after the step was idle or did so before it.
LEMMA ToAllocator ==
    ASSUME P!QueueTypeOK, BlockTypeOK, NEW e \in BlockCallers, BlockFrame(e), BlockStep(e),
           bqPc'[e] \in AllocLabels
    PROVE  \/ lf_block_queue_enqueue(e)
           \/ bqPc[e] \in AllocLabels /\ UNCHANGED <<bqPool, bqVal>>
<1>1. \/ lf_block_queue_enqueue(e) \/ AllocRead(e) \/ AllocNext(e) \/ AllocCas(e)
      \/ AllocPage(e) \/ AllocPageCas(e) \/ BlockScanNext(e) \/ BatchLink(e)
      \/ BatchCas(e)
  BY DEF BlockFrame
<1>2. CASE BlockScanNext(e) \/ BatchLink(e) \/ BatchCas(e)
  <2>1. bqPc'[e] \in {"f_read", "s_sort", "f_cas", "d_done"}
    BY <1>2 DEF BlockScanNext, BatchLink, BatchCas, B!Onward, B!Goto, BlockTypeOK
  <2> QED BY <2>1 DEF AllocLabels
<1>3. CASE AllocRead(e) \/ AllocNext(e) \/ AllocCas(e) \/ AllocPage(e) \/ AllocPageCas(e)
  BY <1>3 DEF AllocRead, AllocNext, AllocCas, AllocPage, AllocPageCas, AllocLabels,
     blockCallVars
<1> QED BY <1>1, <1>2, <1>3

\* Who enters the allocator took its descriptor from the pool just now.
LEMMA AllocatorsApart ==
    ASSUME BlockInv, NEW e \in BlockCallers, BlockFrame(e), BlockStep(e)
    PROVE  \A d, f \in Allocating' : bqVal'[d] = bqVal'[f] => d = f
<1>1. /\ BlockTypeOK /\ P!QueueTypeOK /\ BlocksOK
  BY DEF BlockInv, P!AccountInv, P!FifoInv, P!HazardInv
<1>2. \A f \in Allocating' \ {e} : f \in Allocating /\ bqVal'[f] = bqVal[f]
  BY <1>1, OthersKept DEF Allocating
<1>3. CASE bqPc'[e] \notin AllocLabels
  BY <1>1, <1>2, <1>3 DEF Allocating, BlocksOK
<1>4. CASE bqPc'[e] \in AllocLabels
  <2>1. CASE lf_block_queue_enqueue(e)
    <3>1. PICK b \in bqPool : bqVal' = [bqVal EXCEPT ![e] = b]
      BY <2>1 DEF lf_block_queue_enqueue
    <3>2. bqVal'[e] \in bqPool
      BY <1>1, <3>1 DEF BlockTypeOK
    <3> QED BY <1>1, <1>2, <3>2 DEF BlocksOK
  <2>2. CASE bqPc[e] \in AllocLabels /\ UNCHANGED <<bqPool, bqVal>>
    <3>1. e \in Allocating /\ bqVal'[e] = bqVal[e]
      BY <2>2 DEF Allocating
    <3> QED BY <1>1, <1>2, <3>1 DEF BlocksOK
  <2> QED BY <1>1, <1>4, <2>1, <2>2, ToAllocator
<1> QED BY <1>3, <1>4

\* The allocator's executors keep their descriptors out of the pool.
LEMMA PoolStep ==
    ASSUME BlockInv, NEW e \in BlockCallers, BlockFrame(e), BlockStep(e)
    PROVE  \A f \in Allocating' : bqVal'[f] \notin bqPool'
<1> SUFFICES ASSUME NEW f \in BlockCallers, bqPc'[f] \in AllocLabels
             PROVE  bqVal'[f] \notin bqPool'
  BY DEF Allocating
<1>1. /\ BlockTypeOK /\ P!QueueTypeOK /\ BlocksOK /\ LabelOK(f)
  BY DEF BlockInv, P!AccountInv, P!FifoInv, P!HazardInv
<1>2. CASE f # e
  <2>1. /\ f \in Allocating /\ bqVal'[f] = bqVal[f] /\ bqVal[f] \notin bqPool
        /\ bqVal[f] \in tqPool
    BY <1>1, <1>2, OthersKept DEF Allocating, BlocksOK, tqPool
  <2>2. CASE B!DequeueDone(e)
    <3>1. /\ bqPc[e] \in {"d_none", "d_done"}
          /\ bqPool' = bqPool \cup ({bqVal[e]} \ {NoBlock})
      BY <2>2 DEF B!DequeueDone
    <3>2. tqPc[e] = bqPc[e] /\ tqVal[e] = bqVal[e]
      BY <3>1 DEF tqPc, tqVal, AllocLabels, BatchLabels
    <3>3. P!AllHeld[e] = bqVal[e]
      BY <3>1, <3>2 DEF P!AllHeld, P!Held, P!Execs, BlockCallers
    <3>4. bqVal[e] \notin tqPool
      BY <1>1, <3>3 DEF BlocksOK, OnePlace
    <3> QED BY <2>1, <3>1, <3>4
  <2>3. CASE lf_block_queue_enqueue(e)
    BY <2>1, <2>3 DEF lf_block_queue_enqueue
  <2> QED BY <2>1, <2>2, <2>3 DEF BlockFrame
<1>3. CASE f = e
  <2>1. CASE lf_block_queue_enqueue(e)
    BY <1>1, <1>3, <2>1 DEF lf_block_queue_enqueue, BlockTypeOK
  <2>2. CASE AllocRead(e) \/ AllocNext(e) \/ AllocCas(e) \/ AllocPage(e) \/ AllocPageCas(e)
    <3>1. e \in Allocating /\ UNCHANGED <<bqPool, bqVal>>
      BY <2>2 DEF AllocRead, AllocNext, AllocCas, AllocPage, AllocPageCas, Allocating, AllocLabels,
         blockCallVars
    <3> QED BY <1>1, <1>3, <3>1 DEF BlocksOK
  <2>3. CASE BlockScanNext(e) \/ BatchLink(e) \/ BatchCas(e)
    <3>1. bqPc'[e] \in {"f_read", "s_sort", "f_cas", "d_done"}
      BY <1>1, <2>3 DEF BlockScanNext, BatchLink, BatchCas, B!Onward, B!Goto, BlockTypeOK
    <3> QED BY <1>3, <3>1 DEF AllocLabels
  <2> QED BY <1>3, <2>1, <2>2, <2>3 DEF BlockFrame
<1> QED BY <1>2, <1>3

\* The invariant is inductive.
LEMMA BlockInvStep ==
    ASSUME BlockInv, P!ContentsOK, P!ContentsOK', [BlockNext]_blockVars, [Quiet]_blockVars
    PROVE  BlockInv'
<1>1. /\ BlockTypeOK /\ P!QueueTypeOK /\ P!HazardInv /\ P!AccountInv /\ BlocksOK /\ FreeNodesOK
      /\ SlicesApart
      /\ \A f \in BlockCallers : LabelOK(f)
  BY DEF BlockInv, P!AccountInv, P!FifoInv, P!HazardInv
<1>2. CASE UNCHANGED blockVars
  <2> USE DEF blockVars
  <2>1. UNCHANGED P!vars /\ Allocating' = Allocating
    BY <1>2 DEF P!vars, tqNext, tqData, tqPool, tqPc, tqVal, tqLoc, Allocating
  <2>2. P!AccountInv' /\ OnePlace(P!Contents, P!AllHeld, tqPool)'
    <3>1. P!AccountInv'
      BY <1>1, <2>1, Instance, P!AccountStep
    <3>2. \A f \in BlockCallers : ~P!LateLink(f)
      <4>1. ASSUME NEW f \in BlockCallers, P!EnqueueCas(f)  PROVE tqPc' # tqPc
        BY <1>1, <4>1 DEF P!EnqueueCas, P!Onward, P!Retry, P!Goto, P!QueueTypeOK, P!Execs, BlockCallers
      <4> QED BY <2>1, <4>1 DEF P!LateLink, P!vars
    <3> QED BY <2>1, <3>1, <3>2, FifoMoves
  <2>3. BlockTypeOK' /\ \A f \in BlockCallers : LabelOK(f)'
    BY <1>1, <1>2 DEF BlockTypeOK, LabelOK
  <2>4. FreeNodesOK'
    <3>1. PICK stack \in Seq(BlockNodes), bat \in [BlockCallers -> Seq(BlockNodes)] :
              FreeListsOK(stack, bat) /\ \A f \in BlockCallers : AllocOK(f)
      BY <1>1 DEF FreeNodesOK
    <3>2. \A p : Live(p)' <=> Live(p)
      BY <1>2 DEF Live
    <3>3. FreeListsOK(stack, bat)'
      BY <1>2, <3>1, <3>2 DEF FreeListsOK, FreePlaced
    <3>4. \A f \in BlockCallers : AllocOK(f)'
      BY <1>2, <3>1 DEF AllocOK
    <3> QED BY <3>3, <3>4 DEF FreeNodesOK
  <2>5. BlocksOK'
    BY <1>1, <1>2, <2>1, <2>2 DEF BlocksOK
  <2>6. SlicesApart'
    BY <1>1, <1>2 DEF SlicesApart
  <2> QED BY <2>2, <2>3, <2>4, <2>5, <2>6 DEF BlockInv
<1>3. ASSUME NEW e \in BlockCallers, BlockStep(e), Quiet
      PROVE  BlockInv'
  <2>1. BlockFrame(e) /\ LabelOK(e)'
    BY <1>1, <1>3, BlockFrames
  <2>2. P!Next \/ UNCHANGED P!vars
    <3>1. P!Step(e) \/ UNCHANGED P!vars
      BY <1>3, StepShown
    <3>2. e \in P!Execs
      BY DEF P!Execs, BlockCallers
    <3> QED BY <3>1, <3>2 DEF P!Next
  <2>3. P!AccountInv' /\ OnePlace(P!Contents, P!AllHeld, tqPool)'
    <3>1. \A f \in P!Execs : ~P!LateLink(f)
      BY <1>3 DEF Quiet, P!Execs, BlockCallers
    <3>2. P!AccountInv'
      BY <1>1, <2>2, <3>1, Instance, P!AccountStep
    <3> QED BY <2>2, <3>1, <3>2, FifoMoves DEF P!Execs, BlockCallers
  <2>4. P!QueueTypeOK' /\ P!ValuesOK'
    BY <2>3 DEF P!AccountInv, P!FifoInv, P!HazardInv
  <2>5. FreeNodesOK' /\ SlicesApart'
    BY <1>1, <1>3, <2>1, FreeStep, ApartStep DEF Quiet
  <2>6. BlockTypeOK'
    <3>1. AllocOK(e)
      BY <1>1 DEF FreeNodesOK
    <3> QED BY <1>1, <1>3, <2>1, <2>4, <3>1, BlockTypes
  <2>7. \A f \in BlockCallers : LabelOK(f)'
    <3>1. ASSUME NEW f \in BlockCallers \ {e}
          PROVE  LabelOK(f)'
      <4>1. /\ bqPc'[f] = bqPc[f] /\ bqLoc'[f] = bqLoc[f] /\ bqVal'[f] = bqVal[f]
            /\ bqBatch'[f] = bqBatch[f]
        BY <1>1, <2>1, OthersKept
      <4> QED BY <1>1, <4>1 DEF LabelOK
    <3> QED BY <2>1, <3>1
  <2>8. BlocksOK'
    BY <1>3, <2>1, <2>3, PoolStep, AllocatorsApart DEF BlocksOK
  <2> QED BY <2>3, <2>5, <2>6, <2>7, <2>8 DEF BlockInv
<1> QED BY <1>2, <1>3 DEF BlockNext
-----------------------------------------------------------------------------
(* The start.                                                              *)

\* The queue starts as LFThreadQueue does, with one slice for its nodes.
LEMMA BlockInvInit ==
    ASSUME lf_block_queue_init
    PROVE  P!Init /\ BlockInv
<1> DEFINE p == FirstNode[1]
<1>1. p \in NodePages /\ FirstNode = <<p, 0>> /\ FirstNode \in BlockNodes
  BY BlockQueueAssumption DEF FirstNode, BlockNodes
<1>2. /\ bqNext = LinkedPage([n \in BlockNodes |-> NoBlock], p) /\ bqNodes = <<p, 1>>
      /\ bqFree = BlockNodes \ {FirstNode} /\ bqPages = {p}
      /\ bqPc = [e \in BlockCallers |-> "idle"] /\ bqLoc = [e \in BlockCallers |-> B!NoLoc]
      /\ bqBatch = [e \in BlockCallers |-> NoBatch] /\ bqPool = QueuedBlocks
      /\ bqVal = [e \in BlockCallers |-> NoBlock]
  BY DEF lf_block_queue_init
<1> HIDE DEF p
<1>3. Allocating = {}
  BY <1>2 DEF Allocating, AllocLabels
<1>4. P!Init
  <2>1. bqNext[FirstNode] = NoBlock
    <3>1. FirstNode[2] = 0
      BY <1>1
    <3> QED BY <1>1, <1>2, <3>1 DEF LinkedPage
  <2>2. tqNext = [n \in BlockNodes |-> NoBlock]
    BY <1>2, <2>1 DEF tqNext
  <2>3. tqData = [n \in BlockNodes |-> NoBlock]
    BY DEF tqData, lf_block_queue_init
  <2>4. tqPool = QueuedBlocks
    BY <1>2, <1>3 DEF tqPool
  <2>5. /\ tqPc = [e \in BlockCallers |-> "idle"] /\ tqVal = [e \in BlockCallers |-> NoBlock]
        /\ tqLoc = [e \in BlockCallers |-> B!NoLoc]
    BY <1>2 DEF tqPc, tqVal, tqLoc, AllocLabels, BatchLabels
  <2> QED
    BY <2>2, <2>3, <2>4, <2>5
    DEF lf_block_queue_init, P!Init, P!Execs, BlockCallers, P!NoLoc, B!NoLoc, P!NoScan, B!NoScan
<1>5. P!AccountInv
  BY <1>4, Instance, P!FifoInvInit, P!AccountInit DEF P!AccountInv
<1>6. \A n \in BlockNodes : bqNext[n] =
          IF n[1] # p \/ n[2] = 0 THEN NoBlock
          ELSE IF n[2] < NodesPerPage - 1 THEN <<p, n[2] + 1>> ELSE NoBlock
  BY <1>2 DEF LinkedPage
<1>7. BlockTypeOK
  <2>1. bqNext \in [BlockNodes -> NodeOrNone]
    <3>1. ASSUME NEW n \in BlockNodes, n[1] = p, n[2] < NodesPerPage - 1
          PROVE  <<p, n[2] + 1>> \in BlockNodes
      BY <1>1, <3>1, BlockQueueAssumption DEF BlockNodes
    <3>2. \A n \in BlockNodes : bqNext[n] \in NodeOrNone
      BY <1>6, <3>1 DEF NodeOrNone
    <3> QED BY <1>2, <3>2 DEF LinkedPage
  <2>2. <<p, 1>> \in BlockNodes
    BY <1>1, BlockQueueAssumption DEF BlockNodes
  <2>3. /\ bqData = [n \in BlockNodes |-> NoBlock] /\ bqRcount = [e \in BlockCallers |-> 0]
    BY DEF lf_block_queue_init
  <2>4. bqPc \in [BlockCallers -> QueueLabels \cup AllocLabels \cup BatchLabels]
    BY <1>2 DEF QueueLabels, P!OtherLabels
  <2>5. bqLoc \in [BlockCallers -> P!LocType]
    BY <1>2 DEF B!NoLoc, P!LocType, P!NodeOrNull
  <2>6. bqBatch \in [BlockCallers -> [head : NodeOrNone, tail : NodeOrNone]]
    BY <1>2 DEF NoBatch, NodeOrNone
  <2>7. bqNodes \in NodeOrNone /\ bqPages \subseteq NodePages
    BY <1>1, <1>2, <2>2 DEF NodeOrNone
  <2>8. bqVal \in [BlockCallers -> QueuedBlocks \cup {NoBlock}]
    BY <1>2
  <2> QED BY <1>2, <2>1, <2>3, <2>4, <2>5, <2>6, <2>7, <2>8 DEF BlockTypeOK
<1>8. \A e \in BlockCallers : LabelOK(e)
  BY <1>2 DEF LabelOK, P!SortLabels, AllocLabels
<1>9. FreeNodesOK
  <2>1. PageLinked(bqNext, p)
    <3>1. ASSUME NEW k \in 1 .. NodesPerPage - 1
          PROVE  bqNext[<<p, k>>] = IF k < NodesPerPage - 1 THEN <<p, k + 1>> ELSE NoBlock
      <4>1. <<p, k>> \in BlockNodes /\ k # 0
        BY <1>1, BlockQueueAssumption DEF BlockNodes
      <4> QED BY <1>6, <4>1
    <3> QED BY <3>1 DEF PageLinked
  <2>2. PICK stack \in Seq(BlockNodes) :
            /\ P!Trail(bqNext, bqNodes, stack)
            /\ \A x \in BlockNodes : x \in P!NodesOf(stack) <=> x[1] = p /\ x # <<p, 0>>
    BY <1>1, <1>2, <2>1, SliceStack
  <2>3. PICK none : none = <<>>
    OBVIOUS
  <2>4. none \in Seq(BlockNodes) /\ Len(none) = 0 /\ P!NodesOf(none) = {}
    BY <2>3 DEF P!NodesOf
  <2>5. PICK bat \in [BlockCallers -> Seq(BlockNodes)] : \A e \in BlockCallers : bat[e] = none
    <3>1. [e \in BlockCallers |-> none] \in [BlockCallers -> Seq(BlockNodes)]
      BY <2>4
    <3> QED BY <3>1
  <2>6. \A x : Live(x) <=> x = p
    BY <1>2 DEF Live
  <2>7. \A e \in BlockCallers : Segment(bqNext, bqBatch[e], bat[e])
    BY <1>2, <2>4, <2>5 DEF Segment
  <2>8. FreePlaced(stack, bat)
    BY <1>1, <1>2, <2>2, <2>4, <2>5, <2>6 DEF FreePlaced
  <2>9. \A e \in BlockCallers : AllocOK(e)
    BY <1>2 DEF AllocOK
  <2> QED BY <2>2, <2>7, <2>8, <2>9 DEF FreeNodesOK, FreeListsOK
<1>10. BlocksOK
  <2>1. P!Fifo!FifoInit
    BY <1>4, Instance, P!FifoStart
  <2>2. P!Contents = <<>> /\ P!AllHeld = [e \in BlockCallers |-> NoBlock] /\ tqPool = QueuedBlocks
    BY <2>1 DEF P!Fifo!FifoInit, P!AllHeld, P!Held, P!Execs, BlockCallers
  <2>3. PICK q : q = P!Contents
    OBVIOUS
  <2>4. q \in Seq(QueuedBlocks) /\ Len(q) = 0
    BY <2>2, <2>3
  <2>5. OnePlace(q, P!AllHeld, tqPool)
    BY <2>2, <2>4, BlockQueueAssumption DEF OnePlace
  <2> QED BY <1>3, <2>3, <2>5 DEF BlocksOK
<1>11. SlicesApart
  BY <1>2 DEF SlicesApart
<1> QED BY <1>4, <1>5, <1>7, <1>8, <1>9, <1>10, <1>11 DEF BlockInv
-----------------------------------------------------------------------------
(* What follows.                                                           *)

\* The two instances have the same late links.
LEMMA SameQuiet == Undisturbed => Quiet
<1> SUFFICES ASSUME NEW e \in BlockCallers, P!LateLink(e)  PROVE Queue!LateLink(e)
  BY DEF Undisturbed, Quiet
<1>1. Queue!EnqueueCas(e)
  BY DEF P!LateLink, P!EnqueueCas, Queue!EnqueueCas, P!Goto, Queue!Goto, P!Retry, Queue!Retry,
     P!Local, Queue!Local, P!Onward, Queue!Onward, P!hazardVars, Queue!hazardVars, P!callVars, Queue!callVars,
     P!NoLoc, Queue!NoLoc
<1>2. Queue!OnChain(bqHead) = P!OnChain(bqHead)
  BY DEF P!OnChain, Queue!OnChain, P!Chain, Queue!Chain, P!Walk, Queue!Walk,
     P!Cardinality, Queue!Cardinality
<1> QED BY <1>1, <1>2 DEF P!LateLink, Queue!LateLink

\* A step of the instance whose lemmas are used is one of the queue shown.
LEMMA SameSteps ==
    ASSUME NEW e \in BlockCallers, P!Step(e)
    PROVE  Queue!Step(e)
<1> USE DEF P!Goto, Queue!Goto, P!Local, Queue!Local, P!Hazard, Queue!Hazard, P!Retry, Queue!Retry,
        P!Onward, Queue!Onward, P!NoLoc, Queue!NoLoc, P!NoScan, Queue!NoScan,
        P!queueVars, Queue!queueVars, P!hazardVars, Queue!hazardVars, P!callVars, Queue!callVars
<1>1. P!EnqueueStart(e) => Queue!EnqueueStart(e)
  BY DEF P!EnqueueStart, Queue!EnqueueStart
<1>2. P!EnqueueTail(e) => Queue!EnqueueTail(e)
  BY DEF P!EnqueueTail, Queue!EnqueueTail
<1>3. P!EnqueueHazard(e) => Queue!EnqueueHazard(e)
  BY DEF P!EnqueueHazard, Queue!EnqueueHazard
<1>4. P!EnqueueCheck(e) => Queue!EnqueueCheck(e)
  BY DEF P!EnqueueCheck, Queue!EnqueueCheck
<1>5. P!EnqueueNext(e) => Queue!EnqueueNext(e)
  BY DEF P!EnqueueNext, Queue!EnqueueNext
<1>6. P!EnqueueAgain(e) => Queue!EnqueueAgain(e)
  BY DEF P!EnqueueAgain, Queue!EnqueueAgain
<1>7. P!EnqueueHelp(e) => Queue!EnqueueHelp(e)
  BY DEF P!EnqueueHelp, Queue!EnqueueHelp
<1>8. P!EnqueueCas(e) => Queue!EnqueueCas(e)
  BY DEF P!EnqueueCas, Queue!EnqueueCas
<1>9. P!EnqueueSwing(e) => Queue!EnqueueSwing(e)
  BY DEF P!EnqueueSwing, Queue!EnqueueSwing
<1>10. P!EnqueueDone(e) => Queue!EnqueueDone(e)
  BY DEF P!EnqueueDone, Queue!EnqueueDone
<1>11. P!DequeueHead(e) => Queue!DequeueHead(e)
  BY DEF P!DequeueHead, Queue!DequeueHead
<1>12. P!DequeueHazard(e) => Queue!DequeueHazard(e)
  BY DEF P!DequeueHazard, Queue!DequeueHazard
<1>13. P!DequeueCheck(e) => Queue!DequeueCheck(e)
  BY DEF P!DequeueCheck, Queue!DequeueCheck
<1>14. P!DequeueTail(e) => Queue!DequeueTail(e)
  BY DEF P!DequeueTail, Queue!DequeueTail
<1>15. P!DequeueNext(e) => Queue!DequeueNext(e)
  BY DEF P!DequeueNext, Queue!DequeueNext
<1>16. P!DequeueHazardNext(e) => Queue!DequeueHazardNext(e)
  BY DEF P!DequeueHazardNext, Queue!DequeueHazardNext
<1>17. P!DequeueAgain(e) => Queue!DequeueAgain(e)
  BY DEF P!DequeueAgain, Queue!DequeueAgain
<1>18. P!DequeueHelp(e) => Queue!DequeueHelp(e)
  BY DEF P!DequeueHelp, Queue!DequeueHelp
<1>19. P!DequeueCas(e) => Queue!DequeueCas(e)
  BY DEF P!DequeueCas, Queue!DequeueCas
<1>20. P!DequeueData(e) => Queue!DequeueData(e)
  BY DEF P!DequeueData, Queue!DequeueData
<1>21. P!DequeueUnhazard(e) => Queue!DequeueUnhazard(e)
  BY DEF P!DequeueUnhazard, Queue!DequeueUnhazard
<1>22. P!DequeueEmpty(e) => Queue!DequeueEmpty(e)
  BY DEF P!DequeueEmpty, Queue!DequeueEmpty
<1>23. P!DequeueDone(e) => Queue!DequeueDone(e)
  BY DEF P!DequeueDone, Queue!DequeueDone
<1>24. P!Retire(e) => Queue!Retire(e)
  BY DEF P!Retire, Queue!Retire
<1>25. P!Scan(e) => Queue!Scan(e)
  BY DEF P!Scan, Queue!Scan
<1>26. P!ScanStart(e) => Queue!ScanStart(e)
  BY DEF P!ScanStart, Queue!ScanStart
<1>27. P!ScanNext(e) => Queue!ScanNext(e)
  BY DEF P!ScanNext, Queue!ScanNext
<1>28. P!ScanSort(e) => Queue!ScanSort(e)
  BY DEF P!ScanSort, Queue!ScanSort
<1> QED
  BY <1>1, <1>2, <1>3, <1>4, <1>5, <1>6, <1>7, <1>8, <1>9, <1>10, <1>11, <1>12, <1>13, <1>14,
     <1>15, <1>16, <1>17, <1>18, <1>19, <1>20, <1>21, <1>22, <1>23, <1>24, <1>25, <1>26, <1>27, <1>28
  DEF P!Step, Queue!Step

\* Until a stale pop or a late link, every step of the partial block queue is a
\* step of the queue of LFThreadQueue or is not seen there, with any number of
\* executors enqueuing: whatever slices, the stack of free nodes and the batches
\* do, a node is handed out only after it was free, and one in use keeps its
\* fields.  A pop of a node that left the stack and came back with the same
\* successor does no harm.
THEOREM AllocatorIsHidden ==
    BlockSpec /\ [][Undisturbed]_blockVars => ImplementsThreadQueue
<1>1. [Undisturbed]_blockVars => [Quiet]_blockVars
  BY SameQuiet
<1>2. lf_block_queue_init => BlockInv
  BY BlockInvInit
<1>3. P!ContentsOK
  BY Instance, P!ContentsRight
<1>4. BlockInv /\ P!ContentsOK /\ P!ContentsOK' /\ [BlockNext]_blockVars /\ [Undisturbed]_blockVars
      => BlockInv'
  BY <1>1, BlockInvStep
<1>5. BlockInv /\ [BlockNext]_blockVars => [Queue!Next]_(Queue!vars)
  <2> SUFFICES ASSUME BlockInv, [BlockNext]_blockVars  PROVE [Queue!Next]_(Queue!vars)
    OBVIOUS
  <2>1. CASE UNCHANGED blockVars
    <3>1. UNCHANGED Queue!vars
      BY <2>1 DEF blockVars, Queue!vars, tqNext, tqData, tqPool, tqPc, tqVal, tqLoc, Allocating
    <3> QED BY <3>1
  <2>2. ASSUME NEW e \in BlockCallers, BlockStep(e)
        PROVE  [Queue!Next]_(Queue!vars)
    <3>1. CASE P!Step(e)
      <4>1. e \in Queue!Execs /\ Queue!Step(e)
        BY <3>1, SameSteps DEF Queue!Execs, BlockCallers
      <4> QED BY <4>1 DEF Queue!Next
    <3>2. CASE UNCHANGED P!vars
      BY <3>2 DEF P!vars, Queue!vars
    <3> QED BY <2>2, <3>1, <3>2, StepShown
  <2> QED BY <2>1, <2>2 DEF BlockNext
<1> QED BY <1>2, <1>3, <1>4, <1>5, PTL DEF BlockSpec, ImplementsThreadQueue
-----------------------------------------------------------------------------
(* The FIFO.                                                               *)

\* The lemmas about lists, for the links of the code itself.
W == INSTANCE WorkshareProofs WITH
    NumExecs <- BlockExecs, Enqueuers <- BlockEnqueuers, FairExecs <- {},
    Threads <- QueuedBlocks, NoThread <- NoBlock,
    Nodes <- BlockNodes, Sentinel <- FirstNode, NoNode <- NoBlock,
    Threshold <- HptrThreshold,
    head <- bqHead, tail <- bqTail, next <- bqNext, data <- bqData, hp <- bqHp,
    rlist <- bqRlist, rcount <- bqRcount, free <- bqNodes, pool <- bqPool,
    pc <- bqPc, val <- bqVal, loc <- bqLoc, scan <- bqScan, sawEmpty <- bqSaw

\* What it assumes is assumed of the queue with its allocator hidden.
LEMMA InstanceW == W!QueueAssumption
BY Instance DEF P!QueueAssumption, W!QueueAssumption, P!Execs, W!Execs, P!IsFiniteSet, W!IsFiniteSet

\* Chain means the same in both.
LEMMA SameChain == \A n : B!Chain(n) = W!Chain(n)
BY DEF B!Chain, W!Chain, B!Walk, W!Walk, B!Cardinality, W!Cardinality
\* So the descriptors in the queue are the same.
LEMMA SameContents == B!Contents = W!Contents
BY SameChain DEF B!Contents, W!Contents

\* Who holds what, when those of alloc are about to enqueue v.
WithAlloc(alloc, v, held) == [f \in BlockCallers |-> IF f \in alloc THEN v[f] ELSE held[f]]

\* Who holds what, when the allocator is not hidden.
Given == WithAlloc(Allocating, bqVal, P!AllHeld)

SeenOK ==
    /\ B!Contents = P!Contents
    /\ W!AllHeld = Given
    /\ bqPool = tqPool \ {bqVal[f] : f \in Allocating}

\* Hiding the allocator moves the descriptor it works for back to the pool.
LEMMA SeenRight == BlockInv => SeenOK
<1> SUFFICES ASSUME BlockInv PROVE SeenOK
  OBVIOUS
<1>1. /\ BlockTypeOK /\ P!QueueTypeOK /\ P!HazardInv /\ BlocksOK /\ P!FifoInv
  BY DEF BlockInv, P!AccountInv, P!FifoInv, P!HazardInv
<1>2. B!Contents = P!Contents
  <2>1. PICK q : P!Path(q)
    BY <1>1 DEF P!FifoInv
  <2>2. PICK kind \in [BlockNodes -> P!Kinds], by \in [BlockNodes -> P!Execs] : P!PlacesOK(kind, by)
    BY <1>1 DEF P!HazardInv
  <2>3. \A i \in 1 .. Len(q) : q[i] \in BlockNodes \ bqFree
    <3>1. \A i \in 1 .. Len(q) : q[i] \in BlockNodes /\ kind[q[i]] = "queue"
      BY <1>1, <2>1, <2>2, Instance, P!PathInQueue
    <3>2. \A n \in bqFree : kind[n] = "free"
      BY <2>2 DEF P!PlacesOK, P!Shared
    <3> QED BY <3>1, <3>2
  <2>4. \A n \in BlockNodes \ bqFree : tqNext[n] = bqNext[n] /\ tqData[n] = bqData[n]
    BY DEF tqNext, tqData
  <2>5. Len(q) \in Nat /\ Len(q) > 0 /\ Len(q) \in 1 .. Len(q)
    BY <2>1 DEF P!Path
  <2>6. \A i \in 1 .. Len(q) - 1 : i \in 1 .. Len(q) /\ i + 1 \in 1 .. Len(q)
    BY <2>5
  <2>7. W!Path(q)
    BY <2>1, <2>3, <2>4, <2>5, <2>6 DEF P!Path, W!Path
  <2>8. W!Contents = [i \in 1 .. Len(q) - 1 |-> bqData[q[i + 1]]]
    BY <2>7, InstanceW, W!ContentsOfPath
  <2>9. P!Contents = [i \in 1 .. Len(q) - 1 |-> tqData[q[i + 1]]]
    BY <2>1, Instance, P!ContentsOfPath
  <2> QED BY <2>3, <2>4, <2>6, <2>8, <2>9, SameContents
<1>3. W!AllHeld = Given
  <2>1. ASSUME NEW f \in BlockCallers
        PROVE  W!Held(f) = Given[f]
    <3>1. CASE f \in Allocating
      BY <3>1 DEF W!Held, WithAlloc, Given, Allocating, AllocLabels
    <3>2. CASE f \notin Allocating
      <4>1. P!AllHeld[f] = P!Held(f)
        BY DEF P!AllHeld, P!Execs, BlockCallers
      <4>2. CASE bqPc[f] = "d_data"
        <5>1. tqPc[f] = "d_data" /\ tqLoc[f] = bqLoc[f]
          BY <4>2 DEF tqPc, tqLoc, AllocLabels, BatchLabels
        <5>2. tqLoc[f].next \in BlockNodes \ bqFree
          BY <1>1, <5>1, InUse DEF P!SuccessorLabels
        <5> QED BY <3>2, <4>1, <4>2, <5>1, <5>2 DEF W!Held, P!Held, WithAlloc, Given, tqData
      <4>3. CASE bqPc[f] # "d_data"
        <5>1. tqPc[f] # "d_data" /\ tqVal[f] = bqVal[f]
          BY <3>2, <4>3 DEF tqPc, tqVal, Allocating
        <5> QED BY <3>2, <4>1, <4>3, <5>1 DEF W!Held, P!Held, WithAlloc, Given
      <4> QED BY <4>2, <4>3
    <3> QED BY <3>1, <3>2
  <2> QED BY <2>1 DEF W!AllHeld, W!Execs, BlockCallers, WithAlloc, Given
<1>4. bqPool = tqPool \ {bqVal[f] : f \in Allocating}
  BY <1>1 DEF BlocksOK, tqPool
<1> QED BY <1>2, <1>3, <1>4 DEF SeenOK

\* A step of the FIFO stays one when some descriptors outside are with
\* executors that are about to enqueue them, and take no part in it.
LEMMA MoveSeen ==
    ASSUME NEW q, NEW held, NEW outside, OnePlace(q, held, outside),
           NEW q2, NEW held2, NEW outside2, OnePlace(q2, held2, outside2),
           FifoMove(q, held, outside, q2, held2, outside2),
           NEW e \in BlockCallers, \A f \in BlockCallers \ {e} : held2[f] = held[f],
           NEW alloc, e \notin alloc, NEW v, NEW taken,
           taken \subseteq outside, taken \subseteq outside2
    PROVE  MoveBy(e, q, WithAlloc(alloc, v, held), outside \ taken,
                  q2, WithAlloc(alloc, v, held2), outside2 \ taken)
<1>a. PICK given, given2 :
          given = WithAlloc(alloc, v, held) /\ given2 = WithAlloc(alloc, v, held2)
  OBVIOUS
<1>b. /\ given = [f \in BlockCallers |-> IF f \in alloc THEN v[f] ELSE held[f]]
      /\ given2 = [f \in BlockCallers |-> IF f \in alloc THEN v[f] ELSE held2[f]]
  BY <1>a DEF WithAlloc
<1>1. /\ q \in Seq(QueuedBlocks) /\ held \in [BlockCallers -> QueuedBlocks \cup {NoBlock}]
      /\ outside \subseteq QueuedBlocks /\ NoBlock \notin QueuedBlocks
      /\ held[e] \notin outside /\ held2[e] \notin outside2
  BY BlockQueueAssumption DEF OnePlace
<1>2. q # <<>> => Head(q) \in QueuedBlocks
  BY <1>1
<1>3. PICK d \in BlockCallers : MoveBy(d, q, held, outside, q2, held2, outside2)
  BY DEF FifoMove
<1>4. d = e
  <2>1. held2[d] # held[d]
    BY <1>1, <1>2, <1>3 DEF MoveBy
  <2> QED BY <2>1
<1>5. /\ given[e] = held[e] /\ given2[e] = held2[e]
      /\ \A x : held2 = [held EXCEPT ![e] = x] => given2 = [given EXCEPT ![e] = x]
  <2>1. given[e] = held[e] /\ given2[e] = held2[e]
    BY <1>b
  <2>2. ASSUME NEW x, held2 = [held EXCEPT ![e] = x]
        PROVE  given2 = [given EXCEPT ![e] = x]
    <3>1. held2[e] = x
      BY <1>1, <2>2
    <3>2. \A f \in BlockCallers : given2[f] = IF f = e THEN x ELSE given[f]
      BY <1>b, <3>1
    <3>3. [given EXCEPT ![e] = x] = [f \in BlockCallers |-> IF f = e THEN x ELSE given[f]]
      BY <1>b
    <3> QED BY <1>b, <3>2, <3>3
  <2> QED BY <2>1, <2>2
<1> SUFFICES MoveBy(e, q, given, outside \ taken, q2, given2, outside2 \ taken)
  BY <1>a
<1>6. CASE \E b \in outside : /\ held[e] = NoBlock /\ held2 = [held EXCEPT ![e] = b]
                              /\ outside2 = outside \ {b} /\ q2 = q
  <2>1. PICK b \in outside : /\ held[e] = NoBlock /\ held2 = [held EXCEPT ![e] = b]
                             /\ outside2 = outside \ {b} /\ q2 = q
    BY <1>6
  <2>2. b \in outside \ taken /\ outside2 \ taken = (outside \ taken) \ {b}
    BY <2>1
  <2> QED BY <1>5, <2>1, <2>2 DEF MoveBy
<1>7. CASE /\ held[e] # NoBlock /\ held2 = [held EXCEPT ![e] = NoBlock]
           /\ q2 = Append(q, held[e]) /\ outside2 = outside
  BY <1>5, <1>7 DEF MoveBy
<1>8. CASE /\ held[e] = NoBlock /\ q # <<>> /\ held2 = [held EXCEPT ![e] = Head(q)]
           /\ q2 = Tail(q) /\ outside2 = outside
  BY <1>5, <1>8 DEF MoveBy
<1>9. CASE /\ held[e] # NoBlock /\ held2 = [held EXCEPT ![e] = NoBlock]
           /\ outside2 = outside \cup {held[e]} /\ q2 = q
  <2>1. outside2 \ taken = (outside \ taken) \cup {held[e]}
    BY <1>1, <1>9
  <2> QED BY <1>5, <1>9, <2>1 DEF MoveBy
<1> QED BY <1>3, <1>4, <1>6, <1>7, <1>8, <1>9 DEF MoveBy

\* Who has got its node goes on to lf_tail.
LEMMA FromAllocator ==
    ASSUME BlockTypeOK, NEW e \in BlockCallers, BlockStep(e),
           bqPc[e] \in AllocLabels, bqPc'[e] \notin AllocLabels
    PROVE  bqPc'[e] = "e_tail" /\ UNCHANGED <<bqPool, bqVal>>
<1>1. AllocRead(e) \/ AllocNext(e) \/ AllocCas(e) \/ AllocPage(e) \/ AllocPageCas(e)
  <2>1. ~lf_block_queue_enqueue(e) /\ ~lf_block_queue_dequeue(e)
    BY DEF AllocLabels, lf_block_queue_enqueue, lf_block_queue_dequeue, BlockCall
  <2>2. ~BlockEnqueue(e)
    BY DEF AllocLabels, BlockEnqueue, B!EnqueueTail, B!EnqueueHazard, B!EnqueueCheck,
       B!EnqueueNext, B!EnqueueAgain, B!EnqueueHelp, B!EnqueueCas, B!EnqueueSwing, B!EnqueueDone
  <2>3. ~BlockDequeue(e)
    BY DEF AllocLabels, BlockDequeue, B!DequeueHead, B!DequeueHazard, B!DequeueCheck,
       B!DequeueTail, B!DequeueNext, B!DequeueHazardNext, B!DequeueAgain, B!DequeueHelp,
       B!DequeueCas, B!DequeueData, B!DequeueUnhazard, B!DequeueEmpty, B!DequeueDone
  <2>4. ~BlockRetire(e) /\ ~BlockScanNext(e) /\ ~BlockScanSort(e) /\ ~BatchLink(e) /\ ~BatchCas(e)
    BY DEF AllocLabels, BlockRetire, B!Retire, B!Scan, B!ScanStart, BlockScanNext,
       BlockScanSort, BatchLink, BatchCas
  <2> QED BY <2>1, <2>2, <2>3, <2>4 DEF BlockStep
<1>2. UNCHANGED <<bqPool, bqVal>>
  BY <1>1 DEF AllocRead, AllocNext, AllocCas, AllocPage, AllocPageCas, blockCallVars
<1>3. bqPc'[e] \in AllocLabels \cup {"e_tail"}
  BY <1>1 DEF AllocRead, AllocNext, AllocCas, AllocPage, AllocPageCas, Filled, B!Goto,
     BlockTypeOK, AllocLabels
<1> QED BY <1>2, <1>3

\* A step of an executor that is not the allocator's, before or after it.
LEMMA QueueMoves ==
    ASSUME BlockInv, BlockInv', SeenOK, SeenOK', P!ContentsOK, P!ContentsOK', Quiet,
           NEW e \in BlockCallers, BlockFrame(e), P!Step(e),
           bqPc[e] \notin AllocLabels, bqPc'[e] \notin AllocLabels
    PROVE  \/ UNCHANGED <<B!Contents, W!AllHeld, bqPool>>
           \/ MoveBy(e, B!Contents, W!AllHeld, bqPool, B!Contents', W!AllHeld', bqPool')
<1>1. /\ BlockTypeOK /\ P!QueueTypeOK /\ P!ValuesOK /\ P!HazardInv /\ e \in P!Execs
  BY DEF BlockInv, P!AccountInv, P!FifoInv, P!HazardInv, P!Execs, BlockCallers
<1>2. /\ Allocating' = Allocating /\ e \notin Allocating
      /\ \A f \in Allocating : f \in BlockCallers \ {e} /\ bqVal'[f] = bqVal[f]
  BY <1>1, OthersKept DEF Allocating
<1> DEFINE taken == {bqVal[f] : f \in Allocating}
<1>3. {bqVal[f] : f \in Allocating}' = taken
  BY <1>2
<1>4. taken \subseteq tqPool /\ taken \subseteq tqPool'
  BY <1>3 DEF tqPool
<1>5. \A f \in BlockCallers \ {e} : P!AllHeld'[f] = P!AllHeld[f]
  <2>1. PICK kind \in [BlockNodes -> P!Kinds], by \in [BlockNodes -> P!Execs] : P!PlacesOK(kind, by)
    BY <1>1 DEF P!HazardInv
  <2>2. P!AllHeld' = [P!AllHeld EXCEPT ![e] = P!Held(e)']
    BY <1>1, <2>1, Instance, P!HeldStep
  <2> QED BY <2>2
<1> HIDE DEF taken
<1>6. PICK q, held, outside : q = P!Contents /\ held = P!AllHeld /\ outside = tqPool
  OBVIOUS
<1>7. PICK q2, held2, outside2 : q2 = P!Contents' /\ held2 = P!AllHeld' /\ outside2 = tqPool'
  OBVIOUS
<1>8. PICK alloc, v : alloc = Allocating /\ v = bqVal
  OBVIOUS
<1> DEFINE given == WithAlloc(alloc, v, held)
<1> DEFINE given2 == WithAlloc(alloc, v, held2)
<1>9. given = Given
  BY <1>6, <1>8 DEF Given
<1>10. given2 = Given'
  <2>1. \A f \in BlockCallers : f \in alloc => bqVal'[f] = v[f]
    BY <1>2, <1>8
  <2> QED BY <1>2, <1>7, <1>8, <2>1 DEF Given, WithAlloc
<1> HIDE DEF given, given2
<1>11. /\ B!Contents = q /\ B!Contents' = q2 /\ W!AllHeld = given /\ W!AllHeld' = given2
       /\ bqPool = outside \ taken /\ bqPool' = outside2 \ taken
  BY <1>3, <1>6, <1>7, <1>9, <1>10 DEF SeenOK, taken
<1>12. OnePlace(q, held, outside) /\ OnePlace(q2, held2, outside2)
  <2>1. OnePlace(P!Contents, P!AllHeld, tqPool) /\ OnePlace(P!Contents, P!AllHeld, tqPool)'
    BY DEF BlockInv, BlocksOK
  <2> QED BY <1>6, <1>7, <2>1 DEF OnePlace
<1>13. UNCHANGED <<P!Contents, P!AllHeld, tqPool>> \/ FifoMove(q, held, outside, q2, held2, outside2)
  <2>1. P!Next
    BY <1>1 DEF P!Next
  <2> QED BY <1>6, <1>7, <2>1, HiddenMoves DEF Quiet
<1>14. CASE UNCHANGED <<P!Contents, P!AllHeld, tqPool>>
  BY <1>6, <1>7, <1>11, <1>14 DEF given, given2
<1>15. CASE FifoMove(q, held, outside, q2, held2, outside2)
  <2>1. \A f \in BlockCallers \ {e} : held2[f] = held[f]
    BY <1>5, <1>6, <1>7
  <2>2. e \notin alloc /\ taken \subseteq outside /\ taken \subseteq outside2
    BY <1>2, <1>4, <1>6, <1>7, <1>8
  <2>3. MoveBy(e, q, given, outside \ taken, q2, given2, outside2 \ taken)
    BY <1>12, <1>15, <2>1, <2>2, MoveSeen DEF given, given2
  <2> QED BY <1>11, <2>3
<1> QED BY <1>13, <1>14, <1>15

\* The allocator's steps are hidden but the one that gives the node: it starts
\* the call where the allocator is hidden, and there only.
LEMMA AllocMoves ==
    ASSUME BlockInv, BlockInv', SeenOK, SeenOK', P!ContentsOK, P!ContentsOK', Quiet,
           NEW e \in BlockCallers, BlockFrame(e), BlockStep(e),
           bqPc[e] \in AllocLabels \/ bqPc'[e] \in AllocLabels
    PROVE  \/ UNCHANGED <<B!Contents, W!AllHeld, bqPool>>
           \/ MoveBy(e, B!Contents, W!AllHeld, bqPool, B!Contents', W!AllHeld', bqPool')
<1>1. /\ BlockTypeOK /\ P!QueueTypeOK /\ P!ValuesOK /\ P!HazardInv /\ e \in P!Execs /\ BlocksOK
      /\ \A f \in BlockCallers : LabelOK(f)
  BY DEF BlockInv, P!AccountInv, P!FifoInv, P!HazardInv, P!Execs, BlockCallers
<1>2. /\ B!Contents = P!Contents /\ B!Contents' = P!Contents'
      /\ W!AllHeld = Given /\ W!AllHeld' = Given'
  BY DEF SeenOK
<1>3. P!Step(e) \/ UNCHANGED P!vars
  BY StepShown
<1>4. \A f \in BlockCallers \ {e} : bqPc'[f] = bqPc[f] /\ bqVal'[f] = bqVal[f]
  BY <1>1, OthersKept
<1>5. ASSUME bqPc'[e] \in AllocLabels, bqPc[e] = "idle" \/ bqPc[e] \in AllocLabels
      PROVE  UNCHANGED <<P!Contents, P!AllHeld>>
  <2>1. tqPc[e] = "idle" /\ tqPc'[e] = "idle"
    BY <1>5 DEF tqPc, AllocLabels, BatchLabels
  <2>2. ~P!Step(e)
    <3>1. P!EnqueueStart(e) \/ P!DequeueHead(e) => tqPc'[e] # "idle"
      BY <1>1 DEF P!EnqueueStart, P!DequeueHead, P!Goto, P!QueueTypeOK
    <3> QED BY <2>1, <3>1 DEF P!Step, P!EnqueueTail, P!EnqueueHazard, P!EnqueueCheck,
       P!EnqueueNext, P!EnqueueAgain, P!EnqueueHelp, P!EnqueueCas, P!EnqueueSwing,
       P!EnqueueDone, P!DequeueHazard, P!DequeueCheck, P!DequeueTail, P!DequeueNext,
       P!DequeueHazardNext, P!DequeueAgain, P!DequeueHelp, P!DequeueCas, P!DequeueData,
       P!DequeueUnhazard, P!DequeueEmpty, P!DequeueDone, P!Retire, P!Scan, P!ScanStart,
       P!ScanNext, P!ScanSort
  <2>3. UNCHANGED P!vars
    BY <1>3, <2>2
  <2>4. P!Next \/ UNCHANGED P!vars
    BY <2>3
  <2>5. PICK q : P!Path(q)
    BY DEF BlockInv, P!AccountInv, P!FifoInv
  <2>6. P!Path(q)'
    BY <2>3, <2>5 DEF P!vars, P!Path
  <2>7. P!Contents = [i \in 1 .. Len(q) - 1 |-> tqData[q[i + 1]]]
    BY <2>5 DEF P!ContentsOK
  <2>8. P!Contents' = [i \in 1 .. Len(q) - 1 |-> tqData'[q[i + 1]]]
    BY <2>6 DEF P!ContentsOK
  <2> QED BY <2>3, <2>7, <2>8 DEF P!vars, P!AllHeld, P!Held
<1>6. CASE lf_block_queue_enqueue(e) /\ bqPc'[e] \in AllocLabels
  <2>1. bqPc[e] = "idle"
    BY <1>6 DEF lf_block_queue_enqueue, BlockCall
  <2>2. PICK b \in bqPool : bqPool' = bqPool \ {b} /\ bqVal' = [bqVal EXCEPT ![e] = b]
    BY <1>6 DEF lf_block_queue_enqueue
  <2>3. P!Contents' = P!Contents /\ P!AllHeld' = P!AllHeld
    BY <1>5, <1>6, <2>1
  <2>4. e \notin Allocating /\ Allocating' = Allocating \cup {e}
    BY <1>4, <1>6, <2>1 DEF Allocating, AllocLabels
  <2>5. P!AllHeld[e] = NoBlock
    <3>1. tqPc[e] = "idle"
      BY <2>1 DEF tqPc, AllocLabels, BatchLabels
    <3>2. tqVal[e] = NoBlock
      BY <1>1, <3>1 DEF P!ValuesOK, P!EmptyHanded
    <3> QED BY <1>1, <3>1, <3>2 DEF P!AllHeld, P!Held
  <2>6. Given[e] = NoBlock
    BY <2>4, <2>5 DEF Given, WithAlloc
  <2>7. Given' = [Given EXCEPT ![e] = b]
    <3>1. \A f \in BlockCallers : Given'[f] = IF f = e THEN b ELSE Given[f]
      BY <1>1, <1>4, <2>2, <2>3, <2>4 DEF Given, WithAlloc, BlockTypeOK
    <3> QED BY <3>1 DEF Given, WithAlloc
  <2> QED BY <1>2, <2>2, <2>3, <2>6, <2>7 DEF MoveBy
<1>7. CASE bqPc[e] \in AllocLabels /\ bqPc'[e] \in AllocLabels /\ UNCHANGED <<bqPool, bqVal>>
  <2>1. P!Contents' = P!Contents /\ P!AllHeld' = P!AllHeld
    BY <1>5, <1>7
  <2>2. Allocating' = Allocating
    BY <1>4, <1>7 DEF Allocating
  <2> QED BY <1>2, <1>7, <2>1, <2>2 DEF Given
<1>8. CASE bqPc[e] \in AllocLabels /\ bqPc'[e] \notin AllocLabels
  <2>1. bqPc'[e] = "e_tail" /\ UNCHANGED <<bqPool, bqVal>>
    BY <1>1, <1>8, FromAllocator
  <2>2. e \in Allocating /\ Allocating' = Allocating \ {e}
    BY <1>4, <1>8 DEF Allocating
  <2>3. /\ tqPc[e] = "idle" /\ tqPc'[e] = "e_tail" /\ tqVal'[e] = bqVal[e]
        /\ "e_tail" \notin AllocLabels \cup BatchLabels
    BY <1>8, <2>1 DEF tqPc, tqVal, AllocLabels, BatchLabels
  <2>4. P!Step(e)
    BY <1>3, <2>3 DEF P!vars
  <2>5. \A f \in Allocating \ {e} : bqVal[f] # bqVal[e]
    BY <1>1, <2>2 DEF BlocksOK
  <2>6. bqVal[e] \notin tqPool' /\ bqVal[e] \in tqPool
    <3>1. tqPool' = bqPool \cup {bqVal[f] : f \in Allocating \ {e}}
      BY <2>1, <2>2 DEF tqPool
    <3> QED BY <1>1, <2>2, <2>5, <3>1 DEF BlocksOK, tqPool
  <2>7. P!Contents' = P!Contents
    <3>1. P!Next
      BY <1>1, <2>4 DEF P!Next
    <3>2. \/ UNCHANGED <<P!Contents, P!AllHeld, tqPool>>
          \/ FifoMove(P!Contents, P!AllHeld, tqPool, P!Contents', P!AllHeld', tqPool')
      BY <3>1, HiddenMoves DEF Quiet
    <3> QED BY <2>6, <3>2 DEF FifoMove, MoveBy
  <2>8. \A f \in BlockCallers \ {e} : P!AllHeld'[f] = P!AllHeld[f]
    <3>1. PICK kind \in [BlockNodes -> P!Kinds], by \in [BlockNodes -> P!Execs] : P!PlacesOK(kind, by)
      BY <1>1 DEF P!HazardInv
    <3>2. P!AllHeld' = [P!AllHeld EXCEPT ![e] = P!Held(e)']
      BY <1>1, <2>4, <3>1, Instance, P!HeldStep
    <3> QED BY <3>2
  <2>9. P!AllHeld'[e] = bqVal[e]
    BY <1>1, <2>3 DEF P!AllHeld, P!Held
  <2>10. \A f \in BlockCallers : Given'[f] = Given[f]
    BY <2>1, <2>2, <2>8, <2>9 DEF Given, WithAlloc
  <2>11. Given' = Given
    BY <2>10 DEF Given, WithAlloc
  <2> QED BY <1>2, <2>1, <2>7, <2>11
<1>9. bqPc'[e] \in AllocLabels =>
          \/ lf_block_queue_enqueue(e)
          \/ bqPc[e] \in AllocLabels /\ UNCHANGED <<bqPool, bqVal>>
  BY <1>1, ToAllocator
<1> QED BY <1>6, <1>7, <1>8, <1>9

\* Every step of the code is a step of the FIFO or none.
LEMMA BlockFifoStep ==
    ASSUME BlockInv, BlockInv', SeenOK, SeenOK', P!ContentsOK, P!ContentsOK',
           [BlockNext]_blockVars, [Quiet]_blockVars
    PROVE  [B!Fifo!FifoNext]_<<B!Contents, W!AllHeld, bqPool>>
<1>1. BlockTypeOK /\ P!QueueTypeOK /\ P!HazardInv /\ \A f \in BlockCallers : LabelOK(f)
  BY DEF BlockInv, P!AccountInv, P!FifoInv, P!HazardInv
<1>2. ASSUME UNCHANGED P!vars, UNCHANGED <<bqPool, bqVal>>, Allocating' = Allocating
      PROVE  UNCHANGED <<B!Contents, W!AllHeld, bqPool>>
  <2>1. PICK q : P!Path(q)
    BY DEF BlockInv, P!AccountInv, P!FifoInv
  <2>2. P!Path(q)'
    BY <1>2, <2>1 DEF P!vars, P!Path
  <2>3. P!Contents = [i \in 1 .. Len(q) - 1 |-> tqData[q[i + 1]]]
    BY <2>1 DEF P!ContentsOK
  <2>4. P!Contents' = [i \in 1 .. Len(q) - 1 |-> tqData'[q[i + 1]]]
    BY <2>2 DEF P!ContentsOK
  <2>5. UNCHANGED <<P!Contents, P!AllHeld>>
    BY <1>2, <2>3, <2>4 DEF P!vars, P!AllHeld, P!Held
  <2> QED BY <1>2, <2>5 DEF SeenOK, Given
<1>3. CASE UNCHANGED blockVars
  <2>1. UNCHANGED P!vars /\ UNCHANGED <<bqPool, bqVal>> /\ Allocating' = Allocating
    BY <1>3 DEF blockVars, P!vars, tqNext, tqData, tqPool, tqPc, tqVal, tqLoc, Allocating
  <2> QED BY <1>2, <2>1
<1>4. ASSUME NEW e \in BlockCallers, BlockStep(e), Quiet
      PROVE  [B!Fifo!FifoNext]_<<B!Contents, W!AllHeld, bqPool>>
  <2>1. BlockFrame(e)
    BY <1>1, <1>4, BlockFrames
  <2>2. P!Step(e) \/ UNCHANGED P!vars
    BY <1>4, StepShown
  <2>3. \/ UNCHANGED <<B!Contents, W!AllHeld, bqPool>>
        \/ MoveBy(e, B!Contents, W!AllHeld, bqPool, B!Contents', W!AllHeld', bqPool')
    <3>1. CASE bqPc[e] \in AllocLabels \/ bqPc'[e] \in AllocLabels
      BY <1>4, <2>1, <3>1, AllocMoves
    <3>2. CASE P!Step(e) /\ bqPc[e] \notin AllocLabels /\ bqPc'[e] \notin AllocLabels
      BY <1>4, <2>1, <3>2, QueueMoves
    <3>3. CASE UNCHANGED P!vars /\ bqPc[e] \notin AllocLabels /\ bqPc'[e] \notin AllocLabels
      <4>1. Allocating' = Allocating /\ \A f \in Allocating : bqVal'[f] = bqVal[f]
        BY <1>1, <2>1, <3>3, OthersKept DEF Allocating
      <4>2. {bqVal[f] : f \in Allocating}' = {bqVal[f] : f \in Allocating}
        BY <4>1
      <4>3. PICK q : P!Path(q)
        BY DEF BlockInv, P!AccountInv, P!FifoInv
      <4>4. P!Path(q)'
        BY <3>3, <4>3 DEF P!vars, P!Path
      <4>5. P!Contents = [i \in 1 .. Len(q) - 1 |-> tqData[q[i + 1]]]
        BY <4>3 DEF P!ContentsOK
      <4>6. P!Contents' = [i \in 1 .. Len(q) - 1 |-> tqData'[q[i + 1]]]
        BY <4>4 DEF P!ContentsOK
      <4>7. UNCHANGED <<P!Contents, P!AllHeld, tqPool>>
        BY <3>3, <4>5, <4>6 DEF P!vars, P!AllHeld, P!Held
      <4>8. Given' = Given
        BY <4>1, <4>7 DEF Given, WithAlloc
      <4> QED BY <4>2, <4>7, <4>8 DEF SeenOK
    <3> QED BY <2>2, <3>1, <3>2, <3>3
  <2>4. CASE MoveBy(e, B!Contents, W!AllHeld, bqPool, B!Contents', W!AllHeld', bqPool')
    <3>1. e \in B!Execs /\ bqPool \subseteq QueuedBlocks
      BY <1>1 DEF B!Execs, BlockCallers, BlockTypeOK
    <3>2. \/ \E t \in QueuedBlocks : B!Fifo!Accept(e, t)
          \/ B!Fifo!Enqueue(e) \/ B!Fifo!Dequeue(e) \/ B!Fifo!Deliver(e)
      BY <2>4, <3>1 DEF MoveBy, B!Fifo!Accept, B!Fifo!Enqueue, B!Fifo!Dequeue,
         B!Fifo!Deliver, W!AllHeld, W!Held, W!Execs, B!Execs
    <3> QED BY <3>1, <3>2 DEF B!Fifo!FifoNext
  <2> QED BY <2>3, <2>4
<1> QED BY <1>3, <1>4 DEF BlockNext

\* The queue starts empty, and every descriptor outside.
LEMMA BlockFifoStart ==
    ASSUME lf_block_queue_init
    PROVE  B!Fifo!FifoInit
<1>1. P!Init /\ BlockInv
  BY BlockInvInit
<1>2. SeenOK
  BY <1>1, SeenRight
<1>3. P!Fifo!FifoInit
  BY <1>1, Instance, P!FifoStart
<1>4. B!Contents = <<>>
  BY <1>2, <1>3 DEF SeenOK, P!Fifo!FifoInit
<1>5. /\ bqPool = QueuedBlocks
      /\ \A e \in BlockCallers : bqPc[e] = "idle" /\ bqVal[e] = NoBlock
  BY DEF lf_block_queue_init
<1>6. B!Execs = BlockCallers
  BY DEF B!Execs, BlockCallers
<1> QED BY <1>4, <1>5, <1>6 DEF B!Fifo!FifoInit

\* Until a stale pop or a late link, lf_block_queue_enqueue and
\* lf_block_queue_dequeue are atomic: with any number of executors enqueuing, the
\* partial block queue is a FIFO that loses, duplicates and reorders no
\* descriptor, also while nodes are taken from slices and given back in batches.
THEOREM AtomicBlockQueue ==
    BlockSpec /\ [][Undisturbed]_blockVars => BlockQueueIsFifo
<1>1. [Undisturbed]_blockVars => [Quiet]_blockVars
  BY SameQuiet
<1>2. lf_block_queue_init => BlockInv /\ B!Fifo!FifoInit
  BY BlockInvInit, BlockFifoStart
<1>3. P!ContentsOK
  BY Instance, P!ContentsRight
<1>4. BlockInv /\ P!ContentsOK /\ P!ContentsOK' /\ [BlockNext]_blockVars /\ [Undisturbed]_blockVars
      => BlockInv'
  BY <1>1, BlockInvStep
<1>5. BlockInv => SeenOK
  BY SeenRight
<1>6. /\ BlockInv /\ BlockInv' /\ SeenOK /\ SeenOK' /\ P!ContentsOK /\ P!ContentsOK'
      /\ [BlockNext]_blockVars /\ [Undisturbed]_blockVars
      => [B!Fifo!FifoNext]_(B!Fifo!fifoVars)
  BY <1>1, BlockFifoStep DEF B!Fifo!fifoVars, W!AllHeld, W!Held, W!Execs, B!Execs
<1> QED BY <1>2, <1>3, <1>4, <1>5, <1>6, PTL
    DEF BlockSpec, BlockQueueIsFifo, B!ImplementsFifo, B!Fifo!FifoSpec
-----------------------------------------------------------------------------
(* A scan frees at least one node.                                         *)

\* Until a scan of the block queue has put a node into its batch it has freed none.
BlockScanOK(e) ==
    /\ P!ScanOK(e)
    /\ bqPc[e] \in P!SortLabels \cup BatchLabels /\ bqBatch[e].head = NoBlock => P!Full(e)

ScanInv == \A e \in BlockCallers : BlockScanOK(e)

\* A scan goes from the table to the sorting and to the batch, which is begun by
\* the first node it frees.
LEMMA BatchBegun ==
    ASSUME BlockTypeOK, P!QueueTypeOK, NEW e \in BlockCallers, BlockFrame(e), LabelOK(e)', BlockStep(e),
           bqPc'[e] \in P!SortLabels \cup BatchLabels, bqBatch'[e].head = NoBlock,
           bqPc[e] \in P!SortLabels \cup BatchLabels,
           bqPc[e] = "s_sort" => bqLoc[e].curr # NoBlock
    PROVE  bqBatch[e].head = NoBlock /\ bqFree' = bqFree
<1>1. BlockScanSort(e) \/ BatchCas(e) \/ (UNCHANGED bqBatch /\ UNCHANGED bqFree)
  <2>1. AllocCas(e) \/ AllocPageCas(e) => bqPc[e] \notin P!SortLabels \cup BatchLabels
    BY DEF AllocCas, AllocPageCas, P!SortLabels, BatchLabels
  <2> QED BY <2>1 DEF BlockFrame
<1>2. CASE BlockScanSort(e)
  <2>1. bqLoc[e].curr # NoBlock
    BY <1>2 DEF BlockScanSort
  <2>2. CASE bqBatch' = [bqBatch EXCEPT ![e] = [head |-> bqLoc[e].curr, tail |-> bqLoc[e].curr]]
    BY <2>1, <2>2 DEF BlockTypeOK
  <2>3. CASE bqBatch[e].head # NoBlock /\ bqBatch' = [bqBatch EXCEPT ![e].tail = bqLoc[e].curr]
    <3>1. bqBatch'[e].head = bqBatch[e].head
      BY <2>3 DEF BlockTypeOK
    <3> QED BY <2>3, <3>1
  <2> QED BY <1>2, <2>2, <2>3 DEF BlockScanSort
<1>3. CASE BatchCas(e)
  <2>1. bqPc'[e] = "d_done" \/ (UNCHANGED bqBatch /\ UNCHANGED bqFree)
    BY <1>3 DEF BatchCas, B!Goto, BlockTypeOK
  <2> QED BY <2>1 DEF P!SortLabels, BatchLabels
<1> QED BY <1>1, <1>2, <1>3

\* What a step that is not seen leaves as it was.
LEMMA ScanUnseen ==
    ASSUME UNCHANGED P!vars, NEW e \in BlockCallers
    PROVE  (P!ScanOK(e)' <=> P!ScanOK(e)) /\ (P!Full(e)' <=> P!Full(e))
<1>1. \A k, l : P!Lists(e, k, l)' <=> P!Lists(e, k, l)
  BY DEF P!vars, P!Lists, P!Unsorted
<1> QED BY <1>1 DEF P!vars, P!ScanOK, P!Full

\* Every step keeps it so.
LEMMA ScanInvStep ==
    ASSUME BlockInv, ScanInv, [BlockNext]_blockVars, [Quiet]_blockVars
    PROVE  ScanInv'
<1>1. /\ BlockTypeOK /\ P!QueueTypeOK /\ P!HazardInv /\ P!AccountInv
      /\ \A f \in BlockCallers : LabelOK(f)
  BY DEF BlockInv, P!AccountInv, P!FifoInv, P!HazardInv
<1>2. CASE UNCHANGED blockVars
  <2>1. UNCHANGED P!vars
    BY <1>2 DEF blockVars, P!vars, tqNext, tqData, tqPool, tqPc, tqVal, tqLoc, Allocating
  <2> QED BY <1>2, <2>1, ScanUnseen DEF ScanInv, BlockScanOK, blockVars
<1>3. ASSUME NEW f \in BlockCallers, BlockStep(f), Quiet, NEW e \in BlockCallers
      PROVE  BlockScanOK(e)'
  <2>1. BlockFrame(f) /\ LabelOK(f)'
    BY <1>1, <1>3, BlockFrames
  <2>2. P!Step(f) \/ UNCHANGED P!vars
    BY <1>3, StepShown
  <2>3. BlockScanOK(e) /\ e \in P!Execs /\ f \in P!Execs
    BY DEF ScanInv, P!Execs, BlockCallers
  <2>4. bqRcount \in [P!Execs -> Nat]
    BY <1>1 DEF BlockTypeOK, P!Execs, BlockCallers
  <2>5. P!Step(f) =>
            /\ P!ScanOK(e)'
            /\ e # f /\ P!Full(e) => P!Full(e)'
            /\ /\ tqPc'[f] \in P!SortLabels
               /\ tqPc[f] \in P!SortLabels => P!Full(f) /\ bqFree' = bqFree
               /\ e = f
               => P!Full(f)'
    BY <1>1, <1>3, <2>3, <2>4, Instance, P!ScanStep DEF BlockScanOK, Quiet
  <2>6. P!ScanOK(e)'
    BY <2>2, <2>3, <2>5, ScanUnseen DEF BlockScanOK
  <2>7. CASE e # f
    <3>1. bqPc'[e] = bqPc[e] /\ bqBatch'[e] = bqBatch[e]
      BY <1>1, <2>1, <2>7, OthersKept
    <3> QED BY <2>2, <2>3, <2>5, <2>6, <2>7, <3>1, ScanUnseen DEF BlockScanOK
  <2>8. ASSUME e = f, bqPc'[f] \in P!SortLabels \cup BatchLabels, bqBatch'[f].head = NoBlock
        PROVE  P!Full(f)'
    <3>1. tqPc'[f] \in P!SortLabels
      BY <2>8 DEF tqPc, P!SortLabels, AllocLabels, BatchLabels
    <3>2. tqPc[f] \in P!SortLabels => bqPc[f] \in P!SortLabels \cup BatchLabels
      BY DEF tqPc, P!SortLabels
    <3>3. bqPc[f] = "s_sort" => bqLoc[f].curr # NoBlock
      <4>1. bqPc[f] = "s_sort" => tqPc[f] = "s_sort" /\ tqLoc[f] = bqLoc[f]
        BY DEF tqPc, tqLoc, AllocLabels, BatchLabels
      <4>2. tqPc[f] = "s_sort" => tqLoc[f].curr \in BlockNodes
        BY <1>1, InUse
      <4> QED BY <4>1, <4>2, BlockQueueAssumption
    <3>4. tqPc[f] \in P!SortLabels => P!Full(f) /\ bqFree' = bqFree
      <4>1. ASSUME tqPc[f] \in P!SortLabels
            PROVE  bqBatch[f].head = NoBlock /\ bqFree' = bqFree
        BY <1>1, <1>3, <2>1, <2>8, <3>2, <3>3, <4>1, BatchBegun
      <4> QED BY <2>3, <2>8, <3>2, <4>1 DEF BlockScanOK
    <3>5. CASE P!Step(f)
      BY <2>5, <2>8, <3>1, <3>4, <3>5
    <3>6. CASE UNCHANGED P!vars
      <4>1. tqPc[f] \in P!SortLabels
        BY <3>1, <3>6 DEF P!vars
      <4> QED BY <3>4, <3>6, <4>1, ScanUnseen
    <3> QED BY <2>2, <3>5, <3>6
  <2> QED BY <2>6, <2>7, <2>8 DEF BlockScanOK
<1> QED BY <1>2, <1>3 DEF BlockNext, ScanInv

\* When a scan comes to its batch there is one.
LEMMA BatchThere ==
    ASSUME BlockInv, ScanInv
    PROVE  ScanFreesOne
<1> SUFFICES ASSUME NEW e \in BlockCallers, bqPc[e] = "f_read", bqBatch[e].head = NoBlock
             PROVE  FALSE
  BY DEF ScanFreesOne
<1>1. P!ScanOK(e) /\ P!Full(e) /\ e \in P!Execs
  BY DEF ScanInv, BlockScanOK, BatchLabels, P!Execs, BlockCallers
<1>2. tqPc[e] \in P!SortLabels /\ tqLoc[e].curr = NoBlock
  BY DEF tqPc, tqLoc, P!SortLabels, AllocLabels, BatchLabels, B!NoLoc
<1>3. HptrThreshold >= 2 * BlockExecs
  BY BlockQueueAssumption DEF HptrThreshold
<1>4. P!QueueTypeOK /\ P!Account
  BY DEF BlockInv, P!AccountInv, P!FifoInv, P!HazardInv
<1> QED BY <1>1, <1>2, <1>3, <1>4, Instance, P!ScanFrees

\* Until a stale pop or a late link, every scan frees at least one node, so
\* lf_block_queue_try_free_nodes never follows NULL: a scan starts with more
\* retired nodes than there are hazard pointers, for any number of executors.
THEOREM ScansFree ==
    BlockSpec /\ [][Undisturbed]_blockVars => []ScanFreesOne
<1>1. [Undisturbed]_blockVars => [Quiet]_blockVars
  BY SameQuiet
<1>2. lf_block_queue_init => BlockInv /\ ScanInv
  <2>1. lf_block_queue_init => P!Init /\ BlockInv
    BY BlockInvInit
  <2>2. ASSUME lf_block_queue_init, NEW e \in BlockCallers
        PROVE  BlockScanOK(e)
    <3>1. e \in P!Execs
      BY DEF P!Execs, BlockCallers
    <3>2. P!ScanOK(e)
      BY <2>1, <2>2, <3>1, Instance, P!ScanInit
    <3>3. bqPc[e] = "idle"
      BY <2>2 DEF lf_block_queue_init
    <3> QED BY <3>2, <3>3 DEF BlockScanOK, P!SortLabels, BatchLabels
  <2> QED BY <2>1, <2>2 DEF ScanInv
<1>3. P!ContentsOK
  BY Instance, P!ContentsRight
<1>4. BlockInv /\ P!ContentsOK /\ P!ContentsOK' /\ [BlockNext]_blockVars /\ [Undisturbed]_blockVars
      => BlockInv'
  BY <1>1, BlockInvStep
<1>5. BlockInv /\ ScanInv /\ [BlockNext]_blockVars /\ [Undisturbed]_blockVars => ScanInv'
  BY <1>1, ScanInvStep
<1>6. BlockInv /\ ScanInv => ScanFreesOne
  BY BatchThere
<1> QED BY <1>2, <1>3, <1>4, <1>5, <1>6, PTL DEF BlockSpec
-----------------------------------------------------------------------------
(* Every node of a slice is in one place.                                  *)

\* The labels at which a scan still has a batch.
BatchOwned == P!SortLabels \cup BatchLabels

\* The lists of the queue are linked in the code's own fields: what is shown of
\* a node that is not free is what there is.
LEMMA ListFound ==
    ASSUME NEW n, NEW r, P!Trail(tqNext, n, r), \A m \in P!NodesOf(r) : m \notin bqFree
    PROVE  B!OnChain(n) = P!NodesOf(r)
<1>1. \A m \in P!NodesOf(r) : tqNext[m] = bqNext[m]
  BY DEF P!Trail, P!NodesOf, tqNext
<1>2. P!Trail(bqNext, n, r)
  BY <1>1, Instance, P!TrailKept
<1>3. B!Chain(n) = r
  BY <1>2, InstanceW, SameChain, W!ChainOfTrail DEF P!Trail, W!Trail
<1> QED BY <1>3 DEF B!OnChain, P!NodesOf

\* The batch is found from free_head to free_tail, wherever lfn_next of the
\* last node leads before it is linked to the stack.
LEMMA BatchFound ==
    ASSUME NEW e \in BlockCallers, NEW q, Segment(bqNext, bqBatch[e], q)
    PROVE  LET c == B!Chain(bqBatch[e].head) IN
           {c[k] : k \in {j \in DOMAIN c : \A i \in 1 .. j - 1 : c[i] # bqBatch[e].tail}}
           = P!NodesOf(q)
<1>1. q \in Seq(BlockNodes) /\ Len(q) \in Nat /\ NoBlock \notin BlockNodes
  BY BlockQueueAssumption DEF Segment
<1>2. CASE Len(q) = 0
  <2>1. bqBatch[e].head = NoBlock
    BY <1>2 DEF Segment, NoBatch
  <2>2. B!Chain(NoBlock) = <<>>
    BY DEF B!Chain
  <2>3. DOMAIN q = {} /\ DOMAIN <<>> = {}
    BY <1>1, <1>2
  <2> QED BY <2>1, <2>2, <2>3 DEF P!NodesOf
<1>3. CASE Len(q) > 0
  <2>1. bqBatch[e].head = q[1] /\ bqBatch[e].tail = q[Len(q)]
    BY <1>3 DEF Segment
  <2>2. /\ \A i \in 1 .. Len(q) - 1 : bqNext[q[i]] = q[i + 1]
        /\ \A i, j \in 1 .. Len(q) : q[i] = q[j] => i = j
    BY DEF Segment
  <2>3. W!UpTo(W!Chain(q[1]), q[Len(q)]) = W!NodesOf(q)
    BY <1>1, <1>3, <2>2, InstanceW, W!BeginningFound
  <2>4. W!UpTo(B!Chain(q[1]), q[Len(q)]) = P!NodesOf(q)
    BY <2>3, SameChain DEF W!NodesOf, P!NodesOf
  <2> QED BY <2>1, <2>4 DEF W!UpTo
<1> QED BY <1>1, <1>2, <1>3

\* An executor that does not scan has no batch.
LEMMA NoBatchElsewhere ==
    ASSUME NEW e \in BlockCallers, LabelOK(e), bqPc[e] \notin BatchOwned,
           NEW q, Segment(bqNext, bqBatch[e], q)
    PROVE  P!NodesOf(q) = {}
<1>1. bqBatch[e].head = NoBlock
  BY DEF LabelOK, BatchOwned, NoBatch
<1>2. q \in Seq(BlockNodes) /\ NoBlock \notin BlockNodes
  BY BlockQueueAssumption DEF Segment
<1>3. Len(q) = 0
  <2>1. CASE Len(q) # 0
    <3>1. bqBatch[e].head = q[1] /\ q[1] \in BlockNodes
      BY <1>2, <2>1 DEF Segment
    <3> QED BY <1>1, <1>2, <3>1
  <2> QED BY <2>1
<1>4. DOMAIN q = {}
  BY <1>2, <1>3
<1> QED BY <1>4 DEF P!NodesOf

\* Where the nodes are that an executor works on.
HandOf(e, batch) ==
    CASE bqPc[e] \in {"e_tail", "e_hp", "e_check", "e_next", "e_again",
                      "e_help", "e_cas"} -> {bqLoc[e].node}
      [] bqPc[e] \in {"d_data", "d_unhp1", "retire"} -> {bqLoc[e].head}
      [] bqPc[e] = "s_next" -> batch \cup B!OnChain(bqLoc[e].curr)
      [] bqPc[e] = "s_sort" ->
             batch \cup {bqLoc[e].curr} \cup B!OnChain(bqLoc[e].next)
      [] bqPc[e] \in {"f_read", "f_cas"} -> batch
      [] OTHER -> {}

\* They are those that the queue with its allocator hidden gives it, and its batch.
LEMMA HandRight ==
    ASSUME NEW e \in BlockCallers, LabelOK(e), NEW left,
           P!Trail(tqNext, P!Unsorted(e), left),
           tqPc[e] = "s_sort" =>
               tqLoc[e].curr # NoBlock /\ tqLoc[e].next = tqNext[tqLoc[e].curr],
           \A m \in P!NodesOf(left) : m \notin bqFree,
           NEW q, Segment(bqNext, bqBatch[e], q), NEW n \in BlockNodes
    PROVE  n \in HandOf(e, P!NodesOf(q)) <=> P!InHand(e, left, n) \/ n \in P!NodesOf(q)
<1>1. CASE bqPc[e] \in P!PrivateLabels \cup P!HandLabels
  <2>1. tqPc[e] = bqPc[e] /\ tqLoc[e] = bqLoc[e] /\ bqPc[e] \notin P!SortLabels /\ bqPc[e] \notin BatchOwned
    BY <1>1 DEF P!PrivateLabels, P!HandLabels, P!SortLabels, BatchOwned, tqPc, tqLoc,
                AllocLabels, BatchLabels
  <2>2. P!NodesOf(q) = {}
    BY <2>1, NoBatchElsewhere
  <2>3. P!NodesOf(left) = {}
    BY <2>1, Instance, P!TrailEmpty DEF P!Unsorted
  <2>4. n \in HandOf(e, P!NodesOf(q)) <=>
            \/ bqPc[e] \in P!PrivateLabels /\ n = bqLoc[e].node
            \/ bqPc[e] \in P!HandLabels /\ n = bqLoc[e].head
    BY <1>1 DEF HandOf, P!PrivateLabels, P!HandLabels
  <2> QED BY <2>1, <2>2, <2>3, <2>4 DEF P!InHand
<1>2. CASE bqPc[e] \in P!SortLabels
  <2>1. tqPc[e] = bqPc[e] /\ tqLoc[e] = bqLoc[e] /\ P!Unsorted(e) = bqLoc[e].curr
    BY <1>2 DEF P!SortLabels, P!Unsorted, tqPc, tqLoc, AllocLabels, BatchLabels
  <2>2. P!InHand(e, left, n) <=> n \in P!NodesOf(left)
    BY <1>2, <2>1 DEF P!InHand, P!SortLabels, P!PrivateLabels, P!HandLabels
  <2>3. CASE bqPc[e] = "s_next"
    <3>1. B!OnChain(bqLoc[e].curr) = P!NodesOf(left)
      BY <2>1, ListFound
    <3>2. HandOf(e, P!NodesOf(q)) = P!NodesOf(q) \cup B!OnChain(bqLoc[e].curr)
      BY <2>3 DEF HandOf
    <3> QED BY <2>2, <3>1, <3>2
  <2>4. CASE bqPc[e] = "s_sort"
    <3>1. PICK t : /\ P!Trail(tqNext, bqLoc[e].next, t)
                   /\ P!NodesOf(t) = P!NodesOf(left) \ {bqLoc[e].curr}
                   /\ bqLoc[e].curr \in P!NodesOf(left)
      BY <2>1, <2>4, Instance, P!TrailShrinks
    <3>2. B!OnChain(bqLoc[e].next) = P!NodesOf(left) \ {bqLoc[e].curr}
      BY <3>1, ListFound
    <3>3. HandOf(e, P!NodesOf(q)) =
              P!NodesOf(q) \cup {bqLoc[e].curr} \cup B!OnChain(bqLoc[e].next)
      BY <2>4 DEF HandOf
    <3> QED BY <2>2, <3>1, <3>2, <3>3
  <2> QED BY <1>2, <2>3, <2>4 DEF P!SortLabels
<1>3. CASE bqPc[e] \in BatchLabels
  <2>1. tqPc[e] = "s_next" /\ tqLoc[e].curr = NoBlock
    BY <1>3 DEF tqPc, tqLoc, BatchLabels, AllocLabels, B!NoLoc
  <2>2. P!NodesOf(left) = {}
    BY <2>1, Instance, P!TrailEmpty DEF P!Unsorted, P!SortLabels
  <2>3. ~P!InHand(e, left, n)
    BY <2>1, <2>2 DEF P!InHand, P!PrivateLabels, P!HandLabels
  <2>4. HandOf(e, P!NodesOf(q)) = P!NodesOf(q)
    BY <1>3 DEF HandOf, BatchLabels
  <2> QED BY <2>3, <2>4
<1>4. CASE bqPc[e] \notin P!PrivateLabels \cup P!HandLabels \cup P!SortLabels \cup BatchLabels
  <2>1. tqPc[e] \notin P!PrivateLabels \cup P!HandLabels \cup P!SortLabels
    BY <1>4 DEF tqPc, P!PrivateLabels, P!HandLabels, P!SortLabels
  <2>2. P!NodesOf(left) = {}
    BY <2>1, Instance, P!TrailEmpty DEF P!Unsorted
  <2>3. P!NodesOf(q) = {}
    BY <1>4, NoBatchElsewhere DEF BatchOwned
  <2>4. HandOf(e, P!NodesOf(q)) = {}
    BY <1>4 DEF HandOf, P!PrivateLabels, P!HandLabels, P!SortLabels, BatchLabels
  <2> QED BY <2>1, <2>2, <2>3, <2>4 DEF P!InHand
<1> QED BY <1>1, <1>2, <1>3, <1>4

\* The invariant gives BlockNodesAccounted.
LEMMA BlockAccountSafe ==
    ASSUME BlockInv
    PROVE  BlockNodesAccounted
<1>1. PICK spot \in [BlockNodes -> P!Spots], by \in [BlockNodes -> P!Execs],
           q \in Seq(BlockNodes), kept \in [P!Execs -> Seq(BlockNodes)],
           left \in [P!Execs -> Seq(BlockNodes)] :
          P!ListsOK(q, kept, left) /\ P!SpotsOK(spot, by, q, kept, left)
  BY DEF BlockInv, P!AccountInv, P!Account
<1>2. PICK stack \in Seq(BlockNodes), bat \in [BlockCallers -> Seq(BlockNodes)] :
          FreeListsOK(stack, bat)
  BY DEF BlockInv, FreeNodesOK
<1>3. P!Execs = BlockCallers
  BY DEF P!Execs, BlockCallers
<1>4. /\ \A m \in P!NodesOf(q) : m \in BlockNodes
      /\ \A e \in BlockCallers : \A m \in P!NodesOf(kept[e]) \cup P!NodesOf(left[e]) : m \in BlockNodes
      /\ \A m \in P!NodesOf(stack) : m \in BlockNodes
  <2>1. \A s \in Seq(BlockNodes) : \A m \in P!NodesOf(s) : m \in BlockNodes
    BY DEF P!NodesOf
  <2> QED BY <1>3, <2>1
<1>5. /\ \A m \in P!NodesOf(q) : m \notin bqFree
      /\ \A e \in BlockCallers : /\ \A m \in P!NodesOf(kept[e]) : m \notin bqFree
                                 /\ \A m \in P!NodesOf(left[e]) : m \notin bqFree
  BY <1>1, <1>3, <1>4 DEF P!SpotsOK, P!InHand
<1>6. B!OnChain(bqHead) = P!NodesOf(q)
  <2>1. P!Trail(tqNext, bqHead, q)
    BY <1>1 DEF P!ListsOK, P!Path, P!Trail
  <2> QED BY <1>5, <2>1, ListFound
<1>7. \A e \in BlockCallers : B!OnChain(bqRlist[e]) = P!NodesOf(kept[e])
  <2>1. ASSUME NEW e \in BlockCallers
        PROVE  B!OnChain(bqRlist[e]) = P!NodesOf(kept[e])
    <3>1. P!Trail(tqNext, bqRlist[e], kept[e])
      BY <1>1, <1>3 DEF P!ListsOK
    <3> QED BY <1>5, <3>1, ListFound
  <2> QED BY <2>1
<1>8. B!OnChain(bqNodes) = P!NodesOf(stack)
  <2>1. P!Trail(bqNext, bqNodes, stack)
    BY <1>2 DEF FreeListsOK
  <2>2. B!Chain(bqNodes) = stack
    BY <2>1, InstanceW, SameChain, W!ChainOfTrail DEF P!Trail, W!Trail
  <2> QED BY <2>2 DEF B!OnChain, P!NodesOf
<1> DEFINE batch(e) ==
               LET c == B!Chain(bqBatch[e].head) IN
               {c[k] : k \in {j \in DOMAIN c : \A i \in 1 .. j - 1 : c[i] # bqBatch[e].tail}}
           fresh == {bqLoc[e].node[1] : e \in {f \in BlockCallers : bqPc[f] = "a_pageCas"}}
           hands == [e \in BlockCallers |-> HandOf(e, batch(e))]
           retired == [e \in BlockCallers |-> B!OnChain(bqRlist[e])]
           places(n) == {"stack" : x \in {n} \cap B!OnChain(bqNodes)}
                        \cup {"queue" : x \in {n} \cap B!OnChain(bqHead)}
                        \cup {<<"retired", e>> : e \in {f \in BlockCallers : n \in retired[f]}}
                        \cup {<<"hand", e>> : e \in {f \in BlockCallers : n \in hands[f]}}
<1>9. ASSUME NEW e \in BlockCallers, NEW n \in BlockNodes
      PROVE  n \in hands[e] <=> P!InHand(e, left[e], n) \/ n \in P!NodesOf(bat[e])
  <2>1. Segment(bqNext, bqBatch[e], bat[e])
    BY <1>2 DEF FreeListsOK
  <2>2. batch(e) = P!NodesOf(bat[e])
    BY <2>1, BatchFound
  <2>3. /\ P!Trail(tqNext, P!Unsorted(e), left[e])
        /\ tqPc[e] = "s_sort" =>
               tqLoc[e].curr # NoBlock /\ tqLoc[e].next = tqNext[tqLoc[e].curr]
    BY <1>1, <1>3 DEF P!ListsOK
  <2>4. LabelOK(e)
    BY DEF BlockInv
  <2>5. n \in HandOf(e, P!NodesOf(bat[e])) <=> P!InHand(e, left[e], n) \/ n \in P!NodesOf(bat[e])
    BY <1>5, <2>1, <2>3, <2>4, HandRight
  <2> HIDE DEF batch
  <2> QED BY <2>2, <2>5
<1> HIDE DEF hands
<1>10. ASSUME NEW n \in BlockNodes, n[1] \in bqPages \ fresh
       PROVE  Cardinality(places(n)) = 1
  <2>1. Live(n[1])
    BY <1>10 DEF Live
  <2> HIDE DEF fresh
  <2>2. /\ n \in bqFree <=> spot[n] = "free"
        /\ n \in B!OnChain(bqHead) <=> spot[n] = "queue"
        /\ \A e \in BlockCallers :
               /\ n \in retired[e] <=> spot[n] = "retired" /\ by[n] = e
               /\ P!InHand(e, left[e], n) <=> spot[n] = "hand" /\ by[n] = e
    BY <1>1, <1>3, <1>6, <1>7 DEF P!SpotsOK
  <2>3. /\ n \in B!OnChain(bqNodes) => n \in bqFree
        /\ \A e \in BlockCallers : n \in P!NodesOf(bat[e]) =>
               /\ n \in bqFree /\ n \notin B!OnChain(bqNodes)
               /\ \A f \in BlockCallers \ {e} : n \notin P!NodesOf(bat[f])
        /\ n \in bqFree => \/ n \in B!OnChain(bqNodes)
                           \/ \E e \in BlockCallers : n \in P!NodesOf(bat[e])
    BY <1>2, <1>8, <2>1 DEF FreeListsOK, FreePlaced
  <2>4. \A e \in BlockCallers : n \in hands[e] <=>
            (spot[n] = "hand" /\ by[n] = e) \/ n \in P!NodesOf(bat[e])
    BY <1>9, <2>2
  <2>5. by[n] \in BlockCallers /\ spot[n] \in P!Spots
    BY <1>3
  <2> HIDE DEF retired
  <2>6. \E p : places(n) = {p}
    <3>1. CASE spot[n] = "free" /\ n \in B!OnChain(bqNodes)
      <4>1. places(n) = {"stack"}
        BY <2>2, <2>3, <2>4, <3>1
      <4> QED BY <4>1
    <3>2. CASE spot[n] = "free" /\ n \notin B!OnChain(bqNodes)
      <4>1. PICK e \in BlockCallers : n \in P!NodesOf(bat[e])
        BY <2>2, <2>3, <3>2
      <4>2. \A f \in BlockCallers : n \in hands[f] <=> f = e
        BY <2>3, <2>4, <3>2, <4>1
      <4>3. places(n) = {<<"hand", e>>}
        BY <2>2, <3>2, <4>2
      <4> QED BY <4>3
    <3>3. CASE spot[n] # "free"
      <4>1. /\ n \notin B!OnChain(bqNodes)
            /\ \A e \in BlockCallers : n \in hands[e] <=> spot[n] = "hand" /\ by[n] = e
        BY <2>2, <2>3, <2>4, <3>3
      <4>2. CASE spot[n] = "queue"
        <5>1. places(n) = {"queue"}
          BY <2>2, <4>1, <4>2
        <5> QED BY <5>1
      <4>3. CASE spot[n] = "retired"
        <5>1. places(n) = {<<"retired", by[n]>>}
          BY <2>2, <2>5, <4>1, <4>3
        <5> QED BY <5>1
      <4>4. CASE spot[n] = "hand"
        <5>1. places(n) = {<<"hand", by[n]>>}
          BY <2>2, <2>5, <4>1, <4>4
        <5> QED BY <5>1
      <4> QED BY <2>5, <3>3, <4>2, <4>3, <4>4 DEF P!Spots
    <3> QED BY <3>1, <3>2, <3>3
  <2> HIDE DEF places
  <2> QED BY <2>6, FS_Singleton
<1> QED BY <1>10 DEF BlockNodesAccounted, hands, HandOf

\* Until a stale pop or a late link, no node of a mapped slice is lost or used
\* twice: it is on the stack of free nodes, in the queue, on the list of
\* retired nodes of one executor, or in the hands of one, which include the
\* batch that lf_block_queue_try_free_nodes gives back.
THEOREM EveryBlockNodeInOnePlace ==
    BlockSpec /\ [][Undisturbed]_blockVars => []BlockNodesAccounted
<1>1. [Undisturbed]_blockVars => [Quiet]_blockVars
  BY SameQuiet
<1>2. lf_block_queue_init => BlockInv
  BY BlockInvInit
<1>3. P!ContentsOK
  BY Instance, P!ContentsRight
<1>4. BlockInv /\ P!ContentsOK /\ P!ContentsOK' /\ [BlockNext]_blockVars /\ [Undisturbed]_blockVars
      => BlockInv'
  BY <1>1, BlockInvStep
<1>5. BlockInv => BlockNodesAccounted
  BY BlockAccountSafe
<1> QED BY <1>2, <1>3, <1>4, <1>5, PTL DEF BlockSpec
=============================================================================
