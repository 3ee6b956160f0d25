--------------------------- MODULE CollectorProofs ---------------------------
(***************************************************************************)
(* For any number of collectors: they work in the same loop, and the phases *)
(* follow one another.  The collector's queue is made of the    *)
(* steps of the workshare queue, so that what LFThreadQueueProofs proves   *)
(* of those holds for it, whichever executors call it and however often.   *)
(***************************************************************************)
EXTENDS GcPhases, LFObjectQueue, FiniteSetTheorems, TLAPS

-----------------------------------------------------------------------------
(* The phases.                                                             *)

\* Where a collector can be in each phase.  In "inactive" and "initial" some
\* may not have left the final barrier of the last collection yet; otherwise
\* late ones are leaving the barrier that began the phase, and early ones wait
\* at the one that ends it, which is the final one if there is a generation.
PhaseOK(c) ==
    LET Leaving(b) == atBarrier[c] = b /\
                      gcPc[c] \in {"waiting", "reset", "broadcast", "leave"}
        Entering(b) == atBarrier[c] = b /\ gcPc[c] \in {"enter", "waiting", "last"}
    IN  /\ gcPhase = "inactive" =>
               \/ gcPc[c] \in {"mutator", "activate"}
               \/ Leaving("final")
               \/ gcPc[c] = "finish" /\ atBarrier[c] = "final"
        /\ gcPhase = "initial" =>
               \/ gcPc[c] \in {"mutator", "activate", "loop"}
               \/ gcPc[c] \in {"leave", "finish"} /\ atBarrier[c] = "final"
               \/ Entering("initial")
        /\ gcPhase = "normal" =>
               \/ gcPc[c] \in {"mutator", "loop", "dispatch"}
               \/ Leaving("initial")
               \/ gcGen = 0 /\ (gcPc[c] = "normal" \/ Entering("middle"))
               \/ gcGen # 0 /\ (gcPc[c] = "weak" \/ Entering("final"))
        /\ gcPhase = "weak" =>
               \/ gcPc[c] \in {"mutator", "loop", "dispatch", "weak"}
               \/ Leaving("middle")
               \/ Entering("final")

\* The barrier that the phase began with.
Behind == CASE gcPhase = "normal" -> "initial"
            [] gcPhase = "weak"   -> "middle"
            [] OTHER              -> "final"

Opening(c) == gcPc[c] \in {"last", "reset", "broadcast"}

\* While one opens a barrier all the others wait at it, ...
OneOpens ==
    \A c, d \in Collectors : Opening(c) /\ d # c =>
        gcPc[d] = "waiting" /\ atBarrier[d] = atBarrier[c]

\* ... and who still waits at the barrier behind has somebody to open it.
NoneForgotten ==
    \A d \in Collectors : gcPc[d] = "waiting" /\ atBarrier[d] = Behind =>
        \E c \in Collectors : gcPc[c] \in {"reset", "broadcast"}

\* b_count counts those who are in the barrier, until it is reset.
Arrived(b) ==
    {c \in Collectors : atBarrier[c] = b /\ gcPc[c] \in {"waiting", "last", "reset"}}
CountsArrived ==
    \A b \in Barriers :
        bCount[b] = IF \E c \in Collectors : gcPc[c] = "broadcast" /\ atBarrier[c] = b
                    THEN 0 ELSE Cardinality(Arrived(b))

PhaseTypeOK ==
    /\ gcPhase \in {"inactive", "initial", "normal", "weak"}
    /\ bCount \in [Barriers -> Nat]
    /\ gcPc \in [Collectors -> {"mutator", "activate", "enter", "waiting", "last",
                     "reset", "broadcast", "leave", "finish", "loop", "dispatch",
                     "normal", "weak"}]
    /\ atBarrier \in [Collectors -> Barriers]
    /\ DOMAIN usedFlip = Collectors

\* The inductive invariant: a generation is set only while a collection runs,
\* and none in the weak phase.
PhaseInv ==
    /\ PhaseTypeOK
    /\ \A c \in Collectors : PhaseOK(c)
    /\ OneOpens
    /\ NoneForgotten
    /\ CountsArrived
    /\ gcPhase # "normal" => gcGen = 0
    /\ \A c \in Collectors : gcPc[c] \in {"normal", "weak"} => usedFlip[c] = flipflop
-----------------------------------------------------------------------------
(* The barriers.                                                           *)

\* While somebody is not waiting, nobody else opens a barrier
\* (os_thread_barrier_enter lets one through, the last to come), and nobody is
\* left at the barrier behind.
LEMMA NobodyElse ==
    ASSUME PhaseInv, NEW c \in Collectors, gcPc[c] # "waiting"
    PROVE  /\ \A d \in Collectors : Opening(d) => d = c
           /\ ~Opening(c) => \A d \in Collectors :
                  ~(gcPc[d] = "waiting" /\ atBarrier[d] = Behind)
BY DEF PhaseInv, OneOpens, NoneForgotten, Opening

\* A step of one collector outside the barriers leaves them as they are.
LEMMA QuietStep ==
    ASSUME PhaseInv, NEW c \in Collectors,
           NEW label, NEW b,
           gcPc[c] \notin {"waiting", "last", "reset", "broadcast"},
           label \notin {"waiting", "last", "reset", "broadcast"},
           Goes(c, label),
           atBarrier' = [atBarrier EXCEPT ![c] = b],
           bCount' = bCount
    PROVE  /\ OneOpens' /\ CountsArrived'
           /\ Behind' = Behind => NoneForgotten'
<1>0. PhaseTypeOK
  BY DEF PhaseInv
<1>1. \A d \in Collectors : d # c => gcPc'[d] = gcPc[d] /\ atBarrier'[d] = atBarrier[d]
  BY <1>0 DEF PhaseTypeOK, Goes
<1>2. gcPc'[c] = label
  BY <1>0 DEF PhaseTypeOK, Goes
<1>3. OneOpens'
  BY <1>1, <1>2, NobodyElse DEF OneOpens, Opening
<1>4. \A x \in Barriers : Arrived(x)' = Arrived(x)
  BY <1>1, <1>2 DEF Arrived
<1>5. CountsArrived'
  BY <1>1, <1>2, <1>4 DEF CountsArrived, PhaseInv
<1>6. Behind' = Behind => NoneForgotten'
  BY <1>1, <1>2, NobodyElse DEF NoneForgotten, Opening
<1> QED BY <1>3, <1>5, <1>6

\* gc_thread_init: everybody is a mutator.
LEMMA PhaseInvInit == gc_thread_init => PhaseInv
<1> SUFFICES ASSUME gc_thread_init PROVE PhaseInv
  OBVIOUS
<1> USE DEF gc_thread_init
<1>1. PhaseTypeOK
  BY DEF PhaseTypeOK, Barriers
<1>2. \A c \in Collectors : PhaseOK(c)
  BY DEF PhaseOK
<1>3. OneOpens /\ NoneForgotten
  BY DEF OneOpens, NoneForgotten, Opening
<1>4. CountsArrived
  <2> SUFFICES ASSUME NEW b \in Barriers PROVE bCount[b] = 0 /\ Cardinality(Arrived(b)) = 0
    BY DEF CountsArrived
  <2>1. Arrived(b) = {}
    BY DEF Arrived
  <2> QED BY <2>1, FS_EmptySet
<1> QED BY <1>1, <1>2, <1>3, <1>4 DEF PhaseInv

-----------------------------------------------------------------------------
(* The steps outside the barriers.                                         *)

\* gc_allocator_check_activate_collector tests the phase and stores it later:
\* if it is not "inactive" any more it is "initial", for who is between the two
\* has not entered the initial barrier.
LEMMA ActivateKeepsInv ==
    ASSUME PhaseInv, NEW c \in Collectors, ActivateTest(c) \/ ActivateStore(c)
    PROVE  PhaseInv'
<1> USE DEF PhaseInv, WholeWord
<1>0. PhaseTypeOK'
  BY DEF PhaseTypeOK, ActivateTest, ActivateStore, Goes, gcState
<1>1. \A d \in Collectors : d # c => gcPc'[d] = gcPc[d]
  BY DEF PhaseTypeOK, ActivateTest, ActivateStore, Goes
<1>2. atBarrier' = [atBarrier EXCEPT ![c] = atBarrier[c]] /\ bCount' = bCount
  BY DEF PhaseTypeOK, ActivateTest, ActivateStore
<1>3. gcPhase \in {"inactive", "initial"} /\ gcPhase' \in {"inactive", "initial"}
  BY DEF PhaseTypeOK, PhaseOK, ActivateTest, ActivateStore, gcState
<1>4. Behind' = Behind
  BY <1>3 DEF Behind
<1>5. OneOpens' /\ CountsArrived' /\ NoneForgotten'
  <2>1. CASE ActivateTest(c)
    BY <2>1, <1>2, <1>4, QuietStep DEF ActivateTest
  <2>2. CASE ActivateStore(c)
    BY <2>2, <1>2, <1>4, QuietStep DEF ActivateStore
  <2> QED BY <2>1, <2>2
<1>6. ASSUME NEW d \in Collectors PROVE PhaseOK(d)'
  <2>1. CASE ActivateTest(c)
    BY <2>1, <1>1, <1>2 DEF ActivateTest, PhaseOK, Goes, gcState, PhaseTypeOK
  <2>2. CASE ActivateStore(c) /\ d = c
    BY <2>2 DEF ActivateStore, PhaseOK, Goes, PhaseTypeOK
  <2>3. CASE ActivateStore(c) /\ d # c
    <3>1. gcPc[d] \notin {"reset", "broadcast"}
      BY <2>3, NobodyElse DEF ActivateStore, Opening
    <3>2. ~(gcPc[d] = "waiting" /\ atBarrier[d] = "final")
      BY <2>3, <1>3, NobodyElse DEF ActivateStore, Opening, Behind
    <3> QED BY <2>3, <3>1, <3>2, <1>1, <1>3 DEF ActivateStore, PhaseOK
  <2> QED BY <2>1, <2>2, <2>3
<1>7. gcPhase' # "normal" => gcGen' = 0
  BY DEF ActivateTest, ActivateStore, gcState
<1>8. \A d \in Collectors : gcPc'[d] \in {"normal", "weak"} => usedFlip'[d] = flipflop'
  BY DEF ActivateTest, ActivateStore, gcState, Goes, PhaseTypeOK
<1> QED BY <1>0, <1>5, <1>6, <1>7, <1>8

\* gc_thread: entering it, its switch, its loops and its end.
LEMMA ThreadKeepsInv ==
    ASSUME PhaseInv, NEW c \in Collectors,
           StartCollector(c) \/ LoopTop(c) \/ Dispatch(c) \/ gc_safepoint(c)
             \/ LoopDone(c) \/ Finish(c)
    PROVE  PhaseInv'
<1> USE DEF PhaseInv, WholeWord
<1> DEFINE Acts == {"mutator", "enter", "finish", "loop", "dispatch", "normal", "weak"}
<1>1. PICK label \in Acts, b \in Barriers :
          gcPc[c] \in Acts /\ Goes(c, label) /\ atBarrier' = [atBarrier EXCEPT ![c] = b]
  <2> USE DEF PhaseTypeOK, Barriers
  <2>1. CASE StartCollector(c)
    BY <2>1 DEF StartCollector
  <2>2. CASE LoopTop(c)
    BY <2>2 DEF LoopTop
  <2>3. CASE Dispatch(c)
    BY <2>3 DEF Dispatch
  <2>4. CASE gc_safepoint(c)
    BY <2>4 DEF gc_safepoint
  <2>5. CASE LoopDone(c)
    BY <2>5 DEF LoopDone
  <2>6. CASE Finish(c)
    BY <2>6 DEF Finish
  <2> QED BY <2>1, <2>2, <2>3, <2>4, <2>5, <2>6
<1>2. UNCHANGED <<gcPhase, gcGen, flipflop, bCount>>
  BY DEF StartCollector, LoopTop, Dispatch, gc_safepoint, LoopDone, Finish, gcState
<1>3. PhaseTypeOK'
  <2>1. DOMAIN usedFlip' = Collectors
    BY DEF PhaseTypeOK, StartCollector, LoopTop, Dispatch, gc_safepoint, LoopDone, Finish
  <2> QED BY <1>1, <1>2, <2>1 DEF PhaseTypeOK, Goes
<1>4. OneOpens' /\ CountsArrived' /\ NoneForgotten'
  <2>1. Behind' = Behind
    BY <1>2 DEF Behind
  <2>2. label \notin {"waiting", "last", "reset", "broadcast"}
        /\ gcPc[c] \notin {"waiting", "last", "reset", "broadcast"}
    BY <1>1
  <2> QED BY <1>1, <1>2, <2>1, <2>2, QuietStep
<1>5. \A d \in Collectors : d # c =>
          gcPc'[d] = gcPc[d] /\ atBarrier'[d] = atBarrier[d] /\ usedFlip'[d] = usedFlip[d]
  BY <1>1 DEF PhaseTypeOK, Goes, StartCollector, LoopTop, Dispatch, gc_safepoint,
              LoopDone, Finish
<1>6. PhaseOK(c)' /\ (gcPc'[c] \in {"normal", "weak"} => usedFlip'[c] = flipflop')
  <2> USE <1>2 DEF PhaseOK, PhaseTypeOK, Goes
  <2>1. CASE StartCollector(c)
    BY <2>1 DEF StartCollector
  <2>2. CASE LoopTop(c)
    BY <2>2 DEF LoopTop
  <2>3. CASE Dispatch(c)
    BY <2>3 DEF Dispatch
  <2>4. CASE gc_safepoint(c)
    BY <2>4 DEF gc_safepoint
  <2>5. CASE LoopDone(c)
    BY <2>5 DEF LoopDone
  <2>6. CASE Finish(c)
    BY <2>6 DEF Finish
  <2> QED BY <2>1, <2>2, <2>3, <2>4, <2>5, <2>6
<1>7. \A d \in Collectors : PhaseOK(d)'
  BY <1>2, <1>5, <1>6 DEF PhaseOK
<1>8. \A d \in Collectors : gcPc'[d] \in {"normal", "weak"} => usedFlip'[d] = flipflop'
  BY <1>2, <1>5, <1>6
<1> QED BY <1>2, <1>3, <1>4, <1>7, <1>8
-----------------------------------------------------------------------------
(* The steps of the barriers.                                              *)

\* os_thread_barrier_enter: the count says whether this one is the last, and
\* then all the others wait.
LEMMA EnterKeepsInv ==
    ASSUME PhaseInv, NEW c \in Collectors, BarrierEnter(c)
    PROVE  PhaseInv'
<1> USE DEF PhaseInv, WholeWord
<1> DEFINE b == atBarrier[c]
<1>0. b \in Barriers /\ gcPc[c] = "enter" /\ UNCHANGED <<gcPhase, gcGen, flipflop, atBarrier, usedFlip>>
  BY DEF PhaseTypeOK, BarrierEnter, gcState
<1>1. \A d \in Collectors : d # c => gcPc'[d] = gcPc[d]
  BY DEF PhaseTypeOK, BarrierEnter, Goes
<1>2. gcPc'[c] = IF bCount[b] + 1 = Cardinality(Collectors) THEN "last" ELSE "waiting"
  BY DEF PhaseTypeOK, BarrierEnter, Goes
<1>3. \A d \in Collectors : ~Opening(d)
  BY <1>0, NobodyElse DEF Opening
<1>4. bCount[b] = Cardinality(Arrived(b))
  BY <1>0, <1>3 DEF CountsArrived, Opening
<1>5. \A x \in Barriers : IsFiniteSet(Arrived(x)) /\ Arrived(x) \subseteq Collectors
  <2> SUFFICES ASSUME NEW x \in Barriers PROVE IsFiniteSet(Arrived(x)) /\ Arrived(x) \subseteq Collectors
    OBVIOUS
  <2>1. Arrived(x) \subseteq Collectors
    BY DEF Arrived
  <2> QED BY <2>1, CollectorsAssumption, FS_Subset
<1>6. Arrived(b)' = Arrived(b) \cup {c} /\ c \notin Arrived(b)
  BY <1>0, <1>1, <1>2 DEF Arrived
<1>7. bCount'[b] = Cardinality(Arrived(b)')
  <2>1. Cardinality(Arrived(b) \cup {c}) = Cardinality(Arrived(b)) + 1
    BY <1>0, <1>5, <1>6, FS_AddElement
  <2> QED BY <1>0, <1>4, <1>6, <2>1 DEF BarrierEnter, PhaseTypeOK
<1>8. PhaseTypeOK'
  <2>1. bCount' \in [Barriers -> Nat]
    BY <1>0 DEF BarrierEnter, PhaseTypeOK
  <2>2. gcPc' = [gcPc EXCEPT ![c] = "last"] \/ gcPc' = [gcPc EXCEPT ![c] = "waiting"]
    BY DEF BarrierEnter, Goes
  <2> QED BY <1>0, <2>1, <2>2 DEF PhaseTypeOK
<1>9. CountsArrived'
  <2> SUFFICES ASSUME NEW x \in Barriers PROVE bCount'[x] = Cardinality(Arrived(x)')
    BY <1>1, <1>2, <1>3 DEF CountsArrived, Opening
  <2>1. CASE x = b
    BY <2>1, <1>0, <1>7 DEF Arrived
  <2>2. CASE x # b
    <3>1. Arrived(x)' = Arrived(x)
      BY <2>2, <1>0, <1>1 DEF Arrived
    <3>2. bCount'[x] = bCount[x]
      BY <2>2, <1>0 DEF BarrierEnter, PhaseTypeOK
    <3> QED BY <3>1, <3>2, <1>3 DEF CountsArrived, Opening
  <2> QED BY <2>1, <2>2
<1>10. OneOpens'
  <2>1. CASE gcPc'[c] = "waiting"
    BY <2>1, <1>1, <1>3 DEF OneOpens, Opening
  <2>2. CASE gcPc'[c] = "last"
    <3>1. Cardinality(Arrived(b)') = Cardinality(Collectors)
      BY <2>2, <1>2, <1>7, <1>0 DEF BarrierEnter, PhaseTypeOK
    <3>2. Arrived(b)' \subseteq Collectors
      BY <1>5, <1>6, <1>0
    <3>3. Arrived(b)' = Collectors
      BY <3>1, <3>2, CollectorsAssumption, FS_Subset
    <3>4. \A d \in Collectors : d # c => gcPc[d] = "waiting" /\ atBarrier[d] = b
      BY <3>3, <1>3, <1>6 DEF Arrived, Opening
    <3> QED BY <3>4, <1>0, <1>1 DEF OneOpens, Opening
  <2> QED BY <2>1, <2>2, <1>2
<1>11. NoneForgotten'
  <2>1. Behind' = Behind
    BY <1>0 DEF Behind
  <2>2. b # Behind
    BY <1>0 DEF Behind, PhaseOK, PhaseTypeOK
  <2>3. \A d \in Collectors : ~(gcPc[d] = "waiting" /\ atBarrier[d] = Behind)
    BY <1>0, <1>3, NobodyElse
  <2> QED BY <2>1, <2>2, <2>3, <1>0, <1>1 DEF NoneForgotten
<1>12. \A d \in Collectors : PhaseOK(d)'
  BY <1>0, <1>1, <1>2 DEF PhaseOK
<1>13. \A d \in Collectors : gcPc'[d] \in {"normal", "weak"} => usedFlip'[d] = flipflop'
  BY <1>0, <1>1, <1>2
<1> QED BY <1>0, <1>8, <1>9, <1>10, <1>11, <1>12, <1>13

\* What holds while c opens its barrier: all the others wait there.
LEMMA AllAtBarrier ==
    ASSUME PhaseInv, NEW c \in Collectors, Opening(c)
    PROVE  /\ \A d \in Collectors : d # c => gcPc[d] = "waiting"
           /\ \A d \in Collectors : atBarrier[d] = atBarrier[c]
BY DEF PhaseInv, OneOpens

\* The sequential code changes gc_state while everybody else is in the barrier.
LEMMA SequentialKeepsInv ==
    ASSUME PhaseInv, NEW c \in Collectors,
           InitialSequential(c) \/ MiddleSequential(c) \/ FinalSequential(c)
    PROVE  PhaseInv'
<1> USE DEF PhaseInv, WholeWord
<1> DEFINE b == atBarrier[c]
<1>0. /\ gcPc[c] = "last" /\ Goes(c, "reset")
      /\ UNCHANGED <<bCount, atBarrier, usedFlip>>
  BY DEF InitialSequential, MiddleSequential, FinalSequential
<1>1. /\ \A d \in Collectors : d # c => gcPc'[d] = "waiting"
      /\ \A d \in Collectors : atBarrier'[d] = b
      /\ gcPc'[c] = "reset"
      /\ \A d \in Collectors : d # c => gcPc[d] = "waiting"
      /\ \A d \in Collectors : atBarrier[d] = b
  BY <1>0, AllAtBarrier DEF Goes, PhaseTypeOK, Opening
<1>2. PhaseTypeOK'
  BY <1>0 DEF PhaseTypeOK, Goes, InitialSequential, MiddleSequential, FinalSequential
<1>3. OneOpens' /\ NoneForgotten'
  BY <1>1 DEF OneOpens, NoneForgotten, Opening
<1>4. CountsArrived'
  <2>1. \A x \in Barriers : Arrived(x)' = Arrived(x)
    BY <1>0, <1>1 DEF Arrived
  <2> QED BY <2>1, <1>0, <1>1 DEF CountsArrived
<1>5. gcPhase' # "normal" => gcGen' = 0
  BY DEF InitialSequential, MiddleSequential, FinalSequential, PhaseOK, PhaseTypeOK
<1>6. /\ b = "initial" => gcPhase' = "normal"
      /\ b = "middle" => gcPhase' = "weak"
      /\ b = "final" => gcPhase' = "inactive"
      /\ b \in Barriers
  BY DEF InitialSequential, MiddleSequential, FinalSequential, Barriers
<1>7. \A d \in Collectors : PhaseOK(d)'
  BY <1>1, <1>6 DEF PhaseOK, Barriers
<1>8. \A d \in Collectors : gcPc'[d] \notin {"normal", "weak"}
  BY <1>1
<1> QED BY <1>2, <1>3, <1>4, <1>5, <1>7, <1>8

\* os_thread_barrier_release resets the count before it lets anybody go.
LEMMA ResetKeepsInv ==
    ASSUME PhaseInv, NEW c \in Collectors, BarrierReset(c)
    PROVE  PhaseInv'
<1> USE DEF PhaseInv, WholeWord
<1> DEFINE b == atBarrier[c]
<1>0. /\ gcPc[c] = "reset" /\ Goes(c, "broadcast") /\ b \in Barriers
      /\ UNCHANGED <<gcPhase, gcGen, flipflop, atBarrier, usedFlip>>
  BY DEF BarrierReset, gcState, PhaseTypeOK
<1>1. /\ \A d \in Collectors : d # c => gcPc'[d] = "waiting"
      /\ \A d \in Collectors : atBarrier'[d] = b
      /\ gcPc'[c] = "broadcast"
      /\ \A d \in Collectors : d # c => gcPc[d] = "waiting"
      /\ \A d \in Collectors : atBarrier[d] = b
  BY <1>0, AllAtBarrier DEF Goes, PhaseTypeOK, Opening
<1>2. PhaseTypeOK'
  BY <1>0 DEF PhaseTypeOK, Goes, BarrierReset
<1>3. OneOpens' /\ NoneForgotten'
  BY <1>1 DEF OneOpens, NoneForgotten, Opening
<1>4. CountsArrived'
  <2> SUFFICES ASSUME NEW x \in Barriers
               PROVE  bCount'[x] = IF x = b THEN 0 ELSE Cardinality(Arrived(x)')
    BY <1>1 DEF CountsArrived
  <2>1. CASE x = b
    BY <2>1 DEF BarrierReset, PhaseTypeOK
  <2>2. CASE x # b
    <3>1. Arrived(x)' = Arrived(x)
      BY <2>2, <1>1 DEF Arrived
    <3>2. bCount'[x] = bCount[x]
      BY <2>2 DEF BarrierReset, PhaseTypeOK
    <3> QED BY <2>2, <3>1, <3>2, <1>0, <1>1 DEF CountsArrived
  <2> QED BY <2>1, <2>2
<1>5. \A d \in Collectors : PhaseOK(d)'
  BY <1>0, <1>1 DEF PhaseOK, PhaseTypeOK
<1>6. \A d \in Collectors : gcPc'[d] \notin {"normal", "weak"}
  BY <1>1
<1> QED BY <1>0, <1>2, <1>3, <1>4, <1>5, <1>6

\* pthread_cond_broadcast: everybody leaves, and nobody is in any barrier.
LEMMA BroadcastKeepsInv ==
    ASSUME PhaseInv, NEW c \in Collectors, BarrierBroadcast(c)
    PROVE  PhaseInv'
<1> USE DEF PhaseInv, WholeWord
<1>0. gcPc[c] = "broadcast" /\ UNCHANGED <<gcPhase, gcGen, flipflop, bCount, atBarrier, usedFlip>>
  BY DEF BarrierBroadcast, gcState
<1>1. /\ \A d \in Collectors : gcPc'[d] = "leave"
      /\ gcPc' \in [Collectors -> {"leave"}]
      /\ \A d \in Collectors : d # c => gcPc[d] = "waiting"
      /\ \A d \in Collectors : atBarrier[d] = atBarrier[c]
  BY <1>0, AllAtBarrier DEF BarrierBroadcast, Opening
<1>2. PhaseTypeOK'
  BY <1>0, <1>1 DEF PhaseTypeOK
<1>3. OneOpens' /\ NoneForgotten'
  BY <1>1 DEF OneOpens, NoneForgotten, Opening
<1>4. CountsArrived'
  <2> SUFFICES ASSUME NEW x \in Barriers
               PROVE  bCount[x] = 0 /\ Cardinality(Arrived(x)') = 0
    BY <1>0, <1>1 DEF CountsArrived
  <2>1. Arrived(x)' = {}
    BY <1>1 DEF Arrived
  <2>2. CASE x = atBarrier[c]
    BY <2>1, <2>2, <1>0, FS_EmptySet DEF CountsArrived
  <2>3. CASE x # atBarrier[c]
    <3>1. Arrived(x) = {}
      BY <2>3, <1>1 DEF Arrived
    <3> QED BY <2>1, <2>3, <3>1, <1>0, <1>1, FS_EmptySet DEF CountsArrived
  <2> QED BY <2>2, <2>3
<1>5. \A d \in Collectors : PhaseOK(d)'
  <2>1. PhaseOK(c)
    OBVIOUS
  <2> QED BY <2>1, <1>0, <1>1 DEF PhaseOK, PhaseTypeOK
<1> QED BY <1>0, <1>1, <1>2, <1>3, <1>4, <1>5

\* The others leave one by one, into the phase that the barrier began.
LEMMA LeaveKeepsInv ==
    ASSUME PhaseInv, NEW c \in Collectors, BarrierLeave(c)
    PROVE  PhaseInv'
<1> USE DEF PhaseInv, WholeWord
<1>0. gcPc[c] = "leave" /\ UNCHANGED <<gcPhase, gcGen, flipflop, bCount, atBarrier>>
  BY DEF BarrierLeave, gcState
<1>1. PICK label \in {"dispatch", "weak", "finish"} :
          /\ Goes(c, label)
          /\ atBarrier[c] = "initial" => label = "dispatch"
          /\ atBarrier[c] = "middle" => label = "weak"
          /\ atBarrier[c] = "final" => label = "finish"
  <2>1. CASE atBarrier[c] = "initial"
    BY <2>1, Zenon DEF BarrierLeave
  <2>2. CASE atBarrier[c] = "middle"
    BY <2>2, Zenon DEF BarrierLeave
  <2>3. CASE atBarrier[c] = "final"
    BY <2>3, Zenon DEF BarrierLeave
  <2> QED BY <2>1, <2>2, <2>3 DEF PhaseTypeOK, Barriers
<1>2. /\ gcPc'[c] = label /\ usedFlip'[c] = flipflop
      /\ \A d \in Collectors : d # c => gcPc'[d] = gcPc[d] /\ usedFlip'[d] = usedFlip[d]
  BY <1>1 DEF Goes, BarrierLeave, PhaseTypeOK
<1>3. PhaseTypeOK'
  <2>1. DOMAIN usedFlip' = Collectors
    BY DEF BarrierLeave, PhaseTypeOK
  <2> QED BY <1>0, <1>1, <2>1 DEF PhaseTypeOK, Goes
<1>4. OneOpens' /\ CountsArrived' /\ NoneForgotten'
  <2>1. Behind' = Behind
    BY <1>0 DEF Behind
  <2>2. atBarrier' = [atBarrier EXCEPT ![c] = atBarrier[c]]
    BY <1>0 DEF PhaseTypeOK
  <2> QED BY <1>0, <1>1, <2>1, <2>2, QuietStep
<1>5. \A d \in Collectors : PhaseOK(d)'
  BY <1>0, <1>1, <1>2 DEF PhaseOK, PhaseTypeOK
<1>6. \A d \in Collectors : gcPc'[d] \in {"normal", "weak"} => usedFlip'[d] = flipflop'
  BY <1>0, <1>2
<1> QED BY <1>0, <1>3, <1>4, <1>5, <1>6

-----------------------------------------------------------------------------
(* The theorems.                                                           *)

\* Every step keeps PhaseInv: a guest's, a barrier's or a collector's.
LEMMA PhaseInvStep == PhaseInv /\ [GcPhasesNext]_gcPhaseVars => PhaseInv'
<1> SUFFICES ASSUME PhaseInv, [GcPhasesNext]_gcPhaseVars PROVE PhaseInv'
  OBVIOUS
<1>1. CASE UNCHANGED gcPhaseVars
  <2>1. CountsArrived' /\ OneOpens' /\ NoneForgotten'
    BY <1>1 DEF gcPhaseVars, PhaseInv, CountsArrived, Arrived, OneOpens, NoneForgotten,
                Opening, Behind
  <2>2. PhaseTypeOK' /\ \A c \in Collectors : PhaseOK(c)'
    BY <1>1 DEF gcPhaseVars, PhaseInv, PhaseTypeOK, PhaseOK
  <2> QED BY <1>1, <2>1, <2>2 DEF gcPhaseVars, PhaseInv
<1>2. ASSUME NEW c \in Collectors, CollectorStep(c) PROVE PhaseInv'
  BY <1>2, ActivateKeepsInv, ThreadKeepsInv DEF CollectorStep
<1>3. ASSUME NEW c \in Collectors, BarrierStep(c) PROVE PhaseInv'
  BY <1>3, EnterKeepsInv, SequentialKeepsInv, ResetKeepsInv, BroadcastKeepsInv,
     LeaveKeepsInv DEF BarrierStep
<1> QED BY <1>1, <1>2, <1>3 DEF GcPhasesNext

\* The invariant behind both theorems below, in every reachable state of
\* gc_thread and the barriers: see its parts.
THEOREM PhaseInvariant == GcPhasesSpec => []PhaseInv
BY PhaseInvInit, PhaseInvStep, PTL DEF GcPhasesSpec

\* Collectors that work are all in the same loop, with the flipflop of this
\* collection (gc_thread.c:2084), however many they are and whenever another
\* collection is started: which loop it is follows from the phase and from the
\* generation (gc_thread.c:2056).
THEOREM CollectorsWorkTogether == GcPhasesSpec => []CollectorsAgree
<1>1. PhaseInv => CollectorsAgree
  BY DEF PhaseInv, PhaseOK, PhaseTypeOK, CollectorsAgree, WholeWord
<1> QED BY <1>1, PhaseInvariant, PTL

\* The phases of gc_state follow one another: the late store of
\* gc_allocator_check_activate_collector takes no collection back.  From
\* generation 1 on "inactive" follows "normal".
THEOREM PhasesFollow == GcPhasesSpec => PhasesInOrder
<1> DEFINE Order == gcPhase' # gcPhase =>
           \/ gcPhase = "inactive" /\ gcPhase' = "initial"
           \/ gcPhase = "initial" /\ gcPhase' = "normal"
           \/ gcPhase = "normal" /\ gcPhase' = IF gcGen = 0 THEN "weak" ELSE "inactive"
           \/ gcPhase = "weak" /\ gcPhase' = "inactive"
<1>1. PhaseInv /\ [GcPhasesNext]_gcPhaseVars => [Order]_gcPhaseVars
  <2> SUFFICES ASSUME PhaseInv, NEW c \in Collectors, CollectorStep(c) \/ BarrierStep(c),
                      gcPhase' # gcPhase
               PROVE  Order
    BY DEF GcPhasesNext
  <2>0. PhaseOK(c) /\ PhaseTypeOK
    BY DEF PhaseInv
  <2>1. CASE CollectorStep(c)
    <3>1. ActivateStore(c)
      BY <2>1 DEF CollectorStep, ActivateTest, StartCollector, LoopTop, Dispatch,
                  gc_safepoint, LoopDone, Finish, gcState
    <3> QED BY <2>0, <3>1 DEF ActivateStore, PhaseOK, PhaseTypeOK
  <2>2. CASE BarrierStep(c)
    <3>1. InitialSequential(c) \/ MiddleSequential(c) \/ FinalSequential(c)
      BY <2>2 DEF BarrierStep, BarrierEnter, BarrierReset, BarrierBroadcast,
                  BarrierLeave, gcState
    <3> QED BY <2>0, <3>1 DEF InitialSequential, MiddleSequential, FinalSequential,
                              PhaseOK, PhaseTypeOK
  <2> QED BY <2>1, <2>2
<1> QED BY <1>1, PhaseInvariant, PTL DEF GcPhasesSpec, PhasesInOrder

-----------------------------------------------------------------------------
(* The object queue.                                                       *)

P == INSTANCE LFThreadQueueProofs WITH
    NumExecs <- ObjectExecs, Enqueuers <- ObjectCallers, FairExecs <- {},
    Threads <- Objects, NoThread <- NoObject,
    Nodes <- ObjectNodes, Sentinel <- FirstObjectNode, NoNode <- NoObject,
    Threshold <- ObjectThreshold,
    head <- oqHead, tail <- oqTail, next <- oqNext, data <- oqData, hp <- oqHp,
    rlist <- oqRlist, rcount <- oqRcount, free <- oqFree, pool <- oqPool,
    pc <- oqPc, val <- oqVal, loc <- oqLoc, scan <- oqScan, sawEmpty <- oqSaw

\* The constants of the object queue satisfy what the thread queue assumes.
LEMMA ObjectConstants == P!QueueAssumption
BY ObjectQueueAssumption
   DEF P!QueueAssumption, P!Execs, ObjectCallers, IsFiniteSet, P!IsFiniteSet

\* A step of the object queue is a step of the thread queue.
LEMMA ObjectStepIsStep ==
    ASSUME NEW e \in ObjectCallers, ObjectStep(e)
    PROVE  P!Step(e)
<1> USE DEF O!Goto, P!Goto, O!Local, P!Local, O!Hazard, P!Hazard, O!Retry, P!Retry,
        O!Onward, P!Onward, O!queueVars, P!queueVars, O!hazardVars, P!hazardVars,
        O!callVars, P!callVars, O!NoLoc, P!NoLoc, O!NoScan, P!NoScan
<1>1. O!EnqueueStart(e) => P!EnqueueStart(e)
  BY DEF O!EnqueueStart, P!EnqueueStart
<1>2. O!EnqueueSwing(e) => P!EnqueueSwing(e)
  BY DEF O!EnqueueSwing, P!EnqueueSwing
<1>3. O!EnqueueDone(e) => P!EnqueueDone(e)
  BY DEF O!EnqueueDone, P!EnqueueDone
<1>4. O!EnqueueTail(e) => P!EnqueueTail(e)
  BY DEF O!EnqueueTail, P!EnqueueTail
<1>5. O!EnqueueHazard(e) => P!EnqueueHazard(e)
  BY DEF O!EnqueueHazard, P!EnqueueHazard
<1>6. O!EnqueueCheck(e) => P!EnqueueCheck(e)
  BY DEF O!EnqueueCheck, P!EnqueueCheck
<1>7. O!EnqueueNext(e) => P!EnqueueNext(e)
  BY DEF O!EnqueueNext, P!EnqueueNext
<1>8. O!EnqueueAgain(e) => P!EnqueueAgain(e)
  BY DEF O!EnqueueAgain, P!EnqueueAgain
<1>9. O!EnqueueHelp(e) => P!EnqueueHelp(e)
  BY DEF O!EnqueueHelp, P!EnqueueHelp
<1>10. O!EnqueueCas(e) => P!EnqueueCas(e)
  BY DEF O!EnqueueCas, P!EnqueueCas
<1>11. O!DequeueHead(e) => P!DequeueHead(e)
  BY DEF O!DequeueHead, P!DequeueHead
<1>12. O!DequeueHazard(e) => P!DequeueHazard(e)
  BY DEF O!DequeueHazard, P!DequeueHazard
<1>13. O!DequeueCheck(e) => P!DequeueCheck(e)
  BY DEF O!DequeueCheck, P!DequeueCheck
<1>14. O!DequeueTail(e) => P!DequeueTail(e)
  BY DEF O!DequeueTail, P!DequeueTail
<1>15. O!DequeueNext(e) => P!DequeueNext(e)
  BY DEF O!DequeueNext, P!DequeueNext
<1>16. O!DequeueHazardNext(e) => P!DequeueHazardNext(e)
  BY DEF O!DequeueHazardNext, P!DequeueHazardNext
<1>17. O!DequeueAgain(e) => P!DequeueAgain(e)
  BY DEF O!DequeueAgain, P!DequeueAgain
<1>18. O!DequeueHelp(e) => P!DequeueHelp(e)
  BY DEF O!DequeueHelp, P!DequeueHelp
<1>19. O!DequeueCas(e) => P!DequeueCas(e)
  BY DEF O!DequeueCas, P!DequeueCas
<1>20. O!DequeueData(e) => P!DequeueData(e)
  BY DEF O!DequeueData, P!DequeueData
<1>21. O!DequeueUnhazard(e) => P!DequeueUnhazard(e)
  BY DEF O!DequeueUnhazard, P!DequeueUnhazard
<1>22. O!DequeueEmpty(e) => P!DequeueEmpty(e)
  BY DEF O!DequeueEmpty, P!DequeueEmpty
<1>23. O!DequeueDone(e) => P!DequeueDone(e)
  BY DEF O!DequeueDone, P!DequeueDone
<1>24. O!Retire(e) => P!Retire(e)
  BY DEF O!Retire, P!Retire
<1>25. O!Scan(e) => P!Scan(e)
  BY DEF O!Scan, P!Scan
<1>26. O!ScanStart(e) => P!ScanStart(e)
  BY DEF O!ScanStart, P!ScanStart
<1>27. O!ScanNext(e) => P!ScanNext(e)
  BY DEF O!ScanNext, P!ScanNext
<1>28. O!ScanSort(e) => P!ScanSort(e)
  BY DEF O!ScanSort, P!ScanSort
<1> QED
  BY <1>1, <1>2, <1>3, <1>4, <1>5, <1>6, <1>7, <1>8, <1>9, <1>10, <1>11, <1>12,
     <1>13, <1>14, <1>15, <1>16, <1>17, <1>18, <1>19, <1>20, <1>21, <1>22, <1>23,
     <1>24, <1>25, <1>26, <1>27, <1>28
     DEF ObjectStep, lf_object_queue_enqueue, lf_object_queue_try_enqueue,
         lf_object_queue_try_dequeue, lf_object_queue_dequeue, lf_object_queue_node_retire,
         lf_object_queue_scan_build_ptab, lf_object_queue_scan_free_rlist, P!Step

\* No executor works on a node of the object queue that could be handed out
\* again, and lf_object_queue_dequeue returns NULL only if the queue was empty
\* while it ran: for any number of collectors, objects and calls, although all
\* of them enqueue.
THEOREM ObjectsSafe == ObjectSpec => []ObjectsProtected
<1>1. lf_object_queue_init => P!HazardInv
  <2>1. lf_object_queue_init => P!Init
    BY DEF lf_object_queue_init, P!Init, O!NoLoc, P!NoLoc, O!NoScan, P!NoScan, P!Execs,
           ObjectCallers
  <2> QED BY <2>1, ObjectConstants, P!HazardInit
<1>2. P!HazardInv /\ [ObjectNext]_objectVars => P!HazardInv'
  <2>1. [ObjectNext]_objectVars => [P!Next]_P!vars
    BY ObjectStepIsStep DEF ObjectNext, objectVars, P!Next, P!vars, P!Execs, ObjectCallers
  <2> QED BY <2>1, ObjectConstants, P!HazardStep
<1>3. P!HazardInv => ObjectsProtected
  <2>1. P!HazardInv => P!EmptyWasTrue /\ P!ProtectedNotFree
    BY ObjectConstants, P!HazardSafe
  <2> QED BY <2>1 DEF ObjectsProtected, O!EmptyWasTrue, P!EmptyWasTrue, O!ProtectedNotFree,
             P!ProtectedNotFree, O!Execs, P!Execs
<1> QED BY <1>1, <1>2, <1>3, PTL DEF ObjectSpec
=============================================================================
