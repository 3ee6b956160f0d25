------------------------------ MODULE GcPhases ------------------------------
(***************************************************************************)
(* One collection after another (mm/gc/gc_thread.c): every executor's      *)
(* collector thread goes through the initial, the middle and the final     *)
(* barrier, and the last one to enter a barrier changes gc_state before it *)
(* lets the others go (cc/os/posix/os_thread.c).  An executor whose guests *)
(* allocate starts the next collection with a plain store (gc_alloc.c).    *)
(*                                                                         *)
(* What a collector copies is not modelled; "normal" and "weak" stand for  *)
(* the two loops that claim and process objects.  pthread_cond_wait returns*)
(* only after a broadcast here.                                            *)
(*                                                                         *)
(* GC_STATE_NORMAL == state & GC_STATE_PHASE is                            *)
(* (GC_STATE_NORMAL == state) & GC_STATE_PHASE in C: it compares the whole *)
(* word, generation included.  That the result is not always 0 takes a     *)
(* GC_STATE_PHASE with its lowest bit set.                                 *)
(***************************************************************************)
EXTENDS Naturals, FiniteSets

CONSTANTS
    Collectors,         \* the executors, each with its collector thread
    NumGenerations      \* gc_num_generations

\* executor_num is fixed when the barriers are made.
ASSUME CollectorsAssumption == IsFiniteSet(Collectors)

VARIABLES
    gcPhase,            \* gc_state & GC_STATE_PHASE
    gcGen,              \* gc_state & GC_STATE_GEN
    nextGen,            \* gc_thread_next_gen
    peakGen,            \* gc_thread_peak_gen
    flipflop,           \* gc_collection_count % 2
    bCount,             \* bCount[b]: b_count of the barrier
    gcPc,               \* gcPc[c]: what the executor does next
    atBarrier,          \* atBarrier[c]: the barrier it entered last
    usedFlip            \* usedFlip[c]: the flipflop its loops computed

gcPhaseVars == <<gcPhase, gcGen, nextGen, peakGen, flipflop, bCount, gcPc,
                 atBarrier, usedFlip>>
gcState == <<gcPhase, gcGen, nextGen, peakGen, flipflop>>

\* gc_state has no other bits than those of phase and no generation.
WholeWord(phase) == gcPhase = phase /\ gcGen = 0

Barriers == {"initial", "middle", "final"}

gc_thread_init ==
    /\ gcPhase = "inactive"
    /\ gcGen = 0
    /\ nextGen = 0
    /\ peakGen = 1
    /\ flipflop = 0
    /\ bCount = [b \in Barriers |-> 0]
    /\ gcPc = [c \in Collectors |-> "mutator"]
    /\ atBarrier = [c \in Collectors |-> "final"]
    /\ usedFlip = [c \in Collectors |-> 0]

Goes(c, label) == gcPc' = [gcPc EXCEPT ![c] = label]

-----------------------------------------------------------------------------
(* Starting a collection: gc_allocator_check_activate_collector.           *)

\* Mutant: the phase is not tested.
ActivateTestAny(c) ==
    /\ gcPc[c] = "mutator"
    /\ Goes(c, "activate")
    /\ UNCHANGED <<gcState, bCount, atBarrier, usedFlip>>

ActivateTest(c) ==
    /\ gcPc[c] = "mutator" /\ WholeWord("inactive")
    /\ Goes(c, "activate")
    /\ UNCHANGED <<gcState, bCount, atBarrier, usedFlip>>

\* The store replaces the generation too.
ActivateStore(c) ==
    /\ gcPc[c] = "activate"
    /\ gcPhase' = "initial"
    /\ gcGen' = 0
    /\ Goes(c, "mutator")
    /\ UNCHANGED <<nextGen, peakGen, flipflop, bCount, atBarrier, usedFlip>>

-----------------------------------------------------------------------------
(* Barriers.                                                               *)

\* Mutant: off by one.
BarrierEnterEarly(c) ==
    LET b == atBarrier[c] IN
    /\ gcPc[c] = "enter"
    /\ bCount' = [bCount EXCEPT ![b] = @ + 1]
    /\ Goes(c, IF bCount[b] + 2 = Cardinality(Collectors) THEN "last" ELSE "waiting")
    /\ UNCHANGED <<gcState, atBarrier, usedFlip>>

\* os_thread_barrier_enter, with the mutex held
BarrierEnter(c) ==
    LET b == atBarrier[c] IN
    /\ gcPc[c] = "enter"
    /\ bCount' = [bCount EXCEPT ![b] = @ + 1]
    /\ Goes(c, IF bCount[b] + 1 = Cardinality(Collectors) THEN "last" ELSE "waiting")
    /\ UNCHANGED <<gcState, atBarrier, usedFlip>>

\* gc_thread_get_gen: what is collected now is nextGen.
gc_thread_get_gen ==
    /\ gcGen' = nextGen
    /\ \/ /\ nextGen < peakGen
          /\ nextGen' = nextGen + 1 /\ UNCHANGED peakGen
       \/ /\ nextGen = peakGen
          /\ peakGen' = IF nextGen < NumGenerations THEN peakGen + 1 ELSE 1
          /\ nextGen' = 1
       \/ /\ nextGen > peakGen
          /\ peakGen' = IF nextGen < NumGenerations THEN nextGen + 1 ELSE 1
          /\ UNCHANGED nextGen

\* The sequential code of the three barriers: everybody else waits.
InitialSequential(c) ==
    /\ gcPc[c] = "last" /\ atBarrier[c] = "initial"
    /\ gc_thread_get_gen
    /\ gcPhase' = "normal"
    /\ Goes(c, "reset")
    /\ UNCHANGED <<flipflop, bCount, atBarrier, usedFlip>>

MiddleSequential(c) ==
    /\ gcPc[c] = "last" /\ atBarrier[c] = "middle"
    /\ gcPhase' = "weak"
    /\ Goes(c, "reset")
    /\ UNCHANGED <<gcGen, nextGen, peakGen, flipflop, bCount, atBarrier, usedFlip>>

FinalSequential(c) ==
    /\ gcPc[c] = "last" /\ atBarrier[c] = "final"
    /\ peakGen' = gcGen
    /\ flipflop' = 1 - flipflop
    /\ gcPhase' = "inactive"
    /\ gcGen' = 0
    /\ Goes(c, "reset")
    /\ UNCHANGED <<nextGen, bCount, atBarrier, usedFlip>>

\* Mutant: the counter is not reset.
BarrierResetNot(c) ==
    /\ gcPc[c] = "reset"
    /\ Goes(c, "broadcast")
    /\ UNCHANGED <<gcState, bCount, atBarrier, usedFlip>>

\* os_thread_barrier_release, without the mutex
BarrierReset(c) ==
    /\ gcPc[c] = "reset"
    /\ bCount' = [bCount EXCEPT ![atBarrier[c]] = 0]
    /\ Goes(c, "broadcast")
    /\ UNCHANGED <<gcState, atBarrier, usedFlip>>

BarrierBroadcast(c) ==
    /\ gcPc[c] = "broadcast"
    /\ gcPc' = [d \in Collectors |->
                   IF d = c \/ (gcPc[d] = "waiting" /\ atBarrier[d] = atBarrier[c])
                   THEN "leave" ELSE gcPc[d]]
    /\ UNCHANGED <<gcState, bCount, atBarrier, usedFlip>>

BarrierLeave(c) ==
    /\ gcPc[c] = "leave"
    /\ Goes(c, CASE atBarrier[c] = "initial" -> "dispatch"
                 [] atBarrier[c] = "middle"  -> "weak"
                 [] atBarrier[c] = "final"   -> "finish")
    /\ usedFlip' = [usedFlip EXCEPT ![c] = flipflop]
    /\ UNCHANGED <<gcState, bCount, atBarrier>>

-----------------------------------------------------------------------------
(* gc_thread.                                                              *)

\* The executor switches to its collector thread, which starts from the top.
StartCollector(c) ==
    /\ gcPc[c] = "mutator" /\ gcPhase # "inactive"
    /\ Goes(c, "loop")
    /\ UNCHANGED <<gcState, bCount, atBarrier, usedFlip>>

LoopTop(c) ==
    /\ gcPc[c] = "loop"
    /\ \/ /\ WholeWord("initial")
          /\ Goes(c, "enter") /\ atBarrier' = [atBarrier EXCEPT ![c] = "initial"]
       \/ ~WholeWord("initial") /\ Goes(c, "dispatch") /\ UNCHANGED atBarrier
    /\ UNCHANGED <<gcState, bCount, usedFlip>>

\* With a generation in the word the normal loop and its barrier are skipped.
Dispatch(c) ==
    /\ gcPc[c] = "dispatch"
    /\ Goes(c, IF WholeWord("normal") THEN "normal" ELSE "weak")
    /\ usedFlip' = [usedFlip EXCEPT ![c] = flipflop]
    /\ UNCHANGED <<gcState, bCount, atBarrier>>

\* gc_safepoint: a guest runs; the collector thread's state is not kept.
gc_safepoint(c) ==
    /\ gcPc[c] \in {"normal", "weak"}
    /\ Goes(c, "mutator")
    /\ UNCHANGED <<gcState, bCount, atBarrier, usedFlip>>

\* The loops find nothing more to claim.
LoopDone(c) ==
    /\ gcPc[c] \in {"normal", "weak"}
    /\ atBarrier' = [atBarrier EXCEPT ![c] =
                        IF gcPc[c] = "normal" THEN "middle" ELSE "final"]
    /\ Goes(c, "enter")
    /\ UNCHANGED <<gcState, bCount, usedFlip>>

\* The collector yields unless somebody has started another collection.
Finish(c) ==
    /\ gcPc[c] = "finish"
    /\ Goes(c, IF WholeWord("inactive") THEN "mutator" ELSE "loop")
    /\ UNCHANGED <<gcState, bCount, atBarrier, usedFlip>>

BarrierStep(c) ==
    \/ BarrierEnter(c)
    \/ InitialSequential(c) \/ MiddleSequential(c) \/ FinalSequential(c)
    \/ BarrierReset(c) \/ BarrierBroadcast(c) \/ BarrierLeave(c)

CollectorStep(c) ==
    \/ ActivateTest(c) \/ ActivateStore(c) \/ StartCollector(c)
    \/ LoopTop(c) \/ Dispatch(c) \/ gc_safepoint(c) \/ LoopDone(c) \/ Finish(c)

GcPhasesNext == \E c \in Collectors : CollectorStep(c) \/ BarrierStep(c)

\* The OS runs a thread that is not blocked.
GcPhasesFairness == \A c \in Collectors : WF_gcPhaseVars(BarrierStep(c))

GcPhasesSpec == gc_thread_init /\ [][GcPhasesNext]_gcPhaseVars /\ GcPhasesFairness

-----------------------------------------------------------------------------
(* Properties.                                                             *)

\* The phases follow one another although a collection is started with an
\* unconditional store (gc_alloc.c:224): an executor that saw "inactive" and
\* stores "initial" much later never takes a running collection back.  Whether
\* a collection has a weak phase depends on its generation (gc_thread.c:2056).
PhasesInOrder ==
    [][gcPhase' # gcPhase =>
           \/ gcPhase = "inactive" /\ gcPhase' = "initial"
           \/ gcPhase = "initial" /\ gcPhase' = "normal"
           \/ gcPhase = "normal" /\ gcPhase' = IF gcGen = 0 THEN "weak" ELSE "inactive"
           \/ gcPhase = "weak" /\ gcPhase' = "inactive"]_gcPhaseVars

\* All collectors that work are in the same loop and use the flipflop of this
\* collection (gc_thread.c:2084): nobody passes a barrier before everyone has
\* entered it, not even an executor that left the previous barrier late or that
\* a guest interrupted.
CollectorsAgree ==
    \A c \in Collectors : gcPc[c] \in {"normal", "weak"} =>
        /\ gcPhase \in {"normal", "weak"}
        /\ gcPc[c] = "normal" <=> WholeWord("normal")
        /\ usedFlip[c] = flipflop

\* A barrier everyone has entered opens, however often it was used before: the
\* counter is reset without the mutex (os_thread.c:173), and none who enters
\* again is forgotten.
BarriersOpen ==
    LET Full == \E b \in Barriers : \A c \in Collectors :
                    /\ atBarrier[c] = b
                    /\ gcPc[c] \in {"waiting", "last", "reset", "broadcast"}
    IN  Full ~> ~Full
=============================================================================
