---------------------------- MODULE MCLifeCycle ----------------------------
(***************************************************************************)
(* One instance of two parts that do not share state: how the executors    *)
(* come and go, and how the collections follow one another.  A behaviour   *)
(* runs one of them.                                                       *)
(***************************************************************************)
EXTENDS Executor, GcPhases

VARIABLE which      \* the part that runs

lifeCycleVars == <<which, executorVars, gcPhaseVars>>

LifeCycleInit ==
    /\ which \in {"executors", "collections"}
    /\ executor_start
    /\ gc_thread_init

Setup == which = "executors" /\ SetupStep /\ UNCHANGED <<which, gcPhaseVars>>
SignalThreadRuns ==
    which = "executors" /\ SignalThreadStep /\ UNCHANGED <<which, gcPhaseVars>>
GuestRuns(e) ==
    which = "executors" /\ GuestStep(e) /\ UNCHANGED <<which, gcPhaseVars>>
ExecutorRuns(e) ==
    which = "executors" /\ RuntimeStep(e) /\ UNCHANGED <<which, gcPhaseVars>>
CollectorRuns(c) ==
    which = "collections" /\ CollectorStep(c) /\ UNCHANGED <<which, executorVars>>
BarrierRuns(c) ==
    which = "collections" /\ BarrierStep(c) /\ UNCHANGED <<which, executorVars>>

LifeCycleNext ==
    \/ Setup
    \/ SignalThreadRuns
    \/ \E e \in ExecutorIds : GuestRuns(e) \/ ExecutorRuns(e)
    \/ \E c \in Collectors : CollectorRuns(c) \/ BarrierRuns(c)

\* The fairness of the two parts.
LifeCycleFairness ==
    /\ WF_lifeCycleVars(Setup)
    /\ WF_lifeCycleVars(SignalThreadRuns)
    /\ \A e \in ExecutorIds : WF_lifeCycleVars(ExecutorRuns(e))
    /\ \A c \in Collectors : WF_lifeCycleVars(BarrierRuns(c))

LifeCycleSpec == LifeCycleInit /\ [][LifeCycleNext]_lifeCycleVars /\ LifeCycleFairness
=============================================================================
