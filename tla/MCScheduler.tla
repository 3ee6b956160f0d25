---------------------------- MODULE MCScheduler ----------------------------
(* Model-checking instances of Scheduler. *)
EXTENDS Scheduler, TLC, SequencesExt

\* Threads other than the main one are interchangeable.
ThreadSymmetry == Permutations(Threads \ {MainThread})

\* A state Spec reaches: before the other executors come online, the main
\* thread has created all the other threads runnable and has been given back
\* MaxCalls calls.  The last activation left the next executor signalled.
BusyInit ==
    LET fresh == Threads \ {MainThread} IN
    /\ sr = [t \in Threads |-> [stat |-> IF t = MainThread THEN "RUNNING"
                                         ELSE "RUNNABLE", ref |-> TRUE]]
    /\ texec = [t \in Threads |-> IF t = MainThread THEN 0 ELSE NoExec]
    /\ life = [t \in Threads |-> "live"]
    /\ threadNum = Cardinality(Threads)
    /\ ws = SetToSeq(fresh)
    /\ active = Cardinality(Threads)
    /\ gcOn = FALSE
    /\ lq = [e \in Execs |-> <<>>]
    /\ num = [e \in Execs |-> IF e = 0 THEN 1 ELSE 0]
    /\ curr = [e \in Execs |-> IF e = 0 THEN MainThread ELSE NoThread]
    /\ mbox = [e \in Execs |-> e \in 1 .. Cardinality(fresh)]
    /\ ossig = mbox
    /\ pc = [e \in Execs |-> IF e = 0 THEN "run" ELSE "cycle"]
    /\ ret = [e \in Execs |-> "curr"]
    /\ hand = [e \in Execs |-> NoThread]
    /\ old = [e \in Execs |-> NoVal]
    /\ op = [e \in Execs |-> NoOp]
    /\ calls = MaxCalls

BusySpec == BusyInit /\ [][Next]_vars

\* Until one call is left the guests only suspend themselves.
SelfFirst ==
    calls' < calls /\ calls > 1 =>
        \E e \in Execs : /\ op'[e] # op[e]
                        /\ op'[e].thr = curr[e] /\ op'[e].req = "SUSPEND"
=============================================================================
