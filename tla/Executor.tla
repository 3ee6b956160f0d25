------------------------------ MODULE Executor ------------------------------
(***************************************************************************)
(* How the executors come online and go offline (cc/thread_executor.c and  *)
(* the start and stop functions of noninteract_scheduler.c): the original  *)
(* OS thread starts a signal thread and the workers, guests run, executors *)
(* sleep and are woken, and one of them shuts the system down.             *)
(*                                                                         *)
(* Which guest runs next is Scheduler's concern: here it is any one of the *)
(* executor's own queue, the workshare and the guest that ran last.        *)
(***************************************************************************)
EXTENDS Naturals, Sequences, FiniteSets

CONSTANTS
    ExecutorNum,    \* executor_num; cc_start raises it to two
    Guests,         \* the guest threads
    MainGuest,      \* the one executor_start_prog creates
    NoGuest,        \* NULL
    MaxStops        \* bound on the calls of executor_stop

ASSUME ExecutorAssumption ==
    /\ ExecutorNum \in Nat /\ ExecutorNum > 1
    /\ IsFiniteSet(Guests) /\ MainGuest \in Guests /\ NoGuest \notin Guests

VARIABLES
    live,           \* executor_live
    sigPc,          \* the signal thread
    exPc,           \* exPc[e]: what the OS thread of executor e does next
    exIndex,        \* exIndex[e]: the loop variable of that
    exMbox,         \* exMbox[e]: EX_SIGNAL_SCHEDULE in ex_signal_mbox
    osPending,      \* the OS threads with a pending os_signal_check_mbox
    exCurr,         \* sch_curr_thread, NULL while idle
    exQueue,        \* the executor's own queue
    workshare,      \* the guests in sched_workshare
    shareUp,        \* sched_workshare is not NULL
    created,        \* the guests created so far
    destroyed,      \* how often thread_destroy was called for each guest
    stoppers        \* history: the executors that called executor_stop

executorVars == <<live, sigPc, exPc, exIndex, exMbox, osPending, exCurr,
                  exQueue, workshare, shareUp, created, destroyed, stoppers>>
guestVars == <<exCurr, exQueue, workshare, shareUp, created, destroyed>>

ExecutorIds == 0 .. ExecutorNum - 1
SignalThread == ExecutorNum     \* its number among the OS threads

\* cc_start, executor_start and scheduler_start: executor 0 runs alone.
executor_start ==
    /\ live = FALSE
    /\ sigPc = "none"
    /\ exPc = [e \in ExecutorIds |-> IF e = 0 THEN "setup" ELSE "none"]
    /\ exIndex = [e \in ExecutorIds |-> IF e = 0 THEN 1 ELSE 0]
    /\ exMbox = [e \in ExecutorIds |-> FALSE]
    /\ osPending = {}
    /\ exCurr = [e \in ExecutorIds |-> NoGuest]
    /\ exQueue = [e \in ExecutorIds |-> <<>>]
    /\ workshare = {}
    /\ shareUp = TRUE
    /\ created = {}
    /\ destroyed = [g \in Guests |-> 0]
    /\ stoppers = {}

Does(e, label) == exPc' = [exPc EXCEPT ![e] = label]

\* A guest runs on the executor.
GuestPcs == {"guest", "wake", "wakeCas", "wakeSend"}

-----------------------------------------------------------------------------
(* Start-up.                                                               *)

\* executor_setup: the signal thread is started before executor_live is set.
StartSignalThread ==
    /\ exPc[0] = "setup" /\ sigPc = "none"
    /\ sigPc' = "test"
    /\ Does(0, "setLive")
    /\ UNCHANGED <<live, exIndex, exMbox, osPending, guestVars, stoppers>>

SetLive ==
    /\ exPc[0] = "setLive"
    /\ live' = TRUE
    /\ Does(0, "create")
    /\ UNCHANGED <<sigPc, exIndex, exMbox, osPending, guestVars, stoppers>>

CreateWorker ==
    LET i == exIndex[0] IN
    /\ exPc[0] = "create"
    /\ exPc' = [exPc EXCEPT ![i] = "init",
                            ![0] = IF i + 1 < ExecutorNum THEN "create" ELSE "init"]
    /\ exIndex' = [exIndex EXCEPT ![0] = IF i + 1 < ExecutorNum THEN i + 1 ELSE 0]
    /\ UNCHANGED <<live, sigPc, exMbox, osPending, guestVars, stoppers>>

\* executor_init_state and scheduler_init: the executor's own queue is empty
\* and nothing runs; the mailbox is left as it is.  A worker goes on with the
\* scheduler, executor 0 with the main guest.
executor_init_state(e) ==
    /\ exPc[e] = "init"
    /\ exQueue' = [exQueue EXCEPT ![e] = <<>>]
    /\ \/ /\ e = 0
          /\ exCurr' = [exCurr EXCEPT ![e] = MainGuest]
          /\ created' = created \cup {MainGuest}
          /\ Does(e, "guest")
       \/ /\ e # 0
          /\ exCurr' = [exCurr EXCEPT ![e] = NoGuest]
          /\ Does(e, "cycle")
          /\ UNCHANGED created
    /\ UNCHANGED <<live, sigPc, exIndex, exMbox, osPending, workshare,
                   shareUp, destroyed, stoppers>>

\* executor_signal_thread_start: signals are blocked but for the suspension.
SignalThreadStep ==
    /\ \/ sigPc = "test" /\ live /\ sigPc' = "suspended" /\ UNCHANGED osPending
       \/ sigPc = "test" /\ ~live /\ sigPc' = "exited" /\ UNCHANGED osPending
       \/ /\ sigPc = "suspended" /\ SignalThread \in osPending
          /\ osPending' = osPending \ {SignalThread}
          /\ sigPc' = "test"
    /\ UNCHANGED <<live, exPc, exIndex, exMbox, guestVars, stoppers>>

-----------------------------------------------------------------------------
(* Running, sleeping and waking.                                           *)

\* A guest makes another one runnable: it goes to the workshare, and
\* executor_restart_idle looks for a sleeping executor.
Activate(e) ==
    /\ exPc[e] = "guest"
    /\ \E g \in Guests \ created : /\ created' = created \cup {g}
                                   /\ workshare' = workshare \cup {g}
    /\ Does(e, "wake")
    /\ UNCHANGED <<live, sigPc, exIndex, exMbox, osPending, exCurr, exQueue, shareUp,
                   destroyed, stoppers>>

\* executor_try_wakeup: an executor that runs nothing and has no signal.
WakeRead(e) ==
    LET i == exIndex[e] IN
    /\ exPc[e] = "wake"
    /\ \/ /\ i < ExecutorNum /\ exCurr[i] = NoGuest /\ ~exMbox[i]
          /\ Does(e, "wakeCas") /\ UNCHANGED exIndex
       \/ /\ i < ExecutorNum /\ (exCurr[i] # NoGuest \/ exMbox[i])
          /\ exIndex' = [exIndex EXCEPT ![e] = i + 1] /\ UNCHANGED exPc
       \/ i = ExecutorNum /\ Does(e, "guest") /\ exIndex' = [exIndex EXCEPT ![e] = 0]
    /\ UNCHANGED <<live, sigPc, exMbox, osPending, guestVars, stoppers>>

WakeCas(e) ==
    LET i == exIndex[e] IN
    /\ exPc[e] = "wakeCas"
    /\ \/ ~exMbox[i] /\ exMbox' = [exMbox EXCEPT ![i] = TRUE] /\ Does(e, "wakeSend")
       \/ exMbox[i] /\ Does(e, "wake") /\ UNCHANGED exMbox
    /\ UNCHANGED <<live, sigPc, exIndex, osPending, guestVars, stoppers>>

WakeSend(e) ==
    /\ exPc[e] = "wakeSend"
    /\ osPending' = osPending \cup {exIndex[e]}
    /\ exIndex' = [exIndex EXCEPT ![e] = 0]
    /\ Does(e, "guest")
    /\ UNCHANGED <<live, sigPc, exMbox, guestVars, stoppers>>

\* executor_safepoint of a guest, executor_check_mbox_sigs: without a signal in
\* the mailbox it returns, whatever executor_live is.
executor_safepoint(e) ==
    /\ exPc[e] = "guest" /\ exMbox[e]
    /\ exMbox' = [exMbox EXCEPT ![e] = FALSE]
    /\ Does(e, "cycle")
    /\ UNCHANGED <<live, sigPc, exIndex, osPending, guestVars, stoppers>>

\* A guest yields: the mailbox is left as it is.
executor_sched_cycle(e) ==
    /\ exPc[e] = "guest"
    /\ Does(e, "cycle")
    /\ UNCHANGED <<live, sigPc, exIndex, exMbox, osPending, guestVars, stoppers>>

\* After the shutdown began the executor exits, with the guest that ran last
\* still its current one.
do_executor_sched_cycle(e) ==
    /\ exPc[e] = "cycle"
    /\ Does(e, IF live THEN "next" ELSE "exited")
    /\ UNCHANGED <<live, sigPc, exIndex, exMbox, osPending, guestVars, stoppers>>

\* Mutant: the guest taken from the workshare stays there.
NextGuestKept(e) ==
    /\ exPc[e] = "next"
    /\ \E g \in workshare : exCurr' = [exCurr EXCEPT ![e] = g]
    /\ Does(e, "guest")
    /\ UNCHANGED <<live, sigPc, exIndex, exMbox, osPending, exQueue, workshare,
                   shareUp, created, destroyed, stoppers>>

\* scheduler_cycle: the last guest goes to the end of the executor's queue and
\* one of the queue or the workshare runs, or the idle thread does.
NextGuest(e) ==
    LET queue == IF exCurr[e] = NoGuest THEN exQueue[e]
                 ELSE Append(exQueue[e], exCurr[e]) IN
    /\ exPc[e] = "next"
    /\ \/ /\ queue # <<>>
          /\ exCurr' = [exCurr EXCEPT ![e] = Head(queue)]
          /\ exQueue' = [exQueue EXCEPT ![e] = Tail(queue)]
          /\ Does(e, "guest")
          /\ UNCHANGED workshare
       \/ \E g \in workshare :
              /\ workshare' = workshare \ {g}
              /\ exCurr' = [exCurr EXCEPT ![e] = g]
              /\ exQueue' = [exQueue EXCEPT ![e] = queue]
              /\ Does(e, "guest")
       \/ /\ queue = <<>> /\ workshare = {}
          /\ exCurr' = [exCurr EXCEPT ![e] = NoGuest]
          /\ Does(e, "idle")
          /\ UNCHANGED <<exQueue, workshare>>
    /\ UNCHANGED <<live, sigPc, exIndex, exMbox, osPending, shareUp, created,
                   destroyed, stoppers>>

\* executor_idle_thread and executor_check_mbox_sigs
IdleTest(e) ==
    /\ exPc[e] = "idle"
    /\ Does(e, IF live THEN "mbox" ELSE "exited")
    /\ UNCHANGED <<live, sigPc, exIndex, exMbox, osPending, guestVars, stoppers>>

IdleMbox(e) ==
    /\ exPc[e] = "mbox"
    /\ exMbox' = [exMbox EXCEPT ![e] = FALSE]
    /\ Does(e, IF exMbox[e] THEN "cycle" ELSE "suspended")
    /\ UNCHANGED <<live, sigPc, exIndex, osPending, guestVars, stoppers>>

\* os_sigsuspend: returns for a signal that is or was sent meanwhile.
IdleWake(e) ==
    /\ exPc[e] = "suspended" /\ e \in osPending
    /\ osPending' = osPending \ {e}
    /\ Does(e, "idle")
    /\ UNCHANGED <<live, sigPc, exIndex, exMbox, guestVars, stoppers>>

-----------------------------------------------------------------------------
(* Shutdown.                                                               *)

executor_stop(e) ==
    /\ exPc[e] = "guest" /\ Cardinality(stoppers) < MaxStops
    /\ live' = FALSE
    /\ stoppers' = stoppers \cup {e}
    /\ Does(e, "signalThread")
    /\ UNCHANGED <<sigPc, exIndex, exMbox, osPending, guestVars>>

SignalTheThread(e) ==
    /\ exPc[e] = "signalThread"
    /\ osPending' = osPending \cup {SignalThread}
    /\ Does(e, "joinThread")
    /\ UNCHANGED <<live, sigPc, exIndex, exMbox, guestVars, stoppers>>

\* The executors in the order of the loop, without the one that shuts down.
Following(e, i) == IF i = e THEN i + 1 ELSE i

JoinTheThread(e) ==
    /\ exPc[e] = "joinThread" /\ sigPc = "exited"
    /\ exIndex' = [exIndex EXCEPT ![e] = Following(e, 0)]
    /\ Does(e, "signal")
    /\ UNCHANGED <<live, sigPc, exMbox, osPending, guestVars, stoppers>>

\* Mutant: the executor is joined without a signal.
SignalExecutorNot(e) ==
    LET i == exIndex[e] IN
    /\ exPc[e] = "signal"
    /\ Does(e, IF i < ExecutorNum THEN "join" ELSE "destroyOwn")
    /\ UNCHANGED <<live, sigPc, exIndex, exMbox, osPending, guestVars, stoppers>>

SignalExecutor(e) ==
    LET i == exIndex[e] IN
    /\ exPc[e] = "signal"
    /\ \/ i < ExecutorNum /\ osPending' = osPending \cup {i} /\ Does(e, "join")
       \/ i >= ExecutorNum /\ Does(e, "destroyOwn") /\ UNCHANGED osPending
    /\ UNCHANGED <<live, sigPc, exIndex, exMbox, guestVars, stoppers>>

\* scheduler_destroy: the current guest, and the queue from its last guest on,
\* which has no successor: the guests before it stay.
SchedulerDestroyed(i) ==
    LET q == exQueue[i]
        gone == ({exCurr[i]} \ {NoGuest}) \cup (IF q = <<>> THEN {} ELSE {q[Len(q)]}) IN
    /\ destroyed' = [g \in Guests |-> IF g \in gone THEN destroyed[g] + 1 ELSE destroyed[g]]
    /\ UNCHANGED <<exCurr, exQueue, workshare, created>>

\* Mutant: the executor is not joined.
JoinExecutorNot(e) ==
    LET i == exIndex[e] IN
    /\ exPc[e] = "join"
    /\ SchedulerDestroyed(i)
    /\ exIndex' = [exIndex EXCEPT ![e] = Following(e, i + 1)]
    /\ Does(e, "signal")
    /\ UNCHANGED <<live, sigPc, exMbox, osPending, shareUp, stoppers>>

JoinExecutor(e) ==
    LET i == exIndex[e] IN
    /\ exPc[e] = "join" /\ exPc[i] = "exited"
    /\ SchedulerDestroyed(i)
    /\ exIndex' = [exIndex EXCEPT ![e] = Following(e, i + 1)]
    /\ Does(e, "signal")
    /\ UNCHANGED <<live, sigPc, exMbox, osPending, shareUp, stoppers>>

DestroyOwn(e) ==
    /\ exPc[e] = "destroyOwn"
    /\ SchedulerDestroyed(e)
    /\ Does(e, "empty")
    /\ UNCHANGED <<live, sigPc, exIndex, exMbox, osPending, shareUp, stoppers>>

\* scheduler_stop: the workshare is emptied and gone.
scheduler_stop(e) ==
    /\ exPc[e] = "empty"
    /\ destroyed' = [g \in Guests |-> IF g \in workshare THEN destroyed[g] + 1
                                      ELSE destroyed[g]]
    /\ workshare' = {}
    /\ shareUp' = FALSE
    /\ Does(e, "exited")
    /\ UNCHANGED <<live, sigPc, exIndex, exMbox, osPending, exCurr, exQueue,
                   created, stoppers>>

\* What the guest of executor e decides to do.
GuestStep(e) == Activate(e) \/ executor_sched_cycle(e) \/ executor_stop(e)

RuntimeStep(e) ==
    \/ executor_init_state(e) \/ WakeRead(e) \/ WakeCas(e) \/ WakeSend(e)
    \/ executor_safepoint(e) \/ do_executor_sched_cycle(e) \/ NextGuest(e)
    \/ IdleTest(e) \/ IdleMbox(e) \/ IdleWake(e)
    \/ SignalTheThread(e) \/ JoinTheThread(e) \/ SignalExecutor(e)
    \/ JoinExecutor(e) \/ DestroyOwn(e) \/ scheduler_stop(e)

ExecutorStep(e) == GuestStep(e) \/ RuntimeStep(e)

SetupStep == StartSignalThread \/ SetLive \/ CreateWorker

ExecutorNext == SetupStep \/ SignalThreadStep \/ \E e \in ExecutorIds : ExecutorStep(e)

\* The OS runs every OS thread, and a guest comes to a safe-point now and then;
\* what else it calls is up to the guest.
ExecutorFairness ==
    /\ WF_executorVars(SetupStep) /\ WF_executorVars(SignalThreadStep)
    /\ \A e \in ExecutorIds : WF_executorVars(RuntimeStep(e))

ExecutorSpec == executor_start /\ [][ExecutorNext]_executorVars /\ ExecutorFairness

-----------------------------------------------------------------------------
(* Properties.                                                             *)

Exited(e) == exPc[e] = "exited"

ShutDown == sigPc = "exited" /\ ~shareUp /\ \A e \in ExecutorIds : Exited(e)

\* executor_stop terminates an executor that looked at executor_live just before
\* it was cleared and then went to sleep or ran another guest, or that had not
\* come online yet, if the guests come back to the scheduler: a safe-point is
\* not enough, because shutdown sets no mailbox (thread_executor.c:552).  Two
\* executors that stop the system join each other for ever.
ShutdownEnds ==
    (\A e \in ExecutorIds : []<>(exPc[e] \notin GuestPcs)) =>
        (stoppers # {} ~> Cardinality(stoppers) > 1 \/ ShutDown)

\* No guest is lost or duplicated while executors come online, sleep and stop,
\* and none is destroyed twice or while an executor may still run it.
GuestsDestroyedOnce ==
    LET places(g) == Cardinality({e \in ExecutorIds : exCurr[e] = g})
                     + Cardinality({p \in ExecutorIds \X (1 .. Cardinality(Guests)) :
                           p[2] <= Len(exQueue[p[1]]) /\ exQueue[p[1]][p[2]] = g})
                     + Cardinality({h \in workshare : h = g})
    IN  \A g \in Guests :
            /\ Cardinality(stoppers) <= 1 => destroyed[g] <= 1
            /\ g \in created /\ shareUp => places(g) = 1
            /\ \A e \in ExecutorIds : exCurr[e] = g /\ destroyed[g] > 0 =>
                   Exited(e) \/ e \in stoppers

\* The workshare goes when nobody is left who could use it.
ShareOutlivesExecutors == ~shareUp => \A e \in ExecutorIds : Exited(e)
=============================================================================
