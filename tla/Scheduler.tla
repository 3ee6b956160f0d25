----------------------------- MODULE Scheduler -----------------------------
(***************************************************************************)
(* The non-interactive M:N thread scheduler (cc/noninteract_scheduler.c)   *)
(* with the operations of cc/cc.c and cc/thread.c that drive it and the    *)
(* executor loop of cc/thread_executor.c that it drives.                   *)
(*                                                                         *)
(* Every executor is a sequential process.  A step of the model is one     *)
(* access to memory that another executor can see (a read, a CAS, a queue  *)
(* operation, a mailbox update) together with the private code after it.   *)
(* The workshare queue is an atomic bounded FIFO here.                     *)
(***************************************************************************)
EXTENDS Integers, Sequences, FiniteSets, Functions

CONSTANTS
    Threads,        \* guest threads (thread_t structures)
    MainThread,     \* the thread executor_start_prog creates
    IdleThread,     \* stands for any executor's sch_idle_thread
    NoThread,       \* NULL
    NumExecs,       \* executor_count()
    QueueCap,       \* nodes the workshare queue can hand out
    UintMod,        \* 2^w for the width of unsigned int
    Immediate,      \* statuses guests pass to cc_thread_update_immediate
    Deferred,       \* statuses guests pass to cc_thread_update
    MayDestroy,     \* whether guests call cc_thread_destroy
    OnlySelf,       \* guests change only the thread they run in, except to wake
    MayCollect,     \* whether a collection may start
    MaxCalls        \* bound on the number of API calls

Execs == 0 .. NumExecs - 1
NoExec == -1

ASSUME ThreadAssumption ==
    /\ MainThread \in Threads
    /\ IdleThread \notin Threads
    /\ NoThread \notin Threads
    /\ NoThread # IdleThread

ASSUME SizeAssumption ==
    /\ NumExecs \in Nat /\ NumExecs > 1
    /\ QueueCap \in Nat
    /\ UintMod \in Nat /\ UintMod > 1
    /\ MaxCalls \in Nat

ASSUME CallAssumption ==
    /\ Immediate \subseteq {"RUNNABLE", "SUSPEND", "TERM"}
    /\ Deferred \subseteq {"SUSPEND", "TERM", "GC_WAIT"}
    /\ MayDestroy \in BOOLEAN
    /\ OnlySelf \in BOOLEAN
    /\ MayCollect \in BOOLEAN

Statuses == {"RUNNABLE", "RUNNING", "SUSPEND", "SUSPENDED", "TERM", "DEAD",
             "DESTROY", "GC_WAIT", "FINALIZER_LIVE", "FINALIZER_WAIT", "NONE"}

\* A value of t_sched_stat_ref: the status and the T_REF bit.
StatRef == [stat : Statuses, ref : BOOLEAN]

VARIABLES
    sr,         \* sr[t]: t_sched_stat_ref
    texec,      \* texec[t]: the executor field of t's mailbox
    life,       \* life[t]: where t is between thread_init and thread_destroy
    threadNum,  \* thread_num
    ws,         \* sched_workshare
    active,     \* sched_active_threads
    gcOn,       \* the phase of gc_state is not GC_STATE_INACTIVE
    lq,         \* lq[e]: the private queue of e's scheduler
    num,        \* num[e]: sch_num_threads
    curr,       \* curr[e]: sch_curr_thread
    mbox,       \* mbox[e]: EX_SIGNAL_SCHEDULE in ex_signal_mbox
    ossig,      \* ossig[e]: os_signal_check_mbox is pending for e
    pc,         \* pc[e]: the next step of e
    ret,        \* ret[e]: which caller the status check returns to
    hand,       \* hand[e]: the thread e has taken off a queue
    old,        \* old[e]: the value of t_sched_stat_ref e read last
    op,         \* op[e]: arguments of the API call in progress
    calls       \* API calls left

schedVars == <<lq, num, curr>>
lifeVars  == <<life, threadNum>>
wakeVars  == <<mbox, ossig>>
vars == <<sr, texec, life, threadNum, ws, active, gcOn, lq, num, curr,
          mbox, ossig, pc, ret, hand, old, op, calls>>

NoVal == [stat |-> "NONE", ref |-> FALSE]
NoOp  == [thr |-> NoThread, req |-> "NONE", tgt |-> NoExec]

\* Mutant: a decrement that goes below zero.
DecSigned(n) == n - 1

\* Unsigned increment and decrement.
Inc(n) == (n + 1) % UintMod
Dec(n) == (n - 1) % UintMod

Goto(e, label) == pc' = [pc EXCEPT ![e] = label]

-----------------------------------------------------------------------------
(* Balancing bounds: 5/4 and 3/4 of an even share, at least one thread.    *)

sched_upper_bound ==
    LET bound == ((active + active \div 4) % UintMod) \div NumExecs
    IN  IF bound # 0 THEN bound ELSE 1

sched_lower_bound ==
    LET frac  == active \div 4
        bound == (IF frac < active THEN active - frac ELSE 0) \div NumExecs
    IN  IF bound # 0 THEN bound ELSE 1

\* lf_thread_queue_enqueue; its result (no node left) is ignored by callers.
Enqueue(t) == ws' = IF Len(ws) < QueueCap THEN Append(ws, t) ELSE ws

thread_destroy(t) ==
    /\ life' = [life EXCEPT ![t] = "destroyed"]
    /\ threadNum' = Dec(threadNum)

-----------------------------------------------------------------------------
(* The executor loop.                                                      *)

\* The program's first executor runs the main thread; the others schedule.
Init ==
    /\ sr = [t \in Threads |-> IF t = MainThread
                               THEN [stat |-> "RUNNING", ref |-> TRUE]
                               ELSE NoVal]
    /\ texec = [t \in Threads |-> IF t = MainThread THEN 0 ELSE NoExec]
    /\ life = [t \in Threads |-> IF t = MainThread THEN "live" ELSE "unborn"]
    /\ threadNum = 1
    /\ ws = <<>>
    /\ active = 1
    /\ gcOn = FALSE
    /\ lq = [e \in Execs |-> <<>>]
    /\ num = [e \in Execs |-> IF e = 0 THEN 1 ELSE 0]
    /\ curr = [e \in Execs |-> IF e = 0 THEN MainThread ELSE NoThread]
    /\ mbox = [e \in Execs |-> FALSE]
    /\ ossig = [e \in Execs |-> FALSE]
    /\ pc = [e \in Execs |-> IF e = 0 THEN "run" ELSE "cycle"]
    /\ ret = [e \in Execs |-> "curr"]
    /\ hand = [e \in Execs |-> NoThread]
    /\ old = [e \in Execs |-> NoVal]
    /\ op = [e \in Execs |-> NoOp]
    /\ calls = MaxCalls

\* Mutant: the retired thread's mailbox keeps naming the executor.
CycleKeepsMailbox(e) ==
    /\ pc[e] = "cycle"
    /\ \/ /\ curr[e] # NoThread
          /\ ret' = [ret EXCEPT ![e] = "curr"]
          /\ Goto(e, "ack")
       \/ /\ curr[e] = NoThread
          /\ Goto(e, "share")
          /\ UNCHANGED ret
    /\ UNCHANGED <<sr, texec, lifeVars, ws, active, gcOn, schedVars, wakeVars,
                   hand, old, op, calls>>

\* do_executor_sched_cycle: retire the old thread, enter scheduler_cycle.
Cycle(e) ==
    /\ pc[e] = "cycle"
    /\ \/ /\ curr[e] # NoThread
          /\ texec' = [texec EXCEPT ![curr[e]] = NoExec]
          /\ ret' = [ret EXCEPT ![e] = "curr"]
          /\ Goto(e, "ack")
       \/ /\ curr[e] = NoThread
          /\ Goto(e, "share")
          /\ UNCHANGED <<texec, ret>>
    /\ UNCHANGED <<sr, lifeVars, ws, active, gcOn, schedVars, wakeVars,
                   hand, old, op, calls>>

\* Mutant: the new thread's mailbox is not told its executor.
ResultUnnamed(e) ==
    /\ pc[e] = "result"
    /\ Goto(e, CASE curr[e] # NoThread -> "run"
                 [] curr[e] = NoThread /\ gcOn -> "gcrun"
                 [] OTHER -> "idle")
    /\ UNCHANGED <<sr, texec, lifeVars, ws, active, gcOn, schedVars, wakeVars,
                   ret, hand, old, op, calls>>

\* scheduler_result and the rest of executor_get_new_thread.
Result(e) ==
    /\ pc[e] = "result"
    /\ \/ /\ curr[e] # NoThread
          /\ texec' = [texec EXCEPT ![curr[e]] = e]
          /\ Goto(e, "run")
       \/ /\ curr[e] = NoThread
          /\ Goto(e, IF gcOn THEN "gcrun" ELSE "idle")
          /\ UNCHANGED texec
    /\ UNCHANGED <<sr, lifeVars, ws, active, gcOn, schedVars, wakeVars,
                   ret, hand, old, op, calls>>

\* executor_idle_thread: executor_check_mbox_sigs, then suspend.
IdleCheck(e) ==
    /\ pc[e] = "idle"
    /\ mbox' = [mbox EXCEPT ![e] = FALSE]
    /\ Goto(e, IF mbox[e] THEN "cycle" ELSE "susp")
    /\ UNCHANGED <<sr, texec, lifeVars, ws, active, gcOn, schedVars, ossig,
                   ret, hand, old, op, calls>>

\* os_sigsuspend returns once the signal is delivered.
IdleWake(e) ==
    /\ pc[e] = "susp"
    /\ ossig[e]
    /\ ossig' = [ossig EXCEPT ![e] = FALSE]
    /\ Goto(e, "idle")
    /\ UNCHANGED <<sr, texec, lifeVars, ws, active, gcOn, schedVars, mbox,
                   ret, hand, old, op, calls>>

\* executor_safepoint in a guest or in the collector: act on the mailbox.
Safepoint(e) ==
    /\ pc[e] \in {"run", "gcrun"}
    /\ mbox[e]
    /\ mbox' = [mbox EXCEPT ![e] = FALSE]
    /\ Goto(e, "cycle")
    /\ UNCHANGED <<sr, texec, lifeVars, ws, active, gcOn, schedVars, ossig,
                   ret, hand, old, op, calls>>

\* cc_sched_cycle called by a guest, which keeps its status.
SchedCycle(e) ==
    /\ pc[e] = "run"
    /\ Goto(e, "cycle")
    /\ UNCHANGED <<sr, texec, lifeVars, ws, active, gcOn, schedVars, wakeVars,
                   ret, hand, old, op, calls>>

-----------------------------------------------------------------------------
(* The collector, as the scheduler sees it.                                *)

\* gc_allocator_check_activate_collector, in an allocation of a running guest.
GcStart ==
    /\ MayCollect
    /\ ~gcOn
    /\ \E e \in Execs : pc[e] = "run"
    /\ gcOn' = TRUE
    /\ UNCHANGED <<sr, texec, lifeVars, ws, active, schedVars, wakeVars,
                   pc, ret, hand, old, op, calls>>

\* gc_thread_final_barrier: the last of all collector threads ends it.
GcEnd ==
    /\ gcOn
    /\ \A e \in Execs : pc[e] = "gcrun"
    /\ gcOn' = FALSE
    /\ UNCHANGED <<sr, texec, lifeVars, ws, active, schedVars, wakeVars,
                   pc, ret, hand, old, op, calls>>

\* gc_thread_yield, once the collection is over: a forced safe-point.
GcYield(e) ==
    /\ pc[e] = "gcrun"
    /\ ~gcOn
    /\ mbox' = [mbox EXCEPT ![e] = FALSE]
    /\ Goto(e, "cycle")
    /\ UNCHANGED <<sr, texec, lifeVars, ws, active, gcOn, schedVars, ossig,
                   ret, hand, old, op, calls>>

-----------------------------------------------------------------------------
(* sched_set_running_status, called for the current thread ("curr"), for   *)
(* one from the local queue ("local") and for one from the workshare       *)
(* ("share").                                                              *)

AckThread(e) == IF ret[e] = "curr" THEN curr[e] ELSE hand[e]

\* Where the callers go on when the thread was dropped.
AfterDrop(r) == CASE r = "curr"  -> "replace"
                  [] r = "local" -> "local"
                  [] r = "share" -> "share"
                  [] r \in {"take", "put"} -> "result"

Drop(e) ==
    /\ hand' = [hand EXCEPT ![e] = NoThread]
    /\ Goto(e, AfterDrop(ret[e]))

\* The statuses on which the function does not panic.
Acknowledgeable == {"RUNNING", "RUNNABLE", "FINALIZER_LIVE", "GC_WAIT",
                    "SUSPEND", "TERM", "DESTROY"}

\* Mutant: a suspended thread is discarded without acknowledging it.
AckReadDiscards(e) ==
    LET t == AckThread(e) IN
    /\ pc[e] = "ack"
    /\ \/ /\ sr[t].stat \in {"DESTROY", "SUSPEND"}
          /\ IF sr[t].stat = "DESTROY" THEN thread_destroy(t) ELSE UNCHANGED lifeVars
          /\ Drop(e)
          /\ UNCHANGED old
       \/ /\ sr[t].stat \notin {"DESTROY", "SUSPEND"}
          /\ old' = [old EXCEPT ![e] = sr[t]]
          /\ Goto(e, "ackcas")
          /\ UNCHANGED <<lifeVars, hand>>
    /\ UNCHANGED <<sr, texec, ws, active, gcOn, schedVars, wakeVars, ret, op,
                   calls>>

AckRead(e) ==
    LET t == AckThread(e) IN
    /\ pc[e] = "ack"
    /\ \/ /\ sr[t].stat = "DESTROY"
          /\ thread_destroy(t)
          /\ Drop(e)
          /\ UNCHANGED old
       \/ /\ sr[t].stat # "DESTROY"
          /\ old' = [old EXCEPT ![e] = sr[t]]
          /\ Goto(e, IF sr[t].stat \notin Acknowledgeable THEN "fault"
                     ELSE IF sr[t].stat = "GC_WAIT" THEN "ackgc"
                     ELSE "ackcas")
          /\ UNCHANGED <<lifeVars, hand>>
    /\ UNCHANGED <<sr, texec, ws, active, gcOn, schedVars, wakeVars, ret, op,
                   calls>>

\* The EXECUTE result: the current thread goes on, another becomes current.
AfterExecute(r) == IF r = "curr" THEN "bal" ELSE "setcurr"

\* The SKIP result: sched_try_workshare tests for DISCARD, the others for
\* EXECUTE, so only the former runs the thread.
AfterSkip(r) == IF r = "share" THEN "setcurr" ELSE AfterDrop(r)

AckGcWait(e) ==
    /\ pc[e] = "ackgc"
    /\ \/ /\ gcOn
          /\ Goto(e, AfterSkip(ret[e]))
          /\ hand' = [hand EXCEPT ![e] = IF ret[e] = "share" THEN @ ELSE NoThread]
          /\ old' = [old EXCEPT ![e] = NoVal]
       \/ /\ ~gcOn
          /\ Goto(e, "ackcas")
          /\ UNCHANGED <<hand, old>>
    /\ UNCHANGED <<sr, texec, lifeVars, ws, active, gcOn, schedVars, wakeVars,
                   ret, op, calls>>

\* Mutant: T_REF is not unset for a suspended thread.
AcknowledgedWithRef(stat) ==
    CASE stat = "SUSPEND" -> [stat |-> "SUSPENDED", ref |-> TRUE]
      [] stat = "TERM"    -> [stat |-> "DEAD", ref |-> FALSE]
      [] OTHER            -> [stat |-> "RUNNING", ref |-> TRUE]

\* What the status is acknowledged to.
Acknowledged(stat) == CASE stat = "SUSPEND" -> [stat |-> "SUSPENDED", ref |-> FALSE]
                        [] stat = "TERM"    -> [stat |-> "DEAD", ref |-> FALSE]
                        [] OTHER            -> [stat |-> "RUNNING", ref |-> TRUE]

AckCas(e) ==
    LET t == AckThread(e)
        new == Acknowledged(old[e].stat) IN
    /\ pc[e] = "ackcas"
    /\ old' = [old EXCEPT ![e] = NoVal]
    /\ \/ /\ sr[t] = old[e]
          /\ sr' = [sr EXCEPT ![t] = new]
          /\ \/ /\ new.ref
                /\ Goto(e, AfterExecute(ret[e]))
                /\ UNCHANGED hand
             \/ /\ ~new.ref
                /\ Drop(e)
       \/ /\ sr[t] # old[e]
          /\ Goto(e, "ack")
          /\ UNCHANGED <<sr, hand>>
    /\ UNCHANGED <<texec, lifeVars, ws, active, gcOn, schedVars, wakeVars,
                   ret, op, calls>>

\* Make the thread in hand current; only sched_try_workshare counts it.
SetCurr(e) ==
    /\ pc[e] = "setcurr"
    /\ curr' = [curr EXCEPT ![e] = hand[e]]
    /\ num' = [num EXCEPT ![e] = IF ret[e] = "share" THEN Inc(@) ELSE @]
    /\ hand' = [hand EXCEPT ![e] = NoThread]
    /\ Goto(e, "bal")
    /\ UNCHANGED <<sr, texec, lifeVars, ws, active, gcOn, lq, wakeVars, ret,
                   old, op, calls>>

-----------------------------------------------------------------------------
(* scheduler_replace and sched_try_workshare.                              *)

Replace(e) ==
    /\ pc[e] = "replace"
    /\ curr' = [curr EXCEPT ![e] = NoThread]
    /\ num' = [num EXCEPT ![e] = Dec(@)]
    /\ Goto(e, "local")
    /\ UNCHANGED <<sr, texec, lifeVars, ws, active, gcOn, lq, wakeVars, ret,
                   hand, old, op, calls>>

\* Mutant: the thread stays in the local queue.
LocalPeek(e) ==
    /\ hand' = [hand EXCEPT ![e] = Head(lq[e])]
    /\ num' = [num EXCEPT ![e] = Dec(@)]
    /\ UNCHANGED lq

\* sched_queue_dequeue: it un-counts the thread even when it becomes current.
LocalDequeue(e) ==
    /\ hand' = [hand EXCEPT ![e] = Head(lq[e])]
    /\ lq' = [lq EXCEPT ![e] = Tail(@)]
    /\ num' = [num EXCEPT ![e] = Dec(@)]

TryLocal(e) ==
    /\ pc[e] = "local"
    /\ \/ /\ lq[e] # <<>>
          /\ LocalDequeue(e)
          /\ ret' = [ret EXCEPT ![e] = "local"]
          /\ Goto(e, "ack")
       \/ /\ lq[e] = <<>>
          /\ Goto(e, "share")
          /\ UNCHANGED <<hand, lq, num, ret>>
    /\ UNCHANGED <<sr, texec, lifeVars, ws, active, gcOn, curr, wakeVars, old,
                   op, calls>>

\* Dequeue for caller r; empty is where the caller goes on without a thread.
Dequeue(e, r, found, empty) ==
    /\ \/ /\ ws # <<>>
          /\ hand' = [hand EXCEPT ![e] = Head(ws)]
          /\ ws' = Tail(ws)
          /\ ret' = [ret EXCEPT ![e] = r]
          /\ Goto(e, found)
       \/ /\ ws = <<>>
          /\ Goto(e, empty)
          /\ UNCHANGED <<hand, ws, ret>>
    /\ UNCHANGED <<sr, texec, lifeVars, active, gcOn, schedVars, wakeVars,
                   old, op, calls>>

TryWorkshare(e) ==
    /\ pc[e] = "share"
    /\ Dequeue(e, "share", "ack", "result")

-----------------------------------------------------------------------------
(* scheduler_balance_threads.  Each read of sched_active_threads is a step *)
(* of its own.                                                             *)

BalanceStep(e) ==
    /\ Goto(e, CASE pc[e] = "bal" /\ active > NumExecs -> "ballow"
                 [] pc[e] = "bal" /\ active <= NumExecs ->
                        IF num[e] = 0 THEN "take" ELSE "result"
                 [] pc[e] = "ballow" ->
                        IF num[e] < sched_lower_bound THEN "take" ELSE "balup"
                 [] pc[e] = "balup" ->
                        IF num[e] > sched_upper_bound THEN "put" ELSE "result")
    /\ UNCHANGED <<sr, texec, lifeVars, ws, active, gcOn, schedVars, wakeVars,
                   ret, hand, old, op, calls>>

Balance(e) ==
    /\ pc[e] \in {"bal", "ballow", "balup"}
    /\ BalanceStep(e)

\* scheduler_take_thread: its loop ends after one thread, whatever became of
\* it, since the result -1 is stored in a bool.
Take(e) ==
    /\ pc[e] = "take"
    /\ Dequeue(e, "take", "try", "result")

\* scheduler_put_thread: dequeues without looking.  From an empty queue the
\* count goes down all the same, and the NULL that comes out ends the loop.
Put(e) ==
    /\ pc[e] = "put"
    /\ \/ /\ lq[e] # <<>>
          /\ LocalDequeue(e)
          /\ ret' = [ret EXCEPT ![e] = "put"]
          /\ Goto(e, "try")
       \/ /\ lq[e] = <<>>
          /\ num' = [num EXCEPT ![e] = Dec(@)]
          /\ Goto(e, "result")
          /\ UNCHANGED <<hand, lq, ret>>
    /\ UNCHANGED <<sr, texec, lifeVars, ws, active, gcOn, curr, wakeVars, old,
                   op, calls>>

\* The statuses with which a thread stays in the queues.
Queueable == {"RUNNABLE", "RUNNING", "GC_WAIT", "FINALIZER_LIVE"}

\* The read in scheduler_try_take_thread and scheduler_try_put_thread.
TryRead(e) ==
    LET t == hand[e] IN
    /\ pc[e] = "try"
    /\ \/ /\ sr[t].stat \in Queueable
          /\ \/ /\ ret[e] = "take"
                /\ lq' = [lq EXCEPT ![e] = Append(@, t)]
                /\ num' = [num EXCEPT ![e] = Inc(@)]
                /\ UNCHANGED ws
             \/ /\ ret[e] = "put"
                /\ Enqueue(t)
                /\ UNCHANGED <<lq, num>>
          /\ Drop(e)
          /\ UNCHANGED <<old, lifeVars>>
       \/ /\ sr[t].stat = "DESTROY"
          /\ thread_destroy(t)
          /\ Drop(e)
          /\ UNCHANGED <<ws, lq, num, old>>
       \/ /\ sr[t].stat \notin Queueable \cup {"DESTROY"}
          /\ old' = [old EXCEPT ![e] = sr[t]]
          /\ Goto(e, "trycas")
          /\ UNCHANGED <<ws, lq, num, hand, lifeVars>>
    /\ UNCHANGED <<sr, texec, active, gcOn, curr, wakeVars, ret, op, calls>>

\* Mutant: the thread is dropped with T_REF still set.
TryCasKeepsRef(e) ==
    /\ pc[e] = "trycas"
    /\ old' = [old EXCEPT ![e] = NoVal]
    /\ Drop(e)
    /\ UNCHANGED <<sr, texec, lifeVars, ws, active, gcOn, schedVars, wakeVars,
                   ret, op, calls>>

\* The CAS that unsets T_REF and keeps the status.
TryCas(e) ==
    LET t == hand[e] IN
    /\ pc[e] = "trycas"
    /\ old' = [old EXCEPT ![e] = NoVal]
    /\ \/ /\ sr[t] = old[e]
          /\ sr' = [sr EXCEPT ![t].ref = FALSE]
          /\ Drop(e)
       \/ /\ sr[t] # old[e]
          /\ Goto(e, "try")
          /\ UNCHANGED <<sr, hand>>
    /\ UNCHANGED <<texec, lifeVars, ws, active, gcOn, schedVars, wakeVars,
                   ret, op, calls>>

-----------------------------------------------------------------------------
(* The API calls of a running guest.                                       *)

\* A call starts with thread t and requested status req.
Call(e, t, req, label) ==
    /\ calls > 0
    /\ calls' = calls - 1
    /\ op' = [op EXCEPT ![e] = [thr |-> t, req |-> req, tgt |-> NoExec]]
    /\ Goto(e, label)
    /\ UNCHANGED <<texec, ws, active, gcOn, schedVars, wakeVars, ret, hand, old>>

\* What a call leaves behind when it returns to the guest.
Return(e) ==
    /\ Goto(e, "run")
    /\ op' = [op EXCEPT ![e] = NoOp]
    /\ old' = [old EXCEPT ![e] = NoVal]

\* cc_thread_create: thread_init, then scheduler_activate_thread if the
\* initial status is RUNNABLE (T_STAT_NONE until then).
thread_init(t, stat) ==
    /\ life[t] = "unborn"
    /\ life' = [life EXCEPT ![t] = "live"]
    /\ threadNum' = Inc(threadNum)
    /\ sr' = [sr EXCEPT ![t] = [stat |-> stat, ref |-> FALSE]]

CreateRunnable(e, t) ==
    /\ pc[e] = "run"
    /\ thread_init(t, "NONE")
    /\ Call(e, t, "RUNNABLE", "act")

CreateSuspended(e, t) ==
    /\ pc[e] = "run"
    /\ calls > 0
    /\ calls' = calls - 1
    /\ thread_init(t, "SUSPEND")
    /\ UNCHANGED <<texec, ws, active, gcOn, schedVars, wakeVars, pc, ret,
                   hand, old, op>>

\* cc_thread_update_immediate(RUNNABLE).
Activate(e, t) ==
    /\ pc[e] = "run"
    /\ life[t] = "live"
    /\ "RUNNABLE" \in Immediate
    /\ Call(e, t, "RUNNABLE", "act")
    /\ UNCHANGED <<sr, lifeVars>>

\* cc_thread_update_immediate(SUSPEND or TERM).
Deactivate(e, t, stat) ==
    /\ pc[e] = "run"
    /\ life[t] = "live"
    /\ stat \in Immediate \ {"RUNNABLE"}
    /\ OnlySelf => t = curr[e]
    /\ Call(e, t, stat, "deact")
    /\ UNCHANGED <<sr, lifeVars>>

\* cc_thread_destroy.  Guests make no other call on a thread that is, or is
\* about to be, destroyed: its memory is freed.
Destroy(e, t) ==
    /\ pc[e] = "run"
    /\ MayDestroy
    /\ life[t] = "live"
    /\ OnlySelf => t = curr[e]
    /\ \A f \in Execs : op[f].thr # t
    /\ life' = [life EXCEPT ![t] = "doomed"]
    /\ Call(e, t, "DESTROY", "deact")
    /\ UNCHANGED <<sr, threadNum>>

\* cc_thread_update.
Update(e, t, stat) ==
    /\ pc[e] = "run"
    /\ life[t] = "live"
    /\ stat \in Deferred
    /\ OnlySelf => t = curr[e]
    /\ Call(e, t, stat, "upd")
    /\ UNCHANGED <<sr, lifeVars>>

-----------------------------------------------------------------------------
(* scheduler_activate_thread.                                              *)

DeadEndStats == {"TERM", "DEAD", "DESTROY"}

\* The statuses whose threads sched_active_threads already counts.
Counted == {"RUNNABLE", "RUNNING", "GC_WAIT"}

ActRead(e) ==
    LET v == sr[op[e].thr] IN
    /\ pc[e] = "act"
    /\ \/ /\ v.stat \in DeadEndStats
          /\ Return(e)
       \/ /\ v.stat \notin DeadEndStats
          /\ old' = [old EXCEPT ![e] = v]
          /\ Goto(e, "actcas")
          /\ UNCHANGED op
    /\ UNCHANGED <<sr, texec, lifeVars, ws, active, gcOn, schedVars, wakeVars,
                   ret, hand, calls>>

ActCas(e) ==
    LET t == op[e].thr IN
    /\ pc[e] = "actcas"
    /\ \/ /\ sr[t] = old[e]
          /\ sr' = [sr EXCEPT ![t] = [stat |-> "RUNNABLE", ref |-> TRUE]]
          /\ Goto(e, "actinc")
          /\ UNCHANGED old
       \/ /\ sr[t] # old[e]
          /\ Goto(e, "act")
          /\ old' = [old EXCEPT ![e] = NoVal]
          /\ UNCHANGED sr
    /\ UNCHANGED <<texec, lifeVars, ws, active, gcOn, schedVars, wakeVars,
                   ret, hand, op, calls>>

\* Mutant: the thread is enqueued although the scheduler holds it.
ActIncAlways(e) ==
    /\ pc[e] = "actinc"
    /\ active' = IF old[e].stat \in Counted THEN active ELSE Inc(active)
    /\ Goto(e, "actenq")
    /\ UNCHANGED <<sr, texec, lifeVars, ws, gcOn, schedVars, wakeVars,
                   ret, hand, old, op, calls>>

\* Count the thread; the call is over if the scheduler held it already.
ActInc(e) ==
    /\ pc[e] = "actinc"
    /\ active' = IF old[e].stat \in Counted THEN active ELSE Inc(active)
    /\ \/ /\ old[e].ref
          /\ Return(e)
       \/ /\ ~old[e].ref
          /\ Goto(e, "actenq")
          /\ UNCHANGED <<op, old>>
    /\ UNCHANGED <<sr, texec, lifeVars, ws, gcOn, schedVars, wakeVars,
                   ret, hand, calls>>

ActEnqueue(e) ==
    /\ pc[e] = "actenq"
    /\ Enqueue(op[e].thr)
    /\ op' = [op EXCEPT ![e].tgt = 0]
    /\ old' = [old EXCEPT ![e] = NoVal]
    /\ Goto(e, "wake")
    /\ UNCHANGED <<sr, texec, lifeVars, active, gcOn, schedVars, wakeVars,
                   ret, hand, calls>>

\* executor_restart_idle: the first executor without a pending request to
\* schedule (read first) and without a thread (read next) is woken.
WakeRead(e) ==
    LET i == op[e].tgt
        awake == IF pc[e] = "wake" THEN mbox[i] ELSE curr[i] # NoThread IN
    /\ pc[e] \in {"wake", "wakecurr"}
    /\ \/ /\ ~awake
          /\ Goto(e, IF pc[e] = "wake" THEN "wakecurr" ELSE "wakecas")
          /\ UNCHANGED <<op, old>>
       \/ /\ awake
          /\ \/ /\ i + 1 < NumExecs
                /\ op' = [op EXCEPT ![e].tgt = i + 1]
                /\ Goto(e, "wake")
                /\ UNCHANGED old
             \/ /\ i + 1 = NumExecs
                /\ Return(e)
    /\ UNCHANGED <<sr, texec, lifeVars, ws, active, gcOn, schedVars, wakeVars,
                   ret, hand, calls>>

WakeCas(e) ==
    /\ pc[e] = "wakecas"
    /\ mbox' = [mbox EXCEPT ![op[e].tgt] = TRUE]
    /\ Goto(e, IF mbox[op[e].tgt] THEN "wake" ELSE "wakesig")
    /\ UNCHANGED <<sr, texec, lifeVars, ws, active, gcOn, schedVars, ossig,
                   ret, hand, old, op, calls>>

\* Mutant: the mailbox is set and the OS signal forgotten.
WakeUnsignalled(e) ==
    /\ pc[e] = "wakesig"
    /\ Return(e)
    /\ UNCHANGED <<sr, texec, lifeVars, ws, active, gcOn, schedVars, wakeVars,
                   ret, hand, calls>>

WakeSignal(e) ==
    /\ pc[e] = "wakesig"
    /\ ossig' = [ossig EXCEPT ![op[e].tgt] = TRUE]
    /\ Return(e)
    /\ UNCHANGED <<sr, texec, lifeVars, ws, active, gcOn, schedVars, mbox,
                   ret, hand, calls>>

-----------------------------------------------------------------------------
(* scheduler_deactivate_thread.                                            *)

\* The thread's executor is read first, its status only then.
DeactExecutor(e) ==
    /\ pc[e] = "deact"
    /\ op' = [op EXCEPT ![e].tgt = texec[op[e].thr]]
    /\ Goto(e, "deactread")
    /\ UNCHANGED <<sr, texec, lifeVars, ws, active, gcOn, schedVars, wakeVars,
                   ret, hand, old, calls>>

\* Mutant: a terminated thread may be suspended.
DeactReadAny(e) ==
    /\ pc[e] = "deactread"
    /\ old' = [old EXCEPT ![e] = sr[op[e].thr]]
    /\ Goto(e, "deactcas")
    /\ UNCHANGED <<sr, texec, lifeVars, ws, active, gcOn, schedVars, wakeVars,
                   ret, hand, op, calls>>

DeactRead(e) ==
    LET v == sr[op[e].thr] IN
    /\ pc[e] = "deactread"
    /\ \/ /\ v.stat \in {"DEAD", "TERM"} /\ op[e].req # "DESTROY"
          /\ Return(e)
       \/ /\ v.stat \notin {"DEAD", "TERM"} \/ op[e].req = "DESTROY"
          /\ old' = [old EXCEPT ![e] = v]
          /\ Goto(e, "deactcas")
          /\ UNCHANGED op
    /\ UNCHANGED <<sr, texec, lifeVars, ws, active, gcOn, schedVars, wakeVars,
                   ret, hand, calls>>

\* Mutant: the new value leaves T_REF out.
DeactCasNoRef(e) ==
    LET t == op[e].thr IN
    /\ pc[e] = "deactcas"
    /\ \/ /\ sr[t] = old[e]
          /\ sr' = [sr EXCEPT ![t] = [stat |-> op[e].req, ref |-> FALSE]]
          /\ Goto(e, "deactfin")
          /\ UNCHANGED old
       \/ /\ sr[t] # old[e]
          /\ Goto(e, "deact")
          /\ old' = [old EXCEPT ![e] = NoVal]
          /\ UNCHANGED sr
    /\ UNCHANGED <<texec, lifeVars, ws, active, gcOn, schedVars, wakeVars,
                   ret, hand, op, calls>>

\* Mutant: a failed CAS is tried again with the same old value.
DeactCasNoReload(e) ==
    LET t == op[e].thr IN
    /\ pc[e] = "deactcas"
    /\ \/ /\ sr[t] = old[e]
          /\ sr' = [sr EXCEPT ![t].stat = op[e].req]
          /\ Goto(e, "deactfin")
       \/ /\ sr[t] # old[e]
          /\ UNCHANGED <<sr, pc>>
    /\ UNCHANGED <<texec, lifeVars, ws, active, gcOn, schedVars, wakeVars,
                   ret, hand, old, op, calls>>

DeactCas(e) ==
    LET t == op[e].thr IN
    /\ pc[e] = "deactcas"
    /\ \/ /\ sr[t] = old[e]
          /\ sr' = [sr EXCEPT ![t].stat = op[e].req]
          /\ Goto(e, "deactfin")
          /\ UNCHANGED old
       \/ /\ sr[t] # old[e]
          /\ Goto(e, "deact")
          /\ old' = [old EXCEPT ![e] = NoVal]
          /\ UNCHANGED sr
    /\ UNCHANGED <<texec, lifeVars, ws, active, gcOn, schedVars, wakeVars,
                   ret, hand, op, calls>>

\* Mutant: the thread is destroyed although the scheduler holds it.
DeactFinishAlways(e) ==
    LET target == op[e].tgt IN
    /\ pc[e] = "deactfin"
    /\ IF op[e].req = "DESTROY"
       THEN thread_destroy(op[e].thr)
       ELSE UNCHANGED lifeVars
    /\ active' = IF old[e].stat \in {"RUNNABLE", "RUNNING"}
                 THEN Dec(active) ELSE active
    /\ op' = [op EXCEPT ![e] = IF target \in {NoExec, e} THEN NoOp ELSE @]
    /\ old' = [old EXCEPT ![e] = IF target \in {NoExec, e} THEN NoVal ELSE @]
    /\ Goto(e, CASE target = NoExec -> "run"
                 [] target = e      -> "cycle"
                 [] OTHER           -> "raise")
    /\ UNCHANGED <<sr, texec, ws, gcOn, schedVars, wakeVars, ret, hand, calls>>

\* Destroy an unreferenced thread, un-count it and tell its executor.
DeactFinish(e) ==
    LET t == op[e].thr
        target == op[e].tgt IN
    /\ pc[e] = "deactfin"
    /\ IF op[e].req = "DESTROY" /\ ~old[e].ref
       THEN thread_destroy(t)
       ELSE UNCHANGED lifeVars
    /\ active' = IF old[e].stat \in {"RUNNABLE", "RUNNING"}
                 THEN Dec(active) ELSE active
    /\ \/ /\ target = NoExec
          /\ Return(e)
       \/ /\ target \notin {NoExec, e}
          /\ Goto(e, "raise")
          /\ UNCHANGED <<op, old>>
       \/ /\ target = e
          /\ Goto(e, "cycle")
          /\ op' = [op EXCEPT ![e] = NoOp]
          /\ old' = [old EXCEPT ![e] = NoVal]
    /\ UNCHANGED <<sr, texec, ws, gcOn, schedVars, wakeVars, ret, hand, calls>>

\* executor_raise: set the mailbox, then look whether the executor idles.
Raise(e) ==
    /\ pc[e] = "raise"
    /\ mbox' = [mbox EXCEPT ![op[e].tgt] = TRUE]
    /\ Goto(e, "raisesig")
    /\ UNCHANGED <<sr, texec, lifeVars, ws, active, gcOn, schedVars, ossig,
                   ret, hand, old, op, calls>>

RaiseSignal(e) ==
    /\ pc[e] = "raisesig"
    /\ ossig' = [ossig EXCEPT ![op[e].tgt] = @ \/ curr[op[e].tgt] = IdleThread]
    /\ Return(e)
    /\ UNCHANGED <<sr, texec, lifeVars, ws, active, gcOn, schedVars, mbox,
                   ret, hand, calls>>

-----------------------------------------------------------------------------
(* scheduler_update_thread: change the status, tell nobody.                *)

UpdRead(e) ==
    LET v == sr[op[e].thr] IN
    /\ pc[e] = "upd"
    /\ \/ /\ v.stat \in DeadEndStats
          /\ Return(e)
       \/ /\ v.stat \notin DeadEndStats
          /\ old' = [old EXCEPT ![e] = v]
          /\ Goto(e, "updcas")
          /\ UNCHANGED op
    /\ UNCHANGED <<sr, texec, lifeVars, ws, active, gcOn, schedVars, wakeVars,
                   ret, hand, calls>>

UpdCas(e) ==
    LET t == op[e].thr IN
    /\ pc[e] = "updcas"
    /\ \/ /\ sr[t] = old[e]
          /\ sr' = [sr EXCEPT ![t].stat = op[e].req]
          /\ Return(e)
       \/ /\ sr[t] # old[e]
          /\ Goto(e, "upd")
          /\ old' = [old EXCEPT ![e] = NoVal]
          /\ UNCHANGED <<sr, op>>
    /\ UNCHANGED <<texec, lifeVars, ws, active, gcOn, schedVars, wakeVars,
                   ret, hand, calls>>

-----------------------------------------------------------------------------

\* A guest makes an API call.
ApiCall(e) ==
    \E t \in Threads :
        \/ CreateRunnable(e, t)
        \/ CreateSuspended(e, t)
        \/ Activate(e, t)
        \/ \E stat \in Immediate : Deactivate(e, t, stat)
        \/ Destroy(e, t)
        \/ \E stat \in Deferred : Update(e, t, stat)

\* A step of the runtime itself, safe-points of guests included.
RuntimeStep(e) ==
    \/ Cycle(e) \/ Result(e) \/ IdleCheck(e) \/ IdleWake(e)
    \/ Safepoint(e) \/ GcYield(e)
    \/ AckRead(e) \/ AckGcWait(e) \/ AckCas(e) \/ SetCurr(e)
    \/ Replace(e) \/ TryLocal(e) \/ TryWorkshare(e)
    \/ Balance(e) \/ Take(e) \/ Put(e) \/ TryRead(e) \/ TryCas(e)
    \/ ActRead(e) \/ ActCas(e) \/ ActInc(e) \/ ActEnqueue(e)
    \/ WakeRead(e) \/ WakeCas(e) \/ WakeSignal(e)
    \/ DeactExecutor(e) \/ DeactRead(e) \/ DeactCas(e) \/ DeactFinish(e)
    \/ Raise(e) \/ RaiseSignal(e)
    \/ UpdRead(e) \/ UpdCas(e)

Next ==
    \/ \E e \in Execs : RuntimeStep(e) \/ SchedCycle(e) \/ ApiCall(e)
    \/ GcStart
    \/ GcEnd

Spec == Init /\ [][Next]_vars

\* Executors are OS threads, which the OS runs; guests reach safe-points.
FairSpec == Spec /\ \A e \in Execs : WF_vars(RuntimeStep(e))

-----------------------------------------------------------------------------
(* Properties.                                                             *)

Labels == {"run", "gcrun", "idle", "susp", "cycle", "result", "fault",
           "ack", "ackgc", "ackcas", "setcurr", "replace", "local", "share",
           "bal", "ballow", "balup", "take", "put", "try", "trycas",
           "act", "actcas", "actinc", "actenq", "wake", "wakecurr", "wakecas",
           "wakesig", "deact", "deactread", "deactcas", "deactfin", "raise", "raisesig",
           "upd", "updcas"}

Uint == 0 .. UintMod - 1
Lives == {"unborn", "live", "doomed", "destroyed"}
Callers == {"curr", "local", "share", "take", "put"}
Ops == [thr : Threads \cup {NoThread}, req : Statuses, tgt : Execs \cup {NoExec}]

\* Type correctness of the state.
TypeOK ==
    /\ sr \in [Threads -> StatRef]
    /\ texec \in [Threads -> Execs \cup {NoExec}]
    /\ life \in [Threads -> Lives]
    /\ threadNum \in Uint
    /\ ws \in Seq(Threads)
    /\ active \in Uint
    /\ gcOn \in BOOLEAN
    /\ lq \in [Execs -> Seq(Threads)]
    /\ num \in [Execs -> Uint]
    /\ curr \in [Execs -> Threads \cup {NoThread}]
    /\ mbox \in [Execs -> BOOLEAN]
    /\ ossig \in [Execs -> BOOLEAN]
    /\ pc \in [Execs -> Labels]
    /\ ret \in [Execs -> Callers]
    /\ hand \in [Execs -> Threads \cup {NoThread}]
    /\ old \in [Execs -> StatRef]
    /\ op \in [Execs -> Ops]
    /\ calls \in Nat

\* The places a thread can be in.
InWs(t)       == t \in Range(ws)
InLq(e, t)    == t \in Range(lq[e])
IsCurr(e, t)  == curr[e] = t /\ pc[e] # "replace"
InHand(e, t)  == hand[e] = t
Pending(e, t) ==
    /\ op[e].thr = t
    /\ pc[e] = "actenq" \/ (pc[e] = "actinc" /\ ~old[e].ref)

Private(e, t) == InLq(e, t) \/ IsCurr(e, t) \/ InHand(e, t) \/ Pending(e, t)
Held(t) == InWs(t) \/ \E e \in Execs : Private(e, t)

\* A thread is in at most one of these places.
Single(t) ==
    /\ \A e \in Execs : Private(e, t) => ~InWs(t)
    /\ \A e, f \in Execs : Private(e, t) /\ Private(f, t) => e = f
    /\ \A e \in Execs :
        /\ InLq(e, t) => ~IsCurr(e, t) /\ ~InHand(e, t) /\ ~Pending(e, t)
        /\ IsCurr(e, t) => ~InHand(e, t) /\ ~Pending(e, t)
        /\ InHand(e, t) => ~Pending(e, t)

\* "This is present to prevent double entries from appearing in the data
\* structures" (cc/thread.h:284): a thread is at most once in the queues, in
\* an executor's hands or current, over all executors.
NoDoubleEntry ==
    /\ IsInjective(ws)
    /\ \A e \in Execs : IsInjective(lq[e])
    /\ \A t \in Threads : Single(t)

\* Whatever the scheduler holds has T_REF set and is not destroyed.
HeldIsReferenced ==
    \A t \in Threads : Held(t) => sr[t].ref /\ life[t] # "destroyed"

\* A thread with T_REF set is somewhere in the scheduler, or nothing would
\* ever run, acknowledge or destroy it.
ReferencedIsHeld ==
    \A t \in Threads : sr[t].ref /\ life[t] # "destroyed" => Held(t)

\* sched_set_running_status never meets a status it panics on.
NeverPanics ==
    \A e \in Execs : pc[e] = "ack" => sr[AckThread(e)].stat \in Acknowledgeable

\* thread_destroy runs once per thread (thread_num counts the live ones), and
\* no call still works on the freed structure.
DestroyedOnce ==
    /\ threadNum = Cardinality({t \in Threads : life[t] \in {"live", "doomed"}})
    /\ \A t \in Threads : life[t] = "destroyed" =>
        \A e \in Execs : op[e].thr = t => pc[e] \in {"deactfin", "raise", "raisesig"}

\* TERM may only become DEAD or DESTROY, and these two are dead ends.
DeadEnds ==
    [][\A t \in Threads :
        /\ sr[t].stat = "TERM" => sr'[t].stat \in {"TERM", "DEAD", "DESTROY"}
        /\ sr[t].stat = "DEAD" => sr'[t].stat \in {"DEAD", "DESTROY"}
        /\ sr[t].stat = "DESTROY" => sr'[t].stat = "DESTROY"]_vars

\* The mailbox of a thread names the executor that runs it: a guest finds the
\* executor it is on there, and no other thread's mailbox names that executor.
MailboxNamesRunner ==
    /\ \A e \in Execs : pc[e] = "run" => texec[curr[e]] = e
    /\ \A t \in Threads : texec[t] # NoExec => curr[texec[t]] = t

\* An executor does not sleep for ever while the workshare holds threads:
\* activation restarts an idle executor (cc/executor.h:131).
SleepersAreWoken ==
    \A e \in Execs : pc[e] = "susp" /\ ws # <<>> ~> pc[e] # "susp" \/ ws = <<>>

\* Every API call returns to its guest or reschedules: the CAS loops end.
CallsReturn ==
    \A e \in Execs : op[e] # NoOp ~> op[e] = NoOp

-----------------------------------------------------------------------------
(* The inductive invariant behind NoDoubleEntry, HeldIsReferenced,         *)
(* NeverPanics and DeadEnds.                                               *)

AckLabels    == {"ack", "ackgc", "ackcas"}
TryLabels    == {"try", "trycas"}
ActLabels    == {"act", "actcas", "actinc", "actenq", "wake", "wakecurr",
                 "wakecas", "wakesig"}
DeactLabels  == {"deact", "deactread", "deactcas", "deactfin", "raise", "raisesig"}
UpdLabels    == {"upd", "updcas"}
CallLabels   == ActLabels \cup DeactLabels \cup UpdLabels

\* The private variables make sense where they are used, and a value of
\* t_sched_stat_ref that a CAS is about to replace passed its function's test.
LocalOK(e) ==
    /\ pc[e] \in AckLabels =>
        ret[e] \in {"curr", "local", "share"} /\ AckThread(e) \in Threads
    /\ pc[e] \in {"ackgc", "ackcas"} => old[e].stat \in Acknowledgeable \ {"DESTROY"}
    /\ pc[e] \in TryLabels => ret[e] \in {"take", "put"} /\ hand[e] \in Threads
    /\ pc[e] = "trycas" => old[e].stat # "DESTROY"
    /\ pc[e] \in {"actcas", "updcas"} => old[e].stat \notin DeadEndStats
    /\ pc[e] = "deactcas" => old[e].stat \notin {"DEAD", "TERM"} \/ op[e].req = "DESTROY"

\* What is known of a thread while an API call works on it.
CallOK(e) ==
    /\ pc[e] \notin CallLabels => op[e] = NoOp
    /\ pc[e] \in CallLabels => op[e].thr \in Threads /\ life[op[e].thr] # "unborn"
    /\ pc[e] \in DeactLabels => op[e].req \in {"SUSPEND", "TERM", "DESTROY"}
    /\ pc[e] \in UpdLabels => op[e].req \in {"SUSPEND", "TERM", "GC_WAIT"}
    /\ pc[e] \in ActLabels => op[e].req = "RUNNABLE"
    /\ pc[e] \in CallLabels /\ op[e].req # "DESTROY" => life[op[e].thr] = "live"
    /\ op[e].req = "DESTROY" =>
        /\ life[op[e].thr] \in {"doomed", "destroyed"}
        /\ \A f \in Execs \ {e} : op[f].thr # op[e].thr
    /\ op[e].req = "DESTROY" /\ pc[e] \in {"deact", "deactread", "deactcas"} =>
        life[op[e].thr] = "doomed" /\ sr[op[e].thr].stat # "DESTROY"
    /\ op[e].req = "DESTROY" /\ pc[e] = "deactfin" =>
        sr[op[e].thr].stat = "DESTROY" /\ sr[op[e].thr].ref = old[e].ref

\* How the status, T_REF and the lifetime of a thread go together.
ThreadOK(t) ==
    /\ life[t] = "unborn" => ~sr[t].ref /\ sr[t].stat = "NONE"
    /\ life[t] = "destroyed" => sr[t].stat = "DESTROY"
    /\ sr[t].stat = "DESTROY" => life[t] \in {"doomed", "destroyed"}
    /\ sr[t].ref => sr[t].stat \in Acknowledgeable

\* The inductive invariant: T_REF guards the single place of every thread
\* through all the CAS loops of all executors.
SchedInv ==
    /\ TypeOK
    /\ \A e \in Execs : LocalOK(e) /\ CallOK(e)
    /\ \A t \in Threads : ThreadOK(t)
    /\ NoDoubleEntry
    /\ HeldIsReferenced
=============================================================================
