----------------------- MODULE SchedulerThreadProofs -----------------------
(***************************************************************************)
(* More about the threads of Scheduler, on top of SchedInv: the mailboxes  *)
(* name the executors (MailInv), a thread is destroyed once and counted    *)
(* right (LifeInv), and none is lost unless a collection or a full queue   *)
(* drops it (PlaceInv).                                                    *)
(***************************************************************************)
EXTENDS SchedulerProofs, FiniteSetTheorems, SequenceTheorems

-----------------------------------------------------------------------------
(* Mailboxes.                                                              *)

\* Where an executor runs a guest, calls included.
GuestLabels == {"run"} \cup CallLabels

\* The thread an executor runs knows it.
GuestNamed(e) ==
    pc[e] \in GuestLabels => curr[e] \in Threads /\ texec[curr[e]] = e

\* An executor a mailbox names has that thread, and runs or retires it.
NamedRuns(t) ==
    texec[t] # NoExec =>
        curr[texec[t]] = t /\ pc[texec[t]] \in GuestLabels \cup {"cycle"}

MailInv ==
    /\ \A e \in Execs : GuestNamed(e)
    /\ \A t \in Threads : NamedRuns(t)

\* The executor's own steps, apart from those that write a mailbox.
SearchStep(e) ==
    \/ IdleCheck(e) \/ IdleWake(e) \/ GcYield(e) \/ AckRead(e) \/ AckGcWait(e)
    \/ AckCas(e) \/ SetCurr(e) \/ Replace(e) \/ TryLocal(e) \/ TryWorkshare(e)
    \/ Balance(e) \/ Take(e) \/ Put(e) \/ TryRead(e) \/ TryCas(e)

\* The steps of a guest, up to the start of a scheduling cycle.
GuestStep(e) ==
    \/ SchedCycle(e) \/ ApiCall(e)
    \/ ActRead(e) \/ ActCas(e) \/ ActInc(e) \/ ActEnqueue(e)
    \/ WakeRead(e) \/ WakeCas(e) \/ WakeSignal(e)
    \/ DeactExecutor(e) \/ DeactRead(e) \/ DeactCas(e) \/ DeactFinish(e)
    \/ Raise(e) \/ RaiseSignal(e) \/ UpdRead(e) \/ UpdCas(e)

\* While it looks for a thread an executor runs none, and writes no mailbox.
LEMMA SearchOutside ==
    ASSUME TypeOK, NEW e \in Execs, CallOK(e), SearchStep(e)
    PROVE  /\ texec' = texec
           /\ pc[e] \notin GuestLabels \cup {"cycle"} /\ pc'[e] \notin GuestLabels
<1>a. ret[e] \in Callers  BY DEF TypeOK
<1>b. AfterDrop(ret[e]) # "run" /\ AfterSkip(ret[e]) # "run" /\ AfterExecute(ret[e]) # "run"
  <2>1. AfterDrop(ret[e]) \in {"replace", "local", "share", "result"}
    BY <1>a DEF AfterDrop, Callers
  <2>2. QED  BY <2>1 DEF AfterSkip, AfterExecute
<1>c. pc[e] \notin CallLabels /\ pc'[e] \notin CallLabels
  BY LoopOutside DEF SearchStep
<1>d. SUFFICES texec' = texec /\ pc[e] \notin {"run", "cycle"} /\ pc'[e] # "run"
  BY <1>c DEF GuestLabels
<1>1. CASE IdleCheck(e)
  BY <1>1 DEF IdleCheck, Goto, TypeOK
<1>2. CASE IdleWake(e)
  BY <1>2 DEF IdleWake, Goto, TypeOK
<1>3. CASE GcYield(e)
  BY <1>3 DEF GcYield, Goto, TypeOK
<1>4. CASE AckRead(e)
  BY <1>4, <1>b DEF AckRead, Drop, Goto, TypeOK
<1>5. CASE AckGcWait(e)
  BY <1>5, <1>b DEF AckGcWait, Goto, TypeOK
<1>6. CASE AckCas(e)
  BY <1>6, <1>b DEF AckCas, Drop, Goto, TypeOK
<1>7. CASE SetCurr(e)
  BY <1>7 DEF SetCurr, Goto, TypeOK
<1>8. CASE Replace(e)
  BY <1>8 DEF Replace, Goto, TypeOK
<1>9. CASE TryLocal(e)
  BY <1>9 DEF TryLocal, Goto, TypeOK
<1>10. CASE TryWorkshare(e)
  BY <1>10 DEF TryWorkshare, Dequeue, Goto, TypeOK
<1>11. CASE Balance(e)
  BY <1>11, BalanceTarget DEF Balance, BalanceStep
<1>12. CASE Take(e)
  BY <1>12 DEF Take, Dequeue, Goto, TypeOK
<1>13. CASE Put(e)
  BY <1>13 DEF Put, Goto, TypeOK
<1>14. CASE TryRead(e)
  BY <1>14, <1>b DEF TryRead, Drop, Goto, TypeOK
<1>15. CASE TryCas(e)
  BY <1>15, <1>b DEF TryCas, Drop, Goto, TypeOK
<1>16. QED
  BY <1>1, <1>2, <1>3, <1>4, <1>5, <1>6, <1>7, <1>8, <1>9, <1>10, <1>11, <1>12,
     <1>13, <1>14, <1>15 DEF SearchStep

\* A guest stays the executor's thread until the next scheduling cycle.
LEMMA GuestStays ==
    ASSUME TypeOK, NEW e \in Execs, GuestStep(e)
    PROVE  /\ texec' = texec /\ curr' = curr /\ hand' = hand
           /\ pc[e] \in GuestLabels /\ pc'[e] \in GuestLabels \cup {"cycle"}
<1> USE DEF GuestLabels, CallLabels, ActLabels, DeactLabels, UpdLabels, Goto, TypeOK,
            schedVars
<1>1. CASE SchedCycle(e)  BY <1>1 DEF SchedCycle
<1>2. CASE ActRead(e)  BY <1>2 DEF ActRead, Return
<1>3. CASE ActCas(e)  BY <1>3 DEF ActCas
<1>4. CASE ActInc(e)  BY <1>4 DEF ActInc, Return
<1>5. CASE ActEnqueue(e)  BY <1>5 DEF ActEnqueue
<1>6. CASE WakeRead(e)  BY <1>6 DEF WakeRead, Return
<1>7. CASE WakeCas(e)  BY <1>7 DEF WakeCas
<1>8. CASE WakeSignal(e)  BY <1>8 DEF WakeSignal, Return
<1>9. CASE DeactExecutor(e)  BY <1>9 DEF DeactExecutor
<1>10. CASE DeactRead(e)  BY <1>10 DEF DeactRead, Return
<1>11. CASE DeactCas(e)  BY <1>11 DEF DeactCas
<1>12. CASE DeactFinish(e)  BY <1>12 DEF DeactFinish, Return
<1>13. CASE Raise(e)  BY <1>13 DEF Raise
<1>14. CASE RaiseSignal(e)  BY <1>14 DEF RaiseSignal, Return
<1>15. CASE UpdRead(e)  BY <1>15 DEF UpdRead, Return
<1>16. CASE UpdCas(e)  BY <1>16 DEF UpdCas, Return
<1>17. ASSUME NEW t \in Threads, CreateRunnable(e, t)
       PROVE  texec' = texec /\ curr' = curr /\ hand' = hand /\ pc[e] = "run" /\ pc'[e] = "act"
  BY <1>17 DEF CreateRunnable, Call
<1>18. ASSUME NEW t \in Threads, CreateSuspended(e, t)
       PROVE  texec' = texec /\ curr' = curr /\ hand' = hand /\ pc[e] = "run" /\ pc'[e] = "run"
  BY <1>18 DEF CreateSuspended
<1>19. ASSUME NEW t \in Threads, NEW stat, Activate(e, t) \/ Deactivate(e, t, stat)
       PROVE  texec' = texec /\ curr' = curr /\ hand' = hand /\ pc[e] = "run" /\ pc'[e] \in {"act", "deact"}
  BY <1>19 DEF Activate, Deactivate, Call
<1>20. ASSUME NEW t \in Threads, NEW stat, Destroy(e, t) \/ Update(e, t, stat)
       PROVE  texec' = texec /\ curr' = curr /\ hand' = hand /\ pc[e] = "run" /\ pc'[e] \in {"deact", "upd"}
  BY <1>20 DEF Destroy, Update, Call
<1>21. CASE ApiCall(e)
  BY <1>17, <1>18, <1>19, <1>20, <1>21 DEF ApiCall
<1>22. QED
  BY <1>1, <1>2, <1>3, <1>4, <1>5, <1>6, <1>7, <1>8, <1>9, <1>10, <1>11, <1>12,
     <1>13, <1>14, <1>15, <1>16, <1>21 DEF GuestStep

\* Every step of one executor keeps the mailboxes right.
LEMMA MailStep ==
    ASSUME SchedInv, MailInv, NEW e \in Execs,
           RuntimeStep(e) \/ SchedCycle(e) \/ ApiCall(e)
    PROVE  MailInv'
<1>0. TypeOK /\ CallOK(e) /\ \A t \in Threads : Single(t)
  BY DEF SchedInv, NoDoubleEntry
<1>a. \A f \in Execs \ {e} : pc'[f] = pc[f] /\ curr'[f] = curr[f]
  BY <1>0, Frame DEF Untouched
<1>b. NoExec \notin Execs /\ \A t \in Threads : texec[t] \in Execs \cup {NoExec}
  BY <1>0 DEF TypeOK, Execs, NoExec
<1>1. CASE SearchStep(e)
  <2>1. /\ texec' = texec
        /\ pc[e] \notin GuestLabels \cup {"cycle"} /\ pc'[e] \notin GuestLabels
    BY <1>0, <1>1, SearchOutside
  <2>2. \A t \in Threads : texec[t] # e
    BY <1>b, <2>1 DEF MailInv, NamedRuns
  <2>3. QED  BY <1>a, <1>b, <2>1, <2>2 DEF MailInv, GuestNamed, NamedRuns
<1>2. CASE GuestStep(e) \/ Safepoint(e)
  <2>1. /\ texec' = texec /\ curr' = curr /\ pc'[e] \in GuestLabels \cup {"cycle"}
        /\ pc[e] \in GuestLabels \/ (pc[e] = "gcrun" /\ pc'[e] = "cycle")
    <3>1. CASE GuestStep(e)
      BY <1>0, <3>1, GuestStays
    <3>2. CASE Safepoint(e)
      BY <1>0, <3>2 DEF Safepoint, Goto, TypeOK, schedVars, GuestLabels
    <3>3. QED  BY <1>2, <3>1, <3>2
  <2>2. "cycle" \notin GuestLabels
    BY DEF GuestLabels, CallLabels, ActLabels, DeactLabels, UpdLabels
  <2>3. \A f \in Execs : GuestNamed(f)'
    BY <1>a, <2>1, <2>2 DEF MailInv, GuestNamed
  <2>4. \A t \in Threads : NamedRuns(t)'
    BY <1>a, <1>b, <2>1 DEF MailInv, NamedRuns
  <2>5. QED  BY <2>3, <2>4 DEF MailInv
<1>3. CASE Cycle(e)
  <2>1. /\ pc[e] = "cycle" /\ curr' = curr /\ pc'[e] \in {"ack", "share"}
        /\ \/ curr[e] \in Threads /\ texec' = [texec EXCEPT ![curr[e]] = NoExec]
           \/ curr[e] = NoThread /\ texec' = texec
    BY <1>0, <1>3 DEF Cycle, Goto, TypeOK, schedVars
  <2>2. pc[e] \notin GuestLabels /\ pc'[e] \notin GuestLabels
    BY <2>1 DEF GuestLabels, CallLabels, ActLabels, DeactLabels, UpdLabels
  <2>3. ASSUME NEW f \in Execs PROVE GuestNamed(f)'
    <3>1. f = e => pc'[f] \notin GuestLabels
      BY <2>2
    <3>2. ASSUME f # e, pc[f] \in GuestLabels
          PROVE  curr[f] \in Threads /\ texec'[curr[f]] = f
      <4>1. curr[f] \in Threads /\ texec[curr[f]] = f
        BY <3>2 DEF MailInv, GuestNamed
      <4>2. curr[f] # curr[e] \/ curr[e] = NoThread
        <5>1. pc[f] # "replace"
          BY <3>2 DEF GuestLabels, CallLabels, ActLabels, DeactLabels, UpdLabels
        <5>2. IsCurr(f, curr[f])
          BY <5>1 DEF IsCurr
        <5>3. curr[f] = curr[e] => IsCurr(e, curr[f])
          BY <2>1 DEF IsCurr
        <5>4. QED  BY <1>0, <3>2, <4>1, <5>2, <5>3 DEF Single, Private
      <4>3. QED  BY <1>0, <2>1, <4>1, <4>2, ThreadAssumption DEF TypeOK
    <3>3. QED  BY <1>a, <2>1, <3>1, <3>2 DEF GuestNamed
  <2>4. ASSUME NEW t \in Threads PROVE NamedRuns(t)'
    <3>1. texec[t] = e => curr[e] = t
      BY <1>b DEF MailInv, NamedRuns
    <3>2. texec'[t] # NoExec => texec'[t] = texec[t] /\ texec[t] # e
      BY <1>0, <2>1, <3>1, ThreadAssumption DEF TypeOK
    <3>3. QED  BY <1>a, <1>b, <2>1, <3>2 DEF MailInv, NamedRuns
  <2>5. QED  BY <2>3, <2>4 DEF MailInv
<1>4. CASE Result(e)
  <2>1. /\ pc[e] = "result" /\ curr' = curr
        /\ \/ /\ curr[e] \in Threads /\ texec' = [texec EXCEPT ![curr[e]] = e]
              /\ pc'[e] = "run"
           \/ texec' = texec /\ pc'[e] \in {"gcrun", "idle"}
    BY <1>0, <1>4 DEF Result, Goto, TypeOK, schedVars
  <2>2. pc[e] \notin GuestLabels \cup {"cycle"}
    BY <2>1 DEF GuestLabels, CallLabels, ActLabels, DeactLabels, UpdLabels
  <2>3. pc'[e] # "run" => pc'[e] \notin GuestLabels
    BY <2>1 DEF GuestLabels, CallLabels, ActLabels, DeactLabels, UpdLabels
  <2>4. \A t \in Threads : texec[t] # e
    BY <1>b, <2>2 DEF MailInv, NamedRuns
  <2>5. ASSUME curr[e] \in Threads, NEW f \in Execs \ {e}, pc[f] \in GuestLabels \cup {"cycle"}
        PROVE  curr[f] # curr[e]
    <3>1. pc[f] # "replace" /\ pc[e] # "replace"
      BY <2>1, <2>5 DEF GuestLabels, CallLabels, ActLabels, DeactLabels, UpdLabels
    <3>2. curr[f] = curr[e] => IsCurr(e, curr[e]) /\ IsCurr(f, curr[e])
      BY <3>1 DEF IsCurr
    <3>3. QED  BY <1>0, <2>5, <3>2 DEF Single, Private
  <2>6. ASSUME NEW f \in Execs PROVE GuestNamed(f)'
    <3>1. CASE f = e
      BY <1>0, <2>1, <2>3, <3>1 DEF GuestNamed, TypeOK
    <3>2. CASE f # e
      BY <1>0, <1>a, <2>1, <2>5, <3>2 DEF GuestNamed, MailInv, TypeOK
    <3>3. QED  BY <3>1, <3>2
  <2>7. ASSUME NEW t \in Threads PROVE NamedRuns(t)'
    <3>1. CASE t = curr[e] /\ pc'[e] = "run"
      BY <1>0, <2>1, <3>1 DEF NamedRuns, TypeOK, GuestLabels
    <3>2. CASE ~(t = curr[e] /\ pc'[e] = "run")
      <4>1. texec'[t] = texec[t]
        BY <1>0, <2>1, <3>2 DEF TypeOK
      <4>2. QED  BY <1>a, <1>b, <2>1, <2>4, <4>1 DEF MailInv, NamedRuns
    <3>3. QED  BY <3>1, <3>2
  <2>8. QED  BY <2>6, <2>7 DEF MailInv
<1>5. QED
  BY <1>1, <1>2, <1>3, <1>4 DEF RuntimeStep, SearchStep, GuestStep

\* MailInv is inductive over SchedInv.
LEMMA MailNext == SchedInv /\ MailInv /\ [Next]_vars => MailInv'
<1> SUFFICES ASSUME SchedInv, MailInv, [Next]_vars PROVE MailInv'
  OBVIOUS
<1>1. CASE GcStart \/ GcEnd \/ UNCHANGED vars
  <2>1. UNCHANGED <<texec, curr, pc>>
    BY <1>1 DEF GcStart, GcEnd, vars, schedVars
  <2>2. QED  BY <2>1 DEF MailInv, GuestNamed, NamedRuns
<1>2. QED  BY <1>1, MailStep DEF Next

\* It holds initially: the first executor runs the main thread.
LEMMA MailInit == Init => MailInv
<1> SUFFICES ASSUME Init PROVE MailInv
  OBVIOUS
<1>1. /\ 0 \in Execs /\ 0 # NoExec /\ \A e \in Execs : e # 0 => pc[e] = "cycle"
      /\ pc[0] = "run" /\ curr[0] = MainThread
  BY SizeAssumption DEF Init, Execs, NoExec
<1>2. /\ texec[MainThread] = 0
      /\ \A t \in Threads : t # MainThread => texec[t] = NoExec
  BY ThreadAssumption DEF Init
<1>3. "cycle" \notin GuestLabels /\ "run" \in GuestLabels
  BY DEF GuestLabels, CallLabels, ActLabels, DeactLabels, UpdLabels
<1>4. QED  BY <1>1, <1>2, <1>3, ThreadAssumption DEF MailInv, GuestNamed, NamedRuns

\* While an executor runs a guest, the guest's mailbox names that executor, and
\* a mailbox names an executor only if the executor's current thread is the one
\* it belongs to, in every state (thread_executor.c, noninteract_scheduler.c).
\* Nothing is said of who reads the name: executor_raise reads it before the
\* status is changed, and the thread may have moved by the time it signals.
THEOREM RunnerNamed == Spec => []MailboxNamesRunner
<1>1. MailInv => MailboxNamesRunner
  BY DEF MailInv, GuestNamed, NamedRuns, MailboxNamesRunner, GuestLabels
<1>2. QED  BY <1>1, MailInit, MailNext, Invariance, PTL DEF Spec

-----------------------------------------------------------------------------
(* Destruction.                                                            *)

\* A call that is about to destroy its thread is the first to do so: T_REF was
\* not set when the call made it DESTROY, so no executor holds the thread.
LastCall(e) ==
    op[e].req = "DESTROY" /\ pc[e] = "deactfin" /\ ~old[e].ref =>
        life[op[e].thr] = "doomed"

LastInv == \A e \in Execs : LastCall(e)

\* The threads thread_num counts.
Alive == {t \in Threads : life[t] \in {"live", "doomed"}}

\* What one step may do to the lifetime of the threads.
Life_Same == life' = life /\ threadNum' = threadNum

Life_Destroy(e, t) ==
    /\ life[t] = "doomed" /\ thread_destroy(t)
    /\ sr[t].ref \/ (op[e].thr = t /\ op[e].req = "DESTROY")

Life_Create(t) ==
    /\ life[t] = "unborn" /\ life' = [life EXCEPT ![t] = "live"]
    /\ threadNum' = Inc(threadNum)

Life_Doom(t) ==
    /\ life[t] = "live" /\ life' = [life EXCEPT ![t] = "doomed"]
    /\ threadNum' = threadNum

LifeChange(e) ==
    \/ Life_Same
    \/ \E t \in Threads : Life_Destroy(e, t) \/ Life_Create(t) \/ Life_Doom(t)

\* The thread a status check works on is held.
LEMMA CheckedIsHeld ==
    ASSUME SchedInv, NEW e \in Execs
    PROVE  /\ pc[e] \in AckLabels => /\ AckThread(e) \in Threads
                                     /\ Private(e, AckThread(e))
                                     /\ sr[AckThread(e)].ref /\ life[AckThread(e)] # "destroyed"
           /\ pc[e] \in TryLabels => /\ hand[e] \in Threads
                                     /\ Private(e, hand[e])
                                     /\ sr[hand[e]].ref /\ life[hand[e]] # "destroyed"
<1>1. LocalOK(e) /\ HeldIsReferenced
  BY DEF SchedInv
<1>2. \A t \in Threads : Private(e, t) => sr[t].ref /\ life[t] # "destroyed"
  BY <1>1 DEF HeldIsReferenced, Held
<1>3. pc[e] \in AckLabels => AckThread(e) \in Threads /\ Private(e, AckThread(e))
  BY <1>1 DEF LocalOK, Private, AckThread, IsCurr, InHand, AckLabels
<1>4. pc[e] \in TryLabels => hand[e] \in Threads /\ Private(e, hand[e])
  BY <1>1 DEF LocalOK, Private, InHand
<1>5. QED  BY <1>2, <1>3, <1>4

\* Every step changes the lifetime of at most one thread, in one of these ways;
\* thread_destroy runs for a thread that nothing has destroyed.
LEMMA LifeStep ==
    ASSUME SchedInv, LastInv, NEW e \in Execs,
           RuntimeStep(e) \/ SchedCycle(e) \/ ApiCall(e)
    PROVE  LifeChange(e)
<1>0. TypeOK /\ CallOK(e) /\ \A t \in Threads : ThreadOK(t)
  BY DEF SchedInv
<1>1. CASE QuietStep(e) \/ AckCas(e) \/ TryCas(e) \/ ActCas(e) \/ DeactCas(e) \/ UpdCas(e)
  <2>1. UNCHANGED lifeVars
    BY <1>1 DEF QuietStep, Cycle, Result, IdleCheck, IdleWake, Safepoint, GcYield, AckGcWait,
       SetCurr, Replace, TryLocal, TryWorkshare, Dequeue, Balance, BalanceStep, Take, Put,
       ActRead, ActInc, ActEnqueue, WakeRead, WakeCas, WakeSignal, DeactExecutor, DeactRead,
       Raise, RaiseSignal, UpdRead, SchedCycle, AckCas, TryCas, ActCas, DeactCas, UpdCas
  <2>2. QED  BY <2>1 DEF lifeVars, LifeChange, Life_Same
<1>2. CASE AckRead(e)
  <2>1. pc[e] \in AckLabels
    BY <1>2 DEF AckRead, AckLabels
  <2>2. /\ AckThread(e) \in Threads
        /\ sr[AckThread(e)].ref /\ life[AckThread(e)] # "destroyed"
    BY <2>1, CheckedIsHeld
  <2>3. CASE sr[AckThread(e)].stat = "DESTROY"
    <3>1. thread_destroy(AckThread(e))
      BY <1>2, <2>3 DEF AckRead
    <3>2. life[AckThread(e)] = "doomed"
      BY <1>0, <2>2, <2>3 DEF ThreadOK
    <3>3. QED  BY <2>2, <3>1, <3>2 DEF LifeChange, Life_Destroy
  <2>4. CASE sr[AckThread(e)].stat # "DESTROY"
    BY <1>2, <2>4 DEF AckRead, lifeVars, LifeChange, Life_Same
  <2>5. QED  BY <2>3, <2>4
<1>3. CASE TryRead(e)
  <2>1. pc[e] \in TryLabels
    BY <1>3 DEF TryRead, TryLabels
  <2>2. /\ hand[e] \in Threads
        /\ sr[hand[e]].ref /\ life[hand[e]] # "destroyed"
    BY <2>1, CheckedIsHeld
  <2>3. CASE sr[hand[e]].stat = "DESTROY"
    <3>1. thread_destroy(hand[e])
      BY <1>3, <2>3 DEF TryRead, Queueable
    <3>2. life[hand[e]] = "doomed"
      BY <1>0, <2>2, <2>3 DEF ThreadOK
    <3>3. QED  BY <2>2, <3>1, <3>2 DEF LifeChange, Life_Destroy
  <2>4. CASE sr[hand[e]].stat # "DESTROY"
    BY <1>3, <2>4 DEF TryRead, lifeVars, LifeChange, Life_Same
  <2>5. QED  BY <2>3, <2>4
<1>4. CASE DeactFinish(e)
  <2>1. pc[e] \in CallLabels /\ pc[e] = "deactfin" /\ op[e].thr \in Threads
    BY <1>0, <1>4 DEF DeactFinish, CallOK, CallLabels, DeactLabels
  <2>2. CASE op[e].req = "DESTROY" /\ ~old[e].ref
    <3>1. thread_destroy(op[e].thr)
      BY <1>4, <2>2 DEF DeactFinish
    <3>2. life[op[e].thr] = "doomed"
      BY <2>1, <2>2 DEF LastInv, LastCall
    <3>3. QED  BY <2>1, <2>2, <3>1, <3>2 DEF LifeChange, Life_Destroy
  <2>3. CASE ~(op[e].req = "DESTROY" /\ ~old[e].ref)
    BY <1>4, <2>3 DEF DeactFinish, lifeVars, LifeChange, Life_Same
  <2>4. QED  BY <2>2, <2>3
<1>5. ASSUME NEW t \in Threads, CreateRunnable(e, t) \/ CreateSuspended(e, t)
      PROVE  LifeChange(e)
  BY <1>5 DEF CreateRunnable, CreateSuspended, thread_init, LifeChange, Life_Create
<1>6. ASSUME NEW t \in Threads, Destroy(e, t) PROVE LifeChange(e)
  BY <1>6 DEF Destroy, LifeChange, Life_Doom
<1>7. ASSUME NEW t \in Threads, NEW stat,
             Activate(e, t) \/ Deactivate(e, t, stat) \/ Update(e, t, stat)
      PROVE  LifeChange(e)
  BY <1>7 DEF Activate, Deactivate, Update, lifeVars, LifeChange, Life_Same
<1>8. QED
  BY <1>1, <1>2, <1>3, <1>4, <1>5, <1>6, <1>7 DEF RuntimeStep, ApiCall, QuietStep

\* Only the CAS in scheduler_deactivate_thread leads to the end of the call.
LEMMA FinishFollowsCas ==
    ASSUME SchedInv, NEW e \in Execs, RuntimeStep(e) \/ SchedCycle(e) \/ ApiCall(e),
           pc'[e] = "deactfin"
    PROVE  DeactCas(e)
<1>0. TypeOK /\ CallOK(e)
  BY DEF SchedInv
<1>1. "deactfin" \in CallLabels
  BY DEF CallLabels, DeactLabels
<1>2. GuestStep(e)
  BY <1>0, <1>1, LoopOutside DEF RuntimeStep, GuestStep
<1> USE DEF Goto, TypeOK
<1>3. ~SchedCycle(e)  BY <1>0 DEF SchedCycle
<1>4. ~ActRead(e) /\ ~ActCas(e) /\ ~ActInc(e) /\ ~ActEnqueue(e)
  BY <1>0 DEF ActRead, ActCas, ActInc, ActEnqueue, Return
<1>5. ~WakeRead(e) /\ ~WakeCas(e) /\ ~WakeSignal(e)
  BY <1>0 DEF WakeRead, WakeCas, WakeSignal, Return
<1>6. ~DeactExecutor(e) /\ ~DeactRead(e) /\ ~DeactFinish(e)
  BY <1>0 DEF DeactExecutor, DeactRead, DeactFinish, Return
<1>7. ~Raise(e) /\ ~RaiseSignal(e) /\ ~UpdRead(e) /\ ~UpdCas(e)
  BY <1>0 DEF Raise, RaiseSignal, UpdRead, UpdCas, Return
<1>8. ~ApiCall(e)
  BY <1>0 DEF ApiCall, CreateRunnable, CreateSuspended, Activate, Deactivate, Destroy, Update, Call
<1>9. QED  BY <1>2, <1>3, <1>4, <1>5, <1>6, <1>7, <1>8 DEF GuestStep

\* Every step of one executor keeps LastInv.
LEMMA LastStep ==
    ASSUME SchedInv, LastInv, NEW e \in Execs,
           RuntimeStep(e) \/ SchedCycle(e) \/ ApiCall(e)
    PROVE  LastInv'
<1>0. TypeOK /\ \A f \in Execs : CallOK(f)
  BY DEF SchedInv
<1>1. LastCall(e)'
  <2> SUFFICES ASSUME op'[e].req = "DESTROY", pc'[e] = "deactfin", ~old'[e].ref
               PROVE  life'[op'[e].thr] = "doomed"
    BY DEF LastCall
  <2>1. DeactCas(e)
    BY FinishFollowsCas
  <2>2. op' = op /\ life' = life /\ pc[e] = "deactcas"
    BY <2>1 DEF DeactCas, lifeVars
  <2>3. QED  BY <1>0, <2>2 DEF CallOK
<1>2. ASSUME NEW f \in Execs \ {e} PROVE LastCall(f)'
  <2> SUFFICES ASSUME op'[f].req = "DESTROY", pc'[f] = "deactfin", ~old'[f].ref
               PROVE  life'[op'[f].thr] = "doomed"
    BY DEF LastCall
  <2>1. op'[f] = op[f] /\ pc'[f] = pc[f] /\ old'[f] = old[f]
    BY <1>0, Frame DEF Untouched
  <2>2. life[op[f].thr] = "doomed" /\ op[f].thr \in Threads
    BY <1>0, <2>1 DEF LastInv, LastCall, CallOK, CallLabels, DeactLabels
  <2>3. ~sr[op[f].thr].ref /\ op[e].thr # op[f].thr
    BY <1>0, <2>1 DEF CallOK
  <2>4. LifeChange(e)
    BY LifeStep
  <2>5. life'[op[f].thr] = "doomed"
    BY <1>0, <2>2, <2>3, <2>4 DEF LifeChange, Life_Same, Life_Destroy, Life_Create,
       Life_Doom, thread_destroy, TypeOK
  <2>6. QED  BY <2>1, <2>5
<1>3. QED  BY <1>1, <1>2 DEF LastInv

\* thread_num follows the threads that live, as long as it does not wrap.
LEMMA CountStep ==
    ASSUME IsFiniteSet(Threads), Cardinality(Threads) < UintMod,
           TypeOK, threadNum = Cardinality(Alive),
           NEW e \in Execs, LifeChange(e)
    PROVE  threadNum' = Cardinality(Alive')
<1>1. /\ Alive \subseteq Threads /\ IsFiniteSet(Alive)
      /\ Cardinality(Alive) \in Nat /\ Cardinality(Threads) \in Nat
      /\ Cardinality(Alive) <= Cardinality(Threads)
  BY FS_Subset, FS_CardinalityType DEF Alive
<1>2. CASE Life_Same
  BY <1>2 DEF Life_Same, Alive
<1>3. ASSUME NEW t \in Threads, Life_Destroy(e, t)
      PROVE  threadNum' = Cardinality(Alive')
  <2>1. t \in Alive /\ Alive' = Alive \ {t}
    BY <1>3 DEF Life_Destroy, thread_destroy, Alive, TypeOK
  <2>2. Cardinality(Alive') = Cardinality(Alive) - 1 /\ Cardinality(Alive') \in Nat
    BY <1>1, <2>1, FS_RemoveElement, FS_CardinalityType
  <2>3. threadNum' = (threadNum - 1) % UintMod
    BY <1>3 DEF Life_Destroy, thread_destroy, Dec
  <2>4. QED  BY <1>1, <2>2, <2>3, SizeAssumption
<1>4. ASSUME NEW t \in Threads, Life_Create(t)
      PROVE  threadNum' = Cardinality(Alive')
  <2>1. t \notin Alive /\ Alive' = Alive \cup {t} /\ Alive' \subseteq Threads
    BY <1>4 DEF Life_Create, Alive, TypeOK
  <2>2. Cardinality(Alive') = Cardinality(Alive) + 1
    BY <1>1, <2>1, FS_AddElement
  <2>3. Cardinality(Alive') <= Cardinality(Threads)
    BY <2>1, FS_Subset
  <2>4. threadNum' = (threadNum + 1) % UintMod
    BY <1>4 DEF Life_Create, Inc
  <2>5. QED  BY <1>1, <2>2, <2>3, <2>4, SizeAssumption
<1>5. ASSUME NEW t \in Threads, Life_Doom(t)
      PROVE  threadNum' = Cardinality(Alive')
  <2>1. Alive' = Alive
    BY <1>5 DEF Life_Doom, Alive, TypeOK
  <2>2. QED  BY <1>5, <2>1 DEF Life_Doom
<1>6. QED  BY <1>2, <1>3, <1>4, <1>5 DEF LifeChange

\* The invariant of the threads' lifetimes.
LifeInv == LastInv /\ threadNum = Cardinality(Alive)

\* LifeInv is inductive over SchedInv.
LEMMA LifeNext ==
    ASSUME IsFiniteSet(Threads), Cardinality(Threads) < UintMod,
           SchedInv, LifeInv, [Next]_vars
    PROVE  LifeInv'
<1>1. CASE GcStart \/ GcEnd \/ UNCHANGED vars
  <2>1. UNCHANGED <<life, threadNum, op, pc, old>>
    BY <1>1 DEF GcStart, GcEnd, vars, lifeVars
  <2>2. QED  BY <2>1 DEF LifeInv, LastInv, LastCall, Alive
<1>2. ASSUME NEW e \in Execs, RuntimeStep(e) \/ SchedCycle(e) \/ ApiCall(e)
      PROVE  LifeInv'
  <2>1. LastInv'
    BY <1>2, LastStep DEF LifeInv
  <2>2. LifeChange(e)
    BY <1>2, LifeStep DEF LifeInv
  <2>3. threadNum' = Cardinality(Alive')
    BY <2>2, CountStep DEF LifeInv, SchedInv
  <2>4. QED  BY <2>1, <2>3 DEF LifeInv
<1>3. QED  BY <1>1, <1>2 DEF Next

\* It holds initially: only the main thread lives.
LEMMA LifeInit == Init => LifeInv
<1> SUFFICES ASSUME Init PROVE LifeInv
  OBVIOUS
<1>1. LastInv
  BY DEF Init, LastInv, LastCall
<1>2. Alive = {MainThread} /\ threadNum = 1
  BY ThreadAssumption DEF Init, Alive
<1>3. QED  BY <1>1, <1>2, FS_Singleton DEF LifeInv

\* With fewer threads than an unsigned int counts, thread_destroy runs once per
\* thread, whoever drops it last, and the call that destroyed a thread reads
\* the freed structure no more but to tell its executor.
THEOREM OneDestruction ==
    ASSUME IsFiniteSet(Threads), Cardinality(Threads) < UintMod
    PROVE  Spec => []DestroyedOnce
<1>1. SchedInv /\ LifeInv => DestroyedOnce
  <2> SUFFICES ASSUME SchedInv, LifeInv PROVE DestroyedOnce
    OBVIOUS
  <2>1. threadNum = Cardinality({t \in Threads : life[t] \in {"live", "doomed"}})
    BY DEF LifeInv, Alive
  <2>2. ASSUME NEW t \in Threads, life[t] = "destroyed", NEW e \in Execs, op[e].thr = t
        PROVE  pc[e] \in {"deactfin", "raise", "raisesig"}
    <3>1. CallOK(e)
      BY DEF SchedInv
    <3>2. pc[e] \in CallLabels
      BY <2>2, <3>1, ThreadAssumption DEF CallOK, NoOp
    <3>3. op[e].req = "DESTROY"
      BY <2>2, <3>1, <3>2 DEF CallOK
    <3>4. pc[e] \in DeactLabels
      BY <3>1, <3>2, <3>3 DEF CallOK, CallLabels
    <3>5. QED  BY <2>2, <3>1, <3>3, <3>4 DEF CallOK, DeactLabels
  <2>3. QED  BY <2>1, <2>2 DEF DestroyedOnce
<1>2. SchedInv /\ LifeInv /\ [Next]_vars => LifeInv'
  BY LifeNext
<1>3. QED  BY <1>1, <1>2, LifeInit, Invariance, PTL DEF Spec

-----------------------------------------------------------------------------
(* No thread is lost.                                                      *)

\* Where an executor has taken a thread off a queue to look at it.
Checks(e) ==
    \/ pc[e] \in TryLabels \cup {"setcurr"}
    \/ pc[e] \in AckLabels /\ ret[e] # "curr"

\* Where it looks for the next thread to run.
Between(e) ==
    \/ pc[e] \in {"local", "share", "setcurr"}
    \/ pc[e] \in AckLabels /\ ret[e] # "curr"

\* Its hand is empty but where it checks a thread, and it has no current thread
\* where it looks for one: no assignment overwrites a thread.
HandOK(e) ==
    /\ hand[e] # NoThread => Checks(e)
    /\ Between(e) => curr[e] = NoThread

HandInv == \A e \in Execs : HandOK(e)

\* No collection is on where a thread waits for its end: there is none, or no
\* guest ever waits.
NoWaiting ==
    /\ ~MayCollect => ~gcOn
    /\ "GC_WAIT" \notin Deferred =>
        /\ \A t \in Threads : sr[t].stat # "GC_WAIT"
        /\ \A e \in Execs : pc[e] # "ackgc" /\ op[e].req # "GC_WAIT"

\* A status check goes on, since the thread has T_REF (PanicFree).
LEMMA CheckGoesOn ==
    ASSUME SchedInv, NEW e \in Execs, AckRead(e)
    PROVE  pc'[e] # "fault"
<1>0. TypeOK /\ \A t \in Threads : ThreadOK(t)
  BY DEF SchedInv
<1>1. pc[e] \in AckLabels
  BY DEF AckRead, AckLabels
<1>2. sr[AckThread(e)].stat \in Acknowledgeable
  BY <1>0, <1>1, CheckedIsHeld DEF ThreadOK
<1>3. ret[e] \in Callers
  BY <1>0 DEF TypeOK
<1>4. AfterDrop(ret[e]) # "fault"
  BY <1>3 DEF AfterDrop, Callers
<1>5. QED  BY <1>0, <1>2, <1>4 DEF AckRead, Drop, Goto, TypeOK

\* Every step of an executor keeps its own HandOK.
LEMMA HandStep ==
    ASSUME SchedInv, NEW e \in Execs, HandOK(e),
           RuntimeStep(e) \/ SchedCycle(e) \/ ApiCall(e)
    PROVE  HandOK(e)'
<1>0. TypeOK /\ LocalOK(e) /\ CallOK(e)
  BY DEF SchedInv
<1>a. ret[e] \in Callers  BY <1>0 DEF TypeOK
<1>b. /\ AfterDrop(ret[e]) \in {"replace", "local", "share", "result"}
      /\ ret[e] = "curr" => AfterDrop(ret[e]) = "replace"
      /\ ret[e] \in {"take", "put"} => AfterDrop(ret[e]) = "result"
  BY <1>a DEF AfterDrop, Callers
<1> USE DEF HandOK, Checks, Between, AckLabels, TryLabels
<1>1. CASE GuestStep(e)
  <2>1. /\ curr' = curr /\ hand' = hand
        /\ pc[e] \in GuestLabels /\ pc'[e] \in GuestLabels \cup {"cycle"}
    BY <1>0, <1>1, GuestStays
  <2>2. ~Checks(e) /\ ~Checks(e)' /\ ~Between(e)'
    BY <2>1 DEF GuestLabels, CallLabels, ActLabels, DeactLabels, UpdLabels
  <2>3. QED  BY <2>1, <2>2
<1> USE DEF Goto, TypeOK, schedVars
<1>2. CASE Cycle(e)  BY <1>0, <1>2, ThreadAssumption DEF Cycle
<1>3. CASE Result(e)  BY <1>0, <1>3 DEF Result
<1>4. CASE IdleCheck(e)  BY <1>0, <1>4 DEF IdleCheck
<1>5. CASE IdleWake(e)  BY <1>0, <1>5 DEF IdleWake
<1>6. CASE Safepoint(e)  BY <1>0, <1>6 DEF Safepoint
<1>7. CASE GcYield(e)  BY <1>0, <1>7 DEF GcYield
<1>8. CASE AckRead(e)
  <2>1. UNCHANGED <<ret, curr>> /\ pc[e] = "ack"
    BY <1>8 DEF AckRead
  <2>2. CASE sr[AckThread(e)].stat = "DESTROY"
    <3>1. hand'[e] = NoThread /\ pc'[e] = AfterDrop(ret[e])
      BY <1>0, <1>8, <2>2 DEF AckRead, Drop
    <3>2. QED  BY <1>b, <2>1, <3>1
  <2>3. CASE sr[AckThread(e)].stat # "DESTROY"
    <3>1. hand' = hand /\ pc'[e] \in {"fault", "ackgc", "ackcas"}
      BY <1>0, <1>8, <2>3 DEF AckRead
    <3>2. pc'[e] # "fault"
      BY <1>8, CheckGoesOn
    <3>3. QED  BY <2>1, <3>1, <3>2
  <2>4. QED  BY <2>2, <2>3
<1>9. CASE AckGcWait(e)
  BY <1>0, <1>9, <1>b DEF AckGcWait, AfterSkip
<1>10. CASE AckCas(e)
  BY <1>0, <1>10, <1>b DEF AckCas, Drop, AfterExecute
<1>11. CASE SetCurr(e)  BY <1>0, <1>11 DEF SetCurr
<1>12. CASE Replace(e)  BY <1>0, <1>12 DEF Replace
<1>13. CASE TryLocal(e)  BY <1>0, <1>13 DEF TryLocal, LocalDequeue
<1>14. CASE TryWorkshare(e)  BY <1>0, <1>14 DEF TryWorkshare, Dequeue
<1>15. CASE Balance(e)
  BY <1>0, <1>15, BalanceTarget DEF Balance, BalanceStep
<1>16. CASE Take(e)  BY <1>0, <1>16 DEF Take, Dequeue
<1>17. CASE Put(e)  BY <1>0, <1>17 DEF Put, LocalDequeue
<1>18. CASE TryRead(e)  BY <1>0, <1>18, <1>b DEF TryRead, Drop, LocalOK
<1>19. CASE TryCas(e)  BY <1>0, <1>19, <1>b DEF TryCas, Drop, LocalOK
<1>20. QED
  BY <1>1, <1>2, <1>3, <1>4, <1>5, <1>6, <1>7, <1>8, <1>9, <1>10, <1>11, <1>12, <1>13,
     <1>14, <1>15, <1>16, <1>17, <1>18, <1>19 DEF RuntimeStep, GuestStep

\* Every step keeps the statuses free of GC_WAIT where no guest waits.
LEMMA WaitStep ==
    ASSUME SchedInv, NoWaiting, NEW e \in Execs,
           RuntimeStep(e) \/ SchedCycle(e) \/ ApiCall(e)
    PROVE  NoWaiting'
<1>0. TypeOK /\ CallOK(e) /\ LocalOK(e)
  BY DEF SchedInv
<1>1. gcOn' = gcOn
  BY DEF RuntimeStep, SchedCycle, ApiCall, Cycle, Result, IdleCheck, IdleWake, Safepoint,
     GcYield, AckRead, AckGcWait, AckCas, SetCurr, Replace, TryLocal, TryWorkshare, Dequeue,
     Balance, BalanceStep, Take, Put, TryRead, TryCas, ActRead, ActCas, ActInc, ActEnqueue,
     WakeRead, WakeCas, WakeSignal, DeactExecutor, DeactRead, DeactCas, DeactFinish, Raise,
     RaiseSignal, UpdRead, UpdCas, CreateRunnable, CreateSuspended, Activate, Deactivate,
     Destroy, Update, Call
<1>2. ASSUME "GC_WAIT" \notin Deferred, NEW t \in Threads
      PROVE  sr'[t].stat # "GC_WAIT"
  <2>a. sr[t].stat # "GC_WAIT" /\ op[e].req # "GC_WAIT" /\ sr[t] \in StatRef
    BY <1>0, <1>2 DEF NoWaiting, TypeOK
  <2>1. CASE QuietStep(e)
    BY <1>0, <2>1, <2>a, Quiet
  <2>2. CASE AckRead(e) \/ TryRead(e) \/ DeactFinish(e)
    BY <2>2, <2>a DEF AckRead, TryRead, DeactFinish
  <2>3. CASE AckCas(e)
    <3>1. sr'[t] = sr[t] \/ sr'[t] = Acknowledged(old[e].stat)
      BY <1>0, <2>3 DEF AckCas, TypeOK
    <3>2. Acknowledged(old[e].stat).stat # "GC_WAIT"
      BY DEF Acknowledged
    <3>3. QED  BY <2>a, <3>1, <3>2
  <2>4. CASE TryCas(e)
    <3>1. sr'[t] = sr[t] \/ sr'[t] = [sr[t] EXCEPT !.ref = FALSE]
      BY <1>0, <2>4 DEF TryCas, TypeOK
    <3>2. QED  BY <2>a, <3>1 DEF StatRef
  <2>5. CASE ActCas(e)
    <3>1. sr'[t] = sr[t] \/ sr'[t] = [stat |-> "RUNNABLE", ref |-> TRUE]
      BY <1>0, <2>5 DEF ActCas, TypeOK
    <3>2. QED  BY <2>a, <3>1
  <2>6. CASE DeactCas(e) \/ UpdCas(e)
    <3>1. sr'[t] = sr[t] \/ sr'[t] = [sr[t] EXCEPT !.stat = op[e].req]
      BY <1>0, <2>6 DEF DeactCas, UpdCas, TypeOK
    <3>2. QED  BY <2>a, <3>1 DEF StatRef
  <2>7. ASSUME NEW x \in Threads, CreateRunnable(e, x) \/ CreateSuspended(e, x)
        PROVE  sr'[t].stat # "GC_WAIT"
    <3>1. \/ sr'[t] = sr[t]
          \/ sr'[t] = [stat |-> "NONE", ref |-> FALSE] \/ sr'[t] = [stat |-> "SUSPEND", ref |-> FALSE]
      BY <1>0, <2>7 DEF CreateRunnable, CreateSuspended, thread_init, TypeOK
    <3>2. QED  BY <2>a, <3>1
  <2>8. ASSUME NEW x \in Threads, NEW stat,
               Activate(e, x) \/ Deactivate(e, x, stat) \/ Destroy(e, x) \/ Update(e, x, stat)
        PROVE  sr'[t].stat # "GC_WAIT"
    BY <2>8, <2>a DEF Activate, Deactivate, Destroy, Update
  <2>9. QED
    BY <2>1, <2>2, <2>3, <2>4, <2>5, <2>6, <2>7, <2>8 DEF RuntimeStep, ApiCall, QuietStep
<1>3. ASSUME "GC_WAIT" \notin Deferred PROVE op'[e].req # "GC_WAIT"
  <2>a. op[e].req # "GC_WAIT"
    BY <1>3 DEF NoWaiting
  <2>1. CASE op'[e] \in {op[e], NoOp} \/ op'[e].req = op[e].req
    BY <2>1, <2>a DEF NoOp
  <2>2. CASE ApiCall(e)
    <3>1. ASSUME NEW x \in Threads, CreateRunnable(e, x) \/ Activate(e, x) \/ Destroy(e, x)
          PROVE  op'[e].req # "GC_WAIT"
      BY <1>0, <3>1 DEF CreateRunnable, Activate, Destroy, Call, TypeOK
    <3>2. ASSUME NEW x \in Threads, CreateSuspended(e, x) PROVE op'[e].req # "GC_WAIT"
      BY <3>2, <2>a DEF CreateSuspended
    <3>3. ASSUME NEW x \in Threads, NEW stat, Deactivate(e, x, stat) \/ Update(e, x, stat)
          PROVE  op'[e].req # "GC_WAIT"
      <4>1. stat # "GC_WAIT"
        BY <1>3, <3>3, CallAssumption DEF Deactivate, Update
      <4>2. QED  BY <1>0, <3>3, <4>1 DEF Deactivate, Update, Call, TypeOK
    <3>4. QED  BY <2>2, <3>1, <3>2, <3>3 DEF ApiCall
  <2>3. CASE SearchStep(e) \/ Safepoint(e) \/ Cycle(e) \/ Result(e) \/ SchedCycle(e)
    BY <1>0, <2>1, <2>3, LoopOutside DEF SearchStep
  <2>4. CASE GuestStep(e) /\ ~ApiCall(e) /\ ~SchedCycle(e)
    <3>1. CASE ActRead(e) \/ ActCas(e) \/ ActInc(e) \/ WakeCas(e) \/ WakeSignal(e) \/ DeactRead(e)
               \/ DeactCas(e) \/ DeactFinish(e) \/ Raise(e) \/ RaiseSignal(e) \/ UpdRead(e)
               \/ UpdCas(e)
      <4>1. op' \in {op, [op EXCEPT ![e] = NoOp]}
        BY <3>1 DEF ActRead, ActCas, ActInc, WakeCas, WakeSignal, DeactRead, DeactCas, DeactFinish,
           Raise, RaiseSignal, UpdRead, UpdCas, Return
      <4>2. QED  BY <1>0, <2>1, <4>1 DEF TypeOK
    <3>2. CASE ActEnqueue(e) \/ WakeRead(e) \/ DeactExecutor(e)
      <4>1. op' \in {op, [op EXCEPT ![e] = NoOp]} \/ \E i : op' = [op EXCEPT ![e].tgt = i]
        BY <3>2 DEF ActEnqueue, WakeRead, DeactExecutor, Return
      <4>2. op[e] \in Ops
        BY <1>0 DEF TypeOK
      <4>3. QED  BY <1>0, <2>1, <2>a, <4>1, <4>2 DEF TypeOK, Ops
    <3>3. QED  BY <2>4, <3>1, <3>2 DEF GuestStep
  <2>5. QED  BY <2>2, <2>3, <2>4 DEF RuntimeStep, SearchStep, GuestStep
<1>4. ASSUME "GC_WAIT" \notin Deferred PROVE pc'[e] # "ackgc"
  <2>1. CASE AckRead(e)
    <3>1. pc[e] \in AckLabels
      BY <2>1 DEF AckRead, AckLabels
    <3>2. sr[AckThread(e)].stat # "GC_WAIT"
      BY <1>4, <3>1, CheckedIsHeld DEF NoWaiting
    <3>3. ret[e] \in Callers
      BY <1>0 DEF TypeOK
    <3>4. AfterDrop(ret[e]) # "ackgc"
      BY <3>3 DEF AfterDrop, Callers
    <3>5. QED  BY <1>0, <2>1, <3>2, <3>4 DEF AckRead, Drop, Goto, TypeOK
  <2>2. CASE ~AckRead(e)
    <3>1. ret[e] \in Callers
      BY <1>0 DEF TypeOK
    <3>2. AfterDrop(ret[e]) # "ackgc" /\ AfterSkip(ret[e]) # "ackgc" /\ AfterExecute(ret[e]) # "ackgc"
      BY <3>1 DEF AfterDrop, AfterSkip, AfterExecute, Callers
    <3>3. CASE GuestStep(e)
      BY <1>0, <3>3, GuestStays DEF GuestLabels, CallLabels, ActLabels, DeactLabels, UpdLabels
    <3>4. CASE Balance(e)
      BY <1>0, <3>4, BalanceTarget
    <3>5. CASE AckCas(e) \/ AckGcWait(e) \/ TryCas(e) \/ TryRead(e)
      BY <1>0, <3>2, <3>5 DEF AckCas, AckGcWait, TryCas, TryRead, Drop, Goto, TypeOK
    <3>6. CASE Cycle(e) \/ Result(e) \/ IdleCheck(e) \/ IdleWake(e) \/ Safepoint(e) \/ GcYield(e)
               \/ SetCurr(e) \/ Replace(e) \/ TryLocal(e) \/ TryWorkshare(e) \/ Take(e) \/ Put(e)
      BY <1>0, <3>6 DEF Cycle, Result, IdleCheck, IdleWake, Safepoint, GcYield, SetCurr, Replace,
         TryLocal, TryWorkshare, Take, Put, Dequeue, Goto, TypeOK
    <3>7. QED  BY <2>2, <3>3, <3>4, <3>5, <3>6 DEF RuntimeStep, GuestStep
  <2>3. QED  BY <2>1, <2>2
<1>5. ASSUME "GC_WAIT" \notin Deferred, NEW f \in Execs
      PROVE  pc'[f] # "ackgc" /\ op'[f].req # "GC_WAIT"
  BY <1>0, <1>3, <1>4, <1>5, Frame DEF Untouched, NoWaiting
<1>6. QED  BY <1>1, <1>2, <1>5 DEF NoWaiting

\* A thread keeps a place if the step of e leaves it one of its own.
LEMMA PlaceKept ==
    ASSUME NEW e \in Execs, NEW x \in Threads, Held(x),
           \A f \in Execs \ {e} : Untouched(f),
           InWs(x) \/ Private(e, x) => InWs(x)' \/ Private(e, x)'
    PROVE  Held(x)'
<1>1. \A f \in Execs \ {e} : Private(f, x)' = Private(f, x)
  BY SamePlaces DEF Private
<1>2. QED  BY <1>1 DEF Held

\* A step that moves nothing, and starts no search, keeps every thread.
LEMMA NothingMoves ==
    ASSUME NEW e \in Execs, NEW x \in Threads, Held(x),
           \A f \in Execs \ {e} : Untouched(f),
           ws' = ws, lq' = lq, hand' = hand, curr' = curr,
           pc'[e] # "replace", pc[e] \notin {"actinc", "actenq"}
    PROVE  Held(x)'
<1>1. InWs(x) \/ Private(e, x) => InWs(x)' \/ Private(e, x)'
  BY DEF Private, InWs, InLq, InHand, IsCurr, Pending
<1>2. QED  BY <1>1, PlaceKept

\* A status check that drops its thread keeps the others.
LEMMA CheckKeepsOthers ==
    ASSUME SchedInv, NEW e \in Execs, HandOK(e), NEW x \in Threads, Held(x),
           \A f \in Execs \ {e} : Untouched(f),
           \/ pc[e] \in AckLabels /\ x # AckThread(e)
           \/ pc[e] \in TryLabels /\ x # hand[e],
           InWs(x) => InWs(x)', InLq(e, x) => InLq(e, x)', curr' = curr, Drop(e)
    PROVE  Held(x)'
<1>0. TypeOK /\ LocalOK(e)
  BY DEF SchedInv
<1>1. hand'[e] = NoThread /\ pc'[e] = AfterDrop(ret[e])
  BY <1>0 DEF Drop, Goto, TypeOK
<1>2. ~Pending(e, x) /\ pc[e] # "replace"
  BY DEF Pending, AckLabels, TryLabels
<1>3. CASE pc[e] \in AckLabels
  <2>1. ret[e] \in {"curr", "local", "share"}
    BY <1>0, <1>3 DEF LocalOK
  <2>2. CASE ret[e] = "curr"
    <3>1. hand[e] = NoThread
      BY <1>3, <2>2 DEF HandOK, Checks, AckLabels, TryLabels
    <3>2. ~InHand(e, x) /\ ~IsCurr(e, x)
      BY <1>3, <2>2, <3>1, ThreadAssumption DEF InHand, IsCurr, AckThread, AckLabels, TryLabels
    <3>3. QED  BY <1>2, <3>2, PlaceKept DEF Private
  <2>3. CASE ret[e] # "curr"
    <3>1. ~InHand(e, x)
      BY <1>3, <2>3 DEF InHand, AckThread, AckLabels, TryLabels
    <3>2. pc'[e] \in {"local", "share"}
      BY <1>1, <2>1, <2>3 DEF AfterDrop
    <3>3. IsCurr(e, x) => IsCurr(e, x)'
      BY <3>2 DEF IsCurr
    <3>4. QED  BY <1>2, <3>1, <3>3, PlaceKept DEF Private
  <2>4. QED  BY <2>2, <2>3
<1>4. CASE pc[e] \in TryLabels
  <2>1. pc'[e] = "result"
    BY <1>0, <1>1, <1>4 DEF LocalOK, AfterDrop
  <2>2. ~InHand(e, x)
    BY <1>4 DEF InHand, AckLabels, TryLabels
  <2>3. IsCurr(e, x) => IsCurr(e, x)'
    BY <2>1 DEF IsCurr
  <2>4. QED  BY <1>2, <2>2, <2>3, PlaceKept DEF Private
<1>5. QED  BY <1>3, <1>4

\* Taking the head off a queue into an empty hand keeps every thread.
LEMMA DequeueKeeps ==
    ASSUME SchedInv, NEW e \in Execs, HandOK(e), NEW x \in Threads, Held(x),
           \A f \in Execs \ {e} : Untouched(f),
           pc[e] \in {"local", "share", "take", "put"},
           pc'[e] \in {"ack", "try"}, curr' = curr,
           \/ /\ lq[e] # <<>> /\ lq'[e] = Tail(lq[e]) /\ ws' = ws
              /\ hand'[e] = Head(lq[e])
           \/ /\ ws # <<>> /\ ws' = Tail(ws) /\ lq' = lq
              /\ hand'[e] = Head(ws)
    PROVE  Held(x)'
<1>0. TypeOK /\ NoDoubleEntry
  BY DEF SchedInv
<1>1. hand[e] = NoThread
  BY DEF HandOK, Checks, AckLabels, TryLabels
<1>2. ~InHand(e, x) /\ ~Pending(e, x)
  BY <1>1, ThreadAssumption DEF InHand, Pending
<1>3. IsCurr(e, x) => IsCurr(e, x)'
  BY DEF IsCurr
<1>4. CASE lq[e] # <<>> /\ lq'[e] = Tail(lq[e]) /\ ws' = ws /\ hand'[e] = Head(lq[e])
  <2>1. lq[e] \in Seq(Threads) /\ IsInjective(lq[e])
    BY <1>0 DEF TypeOK, NoDoubleEntry
  <2>2. Range(lq'[e]) = Range(lq[e]) \ {Head(lq[e])}
    BY <1>4, <2>1, TailRange
  <2>3. InLq(e, x) => InLq(e, x)' \/ InHand(e, x)'
    BY <1>4, <2>2 DEF InLq, InHand
  <2>4. QED  BY <1>2, <1>3, <1>4, <2>3, PlaceKept DEF Private, InWs
<1>5. CASE ws # <<>> /\ ws' = Tail(ws) /\ lq' = lq /\ hand'[e] = Head(ws)
  <2>1. ws \in Seq(Threads) /\ IsInjective(ws)
    BY <1>0 DEF TypeOK, NoDoubleEntry
  <2>2. Range(ws') = Range(ws) \ {Head(ws)}
    BY <1>5, <2>1, TailRange
  <2>3. InWs(x) => InWs(x)' \/ InHand(e, x)'
    BY <1>5, <2>2 DEF InWs, InHand
  <2>4. QED  BY <1>2, <1>3, <1>5, <2>3, PlaceKept DEF Private, InLq
<1>6. QED  BY <1>4, <1>5

\* A queue without duplicates has room for a thread that is not in it.
LEMMA RoomLeft ==
    ASSUME IsFiniteSet(Threads), QueueCap >= Cardinality(Threads),
           NEW s \in Seq(Threads), IsInjective(s), NEW x \in Threads, x \notin Range(s)
    PROVE  Len(s) < QueueCap
<1> DEFINE q == Append(s, x)
<1>1. q \in Seq(Threads) /\ IsInjective(q) /\ Len(q) = Len(s) + 1 /\ Len(s) \in Nat
  BY AppendRange
<1> HIDE DEF q
<1>2. q \in [1 .. Len(q) -> Threads] /\ DOMAIN q = 1 .. Len(q) /\ Len(q) \in Nat
  BY <1>1, LenProperties
<1>3. IsFiniteSet(1 .. Len(q)) /\ Cardinality(1 .. Len(q)) = Len(q)
  <2>1. ASSUME NEW n \in Nat PROVE IsFiniteSet(1 .. n) /\ Cardinality(1 .. n) = n
    <3>1. 1 \in Int /\ n \in Int /\ (IF 1 > n THEN 0 ELSE n - 1 + 1) = n
      OBVIOUS
    <3>2. QED  BY <3>1, FS_Interval
  <2>2. QED  BY <1>2, <2>1
<1>4. Cardinality(Threads) \in Nat
  BY FS_CardinalityType
<1>5. CASE Cardinality(Threads) < Len(q)
  <2>1. \E m, n \in 1 .. Len(q) : m # n /\ q[m] = q[n]
    BY <1>2, <1>3, <1>4, <1>5, FS_PigeonHole
  <2>2. QED  BY <1>1, <1>2, <2>1 DEF IsInjective
<1>6. QED  BY <1>1, <1>2, <1>4, <1>5, SizeAssumption

\* Nor does it lose the thread when it is enqueued.
LEMMA EnqueueLands ==
    ASSUME IsFiniteSet(Threads), QueueCap >= Cardinality(Threads), SchedInv,
           NEW x \in Threads, ~InWs(x), Enqueue(x)
    PROVE  \A t \in Threads : InWs(t) \/ t = x => InWs(t)'
<1>1. ws \in Seq(Threads) /\ IsInjective(ws)
  BY DEF SchedInv, TypeOK, NoDoubleEntry
<1>2. Len(ws) < QueueCap
  BY <1>1, RoomLeft DEF InWs
<1>3. Range(ws') = Range(ws) \cup {x}
  BY <1>1, <1>2, AppendRange DEF Enqueue
<1>4. QED  BY <1>3 DEF InWs

\* The guest steps that move nothing between the places.
IdleGuestStep(e) ==
    \/ SchedCycle(e) \/ ApiCall(e) \/ ActRead(e) \/ ActCas(e)
    \/ WakeRead(e) \/ WakeCas(e) \/ WakeSignal(e)
    \/ DeactExecutor(e) \/ DeactRead(e) \/ DeactCas(e) \/ DeactFinish(e)
    \/ Raise(e) \/ RaiseSignal(e) \/ UpdRead(e) \/ UpdCas(e)

\* The steps of a guest that move no thread are not made where a thread waits
\* to be enqueued by an activation.
LEMMA IdleGuest ==
    ASSUME TypeOK, NEW e \in Execs, IdleGuestStep(e)
    PROVE  /\ ws' = ws /\ lq' = lq /\ hand' = hand /\ curr' = curr
           /\ pc'[e] # "replace" /\ pc[e] \notin {"actinc", "actenq"}
<1>1. /\ curr' = curr /\ hand' = hand
      /\ pc[e] \in GuestLabels /\ pc'[e] \in GuestLabels \cup {"cycle"}
  BY GuestStays DEF IdleGuestStep, GuestStep
<1>2. pc'[e] # "replace"
  BY <1>1 DEF GuestLabels, CallLabels, ActLabels, DeactLabels, UpdLabels
<1>3. CASE ApiCall(e)
  BY <1>1, <1>2, <1>3, StillApi
<1>4. CASE ~ApiCall(e)
  <2>1. ws' = ws /\ lq' = lq /\ pc[e] \notin {"actinc", "actenq"}
    BY <1>4 DEF IdleGuestStep, SchedCycle, ActRead, ActCas, WakeRead, WakeCas, WakeSignal,
       DeactExecutor, DeactRead, DeactCas, DeactFinish, Raise, RaiseSignal, UpdRead, UpdCas, schedVars
  <2>2. QED  BY <1>1, <1>2, <2>1
<1>5. QED  BY <1>3, <1>4

\* Nothing takes a thread with T_REF out of the scheduler: it is dropped only by
\* the CAS that unsets the flag, or destroyed.
LEMMA HeldStays ==
    ASSUME IsFiniteSet(Threads), QueueCap >= Cardinality(Threads),
           ~MayCollect \/ "GC_WAIT" \notin Deferred,
           SchedInv, HandInv, NoWaiting,
           NEW e \in Execs, RuntimeStep(e) \/ SchedCycle(e) \/ ApiCall(e),
           NEW x \in Threads, Held(x)
    PROVE  Held(x)' \/ ~sr'[x].ref \/ life'[x] = "destroyed"
<1>0. /\ TypeOK /\ LocalOK(e) /\ CallOK(e) /\ HandOK(e)
      /\ NoDoubleEntry /\ Single(x) /\ \A t \in Threads : Single(t)
  BY DEF SchedInv, NoDoubleEntry, HandInv
<1>a. \A f \in Execs \ {e} : Untouched(f)
  BY <1>0, Frame
<1>b. ret[e] \in Callers
  BY <1>0 DEF TypeOK
<1>1. CASE IdleGuestStep(e)
  BY <1>0, <1>a, <1>1, IdleGuest, NothingMoves
<1>2. CASE Cycle(e) \/ Result(e) \/ IdleCheck(e) \/ IdleWake(e) \/ Safepoint(e) \/ GcYield(e) \/ Balance(e)
  <2>1. /\ ws' = ws /\ lq' = lq /\ hand' = hand /\ curr' = curr
        /\ pc[e] \notin {"actinc", "actenq"}
    BY <1>2 DEF Cycle, Result, IdleCheck, IdleWake, Safepoint, GcYield, Balance, BalanceStep, schedVars
  <2>2. pc'[e] # "replace"
    <3>1. CASE Balance(e)
      BY <1>0, <3>1, BalanceTarget
    <3>2. CASE ~Balance(e)
      BY <1>0, <1>2, <3>2 DEF Cycle, Result, IdleCheck, IdleWake, Safepoint, GcYield, Goto, TypeOK
    <3>3. QED  BY <3>1, <3>2
  <2>3. QED  BY <1>a, <2>1, <2>2, NothingMoves
<1>3. CASE AckRead(e)
  <2>1. pc[e] = "ack" /\ pc[e] \in AckLabels /\ UNCHANGED <<ws, lq, curr>>
    BY <1>3 DEF AckRead, AckLabels, schedVars
  <2>2. CASE sr[AckThread(e)].stat = "DESTROY"
    <3>1. thread_destroy(AckThread(e)) /\ Drop(e)
      BY <1>3, <2>2 DEF AckRead
    <3>2. x = AckThread(e) => life'[x] = "destroyed"
      BY <1>0, <3>1 DEF thread_destroy, TypeOK
    <3>3. x # AckThread(e) => Held(x)'
      BY <1>0, <1>a, <2>1, <3>1, CheckKeepsOthers DEF InWs, InLq
    <3>4. QED  BY <3>2, <3>3
  <2>3. CASE sr[AckThread(e)].stat # "DESTROY"
    <3>1. hand' = hand /\ pc'[e] \in {"fault", "ackgc", "ackcas"}
      BY <1>0, <1>3, <2>3 DEF AckRead, Goto, TypeOK
    <3>2. QED  BY <1>a, <2>1, <3>1, NothingMoves
  <2>4. QED  BY <2>2, <2>3
<1>4. CASE AckGcWait(e)
  <2>1. ~gcOn
    BY <1>4 DEF AckGcWait, NoWaiting
  <2>2. /\ UNCHANGED <<ws, lq, hand, curr>> /\ pc[e] = "ackgc" /\ pc'[e] = "ackcas"
    BY <1>0, <1>4, <2>1 DEF AckGcWait, Goto, TypeOK, schedVars
  <2>3. QED  BY <1>a, <2>2, NothingMoves
<1>5. CASE AckCas(e)
  <2>1. pc[e] = "ackcas" /\ pc[e] \in AckLabels /\ UNCHANGED <<ws, lq, curr>>
    BY <1>5 DEF AckCas, AckLabels, schedVars
  <2>2. CASE sr[AckThread(e)] # old[e] \/ Acknowledged(old[e].stat).ref
    <3>1. hand' = hand /\ pc'[e] \in {"ack", AfterExecute(ret[e])}
      BY <1>0, <1>5, <2>2 DEF AckCas, Goto, TypeOK
    <3>2. pc'[e] # "replace"
      BY <3>1 DEF AfterExecute
    <3>3. QED  BY <1>a, <2>1, <3>1, <3>2, NothingMoves
  <2>3. CASE sr[AckThread(e)] = old[e] /\ ~Acknowledged(old[e].stat).ref
    <3>1. Drop(e) /\ sr' = [sr EXCEPT ![AckThread(e)] = Acknowledged(old[e].stat)]
      BY <1>5, <2>3 DEF AckCas
    <3>2. x = AckThread(e) => ~sr'[x].ref
      BY <1>0, <2>3, <3>1 DEF TypeOK
    <3>3. x # AckThread(e) => Held(x)'
      BY <1>0, <1>a, <2>1, <3>1, CheckKeepsOthers DEF InWs, InLq
    <3>4. QED  BY <3>2, <3>3
  <2>4. QED  BY <2>2, <2>3
<1>6. CASE SetCurr(e)
  <2>1. /\ UNCHANGED <<ws, lq>> /\ pc[e] = "setcurr" /\ pc'[e] = "bal" /\ curr'[e] = hand[e]
    BY <1>0, <1>6 DEF SetCurr, Goto, TypeOK
  <2>2. ~IsCurr(e, x) /\ ~Pending(e, x)
    BY <1>0, <2>1, ThreadAssumption DEF HandOK, Between, IsCurr, Pending
  <2>3. InHand(e, x) => IsCurr(e, x)'
    BY <2>1 DEF InHand, IsCurr
  <2>4. QED  BY <1>a, <2>1, <2>2, <2>3, PlaceKept DEF Private, InWs, InLq
<1>7. CASE Replace(e)
  <2>1. UNCHANGED <<ws, lq, hand>> /\ pc[e] = "replace"
    BY <1>7 DEF Replace
  <2>2. ~IsCurr(e, x) /\ ~Pending(e, x)
    BY <2>1 DEF IsCurr, Pending
  <2>3. QED  BY <1>a, <2>1, <2>2, PlaceKept DEF Private, InWs, InLq, InHand
<1>8. CASE TryLocal(e) \/ Put(e)
  <2>1. CASE lq[e] # <<>>
    <3>1. /\ pc[e] \in {"local", "put"} /\ pc'[e] \in {"ack", "try"} /\ curr' = curr
          /\ lq'[e] = Tail(lq[e]) /\ ws' = ws /\ hand'[e] = Head(lq[e])
      BY <1>0, <1>8, <2>1 DEF TryLocal, Put, LocalDequeue, Goto, TypeOK
    <3>2. QED  BY <1>0, <1>a, <2>1, <3>1, DequeueKeeps
  <2>2. CASE lq[e] = <<>>
    <3>1. /\ UNCHANGED <<ws, lq, hand, curr>> /\ pc'[e] \in {"share", "result"}
          /\ pc[e] \in {"local", "put"}
      BY <1>0, <1>8, <2>2 DEF TryLocal, Put, Goto, TypeOK
    <3>2. QED  BY <1>a, <3>1, NothingMoves
  <2>3. QED  BY <2>1, <2>2
<1>9. CASE TryWorkshare(e) \/ Take(e)
  <2>1. CASE ws # <<>>
    <3>1. /\ pc[e] \in {"share", "take"} /\ pc'[e] \in {"ack", "try"} /\ curr' = curr
          /\ lq' = lq /\ ws' = Tail(ws) /\ hand'[e] = Head(ws)
      BY <1>0, <1>9, <2>1 DEF TryWorkshare, Take, Dequeue, Goto, TypeOK, schedVars
    <3>2. QED  BY <1>0, <1>a, <2>1, <3>1, DequeueKeeps
  <2>2. CASE ws = <<>>
    <3>1. /\ UNCHANGED <<ws, lq, hand, curr>> /\ pc'[e] = "result"
          /\ pc[e] \in {"share", "take"}
      BY <1>0, <1>9, <2>2 DEF TryWorkshare, Take, Dequeue, Goto, TypeOK, schedVars
    <3>2. QED  BY <1>a, <3>1, NothingMoves
  <2>3. QED  BY <2>1, <2>2
<1>10. CASE TryRead(e)
  <2>1. /\ pc[e] = "try" /\ pc[e] \in TryLabels /\ curr' = curr
        /\ hand[e] \in Threads /\ ret[e] \in {"take", "put"}
    BY <1>0, <1>10 DEF TryRead, TryLabels, LocalOK
  <2>2. CASE sr[hand[e]].stat \in Queueable
    <3>1. Drop(e)
      BY <1>10, <2>2 DEF TryRead, Queueable
    <3>2. CASE ret[e] = "take"
      <4>1. ws' = ws /\ lq' = [lq EXCEPT ![e] = Append(@, hand[e])]
        BY <1>10, <2>2, <3>2 DEF TryRead, Queueable
      <4>2. lq[e] \in Seq(Threads) /\ lq'[e] = Append(lq[e], hand[e])
        BY <1>0, <4>1 DEF TypeOK
      <4>3. Range(lq'[e]) = Range(lq[e]) \cup {hand[e]}
        BY <2>1, <4>2, AppendRange
      <4>4. x = hand[e] => Private(e, x)'
        BY <4>3 DEF Private, InLq
      <4>5. x # hand[e] => Held(x)'
        BY <1>0, <1>a, <2>1, <3>1, <4>1, <4>3, CheckKeepsOthers DEF InWs, InLq
      <4>6. QED  BY <4>4, <4>5 DEF Held
    <3>3. CASE ret[e] = "put"
      <4>1. lq' = lq /\ Enqueue(hand[e])
        BY <1>10, <2>2, <3>3 DEF TryRead, Queueable
      <4>2. ~InWs(hand[e])
        BY <1>0, <2>1 DEF Single, Private, InHand
      <4>3. \A t \in Threads : InWs(t) \/ t = hand[e] => InWs(t)'
        BY <2>1, <4>1, <4>2, EnqueueLands
      <4>4. x = hand[e] => Held(x)'
        BY <4>3 DEF Held
      <4>5. x # hand[e] => Held(x)'
        BY <1>0, <1>a, <2>1, <3>1, <4>1, <4>3, CheckKeepsOthers DEF InLq
      <4>6. QED  BY <4>4, <4>5
    <3>4. QED  BY <2>1, <3>2, <3>3
  <2>3. CASE sr[hand[e]].stat = "DESTROY"
    <3>1. thread_destroy(hand[e]) /\ Drop(e) /\ UNCHANGED <<ws, lq>>
      BY <1>10, <2>3 DEF TryRead, Queueable
    <3>2. x = hand[e] => life'[x] = "destroyed"
      BY <1>0, <3>1 DEF thread_destroy, TypeOK
    <3>3. x # hand[e] => Held(x)'
      BY <1>0, <1>a, <2>1, <3>1, CheckKeepsOthers DEF InWs, InLq
    <3>4. QED  BY <3>2, <3>3
  <2>4. CASE sr[hand[e]].stat \notin Queueable \cup {"DESTROY"}
    <3>1. UNCHANGED <<ws, lq, hand>> /\ pc'[e] = "trycas"
      BY <1>0, <1>10, <2>4 DEF TryRead, Goto, TypeOK
    <3>2. QED  BY <1>a, <2>1, <3>1, NothingMoves
  <2>5. QED  BY <2>2, <2>3, <2>4
<1>11. CASE TryCas(e)
  <2>1. pc[e] = "trycas" /\ pc[e] \in TryLabels /\ UNCHANGED <<ws, lq, curr>>
    BY <1>11 DEF TryCas, TryLabels, schedVars
  <2>2. CASE sr[hand[e]] # old[e]
    <3>1. hand' = hand /\ pc'[e] = "try"
      BY <1>0, <1>11, <2>2 DEF TryCas, Goto, TypeOK
    <3>2. QED  BY <1>a, <2>1, <3>1, NothingMoves
  <2>3. CASE sr[hand[e]] = old[e]
    <3>1. Drop(e) /\ sr' = [sr EXCEPT ![hand[e]].ref = FALSE]
      BY <1>11, <2>3 DEF TryCas
    <3>2. x = hand[e] => ~sr'[x].ref
      <4>1. x = hand[e] => sr'[x] = [sr[x] EXCEPT !.ref = FALSE]
        BY <1>0, <3>1 DEF TypeOK
      <4>2. sr[x] \in StatRef
        BY <1>0 DEF TypeOK
      <4>3. QED  BY <4>1, <4>2 DEF StatRef
    <3>3. x # hand[e] => Held(x)'
      BY <1>0, <1>a, <2>1, <3>1, CheckKeepsOthers DEF InWs, InLq
    <3>4. QED  BY <3>2, <3>3
  <2>4. QED  BY <2>2, <2>3
<1>12. CASE ActInc(e)
  <2>1. /\ UNCHANGED <<ws, lq, hand, curr, sr, life>> /\ pc[e] = "actinc"
    BY <1>12 DEF ActInc, schedVars, lifeVars
  <2>2. Pending(e, x) => Pending(e, x)'
    <3>1. ~old[e].ref => op' = op /\ pc'[e] = "actenq"
      BY <1>0, <1>12 DEF ActInc, Goto, TypeOK
    <3>2. QED  BY <2>1, <3>1 DEF Pending
  <2>3. pc'[e] \in {"run", "actenq"}
    BY <1>0, <1>12 DEF ActInc, Return, Goto, TypeOK
  <2>4. IsCurr(e, x) => IsCurr(e, x)'
    BY <2>1, <2>3 DEF IsCurr
  <2>5. QED  BY <1>a, <2>1, <2>2, <2>4, PlaceKept DEF Private, InWs, InLq, InHand
<1>13. CASE ActEnqueue(e)
  <2>1. /\ UNCHANGED <<lq, hand, curr>> /\ pc[e] = "actenq" /\ pc'[e] = "wake"
        /\ Enqueue(op[e].thr) /\ op[e].thr \in Threads
    BY <1>0, <1>13 DEF ActEnqueue, Goto, TypeOK, schedVars, CallOK, CallLabels, ActLabels
  <2>2. ~InWs(op[e].thr)
    BY <1>0, <2>1 DEF Single, Private, Pending
  <2>3. \A t \in Threads : InWs(t) \/ t = op[e].thr => InWs(t)'
    BY <2>1, <2>2, EnqueueLands
  <2>4. Pending(e, x) => x = op[e].thr
    BY DEF Pending
  <2>5. IsCurr(e, x) => IsCurr(e, x)'
    BY <2>1 DEF IsCurr
  <2>6. QED  BY <1>a, <2>1, <2>3, <2>4, <2>5, PlaceKept DEF Private, InLq, InHand
<1>14. QED
  BY <1>1, <1>2, <1>3, <1>4, <1>5, <1>6, <1>7, <1>8, <1>9, <1>10, <1>11, <1>12, <1>13
     DEF RuntimeStep, IdleGuestStep

\* T_REF is set only on a thread that goes, with that, to the queues.
LEMMA FlagGained ==
    ASSUME SchedInv, NEW e \in Execs, RuntimeStep(e) \/ SchedCycle(e) \/ ApiCall(e),
           NEW x \in Threads, ~sr[x].ref, sr'[x].ref
    PROVE  Held(x)'
<1>0. TypeOK /\ CallOK(e) /\ sr[x] \in StatRef /\ sr[x].ref \in BOOLEAN
  BY ValueTypes DEF SchedInv, TypeOK
<1>1. CASE QuietStep(e)
  BY <1>0, <1>1, Quiet
<1>2. CASE AckRead(e) \/ TryRead(e) \/ DeactFinish(e)
  BY <1>2 DEF AckRead, TryRead, DeactFinish
<1>3. CASE AckCas(e)
  <2>1. pc[e] \in AckLabels
    BY <1>3 DEF AckCas, AckLabels
  <2>2. x # AckThread(e)
    BY <2>1, CheckedIsHeld
  <2>3. sr'[x] = sr[x]
    BY <1>0, <1>3, <2>2 DEF AckCas, TypeOK
  <2>4. QED  BY <2>3
<1>4. CASE TryCas(e)
  <2>1. sr'[x] \in {sr[x], [sr[x] EXCEPT !.ref = FALSE]}
    BY <1>0, <1>4 DEF TryCas, TypeOK
  <2>2. QED  BY <1>0, <2>1 DEF StatRef
<1>5. CASE ActCas(e)
  <2>1. x = op[e].thr /\ sr[x] = old[e] /\ op' = op /\ old' = old /\ pc'[e] = "actinc"
    BY <1>0, <1>5 DEF ActCas, Goto, TypeOK
  <2>2. Pending(e, x)'
    BY <2>1 DEF Pending
  <2>3. QED  BY <2>2 DEF Held, Private
<1>6. CASE DeactCas(e) \/ UpdCas(e)
  <2>1. sr'[x] \in {sr[x], [sr[x] EXCEPT !.stat = op[e].req]}
    BY <1>0, <1>6 DEF DeactCas, UpdCas, TypeOK
  <2>2. QED  BY <1>0, <2>1 DEF StatRef
<1>7. ASSUME NEW t \in Threads, CreateRunnable(e, t) \/ CreateSuspended(e, t)
      PROVE  FALSE
  <2>1. \/ sr'[x] = sr[x]
        \/ sr'[x] = [stat |-> "NONE", ref |-> FALSE] \/ sr'[x] = [stat |-> "SUSPEND", ref |-> FALSE]
    BY <1>0, <1>7 DEF CreateRunnable, CreateSuspended, thread_init, TypeOK
  <2>2. QED  BY <2>1
<1>8. ASSUME NEW t \in Threads, NEW stat,
             Activate(e, t) \/ Deactivate(e, t, stat) \/ Destroy(e, t) \/ Update(e, t, stat)
      PROVE  FALSE
  BY <1>8 DEF Activate, Deactivate, Destroy, Update
<1>9. QED
  BY <1>1, <1>2, <1>3, <1>4, <1>5, <1>6, <1>7, <1>8 DEF RuntimeStep, ApiCall, QuietStep

\* The invariant of the threads' places.
PlaceInv == HandInv /\ NoWaiting /\ LastInv /\ ReferencedIsHeld

\* PlaceInv is inductive over SchedInv where the workshare queue has a node for
\* every thread and no thread waits for a collection.
LEMMA PlaceNext ==
    ASSUME IsFiniteSet(Threads), QueueCap >= Cardinality(Threads),
           ~MayCollect \/ "GC_WAIT" \notin Deferred,
           SchedInv, PlaceInv, [Next]_vars
    PROVE  PlaceInv'
<1>0. TypeOK /\ HandInv /\ NoWaiting /\ LastInv /\ ReferencedIsHeld
  BY DEF PlaceInv, SchedInv
<1>1. ASSUME NEW e \in Execs, RuntimeStep(e) \/ SchedCycle(e) \/ ApiCall(e)
      PROVE  PlaceInv'
  <2>1. ASSUME NEW f \in Execs PROVE HandOK(f)'
    <3>1. CASE f = e
      BY <1>0, <1>1, <3>1, HandStep DEF HandInv
    <3>2. CASE f # e
      <4>1. Untouched(f)
        BY <1>0, <1>1, <3>2, Frame
      <4>2. QED  BY <1>0, <4>1 DEF HandInv, HandOK, Checks, Between, Untouched
    <3>3. QED  BY <3>1, <3>2
  <2>2. NoWaiting'
    BY <1>0, <1>1, WaitStep
  <2>3. LastInv'
    BY <1>0, <1>1, LastStep
  <2>4. ASSUME NEW t \in Threads, sr'[t].ref, life'[t] # "destroyed"
        PROVE  Held(t)'
    <3>1. life[t] # "destroyed"
      <4>1. LifeChange(e)
        BY <1>0, <1>1, LifeStep
      <4>2. QED  BY <1>0, <2>4, <4>1 DEF LifeChange, Life_Same, Life_Destroy, Life_Create,
                 Life_Doom, thread_destroy, TypeOK
    <3>2. CASE sr[t].ref
      <4>1. Held(t)
        BY <1>0, <3>1, <3>2 DEF ReferencedIsHeld
      <4>2. QED  BY <1>0, <1>1, <2>4, <4>1, HeldStays
    <3>3. CASE ~sr[t].ref
      BY <1>1, <2>4, <3>3, FlagGained
    <3>4. QED  BY <3>2, <3>3
  <2>5. QED  BY <2>1, <2>2, <2>3, <2>4 DEF PlaceInv, HandInv, ReferencedIsHeld
<1>2. CASE GcStart \/ GcEnd \/ UNCHANGED vars
  <2>1. UNCHANGED <<sr, life, ws, lq, curr, pc, ret, hand, old, op>>
    BY <1>2 DEF GcStart, GcEnd, vars, schedVars, lifeVars
  <2>2. ~MayCollect => ~gcOn'
    BY <1>0, <1>2 DEF GcStart, GcEnd, vars, NoWaiting
  <2>3. HandInv' /\ LastInv'
    BY <1>0, <2>1 DEF HandInv, HandOK, Checks, Between, LastInv, LastCall
  <2>4. NoWaiting'
    BY <1>0, <2>1, <2>2 DEF NoWaiting
  <2>5. ReferencedIsHeld'
    BY <1>0, <2>1 DEF ReferencedIsHeld, Held, Private, InWs, InLq, IsCurr, InHand, Pending
  <2>6. QED  BY <2>3, <2>4, <2>5 DEF PlaceInv
<1>3. QED  BY <1>1, <1>2 DEF Next

\* It holds initially: the main thread is the current thread of executor 0.
LEMMA PlaceInit == Init => PlaceInv
<1> SUFFICES ASSUME Init PROVE PlaceInv
  OBVIOUS
<1>1. 0 \in Execs
  BY SizeAssumption DEF Execs
<1>2. HandInv
  BY DEF Init, HandInv, HandOK, Checks, Between, AckLabels, TryLabels
<1>3. NoWaiting
  BY DEF Init, NoWaiting, NoVal, NoOp
<1>4. LastInv
  BY DEF Init, LastInv, LastCall
<1>5. \A t \in Threads : sr[t].ref => t = MainThread
  BY DEF Init, NoVal
<1>6. IsCurr(0, MainThread)
  BY <1>1 DEF Init, IsCurr
<1>7. ReferencedIsHeld
  BY <1>1, <1>5, <1>6 DEF ReferencedIsHeld, Held, Private
<1>8. QED  BY <1>2, <1>3, <1>4, <1>7 DEF PlaceInv

\* A thread with T_REF set is in the queues, in an executor's hands or current:
\* scheduler_activate_thread may rely on the flag and enqueue nothing.  That
\* needs a node for every thread, since the result of the enqueue is ignored,
\* and no thread that waits for the end of a collection: sched_set_running_status
\* drops one with the flag still set (SchedulerGcLost.cfg).
THEOREM NoThreadLost ==
    ASSUME IsFiniteSet(Threads), QueueCap >= Cardinality(Threads),
           ~MayCollect \/ "GC_WAIT" \notin Deferred
    PROVE  Spec => []ReferencedIsHeld
<1>1. PlaceInv => ReferencedIsHeld
  BY DEF PlaceInv
<1>2. SchedInv /\ PlaceInv /\ [Next]_vars => PlaceInv'
  BY PlaceNext
<1>3. QED  BY <1>1, <1>2, PlaceInit, Invariance, PTL DEF Spec
=============================================================================
