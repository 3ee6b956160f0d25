-------------------------- MODULE SchedulerProofs --------------------------
(***************************************************************************)
(* Proofs about Scheduler, for any number of executors and threads, any    *)
(* queue capacity and any set of guest calls.                              *)
(*                                                                         *)
(* SchedInv is inductive.  The argument: a step of one executor leaves the *)
(* private state of the others alone (Frame); what the others rely on of   *)
(* the thread their call works on is not disturbed (CallOther); a thread   *)
(* moves from one place to one place (the Move lemmas), and becomes held   *)
(* only by the CAS that sets T_REF, which finds it unset (MoveActCas).     *)
(***************************************************************************)
EXTENDS Scheduler, TLAPS

-----------------------------------------------------------------------------
(* Facts about unsigned arithmetic and about the queues.                   *)

\* Unsigned arithmetic stays in its width.
LEMMA UintClosed ==
    ASSUME NEW n \in Uint
    PROVE  Inc(n) \in Uint /\ Dec(n) \in Uint
BY SizeAssumption DEF Inc, Dec, Uint

\* Appending a new thread to a queue without duplicates makes none.
LEMMA AppendRange ==
    ASSUME NEW S, NEW s \in Seq(S), NEW x \in S
    PROVE  /\ Append(s, x) \in Seq(S)
           /\ Range(Append(s, x)) = Range(s) \cup {x}
           /\ IsInjective(s) /\ x \notin Range(s) => IsInjective(Append(s, x))
<1>1. Append(s, x) \in Seq(S) /\ Len(Append(s, x)) = Len(s) + 1
  OBVIOUS
<1>2. /\ DOMAIN Append(s, x) = 1 .. Len(s) + 1
      /\ \A i \in 1 .. Len(s) : Append(s, x)[i] = s[i]
      /\ Append(s, x)[Len(s) + 1] = x
      /\ DOMAIN s = 1 .. Len(s) /\ Len(s) \in Nat
  OBVIOUS
<1>3. Range(Append(s, x)) = Range(s) \cup {x}
  BY <1>2 DEF Range
<1>4. ASSUME IsInjective(s), x \notin Range(s)
      PROVE  IsInjective(Append(s, x))
  BY <1>2, <1>4 DEF IsInjective, Range
<1>5. QED  BY <1>1, <1>3, <1>4

\* Dequeuing takes exactly the head out of a queue without duplicates.
LEMMA TailRange ==
    ASSUME NEW S, NEW s \in Seq(S), s # <<>>, IsInjective(s)
    PROVE  /\ Head(s) \in S /\ Tail(s) \in Seq(S)
           /\ Head(s) \in Range(s)
           /\ Range(Tail(s)) = Range(s) \ {Head(s)}
           /\ IsInjective(Tail(s))
<1>1. /\ Head(s) \in S /\ Tail(s) \in Seq(S)
      /\ Len(s) \in Nat /\ Len(s) > 0
      /\ DOMAIN s = 1 .. Len(s) /\ Head(s) = s[1]
  OBVIOUS
<1>2. /\ DOMAIN Tail(s) = 1 .. Len(s) - 1
      /\ \A i \in 1 .. Len(s) - 1 : Tail(s)[i] = s[i + 1]
  BY <1>1
<1>3. IsInjective(Tail(s))
  BY <1>1, <1>2 DEF IsInjective
<1>4. Head(s) \in Range(s)
  BY <1>1 DEF Range
<1>5. ASSUME NEW y \in Range(Tail(s))
      PROVE  y \in Range(s) \ {Head(s)}
  <2>1. PICK i \in 1 .. Len(s) - 1 : y = s[i + 1]
    BY <1>2 DEF Range
  <2>2. i + 1 \in 1 .. Len(s) /\ i + 1 # 1
    BY <1>1
  <2>3. y # s[1]
    BY <1>1, <2>1, <2>2 DEF IsInjective
  <2>4. QED  BY <1>1, <2>1, <2>2, <2>3 DEF Range
<1>6. ASSUME NEW y \in Range(s) \ {Head(s)}
      PROVE  y \in Range(Tail(s))
  <2>1. PICK i \in 1 .. Len(s) : y = s[i] /\ i # 1
    BY <1>1 DEF Range
  <2>2. i - 1 \in 1 .. Len(s) - 1 /\ (i - 1) + 1 = i
    BY <1>1, <2>1
  <2>3. Tail(s)[i - 1] = y
    BY <1>2, <2>1, <2>2
  <2>4. QED  BY <1>2, <2>2, <2>3 DEF Range
<1>7. QED  BY <1>1, <1>3, <1>4, <1>5, <1>6

-----------------------------------------------------------------------------
(* Type correctness.                                                       *)

\* The values the steps store are of the right type.
LEMMA ValueTypes ==
    /\ NoVal \in StatRef
    /\ NoOp \in Ops
    /\ \A b \in BOOLEAN, st \in Statuses : [stat |-> st, ref |-> b] \in StatRef
    /\ \A v \in StatRef, b \in BOOLEAN : [v EXCEPT !.ref = b] \in StatRef
    /\ \A v \in StatRef, st \in Statuses : [v EXCEPT !.stat = st] \in StatRef
    /\ \A st \in Statuses : Acknowledged(st) \in StatRef
    /\ \A v \in StatRef : v.stat \in Statuses /\ v.ref \in BOOLEAN
    /\ \A o \in Ops, i \in Execs \cup {NoExec} : [o EXCEPT !.tgt = i] \in Ops
    /\ \A t \in Threads, st \in Statuses :
            [thr |-> t, req |-> st, tgt |-> NoExec] \in Ops
    /\ \A o \in Ops : o.req \in Statuses /\ o.tgt \in Execs \cup {NoExec}
BY DEF NoVal, NoOp, StatRef, Ops, Statuses, Acknowledged

\* Every step the actions name is a label.
LEMMA LabelTypes ==
    /\ "run" \in Labels /\ "gcrun" \in Labels /\ "idle" \in Labels /\ "susp" \in Labels
    /\ "cycle" \in Labels /\ "result" \in Labels /\ "fault" \in Labels /\ "ack" \in Labels
    /\ "ackgc" \in Labels /\ "ackcas" \in Labels /\ "setcurr" \in Labels /\ "replace" \in Labels
    /\ "local" \in Labels /\ "share" \in Labels /\ "bal" \in Labels /\ "ballow" \in Labels
    /\ "balup" \in Labels /\ "take" \in Labels /\ "put" \in Labels /\ "try" \in Labels
    /\ "trycas" \in Labels /\ "act" \in Labels /\ "actcas" \in Labels /\ "actinc" \in Labels
    /\ "actenq" \in Labels /\ "wake" \in Labels /\ "wakecurr" \in Labels
    /\ "wakecas" \in Labels /\ "wakesig" \in Labels
    /\ "deact" \in Labels /\ "deactread" \in Labels /\ "deactcas" \in Labels /\ "deactfin" \in Labels
    /\ "raise" \in Labels /\ "raisesig" \in Labels /\ "upd" \in Labels /\ "updcas" \in Labels
BY DEF Labels

\* The callers of the status checks go on at a label.
LEMMA AfterTypes ==
    ASSUME NEW r \in Callers
    PROVE  AfterDrop(r) \in Labels /\ AfterSkip(r) \in Labels /\ AfterExecute(r) \in Labels
<1>1. AfterDrop(r) \in {"replace", "local", "share", "result"}
  BY DEF AfterDrop, Callers
<1>2. QED  BY <1>1, LabelTypes DEF AfterSkip, AfterExecute

\* Queue operations keep a queue a sequence of threads.
LEMMA QueueTypes ==
    ASSUME NEW s \in Seq(Threads)
    PROVE  /\ s # <<>> => Head(s) \in Threads /\ Tail(s) \in Seq(Threads)
           /\ \A t \in Threads : Append(s, t) \in Seq(Threads)
OBVIOUS


\* Every step of the runtime keeps the types.
LEMMA TypeRuntime ==
    ASSUME TypeOK, NEW e \in Execs, LocalOK(e), CallOK(e), RuntimeStep(e)
    PROVE  TypeOK'
<1>a. /\ pc[e] \in {"ack", "ackgc", "ackcas"} => AckThread(e) \in Threads
      /\ pc[e] \in {"try", "trycas"} => hand[e] \in Threads
      /\ pc[e] \in CallLabels => op[e].thr \in Threads
  BY DEF LocalOK, CallOK, AckLabels, TryLabels
<1>b. 0 \in Execs /\ \A i \in Execs \cup {NoExec} : i + 1 < NumExecs => i + 1 \in Execs
  BY SizeAssumption DEF Execs, NoExec
<1> USE DEF CallLabels, ActLabels, DeactLabels, UpdLabels
<1>1. CASE Cycle(e)
  <2>1. texec' \in [Threads -> Execs \cup {NoExec}]
    BY <1>1 DEF Cycle, TypeOK
  <2>2. pc' \in [Execs -> Labels]
    BY <1>1, LabelTypes DEF Cycle, Goto, TypeOK
  <2>3. ret' \in [Execs -> Callers]
    BY <1>1 DEF Cycle, TypeOK, Callers
  <2>4. UNCHANGED <<sr, life, threadNum, ws, active, gcOn, lq, num, curr, mbox, ossig, hand, old, op, calls>>
    BY <1>1 DEF Cycle, schedVars, lifeVars, wakeVars
  <2>5. QED  BY <2>1, <2>2, <2>3, <2>4 DEF TypeOK
<1>2. CASE Result(e)
  <2>1. texec' \in [Threads -> Execs \cup {NoExec}]
    BY <1>2 DEF Result, TypeOK
  <2>2. pc' \in [Execs -> Labels]
    BY <1>2, LabelTypes DEF Result, Goto, TypeOK
  <2>3. UNCHANGED <<sr, life, threadNum, ws, active, gcOn, lq, num, curr, mbox, ossig, ret, hand, old, op, calls>>
    BY <1>2 DEF Result, schedVars, lifeVars, wakeVars
  <2>4. QED  BY <2>1, <2>2, <2>3 DEF TypeOK
<1>3. CASE IdleCheck(e)
  <2>1. mbox' \in [Execs -> BOOLEAN]
    BY <1>3 DEF IdleCheck, TypeOK
  <2>2. pc' \in [Execs -> Labels]
    BY <1>3, LabelTypes DEF IdleCheck, Goto, TypeOK
  <2>3. UNCHANGED <<sr, texec, life, threadNum, ws, active, gcOn, lq, num, curr, ossig, ret, hand, old, op, calls>>
    BY <1>3 DEF IdleCheck, schedVars, lifeVars, wakeVars
  <2>4. QED  BY <2>1, <2>2, <2>3 DEF TypeOK
<1>4. CASE IdleWake(e)
  <2>1. ossig' \in [Execs -> BOOLEAN]
    BY <1>4 DEF IdleWake, TypeOK
  <2>2. pc' \in [Execs -> Labels]
    BY <1>4, LabelTypes DEF IdleWake, Goto, TypeOK
  <2>3. UNCHANGED <<sr, texec, life, threadNum, ws, active, gcOn, lq, num, curr, mbox, ret, hand, old, op, calls>>
    BY <1>4 DEF IdleWake, schedVars, lifeVars, wakeVars
  <2>4. QED  BY <2>1, <2>2, <2>3 DEF TypeOK
<1>5. CASE Safepoint(e)
  <2>1. mbox' \in [Execs -> BOOLEAN]
    BY <1>5 DEF Safepoint, TypeOK
  <2>2. pc' \in [Execs -> Labels]
    BY <1>5, LabelTypes DEF Safepoint, Goto, TypeOK
  <2>3. UNCHANGED <<sr, texec, life, threadNum, ws, active, gcOn, lq, num, curr, ossig, ret, hand, old, op, calls>>
    BY <1>5 DEF Safepoint, schedVars, lifeVars, wakeVars
  <2>4. QED  BY <2>1, <2>2, <2>3 DEF TypeOK
<1>6. CASE GcYield(e)
  <2>1. mbox' \in [Execs -> BOOLEAN]
    BY <1>6 DEF GcYield, TypeOK
  <2>2. pc' \in [Execs -> Labels]
    BY <1>6, LabelTypes DEF GcYield, Goto, TypeOK
  <2>3. UNCHANGED <<sr, texec, life, threadNum, ws, active, gcOn, lq, num, curr, ossig, ret, hand, old, op, calls>>
    BY <1>6 DEF GcYield, schedVars, lifeVars, wakeVars
  <2>4. QED  BY <2>1, <2>2, <2>3 DEF TypeOK
<1>7. CASE AckRead(e)
  <2>1. life' \in [Threads -> Lives]
    BY <1>7, <1>a DEF AckRead, thread_destroy, lifeVars, TypeOK, Lives
  <2>2. threadNum' \in Uint
    BY <1>7, <1>a, UintClosed DEF AckRead, thread_destroy, lifeVars, TypeOK
  <2>3. pc' \in [Execs -> Labels]
    <3>1. ret[e] \in Callers
      BY DEF TypeOK
    <3>2. /\ AfterDrop(ret[e]) \in Labels /\ AfterSkip(ret[e]) \in Labels
          /\ AfterExecute(ret[e]) \in Labels
      BY <3>1, AfterTypes
    <3>3. PICK l \in Labels : pc' = [pc EXCEPT ![e] = l]
      BY <1>7, <3>2, LabelTypes DEF AckRead, Goto, Drop
    <3>4. QED  BY <3>3 DEF TypeOK
  <2>4. hand' \in [Execs -> Threads \cup {NoThread}]
    BY <1>7 DEF AckRead, Drop, TypeOK
  <2>5. old' \in [Execs -> StatRef]
    BY <1>7, ValueTypes, <1>a DEF AckRead, TypeOK
  <2>6. UNCHANGED <<sr, texec, ws, active, gcOn, lq, num, curr, mbox, ossig, ret, op, calls>>
    BY <1>7 DEF AckRead, schedVars, lifeVars, wakeVars
  <2>7. QED  BY <2>1, <2>2, <2>3, <2>4, <2>5, <2>6 DEF TypeOK
<1>8. CASE AckGcWait(e)
  <2>1. pc' \in [Execs -> Labels]
    <3>1. ret[e] \in Callers
      BY DEF TypeOK
    <3>2. /\ AfterDrop(ret[e]) \in Labels /\ AfterSkip(ret[e]) \in Labels
          /\ AfterExecute(ret[e]) \in Labels
      BY <3>1, AfterTypes
    <3>3. PICK l \in Labels : pc' = [pc EXCEPT ![e] = l]
      BY <1>8, <3>2, LabelTypes DEF AckGcWait, Goto
    <3>4. QED  BY <3>3 DEF TypeOK
  <2>2. hand' \in [Execs -> Threads \cup {NoThread}]
    BY <1>8 DEF AckGcWait, TypeOK
  <2>3. old' \in [Execs -> StatRef]
    BY <1>8, ValueTypes, <1>a DEF AckGcWait, TypeOK
  <2>4. UNCHANGED <<sr, texec, life, threadNum, ws, active, gcOn, lq, num, curr, mbox, ossig, ret, op, calls>>
    BY <1>8 DEF AckGcWait, schedVars, lifeVars, wakeVars
  <2>5. QED  BY <2>1, <2>2, <2>3, <2>4 DEF TypeOK
<1>9. CASE AckCas(e)
  <2>1. sr' \in [Threads -> StatRef]
    <3>1. AckThread(e) \in Threads /\ sr[AckThread(e)] \in StatRef
      BY <1>9, <1>a DEF AckCas, TypeOK
    <3>2. Acknowledged(old[e].stat) \in StatRef
      BY <1>9, <3>1, ValueTypes DEF AckCas, TypeOK
    <3>3. sr' = sr \/ sr' = [sr EXCEPT ![AckThread(e)] = Acknowledged(old[e].stat)]
      BY <1>9, <3>1 DEF AckCas, TypeOK
    <3>4. QED  BY <3>1, <3>2, <3>3 DEF TypeOK
  <2>2. pc' \in [Execs -> Labels]
    <3>1. ret[e] \in Callers
      BY DEF TypeOK
    <3>2. /\ AfterDrop(ret[e]) \in Labels /\ AfterSkip(ret[e]) \in Labels
          /\ AfterExecute(ret[e]) \in Labels
      BY <3>1, AfterTypes
    <3>3. PICK l \in Labels : pc' = [pc EXCEPT ![e] = l]
      BY <1>9, <3>2, LabelTypes DEF AckCas, Goto, Drop
    <3>4. QED  BY <3>3 DEF TypeOK
  <2>3. hand' \in [Execs -> Threads \cup {NoThread}]
    BY <1>9 DEF AckCas, Drop, TypeOK
  <2>4. old' \in [Execs -> StatRef]
    BY <1>9, ValueTypes, <1>a DEF AckCas, TypeOK
  <2>5. UNCHANGED <<texec, life, threadNum, ws, active, gcOn, lq, num, curr, mbox, ossig, ret, op, calls>>
    BY <1>9 DEF AckCas, schedVars, lifeVars, wakeVars
  <2>6. QED  BY <2>1, <2>2, <2>3, <2>4, <2>5 DEF TypeOK
<1>10. CASE SetCurr(e)
  <2>1. num' \in [Execs -> Uint]
    BY <1>10, UintClosed DEF SetCurr, TypeOK
  <2>2. curr' \in [Execs -> Threads \cup {NoThread}]
    BY <1>10 DEF SetCurr, TypeOK
  <2>3. pc' \in [Execs -> Labels]
    BY <1>10, LabelTypes DEF SetCurr, Goto, TypeOK
  <2>4. hand' \in [Execs -> Threads \cup {NoThread}]
    BY <1>10 DEF SetCurr, TypeOK
  <2>5. UNCHANGED <<sr, texec, life, threadNum, ws, active, gcOn, lq, mbox, ossig, ret, old, op, calls>>
    BY <1>10 DEF SetCurr, schedVars, lifeVars, wakeVars
  <2>6. QED  BY <2>1, <2>2, <2>3, <2>4, <2>5 DEF TypeOK
<1>11. CASE Replace(e)
  <2>1. num' \in [Execs -> Uint]
    BY <1>11, UintClosed DEF Replace, TypeOK
  <2>2. curr' \in [Execs -> Threads \cup {NoThread}]
    BY <1>11 DEF Replace, TypeOK
  <2>3. pc' \in [Execs -> Labels]
    BY <1>11, LabelTypes DEF Replace, Goto, TypeOK
  <2>4. UNCHANGED <<sr, texec, life, threadNum, ws, active, gcOn, lq, mbox, ossig, ret, hand, old, op, calls>>
    BY <1>11 DEF Replace, schedVars, lifeVars, wakeVars
  <2>5. QED  BY <2>1, <2>2, <2>3, <2>4 DEF TypeOK
<1>12. CASE TryLocal(e)
  <2>1. lq' \in [Execs -> Seq(Threads)]
    <3>1. lq' = lq \/ (lq[e] # <<>> /\ lq' = [lq EXCEPT ![e] = Tail(lq[e])])
      BY <1>12 DEF TryLocal, LocalDequeue
    <3>2. lq[e] # <<>> => Tail(lq[e]) \in Seq(Threads)
      BY QueueTypes DEF TypeOK
    <3>3. QED  BY <3>1, <3>2 DEF TypeOK
  <2>2. num' \in [Execs -> Uint]
    <3>1. num' = num \/ num' = [num EXCEPT ![e] = Dec(num[e])]
      BY <1>12 DEF TryLocal, LocalDequeue
    <3>2. Dec(num[e]) \in Uint
      BY UintClosed DEF TypeOK
    <3>3. QED  BY <3>1, <3>2 DEF TypeOK
  <2>3. pc' \in [Execs -> Labels]
    BY <1>12, LabelTypes DEF TryLocal, Goto, TypeOK
  <2>4. ret' \in [Execs -> Callers]
    BY <1>12 DEF TryLocal, TypeOK, Callers
  <2>5. hand' \in [Execs -> Threads \cup {NoThread}]
    <3>1. hand' = hand \/ (lq[e] # <<>> /\ hand' = [hand EXCEPT ![e] = Head(lq[e])])
      BY <1>12 DEF TryLocal, LocalDequeue
    <3>2. lq[e] # <<>> => Head(lq[e]) \in Threads
      BY QueueTypes DEF TypeOK
    <3>3. QED  BY <3>1, <3>2 DEF TypeOK
  <2>6. UNCHANGED <<sr, texec, life, threadNum, ws, active, gcOn, curr, mbox, ossig, old, op, calls>>
    BY <1>12 DEF TryLocal, schedVars, lifeVars, wakeVars
  <2>7. QED  BY <2>1, <2>2, <2>3, <2>4, <2>5, <2>6 DEF TypeOK
<1>13. CASE TryWorkshare(e)
  <2>1. ws' \in Seq(Threads)
    BY <1>13, QueueTypes DEF TryWorkshare, Dequeue, TypeOK
  <2>2. pc' \in [Execs -> Labels]
    BY <1>13, LabelTypes DEF TryWorkshare, Goto, Dequeue, TypeOK
  <2>3. ret' \in [Execs -> Callers]
    BY <1>13 DEF TryWorkshare, Dequeue, TypeOK, Callers
  <2>4. hand' \in [Execs -> Threads \cup {NoThread}]
    <3>1. hand' = hand \/ (ws # <<>> /\ hand' = [hand EXCEPT ![e] = Head(ws)])
      BY <1>13 DEF TryWorkshare, Dequeue
    <3>2. ws # <<>> => Head(ws) \in Threads
      BY QueueTypes DEF TypeOK
    <3>3. QED  BY <3>1, <3>2 DEF TypeOK
  <2>5. UNCHANGED <<sr, texec, life, threadNum, active, gcOn, lq, num, curr, mbox, ossig, old, op, calls>>
    BY <1>13 DEF TryWorkshare, Dequeue, schedVars, lifeVars, wakeVars
  <2>6. QED  BY <2>1, <2>2, <2>3, <2>4, <2>5 DEF TypeOK
<1>14. CASE Balance(e)
  <2>1. pc' \in [Execs -> Labels]
    <3>1. active > NumExecs \/ active <= NumExecs
      BY SizeAssumption DEF TypeOK, Uint
    <3>2. PICK l \in Labels : pc' = [pc EXCEPT ![e] = l]
      <4>1. CASE pc[e] = "bal"
        BY <1>14, <3>1, <4>1, LabelTypes DEF Balance, BalanceStep, Goto
      <4>2. CASE pc[e] = "ballow"
        BY <1>14, <4>2, LabelTypes DEF Balance, BalanceStep, Goto
      <4>3. CASE pc[e] = "balup"
        BY <1>14, <4>3, LabelTypes DEF Balance, BalanceStep, Goto
      <4>4. QED  BY <1>14, <4>1, <4>2, <4>3 DEF Balance
    <3>3. QED  BY <3>2 DEF TypeOK
  <2>2. UNCHANGED <<sr, texec, life, threadNum, ws, active, gcOn, lq, num, curr, mbox, ossig, ret, hand, old, op, calls>>
    BY <1>14 DEF Balance, BalanceStep, schedVars, lifeVars, wakeVars
  <2>3. QED  BY <2>1, <2>2 DEF TypeOK
<1>15. CASE Take(e)
  <2>1. ws' \in Seq(Threads)
    BY <1>15, QueueTypes DEF Take, Dequeue, TypeOK
  <2>2. pc' \in [Execs -> Labels]
    BY <1>15, LabelTypes DEF Take, Goto, Dequeue, TypeOK
  <2>3. ret' \in [Execs -> Callers]
    BY <1>15 DEF Take, Dequeue, TypeOK, Callers
  <2>4. hand' \in [Execs -> Threads \cup {NoThread}]
    <3>1. hand' = hand \/ (ws # <<>> /\ hand' = [hand EXCEPT ![e] = Head(ws)])
      BY <1>15 DEF Take, Dequeue
    <3>2. ws # <<>> => Head(ws) \in Threads
      BY QueueTypes DEF TypeOK
    <3>3. QED  BY <3>1, <3>2 DEF TypeOK
  <2>5. UNCHANGED <<sr, texec, life, threadNum, active, gcOn, lq, num, curr, mbox, ossig, old, op, calls>>
    BY <1>15 DEF Take, Dequeue, schedVars, lifeVars, wakeVars
  <2>6. QED  BY <2>1, <2>2, <2>3, <2>4, <2>5 DEF TypeOK
<1>16. CASE Put(e)
  <2>1. lq' \in [Execs -> Seq(Threads)]
    <3>1. lq' = lq \/ (lq[e] # <<>> /\ lq' = [lq EXCEPT ![e] = Tail(lq[e])])
      BY <1>16 DEF Put, LocalDequeue
    <3>2. lq[e] # <<>> => Tail(lq[e]) \in Seq(Threads)
      BY QueueTypes DEF TypeOK
    <3>3. QED  BY <3>1, <3>2 DEF TypeOK
  <2>2. num' \in [Execs -> Uint]
    <3>1. num' = num \/ num' = [num EXCEPT ![e] = Dec(num[e])]
      BY <1>16 DEF Put, LocalDequeue
    <3>2. Dec(num[e]) \in Uint
      BY UintClosed DEF TypeOK
    <3>3. QED  BY <3>1, <3>2 DEF TypeOK
  <2>3. pc' \in [Execs -> Labels]
    BY <1>16, LabelTypes DEF Put, Goto, TypeOK
  <2>4. ret' \in [Execs -> Callers]
    BY <1>16 DEF Put, TypeOK, Callers
  <2>5. hand' \in [Execs -> Threads \cup {NoThread}]
    <3>1. hand' = hand \/ (lq[e] # <<>> /\ hand' = [hand EXCEPT ![e] = Head(lq[e])])
      BY <1>16 DEF Put, LocalDequeue
    <3>2. lq[e] # <<>> => Head(lq[e]) \in Threads
      BY QueueTypes DEF TypeOK
    <3>3. QED  BY <3>1, <3>2 DEF TypeOK
  <2>6. UNCHANGED <<sr, texec, life, threadNum, ws, active, gcOn, curr, mbox, ossig, old, op, calls>>
    BY <1>16 DEF Put, schedVars, lifeVars, wakeVars
  <2>7. QED  BY <2>1, <2>2, <2>3, <2>4, <2>5, <2>6 DEF TypeOK
<1>17. CASE TryRead(e)
  <2>1. life' \in [Threads -> Lives]
    BY <1>17, <1>a DEF TryRead, thread_destroy, lifeVars, TypeOK, Lives
  <2>2. threadNum' \in Uint
    BY <1>17, <1>a, UintClosed DEF TryRead, thread_destroy, lifeVars, TypeOK
  <2>3. ws' \in Seq(Threads)
    BY <1>17, QueueTypes, <1>a DEF TryRead, Enqueue, TypeOK
  <2>4. lq' \in [Execs -> Seq(Threads)]
    <3>1. lq' = lq \/ lq' = [lq EXCEPT ![e] = Append(lq[e], hand[e])]
      BY <1>17 DEF TryRead
    <3>2. Append(lq[e], hand[e]) \in Seq(Threads)
      BY <1>17, <1>a, QueueTypes DEF TypeOK, TryRead
    <3>3. QED  BY <3>1, <3>2 DEF TypeOK
  <2>5. num' \in [Execs -> Uint]
    <3>1. num' = num \/ num' = [num EXCEPT ![e] = Inc(num[e])]
      BY <1>17 DEF TryRead
    <3>2. Inc(num[e]) \in Uint
      BY UintClosed DEF TypeOK
    <3>3. QED  BY <3>1, <3>2 DEF TypeOK
  <2>6. pc' \in [Execs -> Labels]
    <3>1. ret[e] \in Callers
      BY DEF TypeOK
    <3>2. /\ AfterDrop(ret[e]) \in Labels /\ AfterSkip(ret[e]) \in Labels
          /\ AfterExecute(ret[e]) \in Labels
      BY <3>1, AfterTypes
    <3>3. PICK l \in Labels : pc' = [pc EXCEPT ![e] = l]
      BY <1>17, <3>2, LabelTypes DEF TryRead, Goto, Drop
    <3>4. QED  BY <3>3 DEF TypeOK
  <2>7. hand' \in [Execs -> Threads \cup {NoThread}]
    <3>1. hand' = hand \/ hand' = [hand EXCEPT ![e] = NoThread]
      BY <1>17 DEF TryRead, Drop
    <3>2. QED  BY <3>1 DEF TypeOK
  <2>8. old' \in [Execs -> StatRef]
    BY <1>17, ValueTypes, <1>a DEF TryRead, TypeOK
  <2>9. UNCHANGED <<sr, texec, active, gcOn, curr, mbox, ossig, ret, op, calls>>
    BY <1>17 DEF TryRead, schedVars, lifeVars, wakeVars
  <2>10. QED  BY <2>1, <2>2, <2>3, <2>4, <2>5, <2>6, <2>7, <2>8, <2>9 DEF TypeOK
<1>18. CASE TryCas(e)
  <2>1. sr' \in [Threads -> StatRef]
    <3>1. hand[e] \in Threads /\ sr[hand[e]] \in StatRef
      BY <1>18, <1>a DEF TryCas, TypeOK
    <3>2. [sr[hand[e]] EXCEPT !.ref = FALSE] \in StatRef
      BY <1>18, <3>1, ValueTypes DEF TryCas, TypeOK
    <3>3. sr' = sr \/ sr' = [sr EXCEPT ![hand[e]] = [sr[hand[e]] EXCEPT !.ref = FALSE]]
      BY <1>18, <3>1 DEF TryCas, TypeOK
    <3>4. QED  BY <3>1, <3>2, <3>3 DEF TypeOK
  <2>2. pc' \in [Execs -> Labels]
    <3>1. ret[e] \in Callers
      BY DEF TypeOK
    <3>2. /\ AfterDrop(ret[e]) \in Labels /\ AfterSkip(ret[e]) \in Labels
          /\ AfterExecute(ret[e]) \in Labels
      BY <3>1, AfterTypes
    <3>3. PICK l \in Labels : pc' = [pc EXCEPT ![e] = l]
      BY <1>18, <3>2, LabelTypes DEF TryCas, Goto, Drop
    <3>4. QED  BY <3>3 DEF TypeOK
  <2>3. hand' \in [Execs -> Threads \cup {NoThread}]
    BY <1>18 DEF TryCas, Drop, TypeOK
  <2>4. old' \in [Execs -> StatRef]
    BY <1>18, ValueTypes, <1>a DEF TryCas, TypeOK
  <2>5. UNCHANGED <<texec, life, threadNum, ws, active, gcOn, lq, num, curr, mbox, ossig, ret, op, calls>>
    BY <1>18 DEF TryCas, schedVars, lifeVars, wakeVars
  <2>6. QED  BY <2>1, <2>2, <2>3, <2>4, <2>5 DEF TypeOK
<1>19. CASE ActRead(e)
  <2>1. pc' \in [Execs -> Labels]
    BY <1>19, LabelTypes DEF ActRead, Goto, Return, TypeOK
  <2>2. old' \in [Execs -> StatRef]
    BY <1>19, ValueTypes, <1>a DEF ActRead, Return, TypeOK
  <2>3. op' \in [Execs -> Ops]
    BY <1>19, ValueTypes DEF ActRead, Return, TypeOK
  <2>4. UNCHANGED <<sr, texec, life, threadNum, ws, active, gcOn, lq, num, curr, mbox, ossig, ret, hand, calls>>
    BY <1>19 DEF ActRead, schedVars, lifeVars, wakeVars
  <2>5. QED  BY <2>1, <2>2, <2>3, <2>4 DEF TypeOK
<1>20. CASE ActCas(e)
  <2>1. sr' \in [Threads -> StatRef]
    <3>1. op[e].thr \in Threads /\ sr[op[e].thr] \in StatRef
      BY <1>20, <1>a DEF ActCas, TypeOK
    <3>2. [stat |-> "RUNNABLE", ref |-> TRUE] \in StatRef
      BY <1>20, <3>1, ValueTypes DEF ActCas, TypeOK, Statuses
    <3>3. sr' = sr \/ sr' = [sr EXCEPT ![op[e].thr] = [stat |-> "RUNNABLE", ref |-> TRUE]]
      BY <1>20, <3>1 DEF ActCas, TypeOK
    <3>4. QED  BY <3>1, <3>2, <3>3 DEF TypeOK
  <2>2. pc' \in [Execs -> Labels]
    BY <1>20, LabelTypes DEF ActCas, Goto, TypeOK
  <2>3. old' \in [Execs -> StatRef]
    BY <1>20, ValueTypes, <1>a DEF ActCas, TypeOK
  <2>4. UNCHANGED <<texec, life, threadNum, ws, active, gcOn, lq, num, curr, mbox, ossig, ret, hand, op, calls>>
    BY <1>20 DEF ActCas, schedVars, lifeVars, wakeVars
  <2>5. QED  BY <2>1, <2>2, <2>3, <2>4 DEF TypeOK
<1>21. CASE ActInc(e)
  <2>1. active' \in Uint
    BY <1>21, UintClosed DEF ActInc, TypeOK
  <2>2. pc' \in [Execs -> Labels]
    BY <1>21, LabelTypes DEF ActInc, Goto, Return, TypeOK
  <2>3. old' \in [Execs -> StatRef]
    BY <1>21, ValueTypes, <1>a DEF ActInc, Return, TypeOK
  <2>4. op' \in [Execs -> Ops]
    BY <1>21, ValueTypes DEF ActInc, Return, TypeOK
  <2>5. UNCHANGED <<sr, texec, life, threadNum, ws, gcOn, lq, num, curr, mbox, ossig, ret, hand, calls>>
    BY <1>21 DEF ActInc, schedVars, lifeVars, wakeVars
  <2>6. QED  BY <2>1, <2>2, <2>3, <2>4, <2>5 DEF TypeOK
<1>22. CASE ActEnqueue(e)
  <2>1. ws' \in Seq(Threads)
    BY <1>22, QueueTypes, <1>a DEF ActEnqueue, Enqueue, TypeOK
  <2>2. pc' \in [Execs -> Labels]
    BY <1>22, LabelTypes DEF ActEnqueue, Goto, TypeOK
  <2>3. old' \in [Execs -> StatRef]
    BY <1>22, ValueTypes, <1>a DEF ActEnqueue, TypeOK
  <2>4. op' \in [Execs -> Ops]
    BY <1>22, ValueTypes, <1>b DEF ActEnqueue, TypeOK
  <2>5. UNCHANGED <<sr, texec, life, threadNum, active, gcOn, lq, num, curr, mbox, ossig, ret, hand, calls>>
    BY <1>22 DEF ActEnqueue, schedVars, lifeVars, wakeVars
  <2>6. QED  BY <2>1, <2>2, <2>3, <2>4, <2>5 DEF TypeOK
<1>23. CASE WakeRead(e)
  <2>1. pc' \in [Execs -> Labels]
    BY <1>23, LabelTypes DEF WakeRead, Goto, Return, TypeOK
  <2>2. old' \in [Execs -> StatRef]
    BY <1>23, ValueTypes, <1>a DEF WakeRead, Return, TypeOK
  <2>3. op' \in [Execs -> Ops]
    <3>1. CASE op' = [op EXCEPT ![e].tgt = op[e].tgt + 1] /\ op[e].tgt + 1 < NumExecs
      <4>1. op[e] \in Ops
        BY DEF TypeOK
      <4>2. op[e].tgt + 1 \in Execs
        BY <3>1, <4>1, <1>b, ValueTypes
      <4>3. [op[e] EXCEPT !.tgt = op[e].tgt + 1] \in Ops
        BY <4>1, <4>2, ValueTypes
      <4>4. op' = [op EXCEPT ![e] = [op[e] EXCEPT !.tgt = op[e].tgt + 1]]
        BY <3>1
      <4>5. QED  BY <4>3, <4>4 DEF TypeOK
    <3>2. CASE op' = op \/ op' = [op EXCEPT ![e] = NoOp]
      BY <3>2, ValueTypes DEF TypeOK
    <3>3. QED  BY <1>23, <3>1, <3>2 DEF WakeRead, Return
  <2>4. UNCHANGED <<sr, texec, life, threadNum, ws, active, gcOn, lq, num, curr, mbox, ossig, ret, hand, calls>>
    BY <1>23 DEF WakeRead, schedVars, lifeVars, wakeVars
  <2>5. QED  BY <2>1, <2>2, <2>3, <2>4 DEF TypeOK
<1>24. CASE WakeCas(e)
  <2>1. mbox' \in [Execs -> BOOLEAN]
    BY <1>24 DEF WakeCas, TypeOK
  <2>2. pc' \in [Execs -> Labels]
    BY <1>24, LabelTypes DEF WakeCas, Goto, TypeOK
  <2>3. UNCHANGED <<sr, texec, life, threadNum, ws, active, gcOn, lq, num, curr, ossig, ret, hand, old, op, calls>>
    BY <1>24 DEF WakeCas, schedVars, lifeVars, wakeVars
  <2>4. QED  BY <2>1, <2>2, <2>3 DEF TypeOK
<1>25. CASE WakeSignal(e)
  <2>1. ossig' \in [Execs -> BOOLEAN]
    BY <1>25 DEF WakeSignal, TypeOK
  <2>2. pc' \in [Execs -> Labels]
    BY <1>25, LabelTypes DEF WakeSignal, Goto, Return, TypeOK
  <2>3. old' \in [Execs -> StatRef]
    BY <1>25, ValueTypes, <1>a DEF WakeSignal, Return, TypeOK
  <2>4. op' \in [Execs -> Ops]
    BY <1>25, ValueTypes DEF WakeSignal, Return, TypeOK
  <2>5. UNCHANGED <<sr, texec, life, threadNum, ws, active, gcOn, lq, num, curr, mbox, ret, hand, calls>>
    BY <1>25 DEF WakeSignal, schedVars, lifeVars, wakeVars
  <2>6. QED  BY <2>1, <2>2, <2>3, <2>4, <2>5 DEF TypeOK
<1>26. CASE DeactExecutor(e)
  <2>1. pc' \in [Execs -> Labels]
    BY <1>26, LabelTypes DEF DeactExecutor, Goto, TypeOK
  <2>2. op' \in [Execs -> Ops]
    BY <1>26, ValueTypes, <1>a DEF DeactExecutor, TypeOK
  <2>3. UNCHANGED <<sr, texec, life, threadNum, ws, active, gcOn, lq, num, curr, mbox, ossig, ret, hand, old, calls>>
    BY <1>26 DEF DeactExecutor, schedVars, lifeVars, wakeVars
  <2>4. QED  BY <2>1, <2>2, <2>3 DEF TypeOK
<1>27. CASE DeactRead(e)
  <2>1. pc' \in [Execs -> Labels]
    BY <1>27, LabelTypes DEF DeactRead, Goto, Return, TypeOK
  <2>2. old' \in [Execs -> StatRef]
    BY <1>27, ValueTypes, <1>a DEF DeactRead, Return, TypeOK
  <2>3. op' \in [Execs -> Ops]
    BY <1>27, ValueTypes DEF DeactRead, Return, TypeOK
  <2>4. UNCHANGED <<sr, texec, life, threadNum, ws, active, gcOn, lq, num, curr, mbox, ossig, ret, hand, calls>>
    BY <1>27 DEF DeactRead, schedVars, lifeVars, wakeVars
  <2>5. QED  BY <2>1, <2>2, <2>3, <2>4 DEF TypeOK
<1>28. CASE DeactCas(e)
  <2>1. sr' \in [Threads -> StatRef]
    <3>1. op[e].thr \in Threads /\ sr[op[e].thr] \in StatRef
      BY <1>28, <1>a DEF DeactCas, TypeOK
    <3>2. [sr[op[e].thr] EXCEPT !.stat = op[e].req] \in StatRef
      BY <1>28, <3>1, ValueTypes DEF DeactCas, TypeOK
    <3>3. sr' = sr \/ sr' = [sr EXCEPT ![op[e].thr] = [sr[op[e].thr] EXCEPT !.stat = op[e].req]]
      BY <1>28, <3>1 DEF DeactCas, TypeOK
    <3>4. QED  BY <3>1, <3>2, <3>3 DEF TypeOK
  <2>2. pc' \in [Execs -> Labels]
    BY <1>28, LabelTypes DEF DeactCas, Goto, TypeOK
  <2>3. old' \in [Execs -> StatRef]
    BY <1>28, ValueTypes, <1>a DEF DeactCas, TypeOK
  <2>4. UNCHANGED <<texec, life, threadNum, ws, active, gcOn, lq, num, curr, mbox, ossig, ret, hand, op, calls>>
    BY <1>28 DEF DeactCas, schedVars, lifeVars, wakeVars
  <2>5. QED  BY <2>1, <2>2, <2>3, <2>4 DEF TypeOK
<1>29. CASE DeactFinish(e)
  <2>1. life' \in [Threads -> Lives]
    BY <1>29, <1>a DEF DeactFinish, thread_destroy, lifeVars, TypeOK, Lives
  <2>2. threadNum' \in Uint
    BY <1>29, <1>a, UintClosed DEF DeactFinish, thread_destroy, lifeVars, TypeOK
  <2>3. active' \in Uint
    BY <1>29, UintClosed DEF DeactFinish, TypeOK
  <2>4. pc' \in [Execs -> Labels]
    BY <1>29, LabelTypes DEF DeactFinish, Goto, Return, TypeOK
  <2>5. old' \in [Execs -> StatRef]
    BY <1>29, ValueTypes, <1>a DEF DeactFinish, Return, TypeOK
  <2>6. op' \in [Execs -> Ops]
    BY <1>29, ValueTypes DEF DeactFinish, Return, TypeOK
  <2>7. UNCHANGED <<sr, texec, ws, gcOn, lq, num, curr, mbox, ossig, ret, hand, calls>>
    BY <1>29 DEF DeactFinish, schedVars, lifeVars, wakeVars
  <2>8. QED  BY <2>1, <2>2, <2>3, <2>4, <2>5, <2>6, <2>7 DEF TypeOK
<1>30. CASE Raise(e)
  <2>1. mbox' \in [Execs -> BOOLEAN]
    BY <1>30 DEF Raise, TypeOK
  <2>2. pc' \in [Execs -> Labels]
    BY <1>30, LabelTypes DEF Raise, Goto, TypeOK
  <2>3. UNCHANGED <<sr, texec, life, threadNum, ws, active, gcOn, lq, num, curr, ossig, ret, hand, old, op, calls>>
    BY <1>30 DEF Raise, schedVars, lifeVars, wakeVars
  <2>4. QED  BY <2>1, <2>2, <2>3 DEF TypeOK
<1>31. CASE RaiseSignal(e)
  <2>1. ossig' \in [Execs -> BOOLEAN]
    BY <1>31 DEF RaiseSignal, TypeOK
  <2>2. pc' \in [Execs -> Labels]
    BY <1>31, LabelTypes DEF RaiseSignal, Goto, Return, TypeOK
  <2>3. old' \in [Execs -> StatRef]
    BY <1>31, ValueTypes, <1>a DEF RaiseSignal, Return, TypeOK
  <2>4. op' \in [Execs -> Ops]
    BY <1>31, ValueTypes DEF RaiseSignal, Return, TypeOK
  <2>5. UNCHANGED <<sr, texec, life, threadNum, ws, active, gcOn, lq, num, curr, mbox, ret, hand, calls>>
    BY <1>31 DEF RaiseSignal, schedVars, lifeVars, wakeVars
  <2>6. QED  BY <2>1, <2>2, <2>3, <2>4, <2>5 DEF TypeOK
<1>32. CASE UpdRead(e)
  <2>1. pc' \in [Execs -> Labels]
    BY <1>32, LabelTypes DEF UpdRead, Goto, Return, TypeOK
  <2>2. old' \in [Execs -> StatRef]
    BY <1>32, ValueTypes, <1>a DEF UpdRead, Return, TypeOK
  <2>3. op' \in [Execs -> Ops]
    BY <1>32, ValueTypes DEF UpdRead, Return, TypeOK
  <2>4. UNCHANGED <<sr, texec, life, threadNum, ws, active, gcOn, lq, num, curr, mbox, ossig, ret, hand, calls>>
    BY <1>32 DEF UpdRead, schedVars, lifeVars, wakeVars
  <2>5. QED  BY <2>1, <2>2, <2>3, <2>4 DEF TypeOK
<1>33. CASE UpdCas(e)
  <2>1. sr' \in [Threads -> StatRef]
    <3>1. op[e].thr \in Threads /\ sr[op[e].thr] \in StatRef
      BY <1>33, <1>a DEF UpdCas, TypeOK
    <3>2. [sr[op[e].thr] EXCEPT !.stat = op[e].req] \in StatRef
      BY <1>33, <3>1, ValueTypes DEF UpdCas, TypeOK
    <3>3. sr' = sr \/ sr' = [sr EXCEPT ![op[e].thr] = [sr[op[e].thr] EXCEPT !.stat = op[e].req]]
      BY <1>33, <3>1 DEF UpdCas, TypeOK
    <3>4. QED  BY <3>1, <3>2, <3>3 DEF TypeOK
  <2>2. pc' \in [Execs -> Labels]
    BY <1>33, LabelTypes DEF UpdCas, Goto, Return, TypeOK
  <2>3. old' \in [Execs -> StatRef]
    BY <1>33, ValueTypes, <1>a DEF UpdCas, Return, TypeOK
  <2>4. op' \in [Execs -> Ops]
    BY <1>33, ValueTypes DEF UpdCas, Return, TypeOK
  <2>5. UNCHANGED <<texec, life, threadNum, ws, active, gcOn, lq, num, curr, mbox, ossig, ret, hand, calls>>
    BY <1>33 DEF UpdCas, schedVars, lifeVars, wakeVars
  <2>6. QED  BY <2>1, <2>2, <2>3, <2>4, <2>5 DEF TypeOK
<1>34. QED  BY <1>1, <1>2, <1>3, <1>4, <1>5, <1>6, <1>7, <1>8, <1>9, <1>10, <1>11, <1>12, <1>13, <1>14, <1>15, <1>16, <1>17, <1>18, <1>19, <1>20, <1>21, <1>22, <1>23, <1>24, <1>25, <1>26, <1>27, <1>28, <1>29, <1>30, <1>31, <1>32, <1>33 DEF RuntimeStep

\* The API calls keep the types.
LEMMA TypeApi ==
    ASSUME TypeOK, NEW e \in Execs, NEW t \in Threads, NEW stat,
           \/ CreateRunnable(e, t) \/ CreateSuspended(e, t) \/ Activate(e, t)
           \/ Deactivate(e, t, stat) \/ Destroy(e, t) \/ Update(e, t, stat)
    PROVE  TypeOK'
<1>1. CASE CreateRunnable(e, t)
  <2>1. sr' \in [Threads -> StatRef]
    BY <1>1, ValueTypes DEF CreateRunnable, Statuses, thread_init, TypeOK
  <2>2. life' \in [Threads -> Lives]
    BY <1>1 DEF CreateRunnable, thread_init, TypeOK, Lives
  <2>3. threadNum' \in Uint
    BY <1>1, UintClosed DEF CreateRunnable, thread_init, TypeOK
  <2>4. pc' \in [Execs -> Labels]
    BY <1>1, LabelTypes DEF CreateRunnable, Goto, Call, TypeOK
  <2>5. op' \in [Execs -> Ops]
    BY <1>1, ValueTypes DEF CreateRunnable, Call, Statuses, TypeOK
  <2>6. calls' \in Nat
    BY <1>1 DEF CreateRunnable, Call, TypeOK
  <2>7. UNCHANGED <<texec, ws, active, gcOn, lq, num, curr, mbox, ossig, ret, hand, old>>
    BY <1>1 DEF CreateRunnable, Call, schedVars, lifeVars, wakeVars
  <2>8. QED  BY <2>1, <2>2, <2>3, <2>4, <2>5, <2>6, <2>7 DEF TypeOK
<1>2. CASE CreateSuspended(e, t)
  <2>1. sr' \in [Threads -> StatRef]
    BY <1>2, ValueTypes DEF CreateSuspended, Statuses, thread_init, TypeOK
  <2>2. life' \in [Threads -> Lives]
    BY <1>2 DEF CreateSuspended, thread_init, TypeOK, Lives
  <2>3. threadNum' \in Uint
    BY <1>2, UintClosed DEF CreateSuspended, thread_init, TypeOK
  <2>4. calls' \in Nat
    BY <1>2 DEF CreateSuspended, TypeOK
  <2>5. UNCHANGED <<texec, ws, active, gcOn, lq, num, curr, mbox, ossig, pc, ret, hand, old, op>>
    BY <1>2 DEF CreateSuspended, schedVars, lifeVars, wakeVars
  <2>6. QED  BY <2>1, <2>2, <2>3, <2>4, <2>5 DEF TypeOK
<1>3. CASE Activate(e, t)
  <2>1. pc' \in [Execs -> Labels]
    BY <1>3, LabelTypes DEF Activate, Goto, Call, TypeOK
  <2>2. op' \in [Execs -> Ops]
    BY <1>3, ValueTypes DEF Activate, Call, Statuses, TypeOK
  <2>3. calls' \in Nat
    BY <1>3 DEF Activate, Call, TypeOK
  <2>4. UNCHANGED <<sr, texec, life, threadNum, ws, active, gcOn, lq, num, curr, mbox, ossig, ret, hand, old>>
    BY <1>3 DEF Activate, Call, schedVars, lifeVars, wakeVars
  <2>5. QED  BY <2>1, <2>2, <2>3, <2>4 DEF TypeOK
<1>4. CASE Deactivate(e, t, stat)
  <2>1. pc' \in [Execs -> Labels]
    BY <1>4, LabelTypes DEF Deactivate, Goto, Call, TypeOK
  <2>2. op' \in [Execs -> Ops]
    BY <1>4, ValueTypes, CallAssumption DEF Deactivate, Call, Statuses, TypeOK
  <2>3. calls' \in Nat
    BY <1>4 DEF Deactivate, Call, TypeOK
  <2>4. UNCHANGED <<sr, texec, life, threadNum, ws, active, gcOn, lq, num, curr, mbox, ossig, ret, hand, old>>
    BY <1>4 DEF Deactivate, Call, schedVars, lifeVars, wakeVars
  <2>5. QED  BY <2>1, <2>2, <2>3, <2>4 DEF TypeOK
<1>5. CASE Destroy(e, t)
  <2>1. life' \in [Threads -> Lives]
    BY <1>5 DEF Destroy, TypeOK, Lives
  <2>2. pc' \in [Execs -> Labels]
    BY <1>5, LabelTypes DEF Destroy, Goto, Call, TypeOK
  <2>3. op' \in [Execs -> Ops]
    BY <1>5, ValueTypes DEF Destroy, Call, Statuses, TypeOK
  <2>4. calls' \in Nat
    BY <1>5 DEF Destroy, Call, TypeOK
  <2>5. UNCHANGED <<sr, texec, threadNum, ws, active, gcOn, lq, num, curr, mbox, ossig, ret, hand, old>>
    BY <1>5 DEF Destroy, Call, schedVars, lifeVars, wakeVars
  <2>6. QED  BY <2>1, <2>2, <2>3, <2>4, <2>5 DEF TypeOK
<1>6. CASE Update(e, t, stat)
  <2>1. pc' \in [Execs -> Labels]
    BY <1>6, LabelTypes DEF Update, Goto, Call, TypeOK
  <2>2. op' \in [Execs -> Ops]
    BY <1>6, ValueTypes, CallAssumption DEF Update, Call, Statuses, TypeOK
  <2>3. calls' \in Nat
    BY <1>6 DEF Update, Call, TypeOK
  <2>4. UNCHANGED <<sr, texec, life, threadNum, ws, active, gcOn, lq, num, curr, mbox, ossig, ret, hand, old>>
    BY <1>6 DEF Update, Call, schedVars, lifeVars, wakeVars
  <2>5. QED  BY <2>1, <2>2, <2>3, <2>4 DEF TypeOK
<1>7. QED  BY <1>1, <1>2, <1>3, <1>4, <1>5, <1>6

\* Every step keeps the types.
LEMMA TypeStep ==
    ASSUME TypeOK, \A e \in Execs : LocalOK(e) /\ CallOK(e), [Next]_vars
    PROVE  TypeOK'
<1>1. ASSUME NEW e \in Execs, RuntimeStep(e) PROVE TypeOK'
  BY <1>1, TypeRuntime
<1>2. ASSUME NEW e \in Execs, ApiCall(e) PROVE TypeOK'
  BY <1>2, TypeApi DEF ApiCall
<1>3. ASSUME NEW e \in Execs, SchedCycle(e) PROVE TypeOK'
  <2>1. pc' \in [Execs -> Labels]
    BY <1>3, LabelTypes DEF SchedCycle, Goto, TypeOK
  <2>2. QED  BY <1>3, <2>1 DEF SchedCycle, TypeOK, schedVars, lifeVars, wakeVars
<1>4. CASE GcStart \/ GcEnd
  BY <1>4 DEF GcStart, GcEnd, TypeOK, schedVars, lifeVars, wakeVars
<1>5. CASE UNCHANGED vars
  BY <1>5 DEF TypeOK, vars
<1>6. QED  BY <1>1, <1>2, <1>3, <1>4, <1>5 DEF Next

-----------------------------------------------------------------------------
(* One executor at a time.                                                 *)

\* A step of one executor leaves the private state of the others alone.
Untouched(f) ==
    /\ pc'[f] = pc[f] /\ ret'[f] = ret[f] /\ hand'[f] = hand[f] /\ old'[f] = old[f]
    /\ op'[f] = op[f] /\ lq'[f] = lq[f] /\ num'[f] = num[f] /\ curr'[f] = curr[f]

\* No step of e touches the private state of another executor.
LEMMA Frame ==
    ASSUME TypeOK, NEW e \in Execs, NEW f \in Execs, f # e,
           RuntimeStep(e) \/ SchedCycle(e) \/ ApiCall(e)
    PROVE  Untouched(f)
<1> USE DEF TypeOK, Untouched, Goto, schedVars
<1>1. CASE Cycle(e)
  BY <1>1 DEF Cycle
<1>2. CASE Result(e)
  BY <1>2 DEF Result
<1>3. CASE IdleCheck(e)
  BY <1>3 DEF IdleCheck
<1>4. CASE IdleWake(e)
  BY <1>4 DEF IdleWake
<1>5. CASE Safepoint(e)
  BY <1>5 DEF Safepoint
<1>6. CASE GcYield(e)
  BY <1>6 DEF GcYield
<1>7. CASE AckRead(e)
  BY <1>7 DEF AckRead, Drop
<1>8. CASE AckGcWait(e)
  BY <1>8 DEF AckGcWait
<1>9. CASE AckCas(e)
  BY <1>9 DEF AckCas, Drop
<1>10. CASE SetCurr(e)
  BY <1>10 DEF SetCurr
<1>11. CASE Replace(e)
  BY <1>11 DEF Replace
<1>12. CASE TryLocal(e)
  BY <1>12 DEF TryLocal, LocalDequeue
<1>13. CASE TryWorkshare(e)
  BY <1>13 DEF TryWorkshare, Dequeue
<1>14. CASE Balance(e)
  BY <1>14 DEF Balance, BalanceStep
<1>15. CASE Take(e)
  BY <1>15 DEF Take, Dequeue
<1>16. CASE Put(e)
  BY <1>16 DEF Put, LocalDequeue
<1>17. CASE TryRead(e)
  BY <1>17 DEF TryRead, Drop
<1>18. CASE TryCas(e)
  BY <1>18 DEF TryCas, Drop
<1>19. CASE ActRead(e)
  BY <1>19 DEF ActRead, Return
<1>20. CASE ActCas(e)
  BY <1>20 DEF ActCas
<1>21. CASE ActInc(e)
  BY <1>21 DEF ActInc, Return
<1>22. CASE ActEnqueue(e)
  BY <1>22 DEF ActEnqueue
<1>23. CASE WakeRead(e)
  BY <1>23 DEF WakeRead, Return
<1>24. CASE WakeCas(e)
  BY <1>24 DEF WakeCas
<1>25. CASE WakeSignal(e)
  BY <1>25 DEF WakeSignal, Return
<1>26. CASE DeactExecutor(e)
  BY <1>26 DEF DeactExecutor
<1>27. CASE DeactRead(e)
  BY <1>27 DEF DeactRead, Return
<1>28. CASE DeactCas(e)
  BY <1>28 DEF DeactCas
<1>29. CASE DeactFinish(e)
  BY <1>29 DEF DeactFinish, Return
<1>30. CASE Raise(e)
  BY <1>30 DEF Raise
<1>31. CASE RaiseSignal(e)
  BY <1>31 DEF RaiseSignal, Return
<1>32. CASE UpdRead(e)
  BY <1>32 DEF UpdRead, Return
<1>33. CASE UpdCas(e)
  BY <1>33 DEF UpdCas, Return
<1>34. CASE SchedCycle(e)
  BY <1>34 DEF SchedCycle
<1>35. ASSUME NEW t \in Threads, CreateRunnable(e, t) PROVE Untouched(f)
  BY <1>35 DEF CreateRunnable, Call
<1>36. ASSUME NEW t \in Threads, CreateSuspended(e, t) PROVE Untouched(f)
  BY <1>36 DEF CreateSuspended
<1>37. ASSUME NEW t \in Threads, Activate(e, t) PROVE Untouched(f)
  BY <1>37 DEF Activate, Call
<1>38. ASSUME NEW t \in Threads, NEW stat, Deactivate(e, t, stat) PROVE Untouched(f)
  BY <1>38 DEF Deactivate, Call
<1>39. ASSUME NEW t \in Threads, Destroy(e, t) PROVE Untouched(f)
  BY <1>39 DEF Destroy, Call
<1>40. ASSUME NEW t \in Threads, NEW stat, Update(e, t, stat) PROVE Untouched(f)
  BY <1>40 DEF Update, Call
<1>41. QED
  BY <1>1, <1>2, <1>3, <1>4, <1>5, <1>6, <1>7, <1>8, <1>9, <1>10, <1>11, <1>12, <1>13, <1>14, <1>15, <1>16, <1>17, <1>18, <1>19, <1>20, <1>21, <1>22, <1>23, <1>24, <1>25, <1>26, <1>27, <1>28, <1>29, <1>30, <1>31, <1>32, <1>33, <1>34, <1>35, <1>36, <1>37, <1>38, <1>39, <1>40 DEF RuntimeStep, ApiCall

\* Where scheduler_balance_threads goes on.
LEMMA BalanceTarget ==
    ASSUME TypeOK, NEW e \in Execs, Balance(e)
    PROVE  pc'[e] \in {"take", "put", "ballow", "balup", "result"}
<1>1. active > NumExecs \/ active <= NumExecs
  BY SizeAssumption DEF TypeOK, Uint
<1>2. CASE pc[e] = "bal"
  BY <1>1, <1>2 DEF Balance, BalanceStep, Goto, TypeOK
<1>3. CASE pc[e] = "ballow"
  BY <1>3 DEF Balance, BalanceStep, Goto, TypeOK
<1>4. CASE pc[e] = "balup"
  BY <1>4 DEF Balance, BalanceStep, Goto, TypeOK
<1>5. QED  BY <1>2, <1>3, <1>4 DEF Balance

\* LocalOK speaks of the executor only at these labels.
LocalLabels == AckLabels \cup TryLabels \cup {"actcas", "updcas", "deactcas"}

\* At other labels it holds.
LEMMA LocalElsewhere ==
    ASSUME NEW e \in Execs, pc'[e] \notin LocalLabels
    PROVE  LocalOK(e)'
BY DEF LocalOK, LocalLabels, AckLabels, TryLabels

\* No caller of a status check goes on at one of them.
LEMMA AfterLabels ==
    ASSUME NEW r \in Callers
    PROVE  AfterDrop(r) \notin LocalLabels /\ AfterSkip(r) \notin LocalLabels /\ AfterExecute(r) \notin LocalLabels
<1>1. AfterDrop(r) \in {"replace", "local", "share", "result"}
  BY DEF AfterDrop, Callers
<1>2. QED  BY <1>1 DEF AfterSkip, AfterExecute, LocalLabels, AckLabels, TryLabels

\* Every step of an executor keeps its own LocalOK.
LEMMA LocalStep ==
    ASSUME TypeOK, NEW e \in Execs, LocalOK(e), CallOK(e),
           RuntimeStep(e) \/ SchedCycle(e) \/ ApiCall(e)
    PROVE  LocalOK(e)'
<1>a. ret[e] \in Callers  BY DEF TypeOK
<1>b. AfterDrop(ret[e]) \notin LocalLabels /\ AfterSkip(ret[e]) \notin LocalLabels
      /\ AfterExecute(ret[e]) \notin LocalLabels
  BY <1>a, AfterLabels
<1>1. CASE Result(e)
  <2>1. pc'[e] \notin LocalLabels
    BY <1>1 DEF Result, Goto, TypeOK, LocalLabels, AckLabels, TryLabels
  <2>2. QED  BY <2>1, LocalElsewhere
<1>2. CASE IdleCheck(e)
  <2>1. pc'[e] \notin LocalLabels
    BY <1>2 DEF IdleCheck, Goto, TypeOK, LocalLabels, AckLabels, TryLabels
  <2>2. QED  BY <2>1, LocalElsewhere
<1>3. CASE IdleWake(e)
  <2>1. pc'[e] \notin LocalLabels
    BY <1>3 DEF IdleWake, Goto, TypeOK, LocalLabels, AckLabels, TryLabels
  <2>2. QED  BY <2>1, LocalElsewhere
<1>4. CASE Safepoint(e)
  <2>1. pc'[e] \notin LocalLabels
    BY <1>4 DEF Safepoint, Goto, TypeOK, LocalLabels, AckLabels, TryLabels
  <2>2. QED  BY <2>1, LocalElsewhere
<1>5. CASE GcYield(e)
  <2>1. pc'[e] \notin LocalLabels
    BY <1>5 DEF GcYield, Goto, TypeOK, LocalLabels, AckLabels, TryLabels
  <2>2. QED  BY <2>1, LocalElsewhere
<1>6. CASE SetCurr(e)
  <2>1. pc'[e] \notin LocalLabels
    BY <1>6 DEF SetCurr, Goto, TypeOK, LocalLabels, AckLabels, TryLabels
  <2>2. QED  BY <2>1, LocalElsewhere
<1>7. CASE Replace(e)
  <2>1. pc'[e] \notin LocalLabels
    BY <1>7 DEF Replace, Goto, TypeOK, LocalLabels, AckLabels, TryLabels
  <2>2. QED  BY <2>1, LocalElsewhere
<1>8. CASE Balance(e)
  <2>1. pc'[e] \in {"take", "put", "ballow", "balup", "result"}
    BY <1>8, BalanceTarget
  <2>2. QED  BY <2>1, LocalElsewhere DEF LocalLabels, AckLabels, TryLabels
<1>9. CASE ActInc(e)
  <2>1. pc'[e] \notin LocalLabels
    BY <1>9 DEF ActInc, Return, Goto, TypeOK, LocalLabels, AckLabels, TryLabels
  <2>2. QED  BY <2>1, LocalElsewhere
<1>10. CASE ActEnqueue(e)
  <2>1. pc'[e] \notin LocalLabels
    BY <1>10 DEF ActEnqueue, Goto, TypeOK, LocalLabels, AckLabels, TryLabels
  <2>2. QED  BY <2>1, LocalElsewhere
<1>11. CASE WakeRead(e)
  <2>1. pc'[e] \notin LocalLabels
    BY <1>11 DEF WakeRead, Return, Goto, TypeOK, LocalLabels, AckLabels, TryLabels
  <2>2. QED  BY <2>1, LocalElsewhere
<1>12. CASE WakeCas(e)
  <2>1. pc'[e] \notin LocalLabels
    BY <1>12 DEF WakeCas, Goto, TypeOK, LocalLabels, AckLabels, TryLabels
  <2>2. QED  BY <2>1, LocalElsewhere
<1>13. CASE WakeSignal(e)
  <2>1. pc'[e] \notin LocalLabels
    BY <1>13 DEF WakeSignal, Return, Goto, TypeOK, LocalLabels, AckLabels, TryLabels
  <2>2. QED  BY <2>1, LocalElsewhere
<1>14. CASE DeactExecutor(e)
  <2>1. pc'[e] \notin LocalLabels
    BY <1>14 DEF DeactExecutor, Goto, TypeOK, LocalLabels, AckLabels, TryLabels
  <2>2. QED  BY <2>1, LocalElsewhere
<1>15. CASE DeactFinish(e)
  <2>1. pc'[e] \notin LocalLabels
    BY <1>15 DEF DeactFinish, Return, Goto, TypeOK, LocalLabels, AckLabels, TryLabels
  <2>2. QED  BY <2>1, LocalElsewhere
<1>16. CASE Raise(e)
  <2>1. pc'[e] \notin LocalLabels
    BY <1>16 DEF Raise, Goto, TypeOK, LocalLabels, AckLabels, TryLabels
  <2>2. QED  BY <2>1, LocalElsewhere
<1>17. CASE RaiseSignal(e)
  <2>1. pc'[e] \notin LocalLabels
    BY <1>17 DEF RaiseSignal, Return, Goto, TypeOK, LocalLabels, AckLabels, TryLabels
  <2>2. QED  BY <2>1, LocalElsewhere
<1>18. CASE SchedCycle(e)
  <2>1. pc'[e] \notin LocalLabels
    BY <1>18 DEF SchedCycle, Goto, TypeOK, LocalLabels, AckLabels, TryLabels
  <2>2. QED  BY <2>1, LocalElsewhere
<1>19. CASE Cycle(e)
  <2>1. CASE curr[e] # NoThread
    <3>1. pc'[e] = "ack" /\ ret'[e] = "curr" /\ curr'[e] = curr[e] /\ curr[e] \in Threads
      BY <1>19, <2>1 DEF Cycle, Goto, TypeOK, schedVars
    <3>2. QED  BY <3>1 DEF LocalOK, AckThread, AckLabels, TryLabels
  <2>2. CASE curr[e] = NoThread
    <3>1. pc'[e] = "share"
      BY <1>19, <2>2 DEF Cycle, Goto, TypeOK
    <3>2. QED  BY <3>1, LocalElsewhere DEF LocalLabels, AckLabels, TryLabels
  <2>3. QED  BY <2>1, <2>2
<1>20. CASE AckRead(e)
  <2>1. CASE sr[AckThread(e)].stat = "DESTROY"
    <3>1. pc'[e] \notin LocalLabels
      BY <1>20, <2>1, <1>b DEF AckRead, Drop, Goto, TypeOK
    <3>2. QED  BY <3>1, LocalElsewhere
  <2>2. CASE sr[AckThread(e)].stat # "DESTROY"
    <3>1. old'[e] = sr[AckThread(e)] /\ UNCHANGED <<ret, curr, hand>>
      BY <1>20, <2>2 DEF AckRead, TypeOK, schedVars
    <3>2. /\ pc'[e] \in {"fault", "ackgc", "ackcas"}
          /\ pc'[e] # "fault" => sr[AckThread(e)].stat \in Acknowledgeable
      BY <1>20, <2>2 DEF AckRead, Goto, TypeOK
    <3>3. ret[e] \in {"curr", "local", "share"} /\ AckThread(e) \in Threads
      BY <1>20 DEF AckRead, LocalOK, AckLabels
    <3>4. QED  BY <2>2, <3>1, <3>2, <3>3 DEF LocalOK, AckThread, AckLabels, TryLabels
  <2>3. QED  BY <2>1, <2>2
<1>21. CASE AckGcWait(e)
  <2>1. CASE gcOn
    <3>1. pc'[e] \notin LocalLabels
      BY <1>21, <2>1, <1>b DEF AckGcWait, Goto, TypeOK
    <3>2. QED  BY <3>1, LocalElsewhere
  <2>2. CASE ~gcOn
    <3>1. pc[e] = "ackgc" /\ pc'[e] = "ackcas" /\ UNCHANGED <<ret, curr, hand, old>>
      BY <1>21, <2>2 DEF AckGcWait, Goto, TypeOK, schedVars
    <3>2. QED  BY <3>1 DEF LocalOK, AckThread, AckLabels, TryLabels
  <2>3. QED  BY <2>1, <2>2
<1>22. CASE AckCas(e)
  <2>1. CASE sr[AckThread(e)] = old[e]
    <3>1. pc'[e] \notin LocalLabels
      BY <1>22, <2>1, <1>b DEF AckCas, Drop, Goto, TypeOK
    <3>2. QED  BY <3>1, LocalElsewhere
  <2>2. CASE sr[AckThread(e)] # old[e]
    <3>1. pc[e] = "ackcas" /\ pc'[e] = "ack" /\ UNCHANGED <<ret, curr, hand>>
      BY <1>22, <2>2 DEF AckCas, Goto, TypeOK, schedVars
    <3>2. QED  BY <3>1 DEF LocalOK, AckThread, AckLabels, TryLabels
  <2>3. QED  BY <2>1, <2>2
<1>23. CASE TryLocal(e)
  BY <1>23, <1>b, LocalElsewhere DEF TryLocal, LocalDequeue, Goto, TypeOK, LocalOK, LocalLabels, AckLabels, TryLabels, AckThread, Callers
<1>24. CASE TryWorkshare(e)
  BY <1>24, <1>b, LocalElsewhere DEF TryWorkshare, Dequeue, Goto, TypeOK, LocalOK, LocalLabels, AckLabels, TryLabels, AckThread, Callers
<1>25. CASE Take(e)
  BY <1>25, <1>b, LocalElsewhere DEF Take, Dequeue, Goto, TypeOK, LocalOK, LocalLabels, AckLabels, TryLabels, AckThread, Callers
<1>26. CASE Put(e)
  BY <1>26, <1>b, LocalElsewhere DEF Put, LocalDequeue, Goto, TypeOK, LocalOK, LocalLabels, AckLabels, TryLabels, AckThread, Callers
<1>27. CASE TryRead(e)
  BY <1>27, <1>b, LocalElsewhere DEF TryRead, Drop, Goto, TypeOK, LocalOK, LocalLabels, AckLabels, TryLabels, AckThread, Callers
<1>28. CASE TryCas(e)
  BY <1>28, <1>b, LocalElsewhere DEF TryCas, Drop, Goto, TypeOK, LocalOK, LocalLabels, AckLabels, TryLabels, AckThread, Callers
<1>29. CASE ActRead(e)
  BY <1>29, <1>b, LocalElsewhere DEF ActRead, Return, Goto, TypeOK, LocalOK, LocalLabels, AckLabels, TryLabels, AckThread, Callers
<1>30. CASE ActCas(e)
  BY <1>30, <1>b, LocalElsewhere DEF ActCas, Goto, TypeOK, LocalOK, LocalLabels, AckLabels, TryLabels, AckThread, Callers
<1>31. CASE DeactRead(e)
  BY <1>31, <1>b, LocalElsewhere DEF DeactRead, Return, Goto, TypeOK, LocalOK, LocalLabels, AckLabels, TryLabels, AckThread, Callers
<1>32. CASE DeactCas(e)
  BY <1>32, <1>b, LocalElsewhere DEF DeactCas, Goto, TypeOK, LocalOK, LocalLabels, AckLabels, TryLabels, AckThread, Callers
<1>33. CASE UpdRead(e)
  BY <1>33, <1>b, LocalElsewhere DEF UpdRead, Return, Goto, TypeOK, LocalOK, LocalLabels, AckLabels, TryLabels, AckThread, Callers
<1>34. CASE UpdCas(e)
  BY <1>34, <1>b, LocalElsewhere DEF UpdCas, Return, Goto, TypeOK, LocalOK, LocalLabels, AckLabels, TryLabels, AckThread, Callers
<1>35. ASSUME NEW t \in Threads, CreateRunnable(e, t) PROVE LocalOK(e)'
  <2>1. pc'[e] \notin LocalLabels
    BY <1>35 DEF CreateRunnable, Call, Goto, TypeOK, LocalLabels, AckLabels, TryLabels
  <2>2. QED  BY <2>1, LocalElsewhere
<1>36. ASSUME NEW t \in Threads, CreateSuspended(e, t) PROVE LocalOK(e)'
  <2>1. pc'[e] \notin LocalLabels
    BY <1>36 DEF CreateSuspended, Goto, TypeOK, LocalLabels, AckLabels, TryLabels
  <2>2. QED  BY <2>1, LocalElsewhere
<1>37. ASSUME NEW t \in Threads, Activate(e, t) PROVE LocalOK(e)'
  <2>1. pc'[e] \notin LocalLabels
    BY <1>37 DEF Activate, Call, Goto, TypeOK, LocalLabels, AckLabels, TryLabels
  <2>2. QED  BY <2>1, LocalElsewhere
<1>38. ASSUME NEW t \in Threads, NEW stat, Deactivate(e, t, stat) PROVE LocalOK(e)'
  <2>1. pc'[e] \notin LocalLabels
    BY <1>38 DEF Deactivate, Call, Goto, TypeOK, LocalLabels, AckLabels, TryLabels
  <2>2. QED  BY <2>1, LocalElsewhere
<1>39. ASSUME NEW t \in Threads, Destroy(e, t) PROVE LocalOK(e)'
  <2>1. pc'[e] \notin LocalLabels
    BY <1>39 DEF Destroy, Call, Goto, TypeOK, LocalLabels, AckLabels, TryLabels
  <2>2. QED  BY <2>1, LocalElsewhere
<1>40. ASSUME NEW t \in Threads, NEW stat, Update(e, t, stat) PROVE LocalOK(e)'
  <2>1. pc'[e] \notin LocalLabels
    BY <1>40 DEF Update, Call, Goto, TypeOK, LocalLabels, AckLabels, TryLabels
  <2>2. QED  BY <2>1, LocalElsewhere
<1>41. QED
  BY <1>1, <1>2, <1>3, <1>4, <1>5, <1>6, <1>7, <1>8, <1>9, <1>10, <1>11, <1>12, <1>13, <1>14, <1>15, <1>16, <1>17, <1>18, <1>19, <1>20, <1>21, <1>22, <1>23, <1>24, <1>25, <1>26, <1>27, <1>28, <1>29, <1>30, <1>31, <1>32, <1>33, <1>34, <1>35, <1>36, <1>37, <1>38, <1>39, <1>40 DEF RuntimeStep, ApiCall

-----------------------------------------------------------------------------
(* API calls in progress.                                                  *)

\* Between calls CallOK holds.
LEMMA CallElsewhere ==
    ASSUME NEW e \in Execs, pc'[e] \notin CallLabels, op'[e] = NoOp
    PROVE  CallOK(e)'
BY DEF CallOK, NoOp, CallLabels

\* Outside the API calls an executor stays outside, but for a new call.
LEMMA LoopOutside ==
    ASSUME TypeOK, NEW e \in Execs, CallOK(e),
           Cycle(e) \/ Result(e) \/ IdleCheck(e) \/ IdleWake(e) \/ Safepoint(e) \/ GcYield(e) \/ AckRead(e)
           \/ AckGcWait(e) \/ AckCas(e) \/ SetCurr(e) \/ Replace(e) \/ TryLocal(e) \/ TryWorkshare(e)
           \/ Balance(e) \/ Take(e) \/ Put(e) \/ TryRead(e) \/ TryCas(e) \/ SchedCycle(e)
    PROVE  pc[e] \notin CallLabels /\ pc'[e] \notin CallLabels /\ op' = op
<1>a. ret[e] \in Callers  BY DEF TypeOK
<1>b. /\ AfterDrop(ret[e]) \notin CallLabels /\ AfterSkip(ret[e]) \notin CallLabels
      /\ AfterExecute(ret[e]) \notin CallLabels
  <2>1. AfterDrop(ret[e]) \in {"replace", "local", "share", "result"}
    BY <1>a DEF AfterDrop, Callers
  <2>2. QED  BY <2>1 DEF AfterSkip, AfterExecute, CallLabels, ActLabels, DeactLabels, UpdLabels
<1>1. CASE Cycle(e)
  BY <1>1, <1>b DEF Cycle, Goto, TypeOK, CallLabels, ActLabels, DeactLabels, UpdLabels
<1>2. CASE Result(e)
  BY <1>2, <1>b DEF Result, Goto, TypeOK, CallLabels, ActLabels, DeactLabels, UpdLabels
<1>3. CASE IdleCheck(e)
  BY <1>3, <1>b DEF IdleCheck, Goto, TypeOK, CallLabels, ActLabels, DeactLabels, UpdLabels
<1>4. CASE IdleWake(e)
  BY <1>4, <1>b DEF IdleWake, Goto, TypeOK, CallLabels, ActLabels, DeactLabels, UpdLabels
<1>5. CASE Safepoint(e)
  BY <1>5, <1>b DEF Safepoint, Goto, TypeOK, CallLabels, ActLabels, DeactLabels, UpdLabels
<1>6. CASE GcYield(e)
  BY <1>6, <1>b DEF GcYield, Goto, TypeOK, CallLabels, ActLabels, DeactLabels, UpdLabels
<1>7. CASE AckRead(e)
  BY <1>7, <1>b DEF AckRead, Drop, Goto, TypeOK, CallLabels, ActLabels, DeactLabels, UpdLabels
<1>8. CASE AckGcWait(e)
  BY <1>8, <1>b DEF AckGcWait, Goto, TypeOK, CallLabels, ActLabels, DeactLabels, UpdLabels
<1>9. CASE AckCas(e)
  BY <1>9, <1>b DEF AckCas, Drop, Goto, TypeOK, CallLabels, ActLabels, DeactLabels, UpdLabels
<1>10. CASE SetCurr(e)
  BY <1>10, <1>b DEF SetCurr, Goto, TypeOK, CallLabels, ActLabels, DeactLabels, UpdLabels
<1>11. CASE Replace(e)
  BY <1>11, <1>b DEF Replace, Goto, TypeOK, CallLabels, ActLabels, DeactLabels, UpdLabels
<1>12. CASE TryLocal(e)
  BY <1>12, <1>b DEF TryLocal, LocalDequeue, Goto, TypeOK, CallLabels, ActLabels, DeactLabels, UpdLabels
<1>13. CASE TryWorkshare(e)
  BY <1>13, <1>b DEF TryWorkshare, Dequeue, Goto, TypeOK, CallLabels, ActLabels, DeactLabels, UpdLabels
<1>14. CASE Balance(e)
  <2>1. pc'[e] \in {"take", "put", "ballow", "balup", "result"}
    BY <1>14, BalanceTarget
  <2>2. QED  BY <1>14, <2>1 DEF Balance, BalanceStep, CallLabels, ActLabels, DeactLabels, UpdLabels
<1>15. CASE Take(e)
  BY <1>15, <1>b DEF Take, Dequeue, Goto, TypeOK, CallLabels, ActLabels, DeactLabels, UpdLabels
<1>16. CASE Put(e)
  BY <1>16, <1>b DEF Put, LocalDequeue, Goto, TypeOK, CallLabels, ActLabels, DeactLabels, UpdLabels
<1>17. CASE TryRead(e)
  BY <1>17, <1>b DEF TryRead, Drop, Goto, TypeOK, CallLabels, ActLabels, DeactLabels, UpdLabels
<1>18. CASE TryCas(e)
  BY <1>18, <1>b DEF TryCas, Drop, Goto, TypeOK, CallLabels, ActLabels, DeactLabels, UpdLabels
<1>19. CASE SchedCycle(e)
  BY <1>19, <1>b DEF SchedCycle, Goto, TypeOK, CallLabels, ActLabels, DeactLabels, UpdLabels
<1>20. QED
  BY <1>1, <1>2, <1>3, <1>4, <1>5, <1>6, <1>7, <1>8, <1>9, <1>10, <1>11, <1>12, <1>13, <1>14, <1>15, <1>16, <1>17, <1>18, <1>19

\* A call that goes on within one function.
LEMMA CallOn ==
    ASSUME NEW e \in Execs, CallOK(e), life' = life,
           op'[e].thr = op[e].thr, op'[e].req = op[e].req, op[e].req # "DESTROY",
           \/ pc[e] \in ActLabels /\ pc'[e] \in ActLabels
           \/ pc[e] \in DeactLabels /\ pc'[e] \in DeactLabels
           \/ pc[e] \in UpdLabels /\ pc'[e] \in UpdLabels
    PROVE  CallOK(e)'
<1>1. pc[e] \in CallLabels /\ pc'[e] \in CallLabels
  BY DEF CallLabels
<1>2. /\ pc'[e] \in ActLabels => pc[e] \in ActLabels
      /\ pc'[e] \in DeactLabels => pc[e] \in DeactLabels
      /\ pc'[e] \in UpdLabels => pc[e] \in UpdLabels
  BY DEF ActLabels, DeactLabels, UpdLabels
<1>3. QED  BY <1>1, <1>2 DEF CallOK

\* The same for a call that destroys its thread.
LEMMA DestroyOn ==
    ASSUME NEW e \in Execs, CallOK(e), life' = life,
           \A f \in Execs \ {e} : op'[f] = op[f],
           op'[e].thr = op[e].thr, op'[e].req = op[e].req, op[e].req = "DESTROY",
           pc[e] \in DeactLabels /\ pc'[e] \in DeactLabels,
           pc'[e] \in {"deact", "deactread", "deactcas"} =>
                pc[e] \in {"deact", "deactread", "deactcas"} /\ sr' = sr,
           pc'[e] = "deactfin" =>
                sr'[op[e].thr].stat = "DESTROY" /\ sr'[op[e].thr].ref = old'[e].ref
    PROVE  CallOK(e)'
<1>1. pc[e] \in CallLabels /\ pc'[e] \in CallLabels
  BY DEF CallLabels
<1>2. pc'[e] \notin ActLabels /\ pc'[e] \notin UpdLabels
  BY DEF ActLabels, DeactLabels, UpdLabels
<1>3. QED  BY <1>1, <1>2 DEF CallOK

\* Every step of an executor keeps its own CallOK.
LEMMA CallOwn ==
    ASSUME TypeOK, NEW e \in Execs, CallOK(e),
           \A t \in Threads : ThreadOK(t),
           RuntimeStep(e) \/ SchedCycle(e) \/ ApiCall(e)
    PROVE  CallOK(e)'
<1>a. \A f \in Execs \ {e} : op'[f] = op[f]
  BY Frame DEF Untouched
<1>b. /\ pc[e] \in ActLabels => op[e].req = "RUNNABLE"
      /\ pc[e] \in UpdLabels => op[e].req \in {"SUSPEND", "TERM", "GC_WAIT"}
      /\ pc[e] \in DeactLabels => op[e].req \in {"SUSPEND", "TERM", "DESTROY"}
      /\ pc[e] \in CallLabels => op[e].thr \in Threads
  BY DEF CallOK
<1>c. "run" \notin CallLabels /\ "cycle" \notin CallLabels
  BY DEF CallLabels, ActLabels, DeactLabels, UpdLabels
<1>1. CASE \/ Cycle(e) \/ Result(e) \/ IdleCheck(e) \/ IdleWake(e) \/ Safepoint(e) \/ GcYield(e)
           \/ AckRead(e) \/ AckGcWait(e) \/ AckCas(e) \/ SetCurr(e) \/ Replace(e) \/ TryLocal(e)
           \/ TryWorkshare(e) \/ Balance(e) \/ Take(e) \/ Put(e) \/ TryRead(e) \/ TryCas(e) \/ SchedCycle(e)
  <2>1. pc[e] \notin CallLabels /\ pc'[e] \notin CallLabels /\ op' = op
    BY <1>1, LoopOutside
  <2>2. QED  BY <2>1, CallElsewhere DEF CallOK
<1>2. CASE WakeSignal(e)
  BY <1>2, CallElsewhere DEF WakeSignal, Return, Goto, TypeOK, CallLabels, ActLabels, DeactLabels, UpdLabels
<1>3. CASE RaiseSignal(e)
  BY <1>3, CallElsewhere DEF RaiseSignal, Return, Goto, TypeOK, CallLabels, ActLabels, DeactLabels, UpdLabels
<1>4. CASE ActRead(e)
  <2>1. pc[e] \in ActLabels /\ life' = life
    BY <1>4 DEF ActRead, ActLabels, lifeVars
  <2>2. \/ pc'[e] = "run" /\ op'[e] = NoOp
        \/ pc'[e] \in ActLabels /\ op'[e].thr = op[e].thr /\ op'[e].req = op[e].req
    BY <1>4 DEF ActRead, Return, ActLabels, Goto, TypeOK, Ops
  <2>3. QED  BY <1>b, <1>c, <2>1, <2>2, CallOn, CallElsewhere
<1>5. CASE ActCas(e)
  <2>1. pc[e] \in ActLabels /\ life' = life
    BY <1>5 DEF ActCas, ActLabels, lifeVars
  <2>2. \/ pc'[e] = "run" /\ op'[e] = NoOp
        \/ pc'[e] \in ActLabels /\ op'[e].thr = op[e].thr /\ op'[e].req = op[e].req
    BY <1>5 DEF ActCas, ActLabels, Goto, TypeOK, Ops
  <2>3. QED  BY <1>b, <1>c, <2>1, <2>2, CallOn, CallElsewhere
<1>6. CASE ActInc(e)
  <2>1. pc[e] \in ActLabels /\ life' = life
    BY <1>6 DEF ActInc, ActLabels, lifeVars
  <2>2. \/ pc'[e] = "run" /\ op'[e] = NoOp
        \/ pc'[e] \in ActLabels /\ op'[e].thr = op[e].thr /\ op'[e].req = op[e].req
    BY <1>6 DEF ActInc, Return, ActLabels, Goto, TypeOK, Ops
  <2>3. QED  BY <1>b, <1>c, <2>1, <2>2, CallOn, CallElsewhere
<1>7. CASE ActEnqueue(e)
  <2>1. pc[e] \in ActLabels /\ life' = life
    BY <1>7 DEF ActEnqueue, ActLabels, lifeVars
  <2>2. \/ pc'[e] = "run" /\ op'[e] = NoOp
        \/ pc'[e] \in ActLabels /\ op'[e].thr = op[e].thr /\ op'[e].req = op[e].req
    BY <1>7 DEF ActEnqueue, ActLabels, Goto, TypeOK, Ops
  <2>3. QED  BY <1>b, <1>c, <2>1, <2>2, CallOn, CallElsewhere
<1>8. CASE WakeRead(e)
  <2>1. pc[e] \in ActLabels /\ life' = life
    BY <1>8 DEF WakeRead, ActLabels, lifeVars
  <2>2. \/ pc'[e] = "run" /\ op'[e] = NoOp
        \/ pc'[e] \in ActLabels /\ op'[e].thr = op[e].thr /\ op'[e].req = op[e].req
    BY <1>8 DEF WakeRead, Return, ActLabels, Goto, TypeOK, Ops
  <2>3. QED  BY <1>b, <1>c, <2>1, <2>2, CallOn, CallElsewhere
<1>9. CASE WakeCas(e)
  <2>1. pc[e] \in ActLabels /\ life' = life
    BY <1>9 DEF WakeCas, ActLabels, lifeVars
  <2>2. \/ pc'[e] = "run" /\ op'[e] = NoOp
        \/ pc'[e] \in ActLabels /\ op'[e].thr = op[e].thr /\ op'[e].req = op[e].req
    BY <1>9 DEF WakeCas, ActLabels, Goto, TypeOK, Ops
  <2>3. QED  BY <1>b, <1>c, <2>1, <2>2, CallOn, CallElsewhere
<1>10. CASE DeactExecutor(e)
  <2>1. pc[e] \in DeactLabels /\ life' = life
    BY <1>10 DEF DeactExecutor, DeactLabels, lifeVars
  <2>2. \/ pc'[e] = "run" /\ op'[e] = NoOp
        \/ pc'[e] \in DeactLabels /\ op'[e].thr = op[e].thr /\ op'[e].req = op[e].req
    BY <1>10 DEF DeactExecutor, DeactLabels, Goto, TypeOK, Ops
  <2>3. CASE op[e].req # "DESTROY"
    BY <1>b, <1>c, <2>1, <2>2, <2>3, CallOn, CallElsewhere
  <2>4. CASE op[e].req = "DESTROY" /\ pc'[e] \in DeactLabels
    <3>1. op'[e].thr = op[e].thr /\ op'[e].req = op[e].req
      BY <2>2, <2>4 DEF DeactLabels
    <3>2. pc'[e] \in {"deact", "deactread", "deactcas"} =>
            pc[e] \in {"deact", "deactread", "deactcas"} /\ sr' = sr
      BY <1>10, <2>4 DEF DeactExecutor, Goto, TypeOK
    <3>3. pc'[e] = "deactfin" =>
            sr'[op[e].thr].stat = "DESTROY" /\ sr'[op[e].thr].ref = old'[e].ref
      BY <1>10, <1>b, <2>1, <2>4 DEF DeactExecutor, Goto, TypeOK, StatRef, CallLabels
    <3>4. QED  BY <1>a, <2>1, <2>4, <3>1, <3>2, <3>3, DestroyOn
  <2>5. QED  BY <1>c, <2>2, <2>3, <2>4, CallElsewhere
<1>11. CASE DeactRead(e)
  <2>1. pc[e] \in DeactLabels /\ life' = life
    BY <1>11 DEF DeactRead, DeactLabels, lifeVars
  <2>2. \/ pc'[e] = "run" /\ op'[e] = NoOp
        \/ pc'[e] \in DeactLabels /\ op'[e].thr = op[e].thr /\ op'[e].req = op[e].req
    BY <1>11 DEF DeactRead, Return, DeactLabels, Goto, TypeOK, Ops
  <2>3. CASE op[e].req # "DESTROY"
    BY <1>b, <1>c, <2>1, <2>2, <2>3, CallOn, CallElsewhere
  <2>4. CASE op[e].req = "DESTROY" /\ pc'[e] \in DeactLabels
    <3>1. op'[e].thr = op[e].thr /\ op'[e].req = op[e].req
      BY <2>2, <2>4 DEF DeactLabels
    <3>2. pc'[e] \in {"deact", "deactread", "deactcas"} =>
            pc[e] \in {"deact", "deactread", "deactcas"} /\ sr' = sr
      BY <1>11, <2>4 DEF DeactRead, Return, Goto, TypeOK
    <3>3. pc'[e] = "deactfin" =>
            sr'[op[e].thr].stat = "DESTROY" /\ sr'[op[e].thr].ref = old'[e].ref
      BY <1>11, <1>b, <2>1, <2>4 DEF DeactRead, Return, Goto, TypeOK, StatRef, CallLabels
    <3>4. QED  BY <1>a, <2>1, <2>4, <3>1, <3>2, <3>3, DestroyOn
  <2>5. QED  BY <1>c, <2>2, <2>3, <2>4, CallElsewhere
<1>12. CASE DeactCas(e)
  <2>1. pc[e] \in DeactLabels /\ life' = life
    BY <1>12 DEF DeactCas, DeactLabels, lifeVars
  <2>2. \/ pc'[e] = "run" /\ op'[e] = NoOp
        \/ pc'[e] \in DeactLabels /\ op'[e].thr = op[e].thr /\ op'[e].req = op[e].req
    BY <1>12 DEF DeactCas, DeactLabels, Goto, TypeOK, Ops
  <2>3. CASE op[e].req # "DESTROY"
    BY <1>b, <1>c, <2>1, <2>2, <2>3, CallOn, CallElsewhere
  <2>4. CASE op[e].req = "DESTROY" /\ pc'[e] \in DeactLabels
    <3>1. op'[e].thr = op[e].thr /\ op'[e].req = op[e].req
      BY <2>2, <2>4 DEF DeactLabels
    <3>2. pc'[e] \in {"deact", "deactread", "deactcas"} =>
            pc[e] \in {"deact", "deactread", "deactcas"} /\ sr' = sr
      BY <1>12, <2>4 DEF DeactCas, Goto, TypeOK
    <3>3. pc'[e] = "deactfin" =>
            sr'[op[e].thr].stat = "DESTROY" /\ sr'[op[e].thr].ref = old'[e].ref
      BY <1>12, <1>b, <2>1, <2>4 DEF DeactCas, Goto, TypeOK, StatRef, CallLabels
    <3>4. QED  BY <1>a, <2>1, <2>4, <3>1, <3>2, <3>3, DestroyOn
  <2>5. QED  BY <1>c, <2>2, <2>3, <2>4, CallElsewhere
<1>13. CASE DeactFinish(e)
  <2>1. pc[e] \in DeactLabels /\ pc[e] \in CallLabels
    BY <1>13 DEF DeactFinish, CallLabels, DeactLabels
  <2>2. \/ pc'[e] \in {"run", "cycle"} /\ op'[e] = NoOp
        \/ pc'[e] = "raise" /\ op'[e] = op[e]
    BY <1>13 DEF DeactFinish, Return, Goto, TypeOK
  <2>3. CASE op[e].req # "DESTROY"
    <3>1. life' = life
      BY <1>13, <2>3 DEF DeactFinish, lifeVars
    <3>2. QED  BY <1>c, <2>1, <2>2, <2>3, <3>1, CallOn, CallElsewhere DEF DeactLabels
  <2>4. CASE op[e].req = "DESTROY" /\ pc'[e] = "raise" /\ op'[e] = op[e]
    <3>1. life'[op[e].thr] \in {life[op[e].thr], "destroyed"}
      BY <1>13, <1>b, <2>1 DEF DeactFinish, thread_destroy, lifeVars, TypeOK
    <3>2. QED
      BY <1>a, <2>1, <2>4, <3>1 DEF CallOK, CallLabels, ActLabels, DeactLabels, UpdLabels
  <2>5. QED  BY <1>c, <2>2, <2>3, <2>4, CallElsewhere
<1>14. CASE Raise(e)
  <2>1. pc[e] \in DeactLabels /\ life' = life
    BY <1>14 DEF Raise, DeactLabels, lifeVars
  <2>2. \/ pc'[e] = "run" /\ op'[e] = NoOp
        \/ pc'[e] \in DeactLabels /\ op'[e].thr = op[e].thr /\ op'[e].req = op[e].req
    BY <1>14 DEF Raise, DeactLabels, Goto, TypeOK, Ops
  <2>3. CASE op[e].req # "DESTROY"
    BY <1>b, <1>c, <2>1, <2>2, <2>3, CallOn, CallElsewhere
  <2>4. CASE op[e].req = "DESTROY" /\ pc'[e] \in DeactLabels
    <3>1. op'[e].thr = op[e].thr /\ op'[e].req = op[e].req
      BY <2>2, <2>4 DEF DeactLabels
    <3>2. pc'[e] \in {"deact", "deactread", "deactcas"} =>
            pc[e] \in {"deact", "deactread", "deactcas"} /\ sr' = sr
      BY <1>14, <2>4 DEF Raise, Goto, TypeOK
    <3>3. pc'[e] = "deactfin" =>
            sr'[op[e].thr].stat = "DESTROY" /\ sr'[op[e].thr].ref = old'[e].ref
      BY <1>14, <1>b, <2>1, <2>4 DEF Raise, Goto, TypeOK, StatRef, CallLabels
    <3>4. QED  BY <1>a, <2>1, <2>4, <3>1, <3>2, <3>3, DestroyOn
  <2>5. QED  BY <1>c, <2>2, <2>3, <2>4, CallElsewhere
<1>15. CASE UpdRead(e)
  <2>1. pc[e] \in UpdLabels /\ life' = life
    BY <1>15 DEF UpdRead, UpdLabels, lifeVars
  <2>2. \/ pc'[e] = "run" /\ op'[e] = NoOp
        \/ pc'[e] \in UpdLabels /\ op'[e].thr = op[e].thr /\ op'[e].req = op[e].req
    BY <1>15 DEF UpdRead, Return, UpdLabels, Goto, TypeOK, Ops
  <2>3. QED  BY <1>b, <1>c, <2>1, <2>2, CallOn, CallElsewhere
<1>16. CASE UpdCas(e)
  <2>1. pc[e] \in UpdLabels /\ life' = life
    BY <1>16 DEF UpdCas, UpdLabels, lifeVars
  <2>2. \/ pc'[e] = "run" /\ op'[e] = NoOp
        \/ pc'[e] \in UpdLabels /\ op'[e].thr = op[e].thr /\ op'[e].req = op[e].req
    BY <1>16 DEF UpdCas, Return, UpdLabels, Goto, TypeOK, Ops
  <2>3. QED  BY <1>b, <1>c, <2>1, <2>2, CallOn, CallElsewhere
<1>17. ASSUME NEW t \in Threads, CreateRunnable(e, t) PROVE CallOK(e)'
  <2>1. pc'[e] = "act" /\ op'[e].thr = t /\ op'[e].req = "RUNNABLE"
    BY <1>17 DEF CreateRunnable, Call, Goto, TypeOK
  <2>2. life'[t] = "live"
    BY <1>17 DEF CreateRunnable, thread_init, lifeVars, TypeOK
  <2>4. QED  BY <2>1, <2>2 DEF CallOK, CallLabels, ActLabels, DeactLabels, UpdLabels
<1>18. ASSUME NEW t \in Threads, CreateSuspended(e, t) PROVE CallOK(e)'
  <2>1. pc[e] = "run" /\ pc' = pc /\ op' = op
    BY <1>18 DEF CreateSuspended
  <2>2. QED  BY <1>c, <2>1, CallElsewhere DEF CallOK
<1>19. ASSUME NEW t \in Threads, Activate(e, t) PROVE CallOK(e)'
  <2>1. pc'[e] = "act" /\ op'[e].thr = t /\ op'[e].req = "RUNNABLE"
    BY <1>19 DEF Activate, Call, Goto, TypeOK
  <2>2. life'[t] = "live"
    BY <1>19 DEF Activate, lifeVars, TypeOK
  <2>4. QED  BY <2>1, <2>2 DEF CallOK, CallLabels, ActLabels, DeactLabels, UpdLabels
<1>20. ASSUME NEW t \in Threads, NEW stat, Deactivate(e, t, stat) PROVE CallOK(e)'
  <2>1. pc'[e] = "deact" /\ op'[e].thr = t /\ op'[e].req = stat
    BY <1>20 DEF Deactivate, Call, Goto, TypeOK
  <2>2. life'[t] = "live"
    BY <1>20 DEF Deactivate, lifeVars, TypeOK
  <2>3. stat \in {"SUSPEND", "TERM"}
    BY <1>20, CallAssumption DEF Deactivate
  <2>4. QED  BY <2>1, <2>2, <2>3 DEF CallOK, CallLabels, ActLabels, DeactLabels, UpdLabels
<1>21. ASSUME NEW t \in Threads, Destroy(e, t) PROVE CallOK(e)'
  <2>1. pc'[e] = "deact" /\ op'[e].thr = t /\ op'[e].req = "DESTROY"
    BY <1>21 DEF Destroy, Call, Goto, TypeOK
  <2>2. life'[t] = "doomed"
    BY <1>21 DEF Destroy, lifeVars, TypeOK
  <2>3. \A f \in Execs \ {e} : op'[f].thr # t
    BY <1>21, <1>a DEF Destroy
  <2>4. sr'[t].stat # "DESTROY"
    BY <1>21 DEF Destroy, ThreadOK
  <2>5. QED  BY <2>1, <2>2, <2>3, <2>4 DEF CallOK, CallLabels, ActLabels, DeactLabels, UpdLabels
<1>22. ASSUME NEW t \in Threads, NEW stat, Update(e, t, stat) PROVE CallOK(e)'
  <2>1. pc'[e] = "upd" /\ op'[e].thr = t /\ op'[e].req = stat
    BY <1>22 DEF Update, Call, Goto, TypeOK
  <2>2. life'[t] = "live"
    BY <1>22 DEF Update, lifeVars, TypeOK
  <2>3. stat \in {"SUSPEND", "TERM", "GC_WAIT"}
    BY <1>22, CallAssumption DEF Update
  <2>4. QED  BY <2>1, <2>2, <2>3 DEF CallOK, CallLabels, ActLabels, DeactLabels, UpdLabels
<1>23. QED
  BY <1>1, <1>2, <1>3, <1>4, <1>5, <1>6, <1>7, <1>8, <1>9, <1>10, <1>11, <1>12, <1>13, <1>14, <1>15, <1>16, <1>17, <1>18, <1>19, <1>20, <1>21, <1>22 DEF RuntimeStep, ApiCall

-----------------------------------------------------------------------------
(* What a step does to the threads.                                        *)

\* The steps that change neither a status nor a lifetime.
QuietStep(e) ==
    \/ Cycle(e) \/ Result(e) \/ IdleCheck(e) \/ IdleWake(e) \/ Safepoint(e) \/ GcYield(e)
    \/ AckGcWait(e) \/ SetCurr(e) \/ Replace(e) \/ TryLocal(e) \/ TryWorkshare(e) \/ Balance(e)
    \/ Take(e) \/ Put(e) \/ ActRead(e) \/ ActInc(e) \/ ActEnqueue(e) \/ WakeRead(e)
    \/ WakeCas(e) \/ WakeSignal(e) \/ DeactExecutor(e) \/ DeactRead(e) \/ Raise(e) \/ RaiseSignal(e)
    \/ UpdRead(e) \/ SchedCycle(e)

\* They also keep the thread of the call, or end the call.
LEMMA Quiet ==
    ASSUME TypeOK, NEW e \in Execs, QuietStep(e)
    PROVE  /\ sr' = sr /\ life' = life /\ op'[e].thr \in {op[e].thr, NoThread}
           /\ pc[e] # "actcas"
<1> USE DEF lifeVars, TypeOK, Ops
<1>1. CASE Cycle(e)  BY <1>1 DEF Cycle, NoOp
<1>2. CASE Result(e)  BY <1>2 DEF Result, NoOp
<1>3. CASE IdleCheck(e)  BY <1>3 DEF IdleCheck, NoOp
<1>4. CASE IdleWake(e)  BY <1>4 DEF IdleWake, NoOp
<1>5. CASE Safepoint(e)  BY <1>5 DEF Safepoint, NoOp
<1>6. CASE GcYield(e)  BY <1>6 DEF GcYield, NoOp
<1>7. CASE AckGcWait(e)  BY <1>7 DEF AckGcWait, NoOp
<1>8. CASE SetCurr(e)  BY <1>8 DEF SetCurr, NoOp
<1>9. CASE Replace(e)  BY <1>9 DEF Replace, NoOp
<1>10. CASE TryLocal(e)  BY <1>10 DEF TryLocal, NoOp
<1>11. CASE TryWorkshare(e)  BY <1>11 DEF TryWorkshare, Dequeue, NoOp
<1>12. CASE Balance(e)  BY <1>12 DEF Balance, BalanceStep, NoOp
<1>13. CASE Take(e)  BY <1>13 DEF Take, Dequeue, NoOp
<1>14. CASE Put(e)  BY <1>14 DEF Put, NoOp
<1>15. CASE ActRead(e)  BY <1>15 DEF ActRead, Return, NoOp
<1>16. CASE ActInc(e)  BY <1>16 DEF ActInc, Return, NoOp
<1>17. CASE ActEnqueue(e)  BY <1>17 DEF ActEnqueue, NoOp
<1>18. CASE WakeRead(e)  BY <1>18 DEF WakeRead, Return, NoOp
<1>19. CASE WakeCas(e)  BY <1>19 DEF WakeCas, NoOp
<1>20. CASE WakeSignal(e)  BY <1>20 DEF WakeSignal, Return, NoOp
<1>21. CASE DeactExecutor(e)  BY <1>21 DEF DeactExecutor, NoOp
<1>22. CASE DeactRead(e)  BY <1>22 DEF DeactRead, Return, NoOp
<1>23. CASE Raise(e)  BY <1>23 DEF Raise, NoOp
<1>24. CASE RaiseSignal(e)  BY <1>24 DEF RaiseSignal, Return, NoOp
<1>25. CASE UpdRead(e)  BY <1>25 DEF UpdRead, Return, NoOp
<1>26. CASE SchedCycle(e)  BY <1>26 DEF SchedCycle, NoOp
<1>27. QED
  BY <1>1, <1>2, <1>3, <1>4, <1>5, <1>6, <1>7, <1>8, <1>9, <1>10, <1>11, <1>12, <1>13, <1>14, <1>15, <1>16, <1>17, <1>18, <1>19, <1>20, <1>21, <1>22, <1>23, <1>24, <1>25, <1>26 DEF QuietStep

\* A call of another executor is not disturbed by a step that keeps its thread,
LEMMA OtherKept ==
    ASSUME NEW e \in Execs, NEW f \in Execs \ {e}, CallOK(f),
           \A g \in Execs \ {e} : Untouched(g),
           pc[f] \in CallLabels => /\ sr'[op[f].thr] = sr[op[f].thr]
                                   /\ life'[op[f].thr] = life[op[f].thr],
           op[f].req = "DESTROY" => op'[e].thr # op[f].thr
    PROVE  CallOK(f)'
<1>1. pc'[f] = pc[f] /\ op'[f] = op[f] /\ old'[f] = old[f]
  BY DEF Untouched
<1>2. op[f].req = "DESTROY" => pc[f] \in CallLabels
  BY DEF CallOK, NoOp
<1>3. op[f].req = "DESTROY" => \A g \in Execs \ {f} : op'[g].thr # op[f].thr
  BY DEF Untouched, CallOK
<1>4. QED  BY <1>1, <1>2, <1>3 DEF CallOK, DeactLabels, CallLabels

\* nor by one that keeps the life of the thread, if it destroys none.
LEMMA OtherLive ==
    ASSUME NEW e \in Execs, NEW f \in Execs \ {e}, CallOK(f), Untouched(f),
           op[f].req # "DESTROY",
           pc[f] \in CallLabels => life'[op[f].thr] = life[op[f].thr]
    PROVE  CallOK(f)'
BY DEF CallOK, Untouched, CallLabels

\* Every step of an executor keeps the CallOK of the others.
LEMMA CallOther ==
    ASSUME TypeOK, NEW e \in Execs, NEW f \in Execs \ {e},
           LocalOK(e), CallOK(e), CallOK(f), \A t \in Threads : ThreadOK(t),
           RuntimeStep(e) \/ SchedCycle(e) \/ ApiCall(e)
    PROVE  CallOK(f)'
<1>a. \A g \in Execs \ {e} : Untouched(g)
  BY Frame
<1>b. op[f].req = "DESTROY" =>
        /\ op[e].thr # op[f].thr /\ op[f].thr \in Threads
        /\ life[op[f].thr] \in {"doomed", "destroyed"} /\ pc[f] \in CallLabels
  BY DEF CallOK, NoOp
<1>c. op[e].req = "DESTROY" => op[f].thr # op[e].thr
  BY DEF CallOK
<1>d. pc[f] \in CallLabels =>
        /\ op[f].thr \in Threads /\ life[op[f].thr] # "unborn"
        /\ op[f].req # "DESTROY" => life[op[f].thr] = "live"
  BY DEF CallOK
<1>e. op[f].req = "DESTROY" => op[f].thr # NoThread
  BY <1>b, ThreadAssumption
<1>1. CASE QuietStep(e)
  <2>1. sr' = sr /\ life' = life /\ op'[e].thr \in {op[e].thr, NoThread}
    BY <1>1, Quiet
  <2>2. QED  BY <1>a, <1>b, <1>e, <2>1, OtherKept
<1>2. CASE AckRead(e)
  <2>1. sr' = sr /\ op' = op /\ AckThread(e) \in Threads
    BY <1>2 DEF AckRead, LocalOK, AckLabels
  <2>2. CASE life' = life
    BY <1>a, <1>b, <2>1, <2>2, OtherKept
  <2>3. CASE sr[AckThread(e)].stat = "DESTROY" /\ life' = [life EXCEPT ![AckThread(e)] = "destroyed"]
    <3>1. life[AckThread(e)] \in {"doomed", "destroyed"}
      BY <2>1, <2>3 DEF ThreadOK
    <3>2. CASE pc[f] \in CallLabels /\ op[f].thr = AckThread(e)
      <4>1. op[f].req = "DESTROY"
        BY <1>d, <3>1, <3>2
      <4>2. pc[f] \notin {"deact", "deactread", "deactcas"}
        BY <2>3, <3>2, <4>1 DEF CallOK
      <4>3. life'[op[f].thr] = "destroyed" /\ sr'[op[f].thr] = sr[op[f].thr]
        BY <2>1, <2>3, <3>2 DEF TypeOK
      <4>4. pc'[f] = pc[f] /\ op' = op /\ old'[f] = old[f]
        BY <1>a, <2>1 DEF Untouched
      <4>5. QED  BY <3>2, <4>1, <4>2, <4>3, <4>4 DEF CallOK, CallLabels
    <3>3. CASE ~(pc[f] \in CallLabels /\ op[f].thr = AckThread(e))
      <4>1. pc[f] \in CallLabels =>
              sr'[op[f].thr] = sr[op[f].thr] /\ life'[op[f].thr] = life[op[f].thr]
        BY <1>d, <2>1, <2>3, <3>3 DEF TypeOK
      <4>2. QED  BY <1>a, <1>b, <2>1, <4>1, OtherKept
    <3>4. QED  BY <3>2, <3>3
  <2>4. QED  BY <1>2, <2>2, <2>3 DEF AckRead, thread_destroy, lifeVars
<1>3. CASE TryRead(e)
  <2>1. sr' = sr /\ op' = op /\ hand[e] \in Threads
    BY <1>3 DEF TryRead, LocalOK, TryLabels
  <2>2. CASE life' = life
    BY <1>a, <1>b, <2>1, <2>2, OtherKept
  <2>3. CASE sr[hand[e]].stat = "DESTROY" /\ life' = [life EXCEPT ![hand[e]] = "destroyed"]
    <3>1. life[hand[e]] \in {"doomed", "destroyed"}
      BY <2>1, <2>3 DEF ThreadOK
    <3>2. CASE pc[f] \in CallLabels /\ op[f].thr = hand[e]
      <4>1. op[f].req = "DESTROY"
        BY <1>d, <3>1, <3>2
      <4>2. pc[f] \notin {"deact", "deactread", "deactcas"}
        BY <2>3, <3>2, <4>1 DEF CallOK
      <4>3. life'[op[f].thr] = "destroyed" /\ sr'[op[f].thr] = sr[op[f].thr]
        BY <2>1, <2>3, <3>2 DEF TypeOK
      <4>4. pc'[f] = pc[f] /\ op' = op /\ old'[f] = old[f]
        BY <1>a, <2>1 DEF Untouched
      <4>5. QED  BY <3>2, <4>1, <4>2, <4>3, <4>4 DEF CallOK, CallLabels
    <3>3. CASE ~(pc[f] \in CallLabels /\ op[f].thr = hand[e])
      <4>1. pc[f] \in CallLabels =>
              sr'[op[f].thr] = sr[op[f].thr] /\ life'[op[f].thr] = life[op[f].thr]
        BY <1>d, <2>1, <2>3, <3>3 DEF TypeOK
      <4>2. QED  BY <1>a, <1>b, <2>1, <4>1, OtherKept
    <3>4. QED  BY <3>2, <3>3
  <2>4. QED  BY <1>3, <2>2, <2>3 DEF TryRead, thread_destroy, lifeVars
<1>4. CASE AckCas(e)
  <2>1. life' = life /\ op' = op /\ AckThread(e) \in Threads /\ old[e].stat # "DESTROY"
    BY <1>4 DEF AckCas, LocalOK, AckLabels, lifeVars
  <2>2. CASE op[f].req # "DESTROY"
    BY <1>a, <2>1, <2>2, OtherLive
  <2>3. CASE op[f].req = "DESTROY" /\ sr'[op[f].thr] = sr[op[f].thr]
    BY <1>a, <1>b, <2>1, <2>3, OtherKept
  <2>4. CASE op[f].req = "DESTROY" /\ sr'[op[f].thr] # sr[op[f].thr]
    <3>1. sr[op[f].thr] = old[e] /\ sr'[op[f].thr].stat # "DESTROY"
      BY <1>4, <1>b, <2>1, <2>4 DEF AckCas, Acknowledged, TypeOK
    <3>2. pc'[f] = pc[f] /\ op' = op /\ old'[f] = old[f] /\ life' = life
      BY <1>a, <2>1 DEF Untouched
    <3>3. QED  BY <1>b, <2>1, <2>4, <3>1, <3>2 DEF CallOK
  <2>5. QED  BY <2>2, <2>3, <2>4
<1>5. CASE TryCas(e)
  <2>1. life' = life /\ op' = op /\ hand[e] \in Threads /\ old[e].stat # "DESTROY"
    BY <1>5 DEF TryCas, LocalOK, TryLabels, lifeVars
  <2>2. CASE op[f].req # "DESTROY"
    BY <1>a, <2>1, <2>2, OtherLive
  <2>3. CASE op[f].req = "DESTROY" /\ sr'[op[f].thr] = sr[op[f].thr]
    BY <1>a, <1>b, <2>1, <2>3, OtherKept
  <2>4. CASE op[f].req = "DESTROY" /\ sr'[op[f].thr] # sr[op[f].thr]
    <3>1. sr[op[f].thr] = old[e] /\ sr'[op[f].thr].stat # "DESTROY"
      BY <1>5, <1>b, <2>1, <2>4 DEF TryCas, StatRef, TypeOK
    <3>2. pc'[f] = pc[f] /\ op' = op /\ old'[f] = old[f] /\ life' = life
      BY <1>a, <2>1 DEF Untouched
    <3>3. QED  BY <1>b, <2>1, <2>4, <3>1, <3>2 DEF CallOK
  <2>5. QED  BY <2>2, <2>3, <2>4
<1>6. CASE ActCas(e)
  <2>1. life' = life /\ op'[e].thr \in {op[e].thr, NoThread}
    BY <1>6 DEF ActCas, Return, NoOp, lifeVars, TypeOK
  <2>2. CASE op[f].req # "DESTROY"
    BY <1>a, <2>1, <2>2, OtherLive
  <2>3. CASE op[f].req = "DESTROY"
    <3>1. sr'[op[f].thr] = sr[op[f].thr]
      BY <1>6, <1>b, <2>3 DEF ActCas, TypeOK
    <3>2. QED  BY <1>a, <1>b, <1>e, <2>1, <2>3, <3>1, OtherKept
  <2>4. QED  BY <2>2, <2>3
<1>7. CASE UpdCas(e)
  <2>1. life' = life /\ op'[e].thr \in {op[e].thr, NoThread}
    BY <1>7 DEF UpdCas, Return, NoOp, lifeVars, TypeOK
  <2>2. CASE op[f].req # "DESTROY"
    BY <1>a, <2>1, <2>2, OtherLive
  <2>3. CASE op[f].req = "DESTROY"
    <3>1. sr'[op[f].thr] = sr[op[f].thr]
      BY <1>7, <1>b, <2>3 DEF UpdCas, TypeOK
    <3>2. QED  BY <1>a, <1>b, <1>e, <2>1, <2>3, <3>1, OtherKept
  <2>4. QED  BY <2>2, <2>3
<1>8. CASE DeactCas(e)
  <2>1. life' = life /\ op'[e].thr \in {op[e].thr, NoThread}
    BY <1>8 DEF DeactCas, Return, NoOp, lifeVars, TypeOK
  <2>2. CASE op[f].req # "DESTROY"
    BY <1>a, <2>1, <2>2, OtherLive
  <2>3. CASE op[f].req = "DESTROY"
    <3>1. sr'[op[f].thr] = sr[op[f].thr]
      BY <1>8, <1>b, <2>3 DEF DeactCas, TypeOK
    <3>2. QED  BY <1>a, <1>b, <1>e, <2>1, <2>3, <3>1, OtherKept
  <2>4. QED  BY <2>2, <2>3
<1>9. CASE DeactFinish(e)
  <2>1. sr' = sr /\ op'[e].thr \in {op[e].thr, NoThread}
    BY <1>9 DEF DeactFinish, Return, NoOp, TypeOK
  <2>2. pc[f] \in CallLabels => life'[op[f].thr] = life[op[f].thr]
    BY <1>9, <1>c, <1>d DEF DeactFinish, thread_destroy, lifeVars, TypeOK
  <2>3. QED  BY <1>a, <1>b, <1>e, <2>1, <2>2, OtherKept
<1>10. ASSUME NEW t \in Threads, CreateRunnable(e, t) PROVE CallOK(f)'
  <2>1. life[t] \in {"unborn", "live"} /\ op'[e].thr \in {t, op[e].thr}
    BY <1>10 DEF CreateRunnable, Call, thread_init, TypeOK
  <2>2. pc[f] \in CallLabels =>
          sr'[op[f].thr] = sr[op[f].thr] /\ life'[op[f].thr] = life[op[f].thr]
    BY <1>10, <1>d DEF CreateRunnable, thread_init, lifeVars, TypeOK
  <2>3. QED  BY <1>a, <1>b, <2>1, <2>2, OtherKept
<1>11. ASSUME NEW t \in Threads, CreateSuspended(e, t) PROVE CallOK(f)'
  <2>1. life[t] \in {"unborn", "live"} /\ op'[e].thr \in {t, op[e].thr}
    BY <1>11 DEF CreateSuspended, thread_init, TypeOK
  <2>2. pc[f] \in CallLabels =>
          sr'[op[f].thr] = sr[op[f].thr] /\ life'[op[f].thr] = life[op[f].thr]
    BY <1>11, <1>d DEF CreateSuspended, thread_init, lifeVars, TypeOK
  <2>3. QED  BY <1>a, <1>b, <2>1, <2>2, OtherKept
<1>12. ASSUME NEW t \in Threads, Activate(e, t) PROVE CallOK(f)'
  <2>1. life[t] \in {"unborn", "live"} /\ op'[e].thr \in {t, op[e].thr}
    BY <1>12 DEF Activate, Call, thread_init, TypeOK
  <2>2. pc[f] \in CallLabels =>
          sr'[op[f].thr] = sr[op[f].thr] /\ life'[op[f].thr] = life[op[f].thr]
    BY <1>12, <1>d DEF Activate, lifeVars, TypeOK
  <2>3. QED  BY <1>a, <1>b, <2>1, <2>2, OtherKept
<1>13. ASSUME NEW t \in Threads, NEW stat, Deactivate(e, t, stat) PROVE CallOK(f)'
  <2>1. life[t] \in {"unborn", "live"} /\ op'[e].thr \in {t, op[e].thr}
    BY <1>13 DEF Deactivate, Call, thread_init, TypeOK
  <2>2. pc[f] \in CallLabels =>
          sr'[op[f].thr] = sr[op[f].thr] /\ life'[op[f].thr] = life[op[f].thr]
    BY <1>13, <1>d DEF Deactivate, lifeVars, TypeOK
  <2>3. QED  BY <1>a, <1>b, <2>1, <2>2, OtherKept
<1>14. ASSUME NEW t \in Threads, Destroy(e, t) PROVE CallOK(f)'
  <2>1. life[t] \in {"unborn", "live"} /\ op'[e].thr \in {t, op[e].thr}
    BY <1>14 DEF Destroy, Call, thread_init, TypeOK
  <2>2. pc[f] \in CallLabels =>
          sr'[op[f].thr] = sr[op[f].thr] /\ life'[op[f].thr] = life[op[f].thr]
    BY <1>14, <1>d DEF Destroy, lifeVars, TypeOK
  <2>3. QED  BY <1>a, <1>b, <2>1, <2>2, OtherKept
<1>15. ASSUME NEW t \in Threads, NEW stat, Update(e, t, stat) PROVE CallOK(f)'
  <2>1. life[t] \in {"unborn", "live"} /\ op'[e].thr \in {t, op[e].thr}
    BY <1>15 DEF Update, Call, thread_init, TypeOK
  <2>2. pc[f] \in CallLabels =>
          sr'[op[f].thr] = sr[op[f].thr] /\ life'[op[f].thr] = life[op[f].thr]
    BY <1>15, <1>d DEF Update, lifeVars, TypeOK
  <2>3. QED  BY <1>a, <1>b, <2>1, <2>2, OtherKept
<1>16. QED
  BY <1>1, <1>2, <1>3, <1>4, <1>5, <1>6, <1>7, <1>8, <1>9, <1>10, <1>11, <1>12, <1>13, <1>14, <1>15 DEF RuntimeStep, ApiCall, QuietStep

\* Every step keeps status, T_REF and lifetime consistent.
LEMMA ThreadStep ==
    ASSUME TypeOK, NEW e \in Execs, LocalOK(e), CallOK(e),
           \A t \in Threads : ThreadOK(t), NEW x \in Threads,
           RuntimeStep(e) \/ SchedCycle(e) \/ ApiCall(e)
    PROVE  ThreadOK(x)'
<1>a. sr'[x] = sr[x] /\ life'[x] = life[x] => ThreadOK(x)'
  BY DEF ThreadOK
<1>1. CASE QuietStep(e)
  BY <1>1, <1>a, Quiet
<1>2. CASE AckRead(e)
  <2>1. sr' = sr /\ (life'[x] = life[x] \/ (sr[x].stat = "DESTROY" /\ life'[x] = "destroyed"))
    BY <1>2 DEF AckRead, thread_destroy, lifeVars, TypeOK
  <2>2. QED  BY <1>a, <2>1 DEF ThreadOK
<1>3. CASE TryRead(e)
  <2>1. sr' = sr /\ (life'[x] = life[x] \/ (sr[x].stat = "DESTROY" /\ life'[x] = "destroyed"))
    BY <1>3 DEF TryRead, thread_destroy, lifeVars, TypeOK
  <2>2. QED  BY <1>a, <2>1 DEF ThreadOK
<1>4. CASE AckCas(e)
  <2>1. life' = life /\ old[e].stat \in Acknowledgeable \ {"DESTROY"}
    BY <1>4 DEF AckCas, LocalOK, lifeVars
  <2>2. \/ sr'[x] = sr[x]
        \/ sr[x] = old[e] /\ sr'[x] = Acknowledged(old[e].stat)
    BY <1>4 DEF AckCas, TypeOK
  <2>3. Acknowledged(old[e].stat) \in {[stat |-> "SUSPENDED", ref |-> FALSE],
            [stat |-> "DEAD", ref |-> FALSE], [stat |-> "RUNNING", ref |-> TRUE]}
    BY DEF Acknowledged
  <2>4. QED  BY <1>a, <2>1, <2>2, <2>3 DEF ThreadOK, Acknowledgeable
<1>5. CASE TryCas(e)
  <2>1. life' = life
    BY <1>5 DEF TryCas, lifeVars
  <2>2. sr[x] \in StatRef /\ sr'[x] \in {sr[x], [sr[x] EXCEPT !.ref = FALSE]}
    BY <1>5 DEF TryCas, TypeOK
  <2>3. sr'[x] = sr[x] \/ (sr'[x].stat = sr[x].stat /\ sr'[x].ref = FALSE)
    BY <2>2 DEF StatRef
  <2>4. QED  BY <1>a, <2>1, <2>3 DEF ThreadOK
<1>6. CASE ActCas(e)
  <2>1. life' = life /\ life[op[e].thr] = "live"
    BY <1>6 DEF ActCas, CallOK, CallLabels, ActLabels, DeactLabels, UpdLabels, lifeVars
  <2>2. sr'[x] = sr[x] \/ (x = op[e].thr /\ sr'[x].stat = "RUNNABLE")
    BY <1>6 DEF ActCas, TypeOK
  <2>3. QED  BY <1>a, <2>1, <2>2 DEF ThreadOK, Acknowledgeable
<1>7. CASE DeactCas(e)
  <2>1. /\ life' = life /\ life[op[e].thr] \in {"live", "doomed"}
        /\ op[e].req = "DESTROY" => life[op[e].thr] = "doomed"
        /\ op[e].req \in Acknowledgeable
    BY <1>7 DEF DeactCas, CallOK, CallLabels, ActLabels, DeactLabels, UpdLabels, lifeVars, Acknowledgeable
  <2>2. sr'[x] = sr[x] \/ (x = op[e].thr /\ sr'[x].stat = op[e].req)
    BY <1>7 DEF DeactCas, TypeOK, StatRef
  <2>3. QED  BY <1>a, <2>1, <2>2 DEF ThreadOK
<1>8. CASE UpdCas(e)
  <2>1. /\ life' = life /\ life[op[e].thr] \in {"live", "doomed"}
        /\ op[e].req = "DESTROY" => life[op[e].thr] = "doomed"
        /\ op[e].req \in Acknowledgeable
    BY <1>8 DEF UpdCas, CallOK, CallLabels, ActLabels, DeactLabels, UpdLabels, lifeVars, Acknowledgeable
  <2>2. sr'[x] = sr[x] \/ (x = op[e].thr /\ sr'[x].stat = op[e].req)
    BY <1>8 DEF UpdCas, TypeOK, StatRef
  <2>3. QED  BY <1>a, <2>1, <2>2 DEF ThreadOK
<1>9. CASE DeactFinish(e)
  <2>1. op[e].req = "DESTROY" => sr[op[e].thr].stat = "DESTROY"
    BY <1>9 DEF DeactFinish, CallOK
  <2>2. sr' = sr /\ (life'[x] = life[x] \/ (x = op[e].thr /\ op[e].req = "DESTROY" /\ life'[x] = "destroyed"))
    BY <1>9 DEF DeactFinish, thread_destroy, lifeVars, TypeOK
  <2>3. QED  BY <1>a, <2>1, <2>2 DEF ThreadOK
<1>10. ASSUME NEW t \in Threads, CreateRunnable(e, t) PROVE ThreadOK(x)'
  <2>1. \/ sr'[x] = sr[x] /\ life'[x] = life[x]
        \/ life'[x] = "live" /\ ~sr'[x].ref /\ sr'[x].stat # "DESTROY"
    BY <1>10 DEF CreateRunnable, thread_init, TypeOK
  <2>2. QED  BY <1>a, <2>1 DEF ThreadOK
<1>11. ASSUME NEW t \in Threads, CreateSuspended(e, t) PROVE ThreadOK(x)'
  <2>1. \/ sr'[x] = sr[x] /\ life'[x] = life[x]
        \/ life'[x] = "live" /\ ~sr'[x].ref /\ sr'[x].stat # "DESTROY"
    BY <1>11 DEF CreateSuspended, thread_init, TypeOK
  <2>2. QED  BY <1>a, <2>1 DEF ThreadOK
<1>12. ASSUME NEW t \in Threads, Destroy(e, t) PROVE ThreadOK(x)'
  <2>1. sr' = sr /\ (life'[x] = life[x] \/ life'[x] = "doomed")
    BY <1>12 DEF Destroy, TypeOK
  <2>2. QED  BY <1>a, <2>1 DEF ThreadOK
<1>13. ASSUME NEW t \in Threads, NEW stat,
              Activate(e, t) \/ Deactivate(e, t, stat) \/ Update(e, t, stat)
       PROVE  ThreadOK(x)'
  BY <1>13, <1>a DEF Activate, Deactivate, Update, lifeVars
<1>14. QED
  BY <1>1, <1>2, <1>3, <1>4, <1>5, <1>6, <1>7, <1>8, <1>9, <1>10, <1>11, <1>12, <1>13 DEF RuntimeStep, ApiCall, QuietStep

-----------------------------------------------------------------------------
(* The places of a thread.                                                 *)

\* No new place of t at e, nor in the workshare.
Fewer(e, t) ==
    /\ InWs(t)' => InWs(t)
    /\ InLq(e, t)' => InLq(e, t)
    /\ IsCurr(e, t)' => IsCurr(e, t)
    /\ InHand(e, t)' => InHand(e, t)
    /\ Pending(e, t)' => Pending(e, t)

\* An executor that is not touched keeps its threads.
LEMMA SamePlaces ==
    ASSUME NEW f \in Execs, NEW t \in Threads, Untouched(f)
    PROVE  /\ InLq(f, t)' = InLq(f, t) /\ IsCurr(f, t)' = IsCurr(f, t)
           /\ InHand(f, t)' = InHand(f, t) /\ Pending(f, t)' = Pending(f, t)
BY DEF Untouched, InLq, IsCurr, InHand, Pending

\* A thread that gains no place stays single and is held only if it was.
LEMMA FewerSingle ==
    ASSUME NEW e \in Execs, NEW t \in Threads, Fewer(e, t), Single(t),
           \A f \in Execs \ {e} : Untouched(f)
    PROVE  Single(t)' /\ (Held(t)' => Held(t))
<1>1. \A f \in Execs : /\ InLq(f, t)' => InLq(f, t)
                       /\ IsCurr(f, t)' => IsCurr(f, t)
                       /\ InHand(f, t)' => InHand(f, t)
                       /\ Pending(f, t)' => Pending(f, t)
  BY SamePlaces DEF Fewer
<1>2. InWs(t)' => InWs(t)
  BY DEF Fewer
<1>3. \A f \in Execs : Private(f, t)' => Private(f, t)
  BY <1>1 DEF Private
<1>4. Held(t)' => Held(t)
  BY <1>2, <1>3 DEF Held
<1>5. Single(t)'
  BY <1>1, <1>2, <1>3 DEF Single
<1>6. QED  BY <1>4, <1>5

\* A step that moves no thread.
LEMMA FewerStill ==
    ASSUME NEW e \in Execs, NEW t \in Threads, ws' = ws, lq'[e] = lq[e],
           hand'[e] \in {hand[e], NoThread}, curr'[e] \in {curr[e], NoThread},
           pc[e] # "replace" \/ curr'[e] = NoThread,
           pc'[e] \notin {"actinc", "actenq"}
    PROVE  Fewer(e, t)
BY ThreadAssumption DEF Fewer, InWs, InLq, IsCurr, InHand, Pending

StillStep(e) ==
    \/ Cycle(e) \/ Result(e) \/ IdleCheck(e) \/ IdleWake(e) \/ Safepoint(e) \/ GcYield(e)
    \/ AckRead(e) \/ AckGcWait(e) \/ AckCas(e) \/ Replace(e) \/ Balance(e) \/ TryCas(e)
    \/ ActRead(e) \/ WakeRead(e) \/ WakeCas(e) \/ WakeSignal(e) \/ DeactExecutor(e) \/ DeactRead(e)
    \/ DeactCas(e) \/ DeactFinish(e) \/ Raise(e) \/ RaiseSignal(e) \/ UpdRead(e) \/ UpdCas(e)
    \/ SchedCycle(e)

\* The steps of StillStep move no thread.
LEMMA Still ==
    ASSUME TypeOK, NEW e \in Execs, CallOK(e), StillStep(e)
    PROVE  /\ ws' = ws /\ lq' = lq
           /\ hand'[e] \in {hand[e], NoThread} /\ curr'[e] \in {curr[e], NoThread}
           /\ pc[e] # "replace" \/ curr'[e] = NoThread
           /\ pc'[e] \notin {"actinc", "actenq"}
<1>a. ret[e] \in Callers  BY DEF TypeOK
<1>b. /\ AfterDrop(ret[e]) \notin {"actinc", "actenq"}
      /\ AfterSkip(ret[e]) \notin {"actinc", "actenq"}
      /\ AfterExecute(ret[e]) \notin {"actinc", "actenq"}
  <2>1. AfterDrop(ret[e]) \in {"replace", "local", "share", "result"}
    BY <1>a DEF AfterDrop, Callers
  <2>2. QED  BY <2>1 DEF AfterSkip, AfterExecute
<1>1. CASE Cycle(e)
  BY <1>1 DEF Cycle, Goto, TypeOK, schedVars
<1>2. CASE Result(e)
  BY <1>2 DEF Result, Goto, TypeOK, schedVars
<1>3. CASE IdleCheck(e)
  BY <1>3 DEF IdleCheck, Goto, TypeOK, schedVars
<1>4. CASE IdleWake(e)
  BY <1>4 DEF IdleWake, Goto, TypeOK, schedVars
<1>5. CASE Safepoint(e)
  BY <1>5 DEF Safepoint, Goto, TypeOK, schedVars
<1>6. CASE GcYield(e)
  BY <1>6 DEF GcYield, Goto, TypeOK, schedVars
<1>7. CASE AckRead(e)
  BY <1>7, <1>b DEF AckRead, Drop, Goto, TypeOK, schedVars
<1>8. CASE AckGcWait(e)
  BY <1>8, <1>b DEF AckGcWait, Goto, TypeOK, schedVars
<1>9. CASE AckCas(e)
  BY <1>9, <1>b DEF AckCas, Drop, Goto, TypeOK, schedVars
<1>10. CASE Replace(e)
  BY <1>10 DEF Replace, Goto, TypeOK, schedVars
<1>11. CASE Balance(e)
  BY <1>11, BalanceTarget DEF Balance, BalanceStep, TypeOK, schedVars
<1>12. CASE TryCas(e)
  BY <1>12, <1>b DEF TryCas, Drop, Goto, TypeOK, schedVars
<1>13. CASE ActRead(e)
  BY <1>13 DEF ActRead, Return, Goto, TypeOK, schedVars
<1>14. CASE WakeRead(e)
  BY <1>14 DEF WakeRead, Return, Goto, TypeOK, schedVars
<1>15. CASE WakeCas(e)
  BY <1>15 DEF WakeCas, Goto, TypeOK, schedVars
<1>16. CASE WakeSignal(e)
  BY <1>16 DEF WakeSignal, Return, Goto, TypeOK, schedVars
<1>17. CASE DeactExecutor(e)
  BY <1>17 DEF DeactExecutor, Goto, TypeOK, schedVars
<1>18. CASE DeactRead(e)
  BY <1>18 DEF DeactRead, Return, Goto, TypeOK, schedVars
<1>19. CASE DeactCas(e)
  BY <1>19 DEF DeactCas, Goto, TypeOK, schedVars
<1>20. CASE DeactFinish(e)
  BY <1>20 DEF DeactFinish, Return, Goto, TypeOK, schedVars
<1>21. CASE Raise(e)
  BY <1>21 DEF Raise, Goto, TypeOK, schedVars
<1>22. CASE RaiseSignal(e)
  BY <1>22 DEF RaiseSignal, Return, Goto, TypeOK, schedVars
<1>23. CASE UpdRead(e)
  BY <1>23 DEF UpdRead, Return, Goto, TypeOK, schedVars
<1>24. CASE UpdCas(e)
  BY <1>24 DEF UpdCas, Return, Goto, TypeOK, schedVars
<1>25. CASE SchedCycle(e)
  BY <1>25 DEF SchedCycle, Goto, TypeOK, schedVars
<1>26. QED
  BY <1>1, <1>2, <1>3, <1>4, <1>5, <1>6, <1>7, <1>8, <1>9, <1>10, <1>11, <1>12, <1>13, <1>14, <1>15, <1>16, <1>17, <1>18, <1>19, <1>20, <1>21, <1>22, <1>23, <1>24, <1>25 DEF StillStep

\* Nor does the start of an API call.
LEMMA StillApi ==
    ASSUME TypeOK, NEW e \in Execs, ApiCall(e)
    PROVE  /\ ws' = ws /\ lq' = lq /\ hand' = hand /\ curr' = curr
           /\ pc[e] = "run" /\ pc'[e] \notin {"actinc", "actenq"}
BY DEF ApiCall, CreateRunnable, CreateSuspended, Activate, Deactivate, Destroy,
       Update, Call, Goto, TypeOK, schedVars

\* A thread at one place of e is nowhere else.
LEMMA Alone ==
    ASSUME NEW e \in Execs, NEW x \in Threads, Single(x)
    PROVE  /\ Private(e, x) => ~InWs(x) /\ \A f \in Execs \ {e} : ~Private(f, x)
           /\ InHand(e, x) => ~InLq(e, x) /\ ~IsCurr(e, x) /\ ~Pending(e, x)
           /\ InLq(e, x) => ~InHand(e, x) /\ ~IsCurr(e, x) /\ ~Pending(e, x)
           /\ IsCurr(e, x) => ~InHand(e, x) /\ ~InLq(e, x) /\ ~Pending(e, x)
           /\ Pending(e, x) => ~InHand(e, x) /\ ~InLq(e, x) /\ ~IsCurr(e, x)
           /\ InWs(x) => \A f \in Execs : ~Private(f, x)
BY DEF Single

\* A thread that ends up at one place of e, or in the workshare only.
LEMMA Lands ==
    ASSUME NEW e \in Execs, NEW x \in Threads,
           \A f \in Execs \ {e} : Untouched(f) /\ ~Private(f, x),
           \/ /\ ~InWs(x)'
              /\ InLq(e, x)' => ~IsCurr(e, x)' /\ ~InHand(e, x)' /\ ~Pending(e, x)'
              /\ IsCurr(e, x)' => ~InHand(e, x)' /\ ~Pending(e, x)'
              /\ InHand(e, x)' => ~Pending(e, x)'
           \/ ~Private(e, x)'
    PROVE  Single(x)'
<1>1. \A f \in Execs \ {e} : ~Private(f, x)'
  BY SamePlaces DEF Private
<1>2. QED  BY <1>1 DEF Single, Private

\* From the hand to the current thread.
LEMMA MoveSetCurr ==
    ASSUME TypeOK, NEW e \in Execs, NoDoubleEntry, SetCurr(e),
           \A f \in Execs \ {e} : Untouched(f)
    PROVE  NoDoubleEntry' /\ \A t \in Threads : Held(t)' => Held(t)
<1>1. /\ ws' = ws /\ lq' = lq /\ hand'[e] = NoThread /\ curr'[e] = hand[e]
      /\ pc[e] = "setcurr" /\ pc'[e] = "bal"
  BY DEF SetCurr, Goto, TypeOK
<1>2. ASSUME NEW t \in Threads
      PROVE  Single(t)' /\ (Held(t)' => Held(t))
  <2>0. Single(t)
    BY DEF NoDoubleEntry
  <2>1. CASE hand[e] # t
    <3>1. Fewer(e, t)
      BY <1>1, <2>1, ThreadAssumption DEF Fewer, InWs, InLq, IsCurr, InHand, Pending
    <3>2. QED  BY <2>0, <3>1, FewerSingle
  <2>2. CASE hand[e] = t
    <3>1. InHand(e, t) /\ Private(e, t) /\ Held(t)
      BY <2>2 DEF InHand, Private, Held
    <3>2. ~InWs(t) /\ ~InLq(e, t) /\ \A f \in Execs \ {e} : ~Private(f, t)
      BY <2>0, <3>1, Alone
    <3>3. ~InWs(t)' /\ ~InLq(e, t)' /\ ~InHand(e, t)' /\ ~Pending(e, t)'
      BY <1>1, <3>2, ThreadAssumption DEF InWs, InLq, InHand, Pending
    <3>4. QED  BY <3>1, <3>2, <3>3, Lands
  <2>3. QED  BY <2>1, <2>2
<1>3. QED  BY <1>1, <1>2 DEF NoDoubleEntry

\* From the local queue to the hand.
LEMMA MoveLocal ==
    ASSUME TypeOK, NEW e \in Execs, NoDoubleEntry, TryLocal(e) \/ Put(e),
           \A f \in Execs \ {e} : Untouched(f)
    PROVE  NoDoubleEntry' /\ \A t \in Threads : Held(t)' => Held(t)
<1>0. ws' = ws /\ curr' = curr /\ pc[e] # "replace" /\ pc'[e] \notin {"actinc", "actenq"}
  BY DEF TryLocal, Put, Goto, TypeOK
<1>1. CASE lq' = lq /\ hand' = hand
  <2>1. ASSUME NEW t \in Threads PROVE Single(t)' /\ (Held(t)' => Held(t))
    BY <1>0, <1>1, FewerStill, FewerSingle DEF NoDoubleEntry
  <2>2. QED  BY <1>0, <1>1, <2>1 DEF NoDoubleEntry
<1>2. CASE lq[e] # <<>> /\ LocalDequeue(e)
  <2>1. lq[e] \in Seq(Threads) /\ IsInjective(lq[e])
    BY DEF TypeOK, NoDoubleEntry
  <2>2. lq'[e] = Tail(lq[e]) /\ hand'[e] = Head(lq[e]) /\ \A f \in Execs \ {e} : lq'[f] = lq[f]
    BY <1>2 DEF LocalDequeue, TypeOK
  <2>3. /\ Head(lq[e]) \in Threads /\ Head(lq[e]) \in Range(lq[e])
        /\ Range(lq'[e]) = Range(lq[e]) \ {Head(lq[e])} /\ IsInjective(lq'[e])
    BY <1>2, <2>1, <2>2, TailRange
  <2>4. ASSUME NEW t \in Threads
        PROVE  Single(t)' /\ (Held(t)' => Held(t))
    <3>0. Single(t)
      BY DEF NoDoubleEntry
    <3>1. CASE t # Head(lq[e])
      <4>1. Fewer(e, t)
        BY <1>0, <2>2, <2>3, <3>1 DEF Fewer, InWs, InLq, IsCurr, InHand, Pending
      <4>2. QED  BY <3>0, <4>1, FewerSingle
    <3>2. CASE t = Head(lq[e])
      <4>1. InLq(e, t) /\ Private(e, t) /\ Held(t)
        BY <2>3, <3>2 DEF InLq, Private, Held
      <4>2. ~InWs(t) /\ ~IsCurr(e, t) /\ \A f \in Execs \ {e} : ~Private(f, t)
        BY <3>0, <4>1, Alone
      <4>3. ~InWs(t)' /\ ~InLq(e, t)' /\ ~IsCurr(e, t)' /\ ~Pending(e, t)'
        BY <1>0, <2>3, <3>2, <4>2 DEF InWs, InLq, IsCurr, Pending
      <4>4. QED  BY <4>1, <4>2, <4>3, Lands
    <3>3. QED  BY <3>1, <3>2
  <2>5. \A f \in Execs : IsInjective(lq'[f])
    BY <2>2, <2>3 DEF NoDoubleEntry
  <2>6. QED  BY <1>0, <2>4, <2>5 DEF NoDoubleEntry
<1>3. QED  BY <1>1, <1>2 DEF TryLocal, Put

\* From the workshare to the hand.
LEMMA MoveShare ==
    ASSUME TypeOK, NEW e \in Execs, NoDoubleEntry, TryWorkshare(e) \/ Take(e),
           \A f \in Execs \ {e} : Untouched(f)
    PROVE  NoDoubleEntry' /\ \A t \in Threads : Held(t)' => Held(t)
<1>0. lq' = lq /\ curr' = curr /\ pc[e] # "replace" /\ pc'[e] \notin {"actinc", "actenq"}
  BY DEF TryWorkshare, Take, Dequeue, Goto, TypeOK, schedVars
<1>1. CASE ws' = ws /\ hand' = hand
  <2>1. ASSUME NEW t \in Threads PROVE Single(t)' /\ (Held(t)' => Held(t))
    BY <1>0, <1>1, FewerStill, FewerSingle DEF NoDoubleEntry
  <2>2. QED  BY <1>0, <1>1, <2>1 DEF NoDoubleEntry
<1>2. CASE ws # <<>> /\ ws' = Tail(ws) /\ hand' = [hand EXCEPT ![e] = Head(ws)]
  <2>1. ws \in Seq(Threads) /\ IsInjective(ws) /\ hand'[e] = Head(ws)
    BY <1>2 DEF TypeOK, NoDoubleEntry
  <2>2. /\ Head(ws) \in Threads /\ Head(ws) \in Range(ws)
        /\ Range(ws') = Range(ws) \ {Head(ws)} /\ IsInjective(ws')
    BY <1>2, <2>1, TailRange
  <2>3. ASSUME NEW t \in Threads
        PROVE  Single(t)' /\ (Held(t)' => Held(t))
    <3>0. Single(t)
      BY DEF NoDoubleEntry
    <3>1. CASE t # Head(ws)
      <4>1. Fewer(e, t)
        BY <1>0, <2>1, <2>2, <3>1 DEF Fewer, InWs, InLq, IsCurr, InHand, Pending
      <4>2. QED  BY <3>0, <4>1, FewerSingle
    <3>2. CASE t = Head(ws)
      <4>1. InWs(t) /\ Held(t)
        BY <2>2, <3>2 DEF InWs, Held
      <4>2. ~InLq(e, t) /\ ~IsCurr(e, t) /\ \A f \in Execs \ {e} : ~Private(f, t)
        BY <3>0, <4>1, Alone DEF Private
      <4>3. ~InWs(t)' /\ ~InLq(e, t)' /\ ~IsCurr(e, t)' /\ ~Pending(e, t)'
        BY <1>0, <2>2, <3>2, <4>2 DEF InWs, InLq, IsCurr, Pending
      <4>4. QED  BY <4>1, <4>2, <4>3, Lands
    <3>3. QED  BY <3>1, <3>2
  <2>4. QED  BY <1>0, <2>2, <2>3 DEF NoDoubleEntry
<1>3. QED  BY <1>1, <1>2 DEF TryWorkshare, Take, Dequeue

\* Enqueueing a thread that is in the hand or about to be enqueued.
LEMMA EnqueueRange ==
    ASSUME TypeOK, IsInjective(ws), NEW x \in Threads, x \notin Range(ws), Enqueue(x)
    PROVE  IsInjective(ws') /\ Range(ws') \subseteq Range(ws) \cup {x}
<1>1. CASE ws' = ws
  BY <1>1
<1>2. CASE ws' = Append(ws, x)
  BY <1>2, AppendRange DEF TypeOK
<1>3. QED  BY <1>1, <1>2 DEF Enqueue

\* From the hand to the local queue or the workshare, or dropped.
LEMMA MoveTry ==
    ASSUME TypeOK, NEW e \in Execs, LocalOK(e), NoDoubleEntry, TryRead(e),
           \A f \in Execs \ {e} : Untouched(f)
    PROVE  NoDoubleEntry' /\ \A t \in Threads : Held(t)' => Held(t)
<1>0. curr' = curr /\ op' = op /\ pc[e] = "try" /\ hand[e] \in Threads /\ ret[e] \in {"take", "put"}
  BY DEF TryRead, LocalOK, TryLabels
<1>a. AfterDrop(ret[e]) = "result"
  BY <1>0 DEF AfterDrop
<1>b. pc'[e] \in {"result", "trycas"}
  BY <1>a DEF TryRead, Drop, Goto, TypeOK
<1>1. CASE ws' = ws /\ lq' = lq
  <2>1. hand'[e] \in {hand[e], NoThread}
    BY DEF TryRead, Drop, TypeOK
  <2>2. ASSUME NEW t \in Threads PROVE Single(t)' /\ (Held(t)' => Held(t))
    BY <1>0, <1>b, <1>1, <2>1, FewerStill, FewerSingle DEF NoDoubleEntry
  <2>3. QED  BY <1>1, <2>2 DEF NoDoubleEntry
<1>2. CASE ~(ws' = ws /\ lq' = lq)
  <2>1. /\ hand'[e] = NoThread
        /\ \/ lq' = lq /\ Enqueue(hand[e])
           \/ ws' = ws /\ lq' = [lq EXCEPT ![e] = Append(lq[e], hand[e])]
    BY <1>2 DEF TryRead, Drop, TypeOK
  <2>x. PICK x \in Threads : x = hand[e]
    BY <1>0
  <2>2. InHand(e, x) /\ Private(e, x) /\ Held(x) /\ Single(x)
    BY <2>x DEF InHand, Private, Held, NoDoubleEntry
  <2>3. /\ ~InWs(x) /\ ~InLq(e, x) /\ ~IsCurr(e, x) /\ ~Pending(e, x)
        /\ \A f \in Execs \ {e} : ~Private(f, x)
    BY <1>0, <2>2, Alone
  <2>4. ~IsCurr(e, x)' /\ ~InHand(e, x)' /\ ~Pending(e, x)'
    BY <1>0, <1>b, <2>1, <2>x, <2>3, ThreadAssumption DEF IsCurr, InHand, Pending
  <2>5. CASE lq' = lq /\ Enqueue(x)
    <3>1. IsInjective(ws') /\ Range(ws') \subseteq Range(ws) \cup {x}
      BY <1>0, <2>3, <2>5, EnqueueRange DEF InWs, NoDoubleEntry
    <3>2. ASSUME NEW t \in Threads PROVE Single(t)' /\ (Held(t)' => Held(t))
      <4>1. CASE t # x
        <5>1. Fewer(e, t)
          BY <1>0, <1>b, <2>1, <2>x, <2>5, <3>1, <4>1, ThreadAssumption
             DEF Fewer, InWs, InLq, IsCurr, InHand, Pending
        <5>2. QED  BY <5>1, FewerSingle DEF NoDoubleEntry
      <4>2. CASE t = x
        <5>1. ~InLq(e, x)'
          BY <2>3, <2>5 DEF InLq
        <5>2. ~Private(e, x)'
          BY <2>4, <5>1 DEF Private
        <5>3. QED  BY <1>0, <2>2, <2>3, <4>2, <5>2, Lands
      <4>3. QED  BY <4>1, <4>2
    <3>3. QED  BY <2>5, <3>1, <3>2 DEF NoDoubleEntry
  <2>6. CASE ws' = ws /\ lq' = [lq EXCEPT ![e] = Append(lq[e], x)]
    <3>1. lq[e] \in Seq(Threads) /\ IsInjective(lq[e]) /\ x \notin Range(lq[e])
      BY <2>3 DEF TypeOK, NoDoubleEntry, InLq
    <3>2. lq'[e] = Append(lq[e], x) /\ \A f \in Execs \ {e} : lq'[f] = lq[f]
      BY <2>6 DEF TypeOK
    <3>3. IsInjective(lq'[e]) /\ Range(lq'[e]) = Range(lq[e]) \cup {x}
      BY <1>0, <3>1, <3>2, AppendRange
    <3>4. ASSUME NEW t \in Threads PROVE Single(t)' /\ (Held(t)' => Held(t))
      <4>1. CASE t # x
        <5>1. Fewer(e, t)
          BY <1>0, <1>b, <2>1, <2>x, <2>6, <3>3, <4>1, ThreadAssumption
             DEF Fewer, InWs, InLq, IsCurr, InHand, Pending
        <5>2. QED  BY <5>1, FewerSingle DEF NoDoubleEntry
      <4>2. CASE t = x
        <5>1. ~InWs(x)'
          BY <2>3, <2>6 DEF InWs
        <5>2. QED  BY <1>0, <2>2, <2>3, <2>4, <4>2, <5>1, Lands
      <4>3. QED  BY <4>1, <4>2
    <3>5. \A f \in Execs : IsInjective(lq'[f])
      BY <3>2, <3>3 DEF NoDoubleEntry
    <3>6. QED  BY <2>6, <3>4, <3>5 DEF NoDoubleEntry
  <2>7. QED  BY <2>1, <2>x, <2>5, <2>6
<1>3. QED  BY <1>1, <1>2

\* A successful CAS without T_REF makes the thread pending: it was nowhere.
LEMMA MoveActCas ==
    ASSUME TypeOK, NEW e \in Execs, CallOK(e), NoDoubleEntry, HeldIsReferenced,
           ActCas(e), \A f \in Execs \ {e} : Untouched(f)
    PROVE  /\ NoDoubleEntry'
           /\ \A t \in Threads : t # op[e].thr => (Held(t)' => Held(t))
<1>0. /\ ws' = ws /\ lq' = lq /\ hand' = hand /\ curr' = curr /\ op' = op
      /\ pc[e] = "actcas" /\ pc'[e] \in {"actinc", "act"}
  BY DEF ActCas, Goto, TypeOK, schedVars
<1>1. ASSUME NEW t \in Threads
      PROVE  Single(t)' /\ (t # op[e].thr => (Held(t)' => Held(t)))
  <2>1. CASE ~Pending(e, t)'
    <3>1. Fewer(e, t)
      BY <1>0, <2>1 DEF Fewer, InWs, InLq, IsCurr, InHand
    <3>2. QED  BY <3>1, FewerSingle DEF NoDoubleEntry
  <2>2. CASE Pending(e, t)'
    <3>1. t = op[e].thr /\ sr[t] = old[e] /\ ~old[e].ref
      BY <1>0, <2>2 DEF Pending, ActCas, Goto, TypeOK
    <3>2. ~Held(t)
      BY <3>1 DEF HeldIsReferenced
    <3>3. ~InWs(t) /\ \A f \in Execs : ~Private(f, t)
      BY <3>2 DEF Held
    <3>4. ~InWs(t)' /\ ~InLq(e, t)' /\ ~IsCurr(e, t)' /\ ~InHand(e, t)'
      BY <1>0, <3>3 DEF Private, InWs, InLq, IsCurr, InHand
    <3>5. QED  BY <3>1, <3>3, <3>4, Lands
  <2>3. QED  BY <2>1, <2>2
<1>2. QED  BY <1>0, <1>1 DEF NoDoubleEntry

\* Counting a pending thread leaves it where it is.
LEMMA MoveActInc ==
    ASSUME TypeOK, NEW e \in Execs, NoDoubleEntry,
           ActInc(e), \A f \in Execs \ {e} : Untouched(f)
    PROVE  NoDoubleEntry' /\ \A t \in Threads : Held(t)' => Held(t)
<1>1. /\ ws' = ws /\ lq' = lq /\ hand' = hand /\ curr' = curr /\ pc[e] = "actinc"
      /\ pc'[e] = "run" \/ (~old[e].ref /\ pc'[e] = "actenq" /\ op' = op)
  BY DEF ActInc, Return, Goto, TypeOK, schedVars
<1>2. ASSUME NEW t \in Threads PROVE Fewer(e, t)
  BY <1>1 DEF Fewer, InWs, InLq, IsCurr, InHand, Pending
<1>3. QED  BY <1>1, <1>2, FewerSingle DEF NoDoubleEntry

\* From pending to the workshare.
LEMMA MoveActEnqueue ==
    ASSUME TypeOK, NEW e \in Execs, CallOK(e), NoDoubleEntry,
           ActEnqueue(e), \A f \in Execs \ {e} : Untouched(f)
    PROVE  NoDoubleEntry' /\ \A t \in Threads : Held(t)' => Held(t)
<1>1. /\ lq' = lq /\ hand' = hand /\ curr' = curr /\ pc[e] = "actenq"
      /\ pc'[e] = "wake" /\ Enqueue(op[e].thr)
  BY DEF ActEnqueue, Goto, TypeOK, schedVars
<1>2. PICK x \in Threads : x = op[e].thr
  BY <1>1 DEF CallOK, CallLabels, ActLabels
<1>3. Pending(e, x) /\ Private(e, x) /\ Held(x) /\ Single(x)
  BY <1>1, <1>2 DEF Pending, Private, Held, NoDoubleEntry
<1>4. /\ ~InWs(x) /\ ~InLq(e, x) /\ ~IsCurr(e, x) /\ ~InHand(e, x)
      /\ \A f \in Execs \ {e} : ~Private(f, x)
  BY <1>2, <1>3, Alone
<1>5. IsInjective(ws') /\ Range(ws') \subseteq Range(ws) \cup {x}
  BY <1>1, <1>2, <1>4, EnqueueRange DEF InWs, NoDoubleEntry
<1>6. ASSUME NEW t \in Threads PROVE Single(t)' /\ (Held(t)' => Held(t))
  <2>1. CASE t # x
    <3>1. Fewer(e, t)
      BY <1>1, <1>2, <1>5, <2>1 DEF Fewer, InWs, InLq, IsCurr, InHand, Pending
    <3>2. QED  BY <3>1, FewerSingle DEF NoDoubleEntry
  <2>2. CASE t = x
    <3>1. ~Private(e, x)'
      BY <1>1, <1>4 DEF Private, InLq, IsCurr, InHand, Pending
    <3>2. QED  BY <1>2, <1>3, <1>4, <2>2, <3>1, Lands
  <2>3. QED  BY <2>1, <2>2
<1>7. QED  BY <1>1, <1>5, <1>6 DEF NoDoubleEntry

\* Every step keeps the entries single, and only a CAS of an activation makes
\* a thread held that was not.
LEMMA PlaceStep ==
    ASSUME TypeOK, NEW e \in Execs, LocalOK(e), CallOK(e), NoDoubleEntry,
           HeldIsReferenced, RuntimeStep(e) \/ SchedCycle(e) \/ ApiCall(e)
    PROVE  /\ NoDoubleEntry'
           /\ \A t \in Threads :
                Held(t)' => Held(t) \/ (ActCas(e) /\ t = op[e].thr)
<1>a. \A f \in Execs \ {e} : Untouched(f)
  BY Frame
<1>1. CASE StillStep(e) \/ ApiCall(e)
  <2>1. /\ ws' = ws /\ lq' = lq
        /\ hand'[e] \in {hand[e], NoThread} /\ curr'[e] \in {curr[e], NoThread}
        /\ pc[e] # "replace" \/ curr'[e] = NoThread
        /\ pc'[e] \notin {"actinc", "actenq"}
    BY <1>1, Still, StillApi
  <2>2. ASSUME NEW t \in Threads PROVE Single(t)' /\ (Held(t)' => Held(t))
    <3>1. Fewer(e, t)
      BY <2>1, FewerStill
    <3>2. QED  BY <1>a, <3>1, FewerSingle DEF NoDoubleEntry
  <2>3. QED  BY <2>1, <2>2 DEF NoDoubleEntry
<1>2. CASE SetCurr(e)
  BY <1>a, <1>2, MoveSetCurr
<1>3. CASE TryLocal(e) \/ Put(e)
  BY <1>a, <1>3, MoveLocal
<1>4. CASE TryWorkshare(e) \/ Take(e)
  BY <1>a, <1>4, MoveShare
<1>5. CASE TryRead(e)
  BY <1>a, <1>5, MoveTry
<1>6. CASE ActCas(e)
  BY <1>a, <1>6, MoveActCas
<1>7. CASE ActInc(e)
  BY <1>a, <1>7, MoveActInc
<1>8. CASE ActEnqueue(e)
  BY <1>a, <1>8, MoveActEnqueue
<1>9. QED
  BY <1>1, <1>2, <1>3, <1>4, <1>5, <1>6, <1>7, <1>8 DEF RuntimeStep, StillStep

\* The thread a status check drops is nowhere afterwards.
LEMMA AckDrops ==
    ASSUME TypeOK, NEW e \in Execs, LocalOK(e), pc[e] \in AckLabels,
           NEW x \in Threads, x = AckThread(e), Single(x),
           \A f \in Execs \ {e} : Untouched(f),
           UNCHANGED <<ws, lq, curr>>, Drop(e)
    PROVE  ~Held(x)'
<1>1. /\ hand'[e] = NoThread /\ pc'[e] = AfterDrop(ret[e])
      /\ ret[e] \in {"curr", "local", "share"} /\ pc[e] \notin {"replace", "actinc", "actenq"}
  BY DEF Drop, Goto, TypeOK, LocalOK, AckLabels
<1>2. /\ pc'[e] \in {"replace", "local", "share"}
      /\ ret[e] = "curr" => pc'[e] = "replace"
  BY <1>1 DEF AfterDrop
<1>3. (ret[e] = "curr" /\ IsCurr(e, x)) \/ (ret[e] # "curr" /\ InHand(e, x))
  BY <1>1 DEF AckThread, IsCurr, InHand
<1>4. Private(e, x)
  BY <1>3 DEF Private
<1>5. ~InWs(x) /\ ~InLq(e, x) /\ \A f \in Execs \ {e} : ~Private(f, x)
  BY <1>3, <1>4, Alone
<1>6. ret[e] # "curr" => ~IsCurr(e, x)
  BY <1>3, Alone
<1>7. ~InWs(x)' /\ ~InLq(e, x)' /\ ~InHand(e, x)' /\ ~Pending(e, x)'
  BY <1>1, <1>2, <1>5, ThreadAssumption DEF InWs, InLq, InHand, Pending
<1>8. ~IsCurr(e, x)'
  BY <1>1, <1>2, <1>6 DEF IsCurr
<1>9. ~Private(e, x)'
  BY <1>7, <1>8 DEF Private
<1>10. \A f \in Execs \ {e} : ~Private(f, x)'
  BY <1>5, SamePlaces DEF Private
<1>11. QED  BY <1>7, <1>9, <1>10 DEF Held

\* Nor is the one that scheduler_try_take_thread or try_put_thread drops.
LEMMA TryDrops ==
    ASSUME TypeOK, NEW e \in Execs, LocalOK(e), pc[e] \in TryLabels,
           NEW x \in Threads, x = hand[e], Single(x),
           \A f \in Execs \ {e} : Untouched(f),
           UNCHANGED <<ws, lq, curr>>, Drop(e)
    PROVE  ~Held(x)'
<1>1. /\ hand'[e] = NoThread /\ pc'[e] = AfterDrop(ret[e])
      /\ ret[e] \in {"take", "put"} /\ pc[e] # "replace"
  BY DEF Drop, Goto, TypeOK, LocalOK, TryLabels
<1>2. pc'[e] = "result"
  BY <1>1 DEF AfterDrop
<1>3. InHand(e, x) /\ Private(e, x)
  BY DEF InHand, Private
<1>4. /\ ~InWs(x) /\ ~InLq(e, x) /\ ~IsCurr(e, x)
      /\ \A f \in Execs \ {e} : ~Private(f, x)
  BY <1>3, Alone
<1>5. ~InWs(x)' /\ ~InLq(e, x)' /\ ~InHand(e, x)' /\ ~Pending(e, x)' /\ ~IsCurr(e, x)'
  BY <1>1, <1>2, <1>4, ThreadAssumption DEF InWs, InLq, InHand, Pending, IsCurr
<1>6. \A f \in Execs \ {e} : ~Private(f, x)'
  BY <1>4, SamePlaces DEF Private
<1>7. QED  BY <1>5, <1>6 DEF Held, Private

\* Every step keeps T_REF set on whatever the scheduler holds.
LEMMA ReferenceStep ==
    ASSUME TypeOK, NEW e \in Execs, LocalOK(e), CallOK(e), NoDoubleEntry,
           HeldIsReferenced, \A t \in Threads : ThreadOK(t),
           RuntimeStep(e) \/ SchedCycle(e) \/ ApiCall(e)
    PROVE  HeldIsReferenced'
<1> SUFFICES ASSUME NEW x \in Threads, Held(x)'
             PROVE  sr'[x].ref /\ life'[x] # "destroyed"
  BY DEF HeldIsReferenced
<1>a. \A f \in Execs \ {e} : Untouched(f)
  BY Frame
<1>b. Held(x) \/ (ActCas(e) /\ x = op[e].thr)
  BY PlaceStep
<1>c. Held(x) => sr[x].ref /\ life[x] # "destroyed" /\ life[x] # "unborn"
  BY DEF HeldIsReferenced, ThreadOK
<1>d. Single(x)
  BY DEF NoDoubleEntry
<1>1. CASE QuietStep(e)
  BY <1>1, <1>b, <1>c, Quiet DEF ActCas
<1>2. CASE AckRead(e)
  <2>1. sr' = sr /\ ~ActCas(e) /\ pc[e] \in AckLabels /\ UNCHANGED <<ws, lq, curr>>
    BY <1>2 DEF AckRead, ActCas, AckLabels, schedVars
  <2>2. CASE life' = life
    BY <1>b, <1>c, <2>1, <2>2
  <2>3. CASE Drop(e) /\ life' = [life EXCEPT ![AckThread(e)] = "destroyed"]
    <3>1. x # AckThread(e)
      BY <1>a, <1>d, <2>1, <2>3, AckDrops
    <3>2. QED  BY <1>b, <1>c, <2>1, <2>3, <3>1 DEF TypeOK
  <2>4. QED  BY <1>2, <2>2, <2>3 DEF AckRead, thread_destroy, lifeVars
<1>3. CASE TryRead(e)
  <2>1. sr' = sr /\ ~ActCas(e) /\ pc[e] \in TryLabels
    BY <1>3 DEF TryRead, ActCas, TryLabels
  <2>2. CASE life' = life
    BY <1>b, <1>c, <2>1, <2>2
  <2>3. CASE Drop(e) /\ UNCHANGED <<ws, lq, curr>> /\ life' = [life EXCEPT ![hand[e]] = "destroyed"]
    <3>1. x # hand[e]
      BY <1>a, <1>d, <2>1, <2>3, TryDrops
    <3>2. QED  BY <1>b, <1>c, <2>1, <2>3, <3>1 DEF TypeOK
  <2>4. QED  BY <1>3, <2>2, <2>3 DEF TryRead, thread_destroy, lifeVars
<1>4. CASE AckCas(e)
  <2>1. life' = life /\ ~ActCas(e) /\ pc[e] \in AckLabels /\ UNCHANGED <<ws, lq, curr>>
    BY <1>4 DEF AckCas, ActCas, AckLabels, schedVars, lifeVars
  <2>2. CASE sr'[x] = sr[x]
    BY <1>b, <1>c, <2>1, <2>2
  <2>3. CASE sr'[x] # sr[x]
    <3>1. x = AckThread(e) /\ sr'[x] = Acknowledged(old[e].stat)
          /\ (Acknowledged(old[e].stat).ref \/ Drop(e))
      BY <1>4, <2>3 DEF AckCas, TypeOK
    <3>2. Acknowledged(old[e].stat).ref
      BY <1>a, <1>d, <2>1, <3>1, AckDrops
    <3>3. QED  BY <1>b, <1>c, <2>1, <3>1, <3>2
  <2>4. QED  BY <2>2, <2>3
<1>5. CASE TryCas(e)
  <2>1. life' = life /\ ~ActCas(e) /\ pc[e] \in TryLabels /\ UNCHANGED <<ws, lq, curr>>
    BY <1>5 DEF TryCas, ActCas, TryLabels, schedVars, lifeVars
  <2>2. CASE sr'[x] = sr[x]
    BY <1>b, <1>c, <2>1, <2>2
  <2>3. CASE sr'[x] # sr[x]
    <3>1. x = hand[e] /\ Drop(e)
      BY <1>5, <2>3 DEF TryCas, TypeOK
    <3>2. QED  BY <1>a, <1>d, <2>1, <3>1, TryDrops
  <2>4. QED  BY <2>2, <2>3
<1>6. CASE ActCas(e)
  <2>1. life' = life /\ life[op[e].thr] = "live"
    BY <1>6 DEF ActCas, CallOK, CallLabels, ActLabels, lifeVars
  <2>2. sr'[x] = sr[x] \/ sr'[x] = [stat |-> "RUNNABLE", ref |-> TRUE]
    BY <1>6 DEF ActCas, TypeOK
  <2>3. CASE Held(x)
    BY <1>c, <2>1, <2>2, <2>3
  <2>4. CASE ~Held(x)
    <3>1. x = op[e].thr
      BY <1>b, <2>4
    <3>2. CASE sr[x] = old[e]
      <4>1. sr'[x] = [stat |-> "RUNNABLE", ref |-> TRUE]
        BY <1>6, <3>1, <3>2 DEF ActCas, TypeOK
      <4>2. QED  BY <2>1, <3>1, <4>1
    <3>3. CASE sr[x] # old[e]
      <4>1. /\ ws' = ws /\ lq' = lq /\ hand' = hand /\ curr' = curr
            /\ pc[e] = "actcas" /\ pc'[e] = "act"
        BY <1>6, <3>1, <3>3 DEF ActCas, Goto, TypeOK, schedVars
      <4>2. Fewer(e, x)
        BY <4>1, FewerStill
      <4>3. QED  BY <1>a, <1>d, <2>4, <4>2, FewerSingle
    <3>4. QED  BY <3>2, <3>3
  <2>5. QED  BY <2>3, <2>4
<1>7. CASE DeactCas(e) \/ UpdCas(e)
  <2>1. life' = life /\ ~ActCas(e)
    BY <1>7 DEF DeactCas, UpdCas, ActCas, lifeVars
  <2>2. sr[x] \in StatRef /\ (sr'[x] = sr[x] \/ sr'[x] = [sr[x] EXCEPT !.stat = op[e].req])
    BY <1>7 DEF DeactCas, UpdCas, TypeOK
  <2>3. sr'[x].ref = sr[x].ref
    BY <2>2 DEF StatRef
  <2>4. QED  BY <1>b, <1>c, <2>1, <2>3
<1>8. CASE DeactFinish(e)
  <2>1. sr' = sr /\ ~ActCas(e)
    BY <1>8 DEF DeactFinish, ActCas
  <2>2. op[e].req = "DESTROY" => sr[op[e].thr].ref = old[e].ref
    BY <1>8 DEF DeactFinish, CallOK
  <2>3. life'[x] = life[x] \/ (x = op[e].thr /\ op[e].req = "DESTROY" /\ ~old[e].ref)
    BY <1>8 DEF DeactFinish, thread_destroy, lifeVars, TypeOK
  <2>4. QED  BY <1>b, <1>c, <2>1, <2>2, <2>3
<1>9. ASSUME NEW t \in Threads, CreateRunnable(e, t) \/ CreateSuspended(e, t)
      PROVE  sr'[x].ref /\ life'[x] # "destroyed"
  <2>1. pc[e] = "run" /\ life[t] = "unborn"
    BY <1>9 DEF CreateRunnable, CreateSuspended, thread_init
  <2>2. Held(x) /\ x # t
    BY <1>b, <1>c, <2>1 DEF ActCas
  <2>3. sr'[x] = sr[x] /\ life'[x] = life[x]
    BY <1>9, <2>2 DEF CreateRunnable, CreateSuspended, thread_init, TypeOK
  <2>4. QED  BY <1>c, <2>2, <2>3
<1>10. ASSUME NEW t \in Threads, NEW stat,
              Activate(e, t) \/ Deactivate(e, t, stat) \/ Destroy(e, t) \/ Update(e, t, stat)
       PROVE  sr'[x].ref /\ life'[x] # "destroyed"
  <2>1. pc[e] = "run" /\ sr' = sr /\ (life'[x] = life[x] \/ life'[x] = "doomed")
    BY <1>10 DEF Activate, Deactivate, Destroy, Update, lifeVars, TypeOK
  <2>2. QED  BY <1>b, <1>c, <2>1 DEF ActCas
<1>11. QED
  BY <1>1, <1>2, <1>3, <1>4, <1>5, <1>6, <1>7, <1>8, <1>9, <1>10
     DEF RuntimeStep, ApiCall, QuietStep

-----------------------------------------------------------------------------
(* The inductive invariant and what follows from it.                       *)

\* The invariant holds when the program starts.
LEMMA InitInv == Init => SchedInv
<1> SUFFICES ASSUME Init PROVE SchedInv
  OBVIOUS
<1>a. 0 \in Execs /\ 1 \in Uint /\ 0 \in Uint
  BY SizeAssumption DEF Execs, Uint
<1>b. NoVal \in StatRef /\ [stat |-> "RUNNING", ref |-> TRUE] \in StatRef /\ NoOp \in Ops
  BY ValueTypes DEF Statuses
<1>1. TypeOK
  <2>1. sr \in [Threads -> StatRef]
    BY <1>b DEF Init
  <2>2. texec \in [Threads -> Execs \cup {NoExec}] /\ life \in [Threads -> Lives]
    BY <1>a DEF Init, Lives
  <2>3. threadNum \in Uint /\ active \in Uint /\ gcOn \in BOOLEAN /\ ws \in Seq(Threads)
    BY <1>a DEF Init
  <2>4. lq \in [Execs -> Seq(Threads)] /\ num \in [Execs -> Uint]
    BY <1>a DEF Init
  <2>5. curr \in [Execs -> Threads \cup {NoThread}] /\ hand \in [Execs -> Threads \cup {NoThread}]
    BY ThreadAssumption DEF Init
  <2>6. mbox \in [Execs -> BOOLEAN] /\ ossig \in [Execs -> BOOLEAN]
    BY DEF Init
  <2>7. pc \in [Execs -> Labels] /\ ret \in [Execs -> Callers]
    BY LabelTypes DEF Init, Callers
  <2>8. old \in [Execs -> StatRef] /\ op \in [Execs -> Ops] /\ calls \in Nat
    BY <1>b, SizeAssumption DEF Init
  <2>9. QED
    BY <2>1, <2>2, <2>3, <2>4, <2>5, <2>6, <2>7, <2>8 DEF TypeOK
<1>2. ASSUME NEW e \in Execs PROVE LocalOK(e) /\ CallOK(e)
  <2>1. pc[e] \in {"run", "cycle"} /\ op[e] = NoOp
    BY DEF Init
  <2>2. LocalOK(e)
    BY <2>1 DEF LocalOK, AckLabels, TryLabels
  <2>3. CallOK(e)
    BY <2>1 DEF CallOK, CallLabels, ActLabels, DeactLabels, UpdLabels, NoOp
  <2>4. QED  BY <2>2, <2>3
<1>3. ASSUME NEW t \in Threads PROVE ThreadOK(t)
  BY DEF Init, ThreadOK, NoVal, Acknowledgeable
<1>4. ASSUME NEW e \in Execs, NEW t \in Threads
      PROVE  /\ ~InWs(t) /\ ~InLq(e, t) /\ ~InHand(e, t) /\ ~Pending(e, t)
             /\ IsCurr(e, t) => e = 0 /\ t = MainThread
  <2>1. Range(ws) = {} /\ Range(lq[e]) = {}
    BY DEF Init, Range
  <2>2. hand[e] = NoThread /\ pc[e] \in {"run", "cycle"}
    BY DEF Init
  <2>3. curr[e] = t => e = 0 /\ t = MainThread
    BY ThreadAssumption DEF Init
  <2>4. QED  BY <2>1, <2>2, <2>3, ThreadAssumption DEF InWs, InLq, InHand, Pending, IsCurr
<1>5. NoDoubleEntry
  <2>1. IsInjective(ws) /\ \A e \in Execs : IsInjective(lq[e])
    BY DEF Init, IsInjective
  <2>2. ASSUME NEW t \in Threads PROVE Single(t)
    BY <1>4 DEF Single, Private
  <2>3. QED  BY <2>1, <2>2 DEF NoDoubleEntry
<1>6. HeldIsReferenced
  <2>1. ASSUME NEW t \in Threads, Held(t) PROVE t = MainThread
    BY <1>a, <1>4, <2>1 DEF Held, Private
  <2>2. sr[MainThread].ref /\ life[MainThread] # "destroyed"
    BY ThreadAssumption DEF Init
  <2>3. QED  BY <2>1, <2>2 DEF HeldIsReferenced
<1>7. QED  BY <1>1, <1>2, <1>3, <1>5, <1>6 DEF SchedInv

\* Every step keeps the invariant.
LEMMA NextInv == SchedInv /\ [Next]_vars => SchedInv'
<1> SUFFICES ASSUME SchedInv, [Next]_vars PROVE SchedInv'
  OBVIOUS
<1>0. /\ TypeOK /\ NoDoubleEntry /\ HeldIsReferenced
      /\ \A e \in Execs : LocalOK(e) /\ CallOK(e)
      /\ \A t \in Threads : ThreadOK(t)
  BY DEF SchedInv
<1>1. TypeOK'
  BY <1>0, TypeStep
<1>2. ASSUME NEW e \in Execs, RuntimeStep(e) \/ SchedCycle(e) \/ ApiCall(e)
      PROVE  SchedInv'
  <2>1. ASSUME NEW f \in Execs PROVE LocalOK(f)' /\ CallOK(f)'
    <3>1. CASE f = e
      BY <1>0, <1>2, <3>1, LocalStep, CallOwn
    <3>2. CASE f # e
      <4>1. Untouched(f)
        BY <1>0, <1>2, <3>2, Frame
      <4>2. LocalOK(f)'
        BY <1>0, <4>1 DEF LocalOK, Untouched, AckThread
      <4>3. CallOK(f)'
        BY <1>0, <1>2, <3>2, CallOther
      <4>4. QED  BY <4>2, <4>3
    <3>3. QED  BY <3>1, <3>2
  <2>2. ASSUME NEW t \in Threads PROVE ThreadOK(t)'
    BY <1>0, <1>2, ThreadStep
  <2>3. NoDoubleEntry'
    BY <1>0, <1>2, PlaceStep
  <2>4. HeldIsReferenced'
    BY <1>0, <1>2, ReferenceStep
  <2>5. QED  BY <1>1, <2>1, <2>2, <2>3, <2>4 DEF SchedInv
<1>3. CASE GcStart \/ GcEnd \/ UNCHANGED vars
  <2>1. UNCHANGED <<sr, life, ws, lq, curr, pc, ret, hand, old, op>>
    BY <1>3 DEF GcStart, GcEnd, vars, schedVars, lifeVars
  <2>2. \A e \in Execs : (LocalOK(e) /\ CallOK(e))'
    BY <1>0, <2>1 DEF LocalOK, CallOK, AckThread
  <2>3. \A t \in Threads : ThreadOK(t)'
    BY <1>0, <2>1 DEF ThreadOK
  <2>4. NoDoubleEntry' /\ HeldIsReferenced'
    BY <1>0, <2>1 DEF NoDoubleEntry, HeldIsReferenced, Held, Single, Private, InWs, InLq,
                      IsCurr, InHand, Pending
  <2>5. QED  BY <1>1, <2>2, <2>3, <2>4 DEF SchedInv
<1>4. QED  BY <1>2, <1>3 DEF Next

\* SchedInv is an inductive invariant of the scheduler.
THEOREM Invariance == Spec => []SchedInv
BY InitInv, NextInv, PTL DEF Spec

\* The state of the scheduler is type correct.
THEOREM TypeCorrect == Spec => []TypeOK
<1>1. SchedInv => TypeOK
  BY DEF SchedInv
<1>2. QED  BY <1>1, Invariance, PTL

\* T_REF does what cc/thread.h says: no thread is ever entered twice.
THEOREM SingleEntry == Spec => []NoDoubleEntry
<1>1. SchedInv => NoDoubleEntry
  BY DEF SchedInv
<1>2. QED  BY <1>1, Invariance, PTL

\* A thread in the queues, in an executor's hands or running is not destroyed.
THEOREM HeldReferenced == Spec => []HeldIsReferenced
<1>1. SchedInv => HeldIsReferenced
  BY DEF SchedInv
<1>2. QED  BY <1>1, Invariance, PTL

\* sched_set_running_status never panics: whatever it is given has T_REF, and
\* T_REF goes only with statuses it acknowledges.
THEOREM PanicFree == Spec => []NeverPanics
<1>1. SchedInv => NeverPanics
  <2> SUFFICES ASSUME SchedInv, NEW e \in Execs, pc[e] = "ack"
               PROVE  sr[AckThread(e)].stat \in Acknowledgeable
    BY DEF NeverPanics
  <2>1. AckThread(e) \in Threads
    BY DEF SchedInv, LocalOK, AckLabels
  <2>2. Private(e, AckThread(e))
    BY DEF Private, AckThread, IsCurr, InHand
  <2>3. sr[AckThread(e)].ref
    BY <2>1, <2>2 DEF SchedInv, HeldIsReferenced, Held
  <2>4. QED  BY <2>1, <2>3 DEF SchedInv, ThreadOK
<1>2. QED  BY <1>1, Invariance, PTL

\* One step of the status of one thread.
Onward(t) ==
    /\ sr[t].stat = "TERM" => sr'[t].stat \in {"TERM", "DEAD", "DESTROY"}
    /\ sr[t].stat = "DEAD" => sr'[t].stat \in {"DEAD", "DESTROY"}
    /\ sr[t].stat = "DESTROY" => sr'[t].stat = "DESTROY"

\* Every step keeps a dead end a dead end.
LEMMA OnwardStep ==
    ASSUME SchedInv, NEW e \in Execs, NEW x \in Threads,
           RuntimeStep(e) \/ SchedCycle(e) \/ ApiCall(e)
    PROVE  Onward(x)
<1>0. TypeOK /\ LocalOK(e) /\ CallOK(e) /\ ThreadOK(x)
  BY DEF SchedInv
<1>a. sr'[x] = sr[x] => Onward(x)
  BY DEF Onward
<1>1. CASE QuietStep(e)
  BY <1>0, <1>1, <1>a, Quiet
<1>2. CASE AckRead(e) \/ TryRead(e) \/ DeactFinish(e)
  BY <1>2, <1>a DEF AckRead, TryRead, DeactFinish
<1>3. CASE AckCas(e)
  <2>1. old[e].stat \in Acknowledgeable \ {"DESTROY"}
    BY <1>0, <1>3 DEF AckCas, LocalOK
  <2>2. sr'[x] = sr[x] \/ (sr[x] = old[e] /\ sr'[x] = Acknowledged(old[e].stat))
    BY <1>0, <1>3 DEF AckCas, TypeOK
  <2>3. old[e].stat = "TERM" => Acknowledged(old[e].stat).stat = "DEAD"
    BY DEF Acknowledged
  <2>4. QED  BY <1>a, <2>1, <2>2, <2>3 DEF Onward, Acknowledgeable
<1>4. CASE TryCas(e)
  <2>1. sr[x] \in StatRef /\ sr'[x] \in {sr[x], [sr[x] EXCEPT !.ref = FALSE]}
    BY <1>0, <1>4 DEF TryCas, TypeOK
  <2>2. sr'[x].stat = sr[x].stat
    BY <2>1 DEF StatRef
  <2>3. QED  BY <2>2 DEF Onward
<1>5. CASE ActCas(e) \/ UpdCas(e)
  <2>1. old[e].stat \notin DeadEndStats
    BY <1>0, <1>5 DEF ActCas, UpdCas, LocalOK
  <2>2. sr'[x] = sr[x] \/ sr[x] = old[e]
    BY <1>0, <1>5 DEF ActCas, UpdCas, TypeOK
  <2>3. QED  BY <1>a, <2>1, <2>2 DEF Onward, DeadEndStats
<1>6. CASE DeactCas(e)
  <2>1. /\ old[e].stat \notin {"DEAD", "TERM"} \/ op[e].req = "DESTROY"
        /\ op[e].req # "DESTROY" => life[op[e].thr] = "live"
    BY <1>0, <1>6 DEF DeactCas, LocalOK, CallOK, CallLabels, DeactLabels
  <2>2. sr[x] \in StatRef /\
          \/ sr'[x] = sr[x]
          \/ x = op[e].thr /\ sr[x] = old[e] /\ sr'[x] = [sr[x] EXCEPT !.stat = op[e].req]
    BY <1>0, <1>6 DEF DeactCas, TypeOK
  <2>3. sr'[x] = sr[x] \/ (x = op[e].thr /\ sr[x] = old[e] /\ sr'[x].stat = op[e].req)
    BY <2>2 DEF StatRef
  <2>4. QED  BY <1>0, <1>a, <2>1, <2>3 DEF Onward, ThreadOK
<1>7. ASSUME NEW t \in Threads, CreateRunnable(e, t) \/ CreateSuspended(e, t)
      PROVE  Onward(x)
  <2>1. sr'[x] = sr[x] \/ life[x] = "unborn"
    BY <1>0, <1>7 DEF CreateRunnable, CreateSuspended, thread_init, TypeOK
  <2>2. QED  BY <1>0, <1>a, <2>1 DEF Onward, ThreadOK
<1>8. ASSUME NEW t \in Threads, NEW stat,
             Activate(e, t) \/ Deactivate(e, t, stat) \/ Destroy(e, t) \/ Update(e, t, stat)
      PROVE  Onward(x)
  BY <1>8, <1>a DEF Activate, Deactivate, Destroy, Update
<1>9. QED
  BY <1>1, <1>2, <1>3, <1>4, <1>5, <1>6, <1>7, <1>8 DEF RuntimeStep, ApiCall, QuietStep

\* No step of any executor brings a terminated or destroyed thread back,
\* whichever CAS loops it interleaves with.
THEOREM NoResurrection == Spec => DeadEnds
<1>1. SchedInv /\ [Next]_vars => [\A t \in Threads :
        /\ sr[t].stat = "TERM" => sr'[t].stat \in {"TERM", "DEAD", "DESTROY"}
        /\ sr[t].stat = "DEAD" => sr'[t].stat \in {"DEAD", "DESTROY"}
        /\ sr[t].stat = "DESTROY" => sr'[t].stat = "DESTROY"]_vars
  <2> SUFFICES ASSUME SchedInv, Next PROVE \A t \in Threads : Onward(t)
    BY DEF Onward
  <2>1. CASE GcStart \/ GcEnd
    BY <2>1 DEF GcStart, GcEnd, Onward
  <2>2. QED  BY <2>1, OnwardStep DEF Next
<1>2. QED  BY <1>1, Invariance, PTL DEF Spec, DeadEnds
=============================================================================
