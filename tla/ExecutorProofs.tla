--------------------------- MODULE ExecutorProofs ---------------------------
(***************************************************************************)
(* For any number of executors, guests and shutdowns: the workshare goes   *)
(* after the executors, and every guest is in one place and destroyed once. *)
(***************************************************************************)
EXTENDS Executor, FiniteSetTheorems, SequenceTheorems, TLAPS

-----------------------------------------------------------------------------
(* What the OS threads do: an exited one never comes back, and the one that *)
(* shuts the system down has joined those before its loop variable.         *)

StartPcs == {"setup", "setLive", "create"}
StopPcs == {"signalThread", "joinThread", "signal", "join", "destroyOwn", "empty"}
OtherPcs == {"none", "init", "cycle", "next", "idle", "mbox", "suspended", "exited"}

ControlTypeOK ==
    /\ exPc \in [ExecutorIds -> StartPcs \cup GuestPcs \cup StopPcs \cup OtherPcs]
    /\ exIndex \in [ExecutorIds -> Nat]
    /\ stoppers \subseteq ExecutorIds
    /\ shareUp \in BOOLEAN

\* Executor 0 has not created the executors from its loop variable on.
Starting ==
    exPc[0] \in StartPcs =>
        /\ exIndex[0] \in 1 .. ExecutorNum - 1
        /\ \A j \in exIndex[0] .. ExecutorNum - 1 : exPc[j] = "none"

StoppersStop ==
    \A e \in ExecutorIds :
        /\ exPc[e] \in StopPcs => e \in stoppers
        /\ e \in stoppers => exPc[e] \in StopPcs \cup {"exited"}

\* The executors that the loops of executor e have joined.
Joined(e) ==
    {i \in ExecutorIds \ {e} : \/ exPc[e] \in {"signal", "join"} /\ i < exIndex[e]
                               \/ exPc[e] \in {"destroyOwn", "empty"}}

JoinedExited ==
    \A e \in ExecutorIds :
        /\ \A i \in Joined(e) : Exited(i)
        /\ exPc[e] \in {"signal", "join"} => exIndex[e] # e
        /\ exPc[e] = "join" => exIndex[e] < ExecutorNum

ControlInv ==
    /\ ControlTypeOK
    /\ Starting
    /\ StoppersStop
    /\ JoinedExited
    /\ ShareOutlivesExecutors

-----------------------------------------------------------------------------
(* Where the guests are.                                                   *)

GuestTypeOK ==
    /\ exCurr \in [ExecutorIds -> Guests \cup {NoGuest}]
    /\ exQueue \in [ExecutorIds -> Seq(Guests)]
    /\ workshare \subseteq Guests
    /\ created \subseteq Guests
    /\ destroyed \in [Guests -> Nat]

Elements(q) == {q[n] : n \in 1 .. Len(q)}
Once(q) == \A m, n \in 1 .. Len(q) : q[m] = q[n] => m = n

Queued(e) == Elements(exQueue[e])
Holds(e, g) == exCurr[e] = g \/ g \in Queued(e)

\* A guest is in at most one place, and only if it was created.
OnePlace ==
    /\ \A g \in Guests :
           /\ \A e, f \in ExecutorIds : Holds(e, g) /\ Holds(f, g) => e = f
           /\ \A e \in ExecutorIds : ~(exCurr[e] = g /\ g \in Queued(e))
           /\ \A e \in ExecutorIds : Holds(e, g) => g \in created \ workshare
           /\ g \in workshare => g \in created
    /\ \A e \in ExecutorIds : Once(exQueue[e])

\* ... and none is lost.
SomePlace ==
    shareUp => \A g \in created \ workshare : \E e \in ExecutorIds : Holds(e, g)

\* There are no guests before executor 0 has created the first one, an executor
\* that has not come online has none, and one that runs one has it.
OnlineGuests ==
    /\ exPc[0] \in StartPcs \cup {"none", "init"} => created = {}
    /\ \A e \in ExecutorIds :
           /\ exPc[e] \in StartPcs \cup {"none", "init"} =>
                  exCurr[e] = NoGuest /\ exQueue[e] = <<>>
           /\ exPc[e] \in GuestPcs => exCurr[e] \in Guests

\* Destroyed are guests of executors that were joined, or of the one that shuts
\* down when it comes to its own; with one shutdown, once.
Emptied(e) == Joined(e) \cup {i \in {e} : exPc[e] = "empty"}

DestroyedAfter ==
    /\ shareUp => \A g \in Guests : destroyed[g] > 0 =>
           \E e \in stoppers : \E i \in Emptied(e) : Holds(i, g)
    /\ (\A e, f \in stoppers : e = f) => \A g \in Guests : destroyed[g] <= 1

\* The inductive invariant.
GuestInv ==
    /\ ControlInv
    /\ GuestTypeOK
    /\ OnePlace
    /\ SomePlace
    /\ OnlineGuests
    /\ DestroyedAfter
-----------------------------------------------------------------------------
(* The OS threads.                                                         *)

\* executor_start: executor 0 is alone.
LEMMA ControlInit == executor_start => ControlInv
<1> SUFFICES ASSUME executor_start PROVE ControlInv
  OBVIOUS
<1> USE ExecutorAssumption DEF executor_start, ExecutorIds
<1>1. ControlTypeOK
  BY DEF ControlTypeOK, StartPcs, OtherPcs
<1>2. Starting
  BY DEF Starting
<1>3. StoppersStop /\ JoinedExited /\ ShareOutlivesExecutors
  BY DEF StoppersStop, JoinedExited, Joined, ShareOutlivesExecutors, StopPcs
<1> QED BY <1>1, <1>2, <1>3 DEF ControlInv

\* One executor goes on, neither into nor out of a shutdown.
LEMMA ExecutorMoves ==
    ASSUME ControlInv, NEW e \in ExecutorIds, NEW label, NEW i \in Nat,
           exPc[e] \notin StartPcs \cup {"none", "exited"},
           label \in GuestPcs \cup StopPcs \cup OtherPcs, label # "none",
           label \in StopPcs <=> exPc[e] \in StopPcs,
           Does(e, label), exIndex' = [exIndex EXCEPT ![e] = i],
           UNCHANGED <<stoppers, shareUp>>,
           label \in {"signal", "join"} =>
               i # e /\ \A j \in ExecutorIds \ {e} : j < i => Exited(j),
           label = "join" => i < ExecutorNum,
           label \in {"destroyOwn", "empty"} => \A j \in ExecutorIds \ {e} : Exited(j)
    PROVE  ControlInv'
<1> USE DEF ControlInv
<1>1. /\ exPc'[e] = label /\ exIndex'[e] = i
      /\ \A f \in ExecutorIds : f # e => exPc'[f] = exPc[f] /\ exIndex'[f] = exIndex[f]
  BY DEF Does, ControlTypeOK
<1>2. ControlTypeOK'
  BY DEF ControlTypeOK, Does
<1>3. Starting'
  <2>1. 0 \in ExecutorIds /\ ExecutorNum \in Nat
    BY ExecutorAssumption DEF ExecutorIds
  <2>2. SUFFICES ASSUME exPc'[0] \in StartPcs
                 PROVE  /\ exIndex'[0] \in 1 .. ExecutorNum - 1
                        /\ \A j \in exIndex'[0] .. ExecutorNum - 1 : exPc'[j] = "none"
    BY DEF Starting
  <2>3. 0 # e
    BY <1>1, <2>2 DEF StartPcs, GuestPcs, StopPcs, OtherPcs
  <2>4. exPc[0] \in StartPcs /\ exIndex'[0] = exIndex[0]
    BY <1>1, <2>1, <2>2, <2>3
  <2>5. \A j \in exIndex[0] .. ExecutorNum - 1 : j \in ExecutorIds /\ exPc[j] = "none"
    BY <2>1, <2>4 DEF Starting, ExecutorIds
  <2> QED BY <1>1, <2>4, <2>5 DEF Starting
<1>4. StoppersStop'
  BY <1>1 DEF StoppersStop
<1>5. \A f \in ExecutorIds : Exited(f) => Exited(f)'
  BY <1>1 DEF Exited
<1>6. JoinedExited'
  <2> SUFFICES ASSUME NEW f \in ExecutorIds
               PROVE  /\ \A j \in Joined(f)' : Exited(j)'
                      /\ exPc'[f] \in {"signal", "join"} => exIndex'[f] # f
                      /\ exPc'[f] = "join" => exIndex'[f] < ExecutorNum
    BY DEF JoinedExited
  <2>1. CASE f = e
    BY <2>1, <1>1, <1>5 DEF Joined
  <2>2. CASE f # e
    <3>1. Joined(f)' = Joined(f)
      BY <2>2, <1>1 DEF Joined
    <3> QED BY <2>2, <3>1, <1>1, <1>5 DEF JoinedExited, Joined
  <2> QED BY <2>1, <2>2
<1>7. ShareOutlivesExecutors'
  BY <1>5 DEF ShareOutlivesExecutors
<1> QED BY <1>2, <1>3, <1>4, <1>6, <1>7

\* executor_setup: executor 0 goes on, or brings another one online.
LEMMA SetupChanges ==
    ASSUME ControlInv, SetupStep
    PROVE  /\ \A f \in ExecutorIds : exPc[f] \notin StartPcs \cup {"none"} =>
                  exPc'[f] = exPc[f] /\ exIndex'[f] = exIndex[f]
           /\ \A f \in ExecutorIds : exPc[f] \in StartPcs \cup {"none"} =>
                  exPc'[f] \in StartPcs \cup {"none", "init"}
<1> USE ExecutorAssumption DEF ControlInv
<1>1. exPc[0] \in StartPcs /\ 0 \in ExecutorIds
  BY DEF SetupStep, StartSignalThread, SetLive, CreateWorker, StartPcs, ExecutorIds
<1>2. exIndex[0] \in 1 .. ExecutorNum - 1
      /\ \A j \in exIndex[0] .. ExecutorNum - 1 : j \in ExecutorIds /\ exPc[j] = "none"
  BY <1>1 DEF Starting, ExecutorIds
<1> QED BY <1>1, <1>2 DEF ControlTypeOK, SetupStep, StartSignalThread, SetLive, CreateWorker,
                          Does, StartPcs

\* executor_start creates the executors one by one, before anybody can stop
\* the system.
LEMMA SetupKeepsControl ==
    ASSUME ControlInv, SetupStep PROVE ControlInv'
<1> USE ExecutorAssumption DEF ControlInv
<1>0. exPc[0] \in StartPcs /\ 0 \in ExecutorIds /\ UNCHANGED <<stoppers, shareUp>>
  BY DEF SetupStep, StartSignalThread, SetLive, CreateWorker, guestVars, StartPcs, ExecutorIds
<1>1. shareUp
  BY <1>0 DEF ShareOutlivesExecutors, Exited, StartPcs
<1>2. exIndex[0] \in 1 .. ExecutorNum - 1
      /\ \A j \in exIndex[0] .. ExecutorNum - 1 : j \in ExecutorIds /\ exPc[j] = "none"
  BY <1>0 DEF Starting, ExecutorIds
<1>3. ControlTypeOK'
  BY <1>0, <1>2 DEF ControlTypeOK, SetupStep, StartSignalThread, SetLive, CreateWorker, Does,
                    StartPcs, OtherPcs
<1>4. Starting'
  <2>1. CASE StartSignalThread \/ SetLive
    BY <2>1, <1>0, <1>2 DEF Starting, StartSignalThread, SetLive, Does, ControlTypeOK
  <2>2. CASE CreateWorker
    <3>1. /\ exPc'[0] = IF exIndex[0] + 1 < ExecutorNum THEN "create" ELSE "init"
          /\ exIndex'[0] = IF exIndex[0] + 1 < ExecutorNum THEN exIndex[0] + 1 ELSE 0
          /\ \A j \in ExecutorIds : j > exIndex[0] => exPc'[j] = exPc[j]
      BY <2>2, <1>0, <1>2 DEF CreateWorker, ControlTypeOK, ExecutorIds
    <3> QED BY <3>1, <1>2 DEF Starting, StartPcs, ExecutorIds
  <2> QED BY <2>1, <2>2 DEF SetupStep
<1>5. /\ \A f \in ExecutorIds : exPc[f] \notin StartPcs \cup {"none"} =>
             exPc'[f] = exPc[f] /\ exIndex'[f] = exIndex[f]
      /\ \A f \in ExecutorIds : exPc[f] \in StartPcs \cup {"none"} =>
             exPc'[f] \in StartPcs \cup {"none", "init"}
  BY SetupChanges
<1>6. StoppersStop'
  BY <1>0, <1>5 DEF StoppersStop, StartPcs, StopPcs
<1>7. JoinedExited'
  BY <1>5 DEF JoinedExited, Joined, Exited, StartPcs
<1> QED BY <1>0, <1>1, <1>3, <1>4, <1>6, <1>7 DEF ShareOutlivesExecutors

\* Everything an executor does but for the beginning and the end of a shutdown.
LEMMA RunningKeepsControl ==
    ASSUME ControlInv, NEW e \in ExecutorIds,
           \/ executor_init_state(e) \/ Activate(e) \/ WakeRead(e) \/ WakeCas(e)
           \/ WakeSend(e) \/ executor_safepoint(e) \/ executor_sched_cycle(e)
           \/ do_executor_sched_cycle(e) \/ NextGuest(e)
           \/ IdleTest(e) \/ IdleMbox(e) \/ IdleWake(e)
    PROVE  ControlInv'
<1>0. /\ exPc[e] \in {"init", "cycle", "next", "idle", "mbox", "suspended"} \cup GuestPcs
      /\ exPc'[e] \in (GuestPcs \cup OtherPcs) \ {"none"}
      /\ exPc' = [exPc EXCEPT ![e] = exPc'[e]]
      /\ exIndex' = [exIndex EXCEPT ![e] = exIndex'[e]] /\ exIndex'[e] \in Nat
      /\ UNCHANGED <<stoppers, shareUp>>
  <2> USE DEF ControlInv, ControlTypeOK, GuestPcs, OtherPcs
  <2>1. /\ exIndex[e] \in Nat /\ exIndex = [exIndex EXCEPT ![e] = exIndex[e]]
        /\ \A l : Does(e, l) => exPc'[e] = l /\ exPc' = [exPc EXCEPT ![e] = exPc'[e]]
    BY DEF Does
  <2>2. CASE executor_init_state(e)
    BY <2>1, <2>2 DEF executor_init_state
  <2>3. CASE Activate(e)
    BY <2>1, <2>3 DEF Activate
  <2>4. CASE WakeRead(e)
    <3>1. exPc[e] = "wake" /\ UNCHANGED <<stoppers, shareUp>>
      BY <2>4 DEF WakeRead, guestVars
    <3>2. \/ Does(e, "wakeCas") /\ UNCHANGED exIndex
          \/ UNCHANGED exPc /\ exIndex' = [exIndex EXCEPT ![e] = exIndex[e] + 1]
          \/ Does(e, "guest") /\ exIndex' = [exIndex EXCEPT ![e] = 0]
      BY <2>4 DEF WakeRead
    <3> QED BY <2>1, <3>1, <3>2
  <2>5. CASE WakeCas(e)
    BY <2>1, <2>5 DEF WakeCas, guestVars
  <2>6. CASE WakeSend(e)
    BY <2>1, <2>6 DEF WakeSend, guestVars
  <2>7. CASE do_executor_sched_cycle(e)
    BY <2>1, <2>7 DEF do_executor_sched_cycle, guestVars
  <2>8. CASE NextGuest(e)
    BY <2>1, <2>8 DEF NextGuest
  <2>9. CASE IdleTest(e)
    BY <2>1, <2>9 DEF IdleTest, guestVars
  <2>10. CASE IdleMbox(e)
    BY <2>1, <2>10 DEF IdleMbox, guestVars
  <2>11. CASE IdleWake(e)
    BY <2>1, <2>11 DEF IdleWake, guestVars
  <2>12. CASE executor_safepoint(e)
    BY <2>1, <2>12 DEF executor_safepoint, guestVars
  <2>13. CASE executor_sched_cycle(e)
    BY <2>1, <2>13 DEF executor_sched_cycle, guestVars
  <2> QED BY <2>2, <2>3, <2>4, <2>5, <2>6, <2>7, <2>8, <2>9, <2>10, <2>11, <2>12, <2>13
<1>a. PICK i \in Nat : i = exIndex'[e]
  BY <1>0
<1>b. PICK label : label = exPc'[e]
  OBVIOUS
<1>1. /\ exPc[e] \notin StartPcs \cup StopPcs \cup {"none", "exited"}
      /\ label \in GuestPcs \cup StopPcs \cup OtherPcs /\ label # "none"
      /\ label \notin StopPcs
      /\ Does(e, label) /\ exIndex' = [exIndex EXCEPT ![e] = i]
  BY <1>0, <1>a, <1>b DEF StartPcs, GuestPcs, StopPcs, OtherPcs, Does
<1> QED BY <1>0, <1>1, ExecutorMoves DEF StopPcs

\* executor_stop up to the last executor that it joins.
LEMMA StoppingKeepsControl ==
    ASSUME ControlInv, NEW e \in ExecutorIds,
           \/ SignalTheThread(e) \/ JoinTheThread(e) \/ SignalExecutor(e)
           \/ JoinExecutor(e) \/ DestroyOwn(e)
    PROVE  ControlInv'
<1> USE DEF ControlInv, ControlTypeOK
<1>1. exIndex[e] \in Nat /\ exIndex = [exIndex EXCEPT ![e] = exIndex[e]]
  OBVIOUS
<1>2. e \in Nat /\ ExecutorNum \in Nat /\ \A j \in ExecutorIds : j \in Nat /\ j < ExecutorNum
  BY ExecutorAssumption DEF ExecutorIds
<1>3. UNCHANGED <<stoppers, shareUp>>
  BY DEF SignalTheThread, JoinTheThread, SignalExecutor, JoinExecutor, DestroyOwn, guestVars
<1>4. /\ exPc[e] \in {"signal", "join"} => /\ exIndex[e] # e
                                           /\ \A j \in ExecutorIds \ {e} : j < exIndex[e] => Exited(j)
      /\ exPc[e] = "join" => exIndex[e] < ExecutorNum
      /\ exPc[e] \in {"destroyOwn", "empty"} => \A j \in ExecutorIds \ {e} : Exited(j)
  BY DEF JoinedExited, Joined
<1>5. CASE SignalTheThread(e)
  BY <1>5, <1>1, <1>3, ExecutorMoves DEF SignalTheThread, StartPcs, StopPcs
<1>6. CASE JoinTheThread(e)
  <2>1. Following(e, 0) \in Nat /\ Following(e, 0) # e
        /\ \A j \in ExecutorIds \ {e} : ~(j < Following(e, 0))
    BY <1>2 DEF Following
  <2> QED BY <1>6, <2>1, <1>3, ExecutorMoves DEF JoinTheThread, StartPcs, StopPcs
<1>7. CASE SignalExecutor(e)
  <2>1. CASE exIndex[e] < ExecutorNum
    BY <1>7, <2>1, <1>1, <1>2, <1>3, <1>4, ExecutorMoves DEF SignalExecutor, StartPcs, StopPcs
  <2>2. CASE exIndex[e] >= ExecutorNum
    <3>1. \A j \in ExecutorIds \ {e} : Exited(j)
      BY <1>7, <2>2, <1>1, <1>2, <1>4 DEF SignalExecutor
    <3> QED BY <1>7, <2>2, <3>1, <1>1, <1>2, <1>3, ExecutorMoves
            DEF SignalExecutor, StartPcs, StopPcs
  <2> QED BY <2>1, <2>2, <1>1, <1>2
<1>8. CASE JoinExecutor(e)
  <2> DEFINE next == Following(e, exIndex[e] + 1)
  <2>1. next \in Nat /\ next # e
    BY <1>1, <1>2 DEF Following
  <2>2. \A j \in ExecutorIds \ {e} : j < next => Exited(j)
    BY <1>8, <1>1, <1>2, <1>4 DEF Following, JoinExecutor, Exited
  <2> QED BY <1>8, <2>1, <2>2, <1>3, ExecutorMoves DEF JoinExecutor, StartPcs, StopPcs
<1>9. CASE DestroyOwn(e)
  BY <1>9, <1>1, <1>3, <1>4, ExecutorMoves DEF DestroyOwn, StartPcs, StopPcs
<1> QED BY <1>5, <1>6, <1>7, <1>8, <1>9

\* The first and the last step of executor_stop.
LEMMA StopBeginsAndEnds ==
    ASSUME ControlInv, NEW e \in ExecutorIds, executor_stop(e) \/ scheduler_stop(e)
    PROVE  ControlInv'
<1> USE DEF ControlInv
<1>1. /\ \A f \in ExecutorIds : f # e => exPc'[f] = exPc[f]
      /\ exPc'[e] \in {"signalThread", "exited"}
      /\ exPc[e] \in {"guest", "empty"}
      /\ exIndex' = exIndex
  BY DEF executor_stop, scheduler_stop, Does, ControlTypeOK
<1>2. ControlTypeOK'
  BY DEF ControlTypeOK, executor_stop, scheduler_stop, Does, StopPcs, OtherPcs, guestVars
<1>3. Starting'
  <2>1. 0 \in ExecutorIds /\ ExecutorNum \in Nat
    BY ExecutorAssumption DEF ExecutorIds
  <2>2. CASE exPc'[0] \in StartPcs
    <3>1. exPc[0] \in StartPcs /\ 0 # e
      BY <1>1, <2>1, <2>2 DEF StartPcs
    <3>2. exIndex[0] \in Nat
      BY <2>1 DEF ControlTypeOK
    <3>3. \A j \in exIndex[0] .. ExecutorNum - 1 : j \in ExecutorIds /\ j # e
      BY <3>1, <3>2, <2>1, <1>1 DEF Starting, ExecutorIds
    <3> QED BY <3>1, <3>3, <1>1 DEF Starting
  <2> QED BY <2>2 DEF Starting
<1>4. StoppersStop'
  BY <1>1 DEF StoppersStop, StopPcs, executor_stop, scheduler_stop, Does, ControlTypeOK
<1>5. JoinedExited'
  <2>1. \A f \in ExecutorIds : Joined(f)' \subseteq Joined(f)
    BY <1>1 DEF Joined
  <2>2. \A f \in ExecutorIds : Exited(f) => Exited(f)'
    BY <1>1 DEF Exited
  <2>3. \A f \in ExecutorIds : exPc'[f] \in {"signal", "join"} =>
            exPc'[f] = exPc[f] /\ exIndex'[f] = exIndex[f]
    BY <1>1
  <2> QED BY <2>1, <2>2, <2>3 DEF JoinedExited, Joined
<1>6. ShareOutlivesExecutors'
  <2>1. CASE executor_stop(e)
    BY <2>1 DEF executor_stop, guestVars, ShareOutlivesExecutors, Exited
  <2>2. CASE scheduler_stop(e)
    <3>1. \A i \in ExecutorIds \ {e} : Exited(i)
      BY <2>2 DEF scheduler_stop, JoinedExited, Joined
    <3> QED BY <2>2, <3>1, <1>1 DEF scheduler_stop, Does, ControlTypeOK, Exited,
                                    ShareOutlivesExecutors
  <2> QED BY <2>1, <2>2
<1> QED BY <1>2, <1>3, <1>4, <1>5, <1>6

\* Every step of an OS thread, start-up and shutdown included, keeps ControlInv.
LEMMA ControlStep == ControlInv /\ [ExecutorNext]_executorVars => ControlInv'
<1> SUFFICES ASSUME ControlInv, [ExecutorNext]_executorVars PROVE ControlInv'
  OBVIOUS
<1>1. CASE UNCHANGED executorVars \/ SignalThreadStep
  <2>1. UNCHANGED <<exPc, exIndex, stoppers, shareUp>>
    BY <1>1 DEF executorVars, SignalThreadStep, guestVars
  <2> QED BY <2>1 DEF ControlInv, ControlTypeOK, Starting, StoppersStop, JoinedExited, Joined,
                      Exited, ShareOutlivesExecutors
<1>2. CASE SetupStep
  BY <1>2, SetupKeepsControl
<1>3. ASSUME NEW e \in ExecutorIds, ExecutorStep(e) PROVE ControlInv'
  BY <1>3, RunningKeepsControl, StoppingKeepsControl, StopBeginsAndEnds DEF ExecutorStep, GuestStep, RuntimeStep
<1> QED BY <1>1, <1>2, <1>3 DEF ExecutorNext

\* The workshare goes when nobody is left who could use it, for any number of
\* executors and calls of executor_stop: scheduler_stop is reached only by an
\* executor that has joined all the others.
THEOREM ShareGoesLast == ExecutorSpec => []ShareOutlivesExecutors
<1>1. ControlInv => ShareOutlivesExecutors
  BY DEF ControlInv
<1> QED BY <1>1, ControlInit, ControlStep, PTL DEF ExecutorSpec
-----------------------------------------------------------------------------
(* The guests.                                                             *)

\* executor_start: there are none.
LEMMA GuestInit == executor_start => GuestInv
<1> SUFFICES ASSUME executor_start PROVE GuestInv
  OBVIOUS
<1>1. ControlInv
  BY ControlInit
<1> USE ExecutorAssumption DEF executor_start
<1>2. GuestTypeOK
  BY DEF GuestTypeOK
<1>3. OnePlace /\ SomePlace
  BY DEF OnePlace, SomePlace, Holds, Queued, Elements, Once
<1>4. OnlineGuests
  BY DEF OnlineGuests, GuestPcs, ExecutorIds
<1>5. DestroyedAfter
  BY DEF DestroyedAfter
<1> QED BY <1>1, <1>2, <1>3, <1>4, <1>5 DEF GuestInv

\* An executor changes its own program counter and loop variable only.
LEMMA OthersStay ==
    ASSUME ControlInv, NEW e \in ExecutorIds, ExecutorStep(e)
    PROVE  /\ \A f \in ExecutorIds \ {e} : exPc'[f] = exPc[f] /\ exIndex'[f] = exIndex[f]
           /\ exPc[e] \notin StartPcs \cup {"none", "exited"}
           /\ exPc'[e] \notin StartPcs \cup {"none", "init"}
           /\ exPc'[e] \in GuestPcs => exPc[e] \in GuestPcs \cup {"init", "next"}
           /\ stoppers \subseteq stoppers'
           /\ shareUp
<1> USE DEF ControlInv, ControlTypeOK, Does, GuestPcs, StartPcs
<1>1. CASE executor_init_state(e)
  BY <1>1 DEF executor_init_state, ShareOutlivesExecutors, Exited
<1>2. CASE Activate(e) \/ WakeCas(e) \/ WakeSend(e)
  BY <1>2 DEF Activate, WakeCas, WakeSend, guestVars, ShareOutlivesExecutors, Exited
<1>3. CASE WakeRead(e)
  BY <1>3 DEF WakeRead, guestVars, ShareOutlivesExecutors, Exited
<1>4. CASE \/ executor_safepoint(e) \/ executor_sched_cycle(e)
          \/ do_executor_sched_cycle(e) \/ NextGuest(e)
  BY <1>4 DEF executor_safepoint, executor_sched_cycle, do_executor_sched_cycle, NextGuest, guestVars, ShareOutlivesExecutors, Exited
<1>5. CASE IdleTest(e) \/ IdleMbox(e) \/ IdleWake(e)
  BY <1>5 DEF IdleTest, IdleMbox, IdleWake, guestVars, ShareOutlivesExecutors, Exited
<1>6. CASE executor_stop(e) \/ SignalTheThread(e) \/ JoinTheThread(e)
  BY <1>6 DEF executor_stop, SignalTheThread, JoinTheThread, guestVars,
              ShareOutlivesExecutors, Exited
<1>7. CASE SignalExecutor(e) \/ JoinExecutor(e)
  BY <1>7 DEF SignalExecutor, JoinExecutor, guestVars, ShareOutlivesExecutors, Exited
<1>8. CASE DestroyOwn(e) \/ scheduler_stop(e)
  BY <1>8 DEF DestroyOwn, scheduler_stop, ShareOutlivesExecutors, Exited
<1> QED BY <1>1, <1>2, <1>3, <1>4, <1>5, <1>6, <1>7, <1>8 DEF ExecutorStep, GuestStep, RuntimeStep

\* Who was emptied stays so until the workshare is gone, and runs nothing.
LEMMA EmptiedGrows ==
    ASSUME ControlInv, NEW e \in ExecutorIds, ExecutorStep(e), shareUp'
    PROVE  \A f \in ExecutorIds : Emptied(f) \subseteq Emptied(f)'
<1> USE DEF ControlInv, ControlTypeOK
<1>1. \A f \in ExecutorIds \ {e} : Emptied(f)' = Emptied(f)
  BY OthersStay DEF Emptied, Joined
<1>2. Emptied(e) \subseteq Emptied(e)'
  <2>1. CASE exPc[e] \notin {"signal", "join", "destroyOwn", "empty"}
    BY <2>1 DEF Emptied, Joined
  <2>2. CASE SignalExecutor(e)
    BY <2>2 DEF SignalExecutor, Does, Emptied, Joined
  <2>3. CASE JoinExecutor(e)
    <3>1. exIndex[e] \in Nat /\ exIndex'[e] \in Nat /\ exIndex'[e] >= exIndex[e]
          /\ exPc'[e] = "signal" /\ exPc[e] = "join"
      BY <2>3 DEF JoinExecutor, Does, Following
    <3>2. \A i \in ExecutorIds : i \in Nat
      BY ExecutorAssumption DEF ExecutorIds
    <3> QED BY <3>1, <3>2 DEF Emptied, Joined
  <2>4. CASE DestroyOwn(e)
    BY <2>4 DEF DestroyOwn, Does, Emptied, Joined
  <2>5. CASE scheduler_stop(e)
    BY <2>5 DEF scheduler_stop
  <2> QED
    BY <2>1, <2>2, <2>3, <2>4, <2>5
    DEF ExecutorStep, GuestStep, RuntimeStep, executor_init_state, Activate, WakeRead, WakeCas, WakeSend, NextGuest,
        executor_safepoint, executor_sched_cycle, do_executor_sched_cycle, IdleTest,
        IdleMbox, IdleWake, executor_stop, SignalTheThread, JoinTheThread
<1> QED BY <1>1, <1>2

\* The executors whose guests scheduler_destroy has taken have exited, or are
\* the one that shuts the system down: none of them runs a guest.
LEMMA EmptiedRunNothing ==
    ASSUME ControlInv, NEW e \in ExecutorIds
    PROVE  \A i \in Emptied(e) : i \in ExecutorIds /\ exPc[i] \in {"exited", "empty"}
BY DEF ControlInv, JoinedExited, Emptied, Joined, Exited

\* A step that destroys nobody, of an executor that still runs if its guests
\* change, leaves what was destroyed where it is.
LEMMA DestroyedStay ==
    ASSUME GuestInv, NEW e \in ExecutorIds, ExecutorStep(e),
           UNCHANGED <<destroyed, shareUp>>,
           \A i \in ExecutorIds, g \in Guests :
               Holds(i, g) /\ exPc[i] \in {"exited", "empty"} => Holds(i, g)'
    PROVE  DestroyedAfter'
<1> USE DEF GuestInv
<1>1. stoppers \subseteq stoppers' /\ shareUp /\ stoppers \subseteq ExecutorIds
  BY OthersStay DEF ControlInv, ControlTypeOK
<1>2. ASSUME NEW g \in Guests, destroyed[g] > 0
      PROVE  \E f \in stoppers' : \E i \in Emptied(f)' : Holds(i, g)'
  <2>1. PICK f \in stoppers : \E i \in Emptied(f) : Holds(i, g)
    BY <1>1, <1>2 DEF DestroyedAfter
  <2>2. PICK i \in Emptied(f) : Holds(i, g)
    BY <2>1
  <2>3. i \in ExecutorIds /\ exPc[i] \in {"exited", "empty"}
    BY <1>1, <2>2, EmptiedRunNothing
  <2>4. i \in Emptied(f)'
    BY <1>1, EmptiedGrows
  <2> QED BY <1>1, <2>2, <2>3, <2>4
<1> QED BY <1>1, <1>2 DEF DestroyedAfter

\* scheduler_destroy of an executor that was not emptied before.
LEMMA DestroyKeeps ==
    ASSUME GuestInv, NEW e \in ExecutorIds, NEW i \in ExecutorIds, ExecutorStep(e),
           SchedulerDestroyed(i), UNCHANGED <<stoppers, shareUp>>,
           e \in stoppers, i \notin Emptied(e), i \in Emptied(e)'
    PROVE  DestroyedAfter'
<1> USE DEF GuestInv
<1> DEFINE q == exQueue[i]
           gone == ({exCurr[i]} \ {NoGuest}) \cup (IF q = <<>> THEN {} ELSE {q[Len(q)]})
<1>0. /\ destroyed' = [g \in Guests |-> IF g \in gone THEN destroyed[g] + 1 ELSE destroyed[g]]
      /\ UNCHANGED <<exCurr, exQueue>>
  BY DEF SchedulerDestroyed
<1>1. \A g \in gone : Holds(i, g)
  <2>1. q \in Seq(Guests)
    BY DEF GuestTypeOK
  <2>2. q # <<>> => Len(q) \in 1 .. Len(q)
    BY <2>1
  <2> QED BY <2>2 DEF Holds, Queued, Elements
<1>2. shareUp /\ stoppers \subseteq ExecutorIds
  BY OthersStay DEF ControlInv, ControlTypeOK
<1>3. \A f \in ExecutorIds, g \in Guests : Holds(f, g)' <=> Holds(f, g)
  BY <1>0 DEF Holds, Queued
<1>4. ASSUME NEW g \in Guests, destroyed'[g] > 0
      PROVE  \E f \in stoppers' : \E j \in Emptied(f)' : Holds(j, g)'
  <2>1. CASE g \in gone
    BY <2>1, <1>1, <1>3
  <2>2. CASE g \notin gone
    <3>1. PICK f \in stoppers : \E j \in Emptied(f) : Holds(j, g)
      BY <2>2, <1>0, <1>2, <1>4 DEF DestroyedAfter
    <3>2. PICK j \in Emptied(f) : Holds(j, g)
      BY <3>1
    <3> QED BY <3>1, <3>2, <1>2, <1>3, EmptiedGrows, EmptiedRunNothing
  <2> QED BY <2>1, <2>2
<1>5. ASSUME \A f, h \in stoppers : f = h, NEW g \in Guests
      PROVE  destroyed'[g] <= 1
  <2>1. destroyed[g] \in Nat /\ destroyed[g] <= 1
    BY <1>5 DEF GuestTypeOK, DestroyedAfter
  <2>2. CASE g \in gone /\ destroyed[g] > 0
    <3>1. PICK f \in stoppers : \E j \in Emptied(f) : Holds(j, g)
      BY <2>2, <1>2 DEF DestroyedAfter
    <3>2. PICK j \in Emptied(e) : Holds(j, g)
      BY <3>1, <1>5
    <3>3. j = i
      BY <3>2, <2>2, <1>1, EmptiedRunNothing DEF OnePlace
    <3> QED BY <3>2, <3>3
  <2> QED BY <2>1, <2>2, <1>0
<1> QED BY <1>4, <1>5 DEF DestroyedAfter
\* All guests stay where they are.
LEMMA GuestsStay ==
    ASSUME GuestInv, NEW e \in ExecutorIds, ExecutorStep(e), shareUp' = shareUp,
           exPc[e] # "init", exPc[e] = "next" => exPc'[e] \notin GuestPcs,
           UNCHANGED <<exCurr, exQueue, workshare, created>>, destroyed' \in [Guests -> Nat]
    PROVE  /\ GuestTypeOK' /\ OnePlace' /\ SomePlace' /\ OnlineGuests'
           /\ \A i \in ExecutorIds, g \in Guests : Holds(i, g) <=> Holds(i, g)'
<1> USE DEF GuestInv
<1>1. \A i \in ExecutorIds, g \in Guests : Holds(i, g) <=> Holds(i, g)'
  BY DEF Holds, Queued
<1>2. GuestTypeOK' /\ OnePlace' /\ SomePlace'
  BY <1>1 DEF GuestTypeOK, OnePlace, SomePlace, Queued
<1>3. OnlineGuests'
  <2>1. 0 \in ExecutorIds
    BY ExecutorAssumption DEF ExecutorIds
  <2>2. /\ exPc'[e] \notin StartPcs \cup {"none", "init"}
        /\ exPc'[e] \in GuestPcs => exPc[e] \in GuestPcs
        /\ \A f \in ExecutorIds \ {e} : exPc'[f] = exPc[f]
    BY OthersStay
  <2> QED BY <2>1, <2>2 DEF OnlineGuests
<1> QED BY <1>1, <1>2, <1>3

\* The steps that leave the guests alone, and those that destroy some.
LEMMA QuietKeepsGuests ==
    ASSUME GuestInv, NEW e \in ExecutorIds,
           \/ WakeRead(e) \/ WakeCas(e) \/ WakeSend(e)
           \/ executor_safepoint(e) \/ executor_sched_cycle(e) \/ do_executor_sched_cycle(e)
           \/ IdleTest(e) \/ IdleMbox(e) \/ IdleWake(e) \/ executor_stop(e)
           \/ SignalTheThread(e) \/ JoinTheThread(e) \/ SignalExecutor(e)
    PROVE  GuestInv'
<1>0. ExecutorStep(e) /\ UNCHANGED guestVars
  BY DEF ExecutorStep, GuestStep, RuntimeStep, WakeRead, WakeCas, WakeSend, executor_safepoint,
         executor_sched_cycle, do_executor_sched_cycle, IdleTest,
         IdleMbox, IdleWake, executor_stop, SignalTheThread, JoinTheThread, SignalExecutor
<1>1. exPc[e] \notin {"init", "next"}
  BY DEF WakeRead, WakeCas, WakeSend, executor_safepoint,
         executor_sched_cycle, do_executor_sched_cycle, IdleTest,
         IdleMbox, IdleWake, executor_stop, SignalTheThread, JoinTheThread, SignalExecutor
<1>2. ControlInv'
  BY <1>0, ControlStep DEF ExecutorNext, GuestInv
<1>3. GuestTypeOK' /\ OnePlace' /\ SomePlace' /\ OnlineGuests'
      /\ \A i \in ExecutorIds, g \in Guests : Holds(i, g) <=> Holds(i, g)'
  BY <1>0, <1>1, GuestsStay DEF guestVars, GuestInv, GuestTypeOK
<1>4. DestroyedAfter'
  BY <1>0, <1>3, DestroyedStay DEF guestVars
<1> QED BY <1>2, <1>3, <1>4 DEF GuestInv

\* scheduler_destroy, of an executor just joined or of the own one, destroys
\* guests that were destroyed by nobody before.
LEMMA DestroyingKeepsGuests ==
    ASSUME GuestInv, NEW e \in ExecutorIds, JoinExecutor(e) \/ DestroyOwn(e)
    PROVE  GuestInv'
<1> USE DEF GuestInv, ControlInv
<1>0. ExecutorStep(e) /\ UNCHANGED <<exCurr, exQueue, workshare, created, shareUp, stoppers>>
  BY DEF ExecutorStep, GuestStep, RuntimeStep, JoinExecutor, DestroyOwn, SchedulerDestroyed
<1>1. exPc[e] \in {"join", "destroyOwn"}
  BY DEF JoinExecutor, DestroyOwn
<1>2. ControlInv'
  BY <1>0, ControlStep DEF ExecutorNext
<1>3. destroyed' \in [Guests -> Nat]
  BY DEF JoinExecutor, DestroyOwn, SchedulerDestroyed, GuestTypeOK
<1>4. GuestTypeOK' /\ OnePlace' /\ SomePlace' /\ OnlineGuests'
  BY <1>0, <1>1, <1>3, GuestsStay
<1>5. e \in stoppers
  BY <1>1 DEF StoppersStop, StopPcs
<1>6. DestroyedAfter'
  <2>1. CASE JoinExecutor(e)
    <3>1. exIndex[e] \in ExecutorIds /\ exIndex[e] # e /\ exPc'[e] = "signal"
      BY <2>1, ExecutorAssumption
      DEF JoinExecutor, JoinedExited, ControlTypeOK, ExecutorIds, Does
    <3>2. exIndex'[e] > exIndex[e]
      BY <2>1, <3>1, ExecutorAssumption
      DEF JoinExecutor, Following, ControlTypeOK, ExecutorIds
    <3>3. exIndex[e] \notin Emptied(e) /\ exIndex[e] \in Emptied(e)'
      BY <2>1, <3>1, <3>2, ExecutorAssumption DEF JoinExecutor, Emptied, Joined, ExecutorIds
    <3> QED BY <2>1, <3>1, <3>3, <1>0, <1>5, DestroyKeeps DEF JoinExecutor
  <2>2. CASE DestroyOwn(e)
    <3>1. e \notin Emptied(e) /\ e \in Emptied(e)'
      BY <2>2 DEF DestroyOwn, Emptied, Joined, Does, ControlTypeOK
    <3> QED BY <2>2, <3>1, <1>0, <1>5, DestroyKeeps DEF DestroyOwn
  <2> QED BY <2>1, <2>2
<1> QED BY <1>2, <1>4, <1>6

\* scheduler_stop destroys the guests that nobody held.
LEMMA EmptyingKeepsGuests ==
    ASSUME GuestInv, NEW e \in ExecutorIds, scheduler_stop(e)
    PROVE  GuestInv'
<1> USE DEF GuestInv
<1>0. ExecutorStep(e)
  BY DEF ExecutorStep, GuestStep, RuntimeStep
<1>1. ControlInv'
  BY <1>0, ControlStep DEF ExecutorNext
<1>2. GuestTypeOK' /\ SomePlace'
  BY DEF scheduler_stop, GuestTypeOK, SomePlace
<1>3. OnePlace'
  <2>1. \A i \in ExecutorIds, g \in Guests : Holds(i, g) <=> Holds(i, g)'
    BY DEF Holds, Queued, scheduler_stop
  <2> QED BY <2>1 DEF OnePlace, Queued, scheduler_stop
<1>4. OnlineGuests'
  <2>1. 0 \in ExecutorIds
    BY ExecutorAssumption DEF ExecutorIds
  <2>2. /\ exPc'[e] = "exited"
        /\ \A f \in ExecutorIds \ {e} : exPc'[f] = exPc[f]
    BY <1>0, OthersStay DEF scheduler_stop, Does, ControlInv, ControlTypeOK
  <2> QED BY <2>1, <2>2 DEF OnlineGuests, scheduler_stop, StartPcs, GuestPcs
<1>5. DestroyedAfter'
  <2> SUFFICES ASSUME \A f, h \in stoppers : f = h, NEW g \in Guests
               PROVE  destroyed'[g] <= 1
    BY DEF DestroyedAfter, scheduler_stop
  <2>1. destroyed[g] \in Nat /\ destroyed[g] <= 1
    BY DEF GuestTypeOK, DestroyedAfter
  <2>2. shareUp /\ stoppers \subseteq ExecutorIds
    BY <1>0, OthersStay DEF ControlInv, ControlTypeOK
  <2>3. CASE g \in workshare /\ destroyed[g] > 0
    <3>1. PICK f \in stoppers : \E i \in Emptied(f) : Holds(i, g)
      BY <2>2, <2>3 DEF DestroyedAfter
    <3> QED BY <3>1, <2>2, <2>3, EmptiedRunNothing DEF OnePlace
  <2> QED BY <2>1, <2>3 DEF scheduler_stop
<1> QED BY <1>1, <1>2, <1>3, <1>4, <1>5

\* executor_init_state: executor 0 creates the first guest.
LEMMA OnlineKeepsGuests ==
    ASSUME GuestInv, NEW e \in ExecutorIds, executor_init_state(e)
    PROVE  GuestInv'
<1> USE ExecutorAssumption DEF GuestInv
<1>0. ExecutorStep(e) /\ exPc[e] = "init"
      /\ UNCHANGED <<workshare, shareUp, destroyed, stoppers>>
  BY DEF ExecutorStep, GuestStep, RuntimeStep, executor_init_state
<1>1. ControlInv'
  BY <1>0, ControlStep DEF ExecutorNext
<1>2. exQueue' = exQueue /\ exCurr[e] = NoGuest /\ exQueue[e] = <<>>
  BY <1>0 DEF executor_init_state, OnlineGuests, GuestTypeOK
<1>3. exPc'[e] \in {"guest", "cycle"} /\ \A f \in ExecutorIds \ {e} : exPc'[f] = exPc[f]
  BY <1>0, OthersStay DEF executor_init_state, Does, ControlInv, ControlTypeOK
<1>4. CASE e = 0 /\ exCurr' = [exCurr EXCEPT ![e] = MainGuest]
           /\ created' = created \cup {MainGuest}
  <2>1. created = {}
    BY <1>0, <1>4 DEF OnlineGuests
  <2>2. \A f \in ExecutorIds, g \in Guests : ~Holds(f, g) /\ g \notin workshare
    BY <2>1 DEF OnePlace
  <2>3. /\ exCurr'[e] = MainGuest
        /\ \A f \in ExecutorIds \ {e} : exCurr'[f] = exCurr[f]
        /\ \A f \in ExecutorIds : Queued(f)' = Queued(f)
    BY <1>2, <1>4 DEF GuestTypeOK, Queued
  <2>4. \A f \in ExecutorIds, g \in Guests : Holds(f, g)' <=> f = e /\ g = MainGuest
    BY <2>2, <2>3 DEF Holds
  <2>5. GuestTypeOK'
    BY <1>0, <1>2, <1>4 DEF GuestTypeOK
  <2>6. OnePlace'
    <3>1. \A f \in ExecutorIds, g \in Guests : g \notin Queued(f)'
      BY <2>2, <2>3 DEF Holds
    <3>2. \A f \in ExecutorIds : Once(exQueue'[f])
      BY <1>2 DEF OnePlace
    <3> QED BY <3>1, <3>2, <1>0, <1>4, <2>2, <2>4 DEF OnePlace
  <2>7. SomePlace'
    BY <1>4, <2>1, <2>4 DEF SomePlace
  <2>8. OnlineGuests'
    BY <1>2, <1>3, <1>4, <2>3 DEF OnlineGuests, StartPcs, GuestPcs
  <2>9. DestroyedAfter'
    BY <1>0, <2>2, DestroyedStay
  <2> QED BY <1>1, <2>5, <2>6, <2>7, <2>8, <2>9
<1>5. CASE e # 0 /\ exCurr' = [exCurr EXCEPT ![e] = NoGuest] /\ UNCHANGED created
           /\ exPc'[e] = "cycle"
  <2>1. exCurr' = exCurr
    BY <1>2, <1>5 DEF GuestTypeOK
  <2>2. \A i \in ExecutorIds, g \in Guests : Holds(i, g) <=> Holds(i, g)'
    BY <1>2, <2>1 DEF Holds, Queued
  <2>3. GuestTypeOK' /\ OnePlace' /\ SomePlace'
    BY <1>0, <1>2, <1>5, <2>1, <2>2 DEF GuestTypeOK, OnePlace, SomePlace, Queued
  <2>4. OnlineGuests'
    BY <1>2, <1>3, <1>5, <2>1 DEF OnlineGuests, StartPcs, GuestPcs, ExecutorIds
  <2>5. DestroyedAfter'
    BY <1>0, <2>2, DestroyedStay
  <2> QED BY <1>1, <2>3, <2>4, <2>5
<1> QED BY <1>4, <1>5 DEF executor_init_state, Does, ControlInv, ControlTypeOK

\* A guest makes another one runnable.
LEMMA ActivateKeepsGuests ==
    ASSUME GuestInv, NEW e \in ExecutorIds, Activate(e)
    PROVE  GuestInv'
<1> USE DEF GuestInv
<1>0. ExecutorStep(e) /\ UNCHANGED <<exCurr, exQueue, shareUp, destroyed, stoppers>>
      /\ exPc[e] = "guest" /\ exPc'[e] = "wake"
  BY DEF ExecutorStep, GuestStep, RuntimeStep, Activate, Does, ControlInv, ControlTypeOK
<1>1. ControlInv'
  BY <1>0, ControlStep DEF ExecutorNext
<1>2. PICK g \in Guests \ created :
          created' = created \cup {g} /\ workshare' = workshare \cup {g}
  BY DEF Activate
<1>3. \A i \in ExecutorIds, h \in Guests : Holds(i, h) <=> Holds(i, h)'
  BY <1>0 DEF Holds, Queued
<1>4. GuestTypeOK'
  BY <1>0, <1>2 DEF GuestTypeOK
<1>5. OnePlace'
  BY <1>0, <1>2, <1>3 DEF OnePlace, Queued
<1>6. SomePlace'
  BY <1>0, <1>2, <1>3 DEF SomePlace, GuestTypeOK
<1>7. OnlineGuests'
  <2>1. exCurr[e] \in created
    BY <1>0 DEF OnlineGuests, OnePlace, Holds, GuestPcs
  <2>2. 0 \in ExecutorIds
    BY ExecutorAssumption DEF ExecutorIds
  <2>3. \A f \in ExecutorIds \ {e} : exPc'[f] = exPc[f]
    BY <1>0, OthersStay
  <2> QED BY <1>0, <2>1, <2>2, <2>3 DEF OnlineGuests, StartPcs, GuestPcs
<1>8. DestroyedAfter'
  BY <1>0, <1>3, DestroyedStay
<1> QED BY <1>1, <1>4, <1>5, <1>6, <1>7, <1>8
\* The queue at a switch (scheduler_cycle): what goes in and what comes out.
LEMMA QueueAppend ==
    ASSUME NEW S, NEW q \in Seq(S), NEW x \in S, Once(q), x \notin Elements(q)
    PROVE  /\ Append(q, x) \in Seq(S) /\ Once(Append(q, x))
           /\ Elements(Append(q, x)) = Elements(q) \cup {x}
<1>1. /\ Append(q, x) \in Seq(S)
      /\ Len(q) \in Nat /\ Len(Append(q, x)) = Len(q) + 1
      /\ \A n \in 1 .. Len(q) : Append(q, x)[n] = q[n]
      /\ Append(q, x)[Len(q) + 1] = x
  OBVIOUS
<1>2. 1 .. Len(q) + 1 = (1 .. Len(q)) \cup {Len(q) + 1}
  BY <1>1
<1>3. \A n \in 1 .. Len(q) : q[n] # x
  BY DEF Elements
<1>4. Once(Append(q, x))
  BY <1>1, <1>2, <1>3 DEF Once
<1>5. Elements(Append(q, x)) = Elements(q) \cup {x}
  BY <1>1, <1>2 DEF Elements
<1> QED BY <1>1, <1>4, <1>5

\* The guest taken from a queue without repetitions is no longer in it.
LEMMA QueueHeadTail ==
    ASSUME NEW S, NEW q \in Seq(S), q # <<>>, Once(q)
    PROVE  /\ Tail(q) \in Seq(S) /\ Once(Tail(q))
           /\ Head(q) \in S \ Elements(Tail(q))
           /\ Elements(q) = Elements(Tail(q)) \cup {Head(q)}
<1>1. /\ Tail(q) \in Seq(S) /\ Head(q) \in S /\ Head(q) = q[1]
      /\ Len(q) \in Nat /\ Len(q) > 0 /\ Len(Tail(q)) = Len(q) - 1
      /\ \A n \in 1 .. Len(Tail(q)) : Tail(q)[n] = q[n + 1]
  BY HeadTailProperties, EmptySeq
<1>2. \A n \in 1 .. Len(Tail(q)) : n + 1 \in 1 .. Len(q) /\ n + 1 # 1
  BY <1>1
<1>3. \A n \in 1 .. Len(q) : n = 1 \/ (n - 1 \in 1 .. Len(Tail(q)) /\ q[n] = Tail(q)[n - 1])
  BY <1>1
<1>4. 1 \in 1 .. Len(q)
  BY <1>1
<1>5. Once(Tail(q))
  <2> SUFFICES ASSUME NEW m \in 1 .. Len(Tail(q)), NEW n \in 1 .. Len(Tail(q)),
                      Tail(q)[m] = Tail(q)[n]
               PROVE  m = n
    BY DEF Once
  <2>1. m + 1 = n + 1
    BY <1>1, <1>2 DEF Once
  <2> QED BY <2>1
<1>6. Head(q) \notin Elements(Tail(q))
  BY <1>1, <1>2, <1>4 DEF Once, Elements
<1>7. Elements(q) = Elements(Tail(q)) \cup {Head(q)}
  <2>1. ASSUME NEW n \in 1 .. Len(q)
        PROVE  q[n] \in Elements(Tail(q)) \cup {Head(q)}
    BY <1>1, <1>3 DEF Elements
  <2>2. ASSUME NEW n \in 1 .. Len(Tail(q))
        PROVE  Tail(q)[n] \in Elements(q)
    BY <1>1, <1>2 DEF Elements
  <2>3. Head(q) \in Elements(q)
    BY <1>1, <1>4 DEF Elements
  <2>4. Elements(q) \subseteq Elements(Tail(q)) \cup {Head(q)}
    BY <2>1 DEF Elements
  <2>5. Elements(Tail(q)) \subseteq Elements(q)
    BY <2>2 DEF Elements
  <2> QED BY <2>3, <2>4, <2>5
<1> QED BY <1>1, <1>5, <1>6, <1>7

\* scheduler_cycle: the guest that ran last goes to the end of the queue, the
\* head of which or one of the workshare is next.
LEMMA NextKeepsGuests ==
    ASSUME GuestInv, NEW e \in ExecutorIds, NextGuest(e)
    PROVE  GuestInv'
<1> USE ExecutorAssumption DEF GuestInv
<1> DEFINE q == exQueue[e]
           queue == IF exCurr[e] = NoGuest THEN q ELSE Append(q, exCurr[e])
<1>0. /\ ExecutorStep(e) /\ UNCHANGED <<shareUp, created, destroyed, stoppers>>
      /\ exPc[e] = "next" /\ exPc'[e] \in {"guest", "idle"}
      /\ \A f \in ExecutorIds \ {e} : exPc'[f] = exPc[f]
  <2>1. ExecutorStep(e) /\ UNCHANGED <<shareUp, created, destroyed, stoppers>>
        /\ exPc[e] = "next" /\ exPc'[e] \in {"guest", "idle"}
    BY DEF ExecutorStep, GuestStep, RuntimeStep, NextGuest, Does, ControlInv, ControlTypeOK
  <2> QED BY <2>1, OthersStay
<1>1. ControlInv'
  BY <1>0, ControlStep DEF ExecutorNext
\* The queue has the guests that the executor held, each once.
<1>2. /\ queue \in Seq(Guests) /\ Once(queue)
      /\ \A g \in Guests : Holds(e, g) <=> g \in Elements(queue)
  <2>1. q \in Seq(Guests) /\ Once(q) /\ exCurr[e] \in Guests \cup {NoGuest}
    BY DEF GuestTypeOK, OnePlace
  <2>2. CASE exCurr[e] = NoGuest
    BY <2>1, <2>2 DEF Holds, Queued
  <2>3. CASE exCurr[e] \in Guests
    <3>1. exCurr[e] \notin Elements(q)
      BY <2>3 DEF OnePlace, Queued
    <3> QED BY <2>1, <2>3, <3>1, QueueAppend DEF Holds, Queued
  <2> QED BY <2>1, <2>2, <2>3
<1>3. queue = <<>> => exCurr[e] = NoGuest /\ exQueue[e] = <<>>
  <2>1. q \in Seq(Guests)
    BY DEF GuestTypeOK
  <2>2. exCurr[e] # NoGuest => Len(queue) = Len(q) + 1 /\ Len(q) \in Nat
    BY <2>1
  <2>3. Len(<<>>) = 0
    OBVIOUS
  <2> QED BY <2>2, <2>3
\* What it holds afterwards, and the other executors.
<1>4. ASSUME NEW taken \in SUBSET workshare,
             workshare' = workshare \ taken,
             \A g \in Guests : Holds(e, g)' <=> Holds(e, g) \/ g \in taken,
             \A g, h \in taken : g = h,
             \A g \in Guests : ~(exCurr'[e] = g /\ g \in Queued(e)'),
             exCurr'[e] \in Guests \cup {NoGuest}, exQueue'[e] \in Seq(Guests),
             Once(exQueue'[e]),
             exPc'[e] = "guest" => exCurr'[e] \in Guests,
             exCurr' = [exCurr EXCEPT ![e] = exCurr'[e]],
             exQueue' = [exQueue EXCEPT ![e] = exQueue'[e]]
      PROVE  GuestInv'
  <2>1. /\ \A f \in ExecutorIds \ {e} : exCurr'[f] = exCurr[f] /\ exQueue'[f] = exQueue[f]
        /\ \A f \in ExecutorIds \ {e} : Queued(f)' = Queued(f)
        /\ \A f \in ExecutorIds \ {e} : \A g \in Guests : Holds(f, g)' <=> Holds(f, g)
    BY <1>4 DEF GuestTypeOK, Holds, Queued
  <2>2. GuestTypeOK'
    BY <1>0, <1>4 DEF GuestTypeOK
  <2>3. OnePlace'
    <3>1. ASSUME NEW g \in Guests
          PROVE  /\ \A d, f \in ExecutorIds : Holds(d, g)' /\ Holds(f, g)' => d = f
                 /\ \A f \in ExecutorIds : Holds(f, g)' => g \in created' \ workshare'
                 /\ g \in workshare' => g \in created'
      BY <1>0, <1>4, <2>1 DEF OnePlace
    <3>2. \A g \in Guests : \A f \in ExecutorIds : ~(exCurr'[f] = g /\ g \in Queued(f)')
      BY <1>4, <2>1 DEF OnePlace
    <3>3. \A f \in ExecutorIds : Once(exQueue'[f])
      BY <1>4, <2>1 DEF OnePlace
    <3> QED BY <3>1, <3>2, <3>3 DEF OnePlace
  <2>4. SomePlace'
    <3>1. ASSUME shareUp, NEW g \in created \ workshare'
          PROVE  \E f \in ExecutorIds : Holds(f, g)'
      <4>1. g \in Guests
        BY DEF GuestTypeOK
      <4>2. CASE g \in taken
        BY <1>4, <4>1, <4>2
      <4>3. CASE g \notin workshare
        <5>1. PICK f \in ExecutorIds : Holds(f, g)
          BY <3>1, <4>3 DEF SomePlace
        <5> QED BY <1>4, <2>1, <4>1, <5>1
      <4> QED BY <1>4, <3>1, <4>2, <4>3
    <3> QED BY <1>0, <3>1 DEF SomePlace
  <2>5. OnlineGuests'
    <3>1. 0 \in ExecutorIds
      BY DEF ExecutorIds
    <3> QED BY <3>1, <1>0, <1>4, <2>1 DEF OnlineGuests, StartPcs, GuestPcs
  <2>6. DestroyedAfter'
    <3>1. \A i \in ExecutorIds, g \in Guests : Holds(i, g) => Holds(i, g)'
      BY <1>4, <2>1
    <3> QED BY <3>1, <1>0, DestroyedStay
  <2> QED BY <1>1, <2>2, <2>3, <2>4, <2>5, <2>6
<1>5. CASE /\ queue # <<>>
           /\ exCurr' = [exCurr EXCEPT ![e] = Head(queue)]
           /\ exQueue' = [exQueue EXCEPT ![e] = Tail(queue)]
           /\ UNCHANGED workshare
  <2>1. exCurr'[e] = Head(queue) /\ exQueue'[e] = Tail(queue)
    BY <1>5 DEF GuestTypeOK
  <2> HIDE DEF queue
  <2>2. /\ Tail(queue) \in Seq(Guests) /\ Once(Tail(queue))
        /\ Head(queue) \in Guests \ Elements(Tail(queue))
        /\ Elements(queue) = Elements(Tail(queue)) \cup {Head(queue)}
    BY <1>2, <1>5, QueueHeadTail
  <2>3. \A g \in Guests : Holds(e, g)' <=> Holds(e, g) \/ g \in {}
    BY <1>2, <2>1, <2>2 DEF Holds, Queued
  <2>4. \A g \in Guests : ~(exCurr'[e] = g /\ g \in Queued(e)')
    BY <2>1, <2>2 DEF Queued
  <2>5. workshare' = workshare \ {} /\ exCurr' = [exCurr EXCEPT ![e] = exCurr'[e]]
        /\ exQueue' = [exQueue EXCEPT ![e] = exQueue'[e]]
    BY <1>5, <2>1
  <2>6. exCurr'[e] \in Guests \cup {NoGuest} /\ exQueue'[e] \in Seq(Guests)
        /\ Once(exQueue'[e]) /\ (exPc'[e] = "guest" => exCurr'[e] \in Guests)
    BY <2>1, <2>2
  <2>7. {} \in SUBSET workshare /\ \A g, h \in {} : g = h
    OBVIOUS
  <2> QED BY <1>4, <2>3, <2>4, <2>5, <2>6, <2>7
<1>6. ASSUME NEW g \in workshare,
             workshare' = workshare \ {g},
             exCurr' = [exCurr EXCEPT ![e] = g],
             exQueue' = [exQueue EXCEPT ![e] = queue]
      PROVE  GuestInv'
  <2>1. exCurr'[e] = g /\ exQueue'[e] = queue /\ g \in Guests
    BY <1>6 DEF GuestTypeOK
  <2> HIDE DEF queue
  <2>2. \A h \in Guests : Holds(e, h)' <=> Holds(e, h) \/ h \in {g}
    BY <1>2, <2>1 DEF Holds, Queued
  <2>3. \A h \in Guests : ~(exCurr'[e] = h /\ h \in Queued(e)')
    <3>1. ~Holds(e, g)
      BY <1>6, <2>1 DEF OnePlace
    <3> QED BY <1>2, <2>1, <3>1 DEF Queued
  <2>4. exCurr' = [exCurr EXCEPT ![e] = exCurr'[e]]
        /\ exQueue' = [exQueue EXCEPT ![e] = exQueue'[e]]
    BY <1>6, <2>1
  <2>5. exCurr'[e] \in Guests \cup {NoGuest} /\ exQueue'[e] \in Seq(Guests)
        /\ Once(exQueue'[e]) /\ (exPc'[e] = "guest" => exCurr'[e] \in Guests)
    BY <1>2, <2>1
  <2>6. {g} \in SUBSET workshare /\ \A h, k \in {g} : h = k
    OBVIOUS
  <2> QED BY <1>4, <1>6, <2>2, <2>3, <2>4, <2>5, <2>6
<1>7. CASE /\ queue = <<>>
           /\ exCurr' = [exCurr EXCEPT ![e] = NoGuest]
           /\ UNCHANGED <<exQueue, workshare>>
           /\ exPc'[e] = "idle"
  <2>1. exCurr' = exCurr /\ exCurr[e] = NoGuest
    BY <1>3, <1>7 DEF GuestTypeOK
  <2>2. \A g \in Guests : Holds(e, g)' <=> Holds(e, g) \/ g \in {}
    BY <1>7, <2>1 DEF Holds, Queued
  <2>3. workshare' = workshare \ {} /\ exQueue' = [exQueue EXCEPT ![e] = exQueue'[e]]
        /\ exCurr' = [exCurr EXCEPT ![e] = exCurr'[e]]
    BY <1>7, <2>1 DEF GuestTypeOK
  <2>4. /\ \A g \in Guests : ~(exCurr'[e] = g /\ g \in Queued(e)')
        /\ exCurr'[e] \in Guests \cup {NoGuest} /\ exQueue'[e] \in Seq(Guests)
        /\ Once(exQueue'[e]) /\ (exPc'[e] = "guest" => exCurr'[e] \in Guests)
    BY <1>7, <2>1 DEF GuestTypeOK, OnePlace
  <2>5. {} \in SUBSET workshare /\ \A g, h \in {} : g = h
    OBVIOUS
  <2> QED BY <1>4, <2>2, <2>3, <2>4, <2>5
<1> QED
  <2>1. \/ /\ queue # <<>>
           /\ exCurr' = [exCurr EXCEPT ![e] = Head(queue)]
           /\ exQueue' = [exQueue EXCEPT ![e] = Tail(queue)]
           /\ UNCHANGED workshare
        \/ \E g \in workshare :
               /\ workshare' = workshare \ {g}
               /\ exCurr' = [exCurr EXCEPT ![e] = g]
               /\ exQueue' = [exQueue EXCEPT ![e] = queue]
        \/ /\ queue = <<>>
           /\ exCurr' = [exCurr EXCEPT ![e] = NoGuest]
           /\ UNCHANGED <<exQueue, workshare>>
           /\ exPc'[e] = "idle"
    BY DEF NextGuest, Does, ControlInv, ControlTypeOK
  <2> QED BY <2>1, <1>5, <1>6, <1>7

\* Every step of an OS thread keeps GuestInv.
LEMMA GuestInvStep == GuestInv /\ [ExecutorNext]_executorVars => GuestInv'
<1> SUFFICES ASSUME GuestInv, [ExecutorNext]_executorVars PROVE GuestInv'
  OBVIOUS
<1>0. ControlInv'
  BY ControlStep DEF GuestInv
<1>1. CASE UNCHANGED executorVars \/ SignalThreadStep \/ SetupStep
  <2> USE DEF GuestInv
  <2>0. UNCHANGED <<guestVars, stoppers>>
    BY <1>1 DEF executorVars, SignalThreadStep, SetupStep, StartSignalThread, SetLive,
                CreateWorker, guestVars
  <2>1. /\ \A f \in ExecutorIds : exPc[f] \notin StartPcs \cup {"none"} =>
               exPc'[f] = exPc[f] /\ exIndex'[f] = exIndex[f]
        /\ \A f \in ExecutorIds : exPc[f] \in StartPcs \cup {"none"} =>
               exPc'[f] \in StartPcs \cup {"none", "init"}
    <3>1. CASE SetupStep
      BY <3>1, SetupChanges
    <3>2. CASE UNCHANGED executorVars \/ SignalThreadStep
      BY <3>2 DEF executorVars, SignalThreadStep
    <3> QED BY <1>1, <3>1, <3>2
  <2>2. \A i \in ExecutorIds, g \in Guests : Holds(i, g) <=> Holds(i, g)'
    BY <2>0 DEF Holds, Queued, guestVars
  <2>3. GuestTypeOK' /\ OnePlace' /\ SomePlace'
    BY <2>0, <2>2 DEF guestVars, GuestTypeOK, OnePlace, SomePlace, Queued
  <2>4. OnlineGuests'
    <3>1. 0 \in ExecutorIds
      BY ExecutorAssumption DEF ExecutorIds
    <3> QED BY <3>1, <2>0, <2>1 DEF OnlineGuests, guestVars, StartPcs, GuestPcs
  <2>5. \A f \in ExecutorIds : Emptied(f) \subseteq Emptied(f)'
    BY <2>1 DEF Emptied, Joined, StartPcs
  <2>6. stoppers \subseteq ExecutorIds
    BY DEF ControlInv, ControlTypeOK
  <2>7. DestroyedAfter'
    BY <2>0, <2>2, <2>5, <2>6, EmptiedRunNothing DEF DestroyedAfter, guestVars
  <2> QED BY <1>0, <2>3, <2>4, <2>7
<1>2. ASSUME NEW e \in ExecutorIds, ExecutorStep(e) PROVE GuestInv'
  BY <1>2, QuietKeepsGuests, DestroyingKeepsGuests, EmptyingKeepsGuests, OnlineKeepsGuests,
     ActivateKeepsGuests, NextKeepsGuests DEF ExecutorStep, GuestStep, RuntimeStep
<1> QED BY <1>1, <1>2 DEF ExecutorNext
-----------------------------------------------------------------------------
(* The theorems about the guests.                                          *)

\* The queue of an executor is no longer than there are guests.
LEMMA QueueIsShort ==
    ASSUME NEW q \in Seq(Guests), Once(q) PROVE Len(q) <= Cardinality(Guests)
<1>1. Len(q) \in Nat /\ q \in [1 .. Len(q) -> Guests]
  BY LenProperties
<1>2. IsFiniteSet(1 .. Len(q)) /\ Cardinality(1 .. Len(q)) = Len(q)
  BY <1>1, FS_Interval
<1>3. IsFiniteSet(Guests) /\ Cardinality(Guests) \in Nat
  BY ExecutorAssumption, FS_CardinalityType
<1>4. CASE Cardinality(Guests) < Len(q)
  <2>1. \E m, n \in 1 .. Len(q) : m # n /\ q[m] = q[n]
    BY <1>1, <1>2, <1>3, <1>4, FS_PigeonHole
  <2> QED BY <2>1 DEF Once
<1> QED BY <1>1, <1>3, <1>4

\* A set has one element if it has any.
LEMMA AtMostOne ==
    ASSUME NEW S, NEW P, \A x, y \in S : x = y, (\E x : x \in S) <=> P
    PROVE  Cardinality(S) = IF P THEN 1 ELSE 0
<1>1. CASE \E x : x \in S
  <2>1. PICK x : S = {x}
    BY <1>1
  <2> QED BY <2>1, <1>1, FS_Singleton
<1>2. CASE ~ \E x : x \in S
  <2>1. S = {}
    BY <1>2
  <2> QED BY <2>1, <1>2, FS_EmptySet
<1> QED BY <1>1, <1>2

\* The inductive invariant, in every reachable state of the executors: an exited
\* executor stays so, and every guest is in one place.
THEOREM GuestInvariant == ExecutorSpec => []GuestInv
BY GuestInit, GuestInvStep, PTL DEF ExecutorSpec

\* No guest is lost or duplicated while executors come online, sleep, run and
\* stop, none is destroyed twice by one shutdown, and none while an executor
\* that was not joined has it as its current one: for any number of executors,
\* guests and calls of executor_stop.
THEOREM GuestsSafe == ExecutorSpec => []GuestsDestroyedOnce
<1>1. GuestInv => GuestsDestroyedOnce
  <2> SUFFICES ASSUME GuestInv PROVE GuestsDestroyedOnce
    OBVIOUS
  <2> USE DEF GuestInv
  <2> DEFINE running(g) == {e \in ExecutorIds : exCurr[e] = g}
             waiting(g) == {p \in ExecutorIds \X (1 .. Cardinality(Guests)) :
                               p[2] <= Len(exQueue[p[1]]) /\ exQueue[p[1]][p[2]] = g}
             shared(g) == {h \in workshare : h = g}
  <2>0. stoppers \subseteq ExecutorIds /\ IsFiniteSet(stoppers) /\ IsFiniteSet(ExecutorIds)
    <3>1. IsFiniteSet(ExecutorIds)
      BY ExecutorAssumption, FS_Interval DEF ExecutorIds
    <3> QED BY <3>1, FS_Subset DEF ControlInv, ControlTypeOK
  <2>1. ASSUME NEW g \in Guests, Cardinality(stoppers) <= 1
        PROVE  destroyed[g] <= 1
    <3>1. stoppers = {} \/ \E f : stoppers = {f}
      <4>1. Cardinality(stoppers) \in Nat
        BY <2>0, FS_CardinalityType
      <4>2. Cardinality(stoppers) = 0 \/ Cardinality(stoppers) = 1
        BY <2>1, <4>1
      <4> QED BY <2>0, <4>2, FS_EmptySet, FS_Singleton
    <3>2. \A f, h \in stoppers : f = h
      BY <3>1
    <3> QED BY <3>2 DEF DestroyedAfter
  <2>2. ASSUME NEW g \in created, shareUp
        PROVE  Cardinality(running(g)) + Cardinality(waiting(g)) + Cardinality(shared(g)) = 1
    <3>0. g \in Guests
      BY DEF GuestTypeOK
    <3>1. Cardinality(running(g)) = IF \E e \in ExecutorIds : exCurr[e] = g THEN 1 ELSE 0
      <4>1. \A d, e \in running(g) : d = e
        BY <3>0 DEF OnePlace, Holds
      <4> QED BY <4>1, AtMostOne
    <3>2. Cardinality(waiting(g)) = IF \E e \in ExecutorIds : g \in Queued(e) THEN 1 ELSE 0
      <4>1. ASSUME NEW p \in waiting(g)
            PROVE  /\ p[1] \in ExecutorIds /\ p[2] \in 1 .. Len(exQueue[p[1]])
                   /\ exQueue[p[1]][p[2]] = g /\ p = <<p[1], p[2]>>
                   /\ g \in Queued(p[1])
        <5>1. p[1] \in ExecutorIds /\ p[2] \in 1 .. Cardinality(Guests) /\ p = <<p[1], p[2]>>
              /\ p[2] <= Len(exQueue[p[1]]) /\ exQueue[p[1]][p[2]] = g
          OBVIOUS
        <5>2. Len(exQueue[p[1]]) \in Nat /\ Cardinality(Guests) \in Nat
          BY <5>1, ExecutorAssumption, FS_CardinalityType, LenProperties DEF GuestTypeOK
        <5>3. p[2] \in 1 .. Len(exQueue[p[1]])
          BY <5>1, <5>2
        <5> QED BY <5>1, <5>3 DEF Queued, Elements
      <4>2. ASSUME NEW p \in waiting(g), NEW r \in waiting(g) PROVE p = r
        <5>1. p[1] = r[1]
          BY <4>1, <3>0 DEF OnePlace, Holds
        <5>2. p[2] = r[2]
          BY <4>1, <5>1 DEF OnePlace, Once
        <5>3. p = <<p[1], p[2]>> /\ r = <<r[1], r[2]>>
          BY <4>1
        <5> QED BY <5>1, <5>2, <5>3
      <4>3. ASSUME NEW e \in ExecutorIds, g \in Queued(e) PROVE \E p : p \in waiting(g)
        <5>1. PICK n \in 1 .. Len(exQueue[e]) : exQueue[e][n] = g
          BY <4>3 DEF Queued, Elements
        <5>2. Len(exQueue[e]) \in Nat /\ Len(exQueue[e]) <= Cardinality(Guests)
              /\ Cardinality(Guests) \in Nat
          BY QueueIsShort, LenProperties, ExecutorAssumption, FS_CardinalityType
          DEF GuestTypeOK, OnePlace
        <5>3. n \in 1 .. Cardinality(Guests) /\ n <= Len(exQueue[e])
          BY <5>2
        <5>4. <<e, n>> \in waiting(g)
          BY <5>1, <5>3
        <5> QED BY <5>4
      <4>4. (\E p : p \in waiting(g)) <=> \E e \in ExecutorIds : g \in Queued(e)
        BY <4>1, <4>3
      <4> HIDE DEF waiting
      <4> QED BY <4>2, <4>4, AtMostOne
    <3>3. Cardinality(shared(g)) = IF g \in workshare THEN 1 ELSE 0
      <4>1. \A h, k \in shared(g) : h = k
        OBVIOUS
      <4> QED BY <4>1, AtMostOne
    <3> HIDE DEF running, waiting, shared
    <3>4. CASE g \in workshare
      <4>1. \A e \in ExecutorIds : ~Holds(e, g)
        BY <3>0, <3>4 DEF OnePlace
      <4> QED BY <3>1, <3>2, <3>3, <3>4, <4>1 DEF Holds
    <3>5. CASE g \notin workshare
      <4>1. PICK e \in ExecutorIds : Holds(e, g)
        BY <2>2, <3>5 DEF SomePlace
      <4>2. \A f \in ExecutorIds : Holds(f, g) => f = e
        BY <3>0, <4>1 DEF OnePlace
      <4>3. ~(exCurr[e] = g /\ g \in Queued(e))
        BY <3>0 DEF OnePlace
      <4> QED BY <3>1, <3>2, <3>3, <3>5, <4>1, <4>2, <4>3 DEF Holds
    <3> QED BY <3>4, <3>5
  <2>3. ASSUME NEW g \in Guests, NEW e \in ExecutorIds, exCurr[e] = g, destroyed[g] > 0
        PROVE  Exited(e) \/ e \in stoppers
    <3>1. CASE ~shareUp
      BY <3>1 DEF ControlInv, ShareOutlivesExecutors
    <3>2. CASE shareUp
      <4>1. PICK f \in stoppers : \E i \in Emptied(f) : Holds(i, g)
        BY <2>3, <3>2 DEF DestroyedAfter
      <4>2. PICK i \in Emptied(f) : Holds(i, g)
        BY <4>1
      <4>3. i \in ExecutorIds /\ exPc[i] \in {"exited", "empty"}
        BY <2>0, EmptiedRunNothing
      <4>4. i = e
        BY <2>3, <4>2, <4>3 DEF OnePlace, Holds
      <4> QED BY <4>3, <4>4 DEF Exited, ControlInv, StoppersStop, StopPcs
    <3> QED BY <3>1, <3>2 DEF ControlInv, ControlTypeOK
  <2> QED BY <2>1, <2>2, <2>3 DEF GuestsDestroyedOnce
<1> QED BY <1>1, GuestInvariant, PTL
=============================================================================
