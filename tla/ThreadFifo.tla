----------------------------- MODULE ThreadFifo -----------------------------
(***************************************************************************)
(* What cc/lf_thread_queue.h promises of the workshare queue: a FIFO whose *)
(* enqueue and dequeue are atomic, for any number of executors.            *)
(***************************************************************************)
EXTENDS Sequences

CONSTANTS
    FifoExecs,      \* the executors that use the queue
    FifoThreads,    \* the threads that go through it
    NoFifoThread    \* NULL

VARIABLES
    queue,          \* the threads in the queue, oldest first
    held,           \* held[e]: the thread e is about to enqueue or has dequeued
    outside         \* the threads in neither place

fifoVars == <<queue, held, outside>>

FifoInit ==
    /\ queue = <<>>
    /\ held = [e \in FifoExecs |-> NoFifoThread]
    /\ outside = FifoThreads

\* e is asked to enqueue t.
Accept(e, t) ==
    /\ held[e] = NoFifoThread
    /\ t \in outside
    /\ held' = [held EXCEPT ![e] = t]
    /\ outside' = outside \ {t}
    /\ UNCHANGED queue

Enqueue(e) ==
    /\ held[e] # NoFifoThread
    /\ queue' = Append(queue, held[e])
    /\ held' = [held EXCEPT ![e] = NoFifoThread]
    /\ UNCHANGED outside

Dequeue(e) ==
    /\ held[e] = NoFifoThread
    /\ queue # <<>>
    /\ held' = [held EXCEPT ![e] = Head(queue)]
    /\ queue' = Tail(queue)
    /\ UNCHANGED outside

\* e returns the thread it dequeued.
Deliver(e) ==
    /\ held[e] # NoFifoThread
    /\ outside' = outside \cup {held[e]}
    /\ held' = [held EXCEPT ![e] = NoFifoThread]
    /\ UNCHANGED queue

\* The thread that e was asked to enqueue is in none of the places any more.
\* The atomic FIFO has no such step.
Lose(e) ==
    /\ held[e] # NoFifoThread
    /\ held' = [held EXCEPT ![e] = NoFifoThread]
    /\ UNCHANGED <<queue, outside>>

FifoNext ==
    \E e \in FifoExecs :
        \/ \E t \in FifoThreads : Accept(e, t)
        \/ Enqueue(e) \/ Dequeue(e) \/ Deliver(e)

FifoSpec == FifoInit /\ [][FifoNext]_fifoVars
=============================================================================
