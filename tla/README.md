# Verification of the runtime: scheduler, executors, queues, memory

The repository is the runtime system of a concurrent functional language: an
M:N thread scheduler, a parallel copying collector and an unmanaged allocator,
all built on compare-and-set ("synchronization is achieved entirely through
lock-free algorithms and data structures", `README.md`).
This directory holds TLA+ models of its parts, the TLC configurations that check
them on small instances, and TLAPS proofs for every instance of the scheduler, the
executors, the collector's phases, the three lock-free queues, and the allocator's slices,
size classes and packed words.
Paths below are relative to `src/`.

## 1. Inventory

| Component | Source | State | Operations | Status |
|---|---|---|---|---|
| Thread scheduler | `src/cc/noninteract_scheduler.c` | shared `sched_workshare`, `sched_active_threads`; per executor a local queue, `sch_num_threads`, `sch_curr_thread` | `scheduler_cycle`, activate, deactivate, update, result; start, init, stop, destroy | `Scheduler`; start and stop in `Executor` |
| Threads | `src/cc/thread.c`, `include/cc/thread.h` | `t_sched_stat_ref` (status and `T_REF`), mailbox, `thread_num` | init, destroy, accessors | `Scheduler`, without the accessors |
| Concurrency API | `src/cc/cc.c` | none | start, stop, create, destroy, update, cycle, safe-point | `Scheduler`, `Executor` |
| Executors | `src/cc/thread_executor.c` | `executor_live`, `ex_signal_mbox`, a pending OS signal | loop, idle thread, raise, restart idle; start-up, shutdown, signal thread | `Scheduler`, `Executor` |
| Workshare queue | `src/cc/lf_thread_queue.c` | Michael-Scott list, hazard pointers, retired nodes, private and shared node lists | enqueue, dequeue, retire, scan; node alloc and free | `LFThreadQueue`, `ThreadFifo`, `NodeAllocator` |
| Partial block queue | `src/mm/malloc/lf_block_queue.c` | as above, nodes in slices, one stack of free nodes | enqueue, dequeue, scan in batches, new pages of nodes | `LFBlockQueue` |
| Object queue | `src/mm/gc/lf_object_queue.c` | as the workshare queue | as the workshare queue | `LFObjectQueue`, `NodeAllocator` |
| Collector threads | `src/mm/gc/gc_thread.c` | `gc_state`, generations, three barriers | phases, barriers, yield; claiming and copying | `GcPhases`, without claiming and copying |
| Collector allocation | `src/mm/gc/gc_alloc.c` | per-executor allocators, slice lists | alloc, trigger, release | the trigger, in `GcPhases` |
| Unmanaged allocator | `src/mm/malloc/lf_malloc.c`, `src/mm/arch/ia32/lf_malloc_data.c` | active and partial superblock of a heap, anchors, descriptors | malloc, free; packed words; size classes | `LFMalloc`, `MallocWords`, `SizeClasses` |
| Slices | `src/mm/slice.c` | free entries, three reservation counters | alloc, free, reserve, release | `Slice` |
| OS layer | `src/cc/os/posix`, `src/os/posix` | barrier count, signals | barrier, signal, join, memory | barrier in `GcPhases`, signals and joins in `Executor` |
| Start-up, launcher, loader, KSE executor, assembly | `src/launcher.c`, `src/runtime.c`, `src/mm/mm.c`, `src/os/freebsd`, `src/arch` | none shared | sequential, or wrappers of the OS or of one instruction | not modelled |

**How they interact.** A guest calls the API, which calls the scheduler on the
guest's executor. Activation puts the thread on the workshare and wakes one
idle executor by its mailbox and an OS signal; deactivation changes the status
and signals the executor named in the thread's mailbox. An executor whose
mailbox is set enters `scheduler_cycle` at the next safe-point: it acknowledges
the status of the current thread, replaces it from its local queue or the
workshare, balances its local queue against the workshare, and writes the new
thread's mailbox. An executor that finds nothing suspends in its idle thread.
The collector's phase is read by the status check; while a collection runs each
executor runs its collector thread in place of guests, and the collectors meet
at barriers. Below both lie the slices: superblocks, descriptors and nodes are
carved from them, and both queues of the memory manager repeat the workshare's
algorithm.

**What is hard.** Every shared word is changed by a CAS loop, so each function
works on values that may be stale. A thread is owned by whichever executor saw
`T_REF` unset in its CAS; nothing else keeps it from being in two queues or in
none. Waking an idle executor is a race of a mailbox bit, an OS signal and a
suspend; so is stopping it. The counters are unsigned and feed the balancing
decisions. A dequeued node may be freed while others still look at it. A block
is reserved by a credit in one word and taken from a list in another. A
collection is started by a store without a compare. The list, with lines and
the properties aimed at each, is `hazards` in `PROJECT.json`.

**What makes each component correct.** Scheduler: a thread is in one place
exactly while `T_REF` is set, dead threads stay dead, threads are freed once,
a deactivated thread is signalled, counters mean what they say. Executors: nobody
sleeps while there is work, all stop when one asks. Queue: atomic FIFO,
lock-free, no node lost or reused early. Collector: all executors are in the
same phase, an object is copied once. Allocators: no entry, descriptor or block
is handed out twice or lost, what is held stays mapped and reserved.

## 2. Modules and plan

| Layer | Modules | Composition |
|---|---|---|
| Scheduling | `Scheduler`; proofs in `SchedulerProofs`, `SchedulerThreadProofs` | uses the workshare by its promise |
| Queues | `ThreadFifo` (the promise), `LFThreadQueue` (the code), `LFBlockQueue`, `LFObjectQueue` (the same steps on other nodes), `NodeAllocator`; proofs in `LFThreadQueueProofs`, `WorkshareProofs`, `BlockQueueProofs`, `CollectorProofs` | `LFBlockQueue` and `LFObjectQueue` instantiate `LFThreadQueue`, and `LFBlockQueue` implements it; the workshare and the block queue are shown to implement `ThreadFifo` but for one kind of step |
| Memory | `Slice`, `LFMalloc`, `SizeClasses`, `MallocWords` on `Runtime`; proofs in `MemoryProofs` | `LFMalloc` uses slices and queue by their promise |
| Services | `Executor`, `GcPhases`; proofs in `ExecutorProofs`, `CollectorProofs` | `Executor` abstracts which guest runs next, `GcPhases` what a collector copies |

`MCScheduler`, `MCLFThreadQueue`, `MCQueues`, `MCMemory` and `MCLifeCycle` are
the instances for TLC. The last three put parts side by side that share no
state; their variable `which` or `component` says which one a behaviour runs, so
that one run checks each of them alone. `MCQueues` and `MCMemory` also have a history
variable `disturbed`, which remembers that one of the code's steps that break a
structure was taken (sections 4 and 5): the properties say what holds until then.

What is left, in order:

1. A proof of `SpaceCovered`: it is about sums over sets, which the community
   modules define by recursion, so that it needs induction over data.
   `CreditsMatchBlocks` and its neighbours in `LFMalloc` are false once a page of
   descriptors is used up (`desc_twice`) or a stale descriptor is popped, so a theorem
   about them would be about behaviours without either, like those of section 4.
2. Claiming and copying objects, once the code they are in is finished.
3. Store buffers for the words that are stored without a fence.

## 3. `Scheduler`

One process per executor, with a program counter `pc[e]`. A step is one access
to memory another executor can see, with the private code that follows.
Sequential consistency is assumed; on ia32 a store may still be buffered, which
the hazards list.

| Variable | Code |
|---|---|
| `sr[t]` | `t_sched_stat_ref`: the status and `T_REF` |
| `texec[t]` | executor field of the thread's mailbox |
| `life[t]`, `threadNum` | between `thread_init` and `thread_destroy`; "doomed" once a guest called `cc_thread_destroy`; `thread_num` |
| `ws` | `sched_workshare`, an atomic FIFO of `QueueCap` nodes |
| `lq`, `num`, `curr` | local queue, `sch_num_threads`, `sch_curr_thread` |
| `active` | `sched_active_threads` |
| `mbox`, `ossig` | `EX_SIGNAL_SCHEDULE` in the mailbox; a pending OS signal |
| `gcOn` | the phase in `gc_state` is not inactive |
| `hand`, `old`, `op`, `ret` | locals: thread off a queue, value last read, arguments of the call, caller of the status check |

Actions, by function: `Cycle`, `Result`, `IdleCheck`, `IdleWake`, `Safepoint`
(executor loop and idle thread); `AckRead`, `AckGcWait`, `AckCas`
(`sched_set_running_status`); `SetCurr`, `Replace`, `TryLocal`, `TryWorkshare`
(choosing a thread); `Balance`, `Take`, `Put`, `TryRead`, `TryCas` (balancing);
`ActRead`, `ActCas`, `ActInc`, `ActEnqueue` and `DeactExecutor` to `DeactFinish`
and `UpdRead`, `UpdCas` (the three CAS loops of the API); `WakeRead`, `WakeCas`,
`WakeSignal` (`executor_try_wakeup`); `Raise`, `RaiseSignal`
(`executor_raise`); the API calls under `ApiCall`; `GcStart`, `GcEnd`, `GcYield`.

Decisions a reader of the code should know:

- `scheduler_cycle` refers to a `thread` and an `exec->ex_scheduler` that are not
  declared there; it is read as a comparison of `sch_curr_thread` with
  `sch_gc_thread`. `sch_curr_thread` is only ever set from the queues, so the
  branches for the collector's thread are not taken.
- `GC_STATE_INACTIVE == gc_state.value & GC_STATE_PHASE` (line 652) compares the whole
  word in C, generation included, and not the phase. Here it makes no difference,
  since the generation is 0 while the phase is inactive; `GcPhases` (section 6)
  has both. The constants are not defined in the repository.
- `bool out = -1` in take and put becomes `true`: their loops end after one thread.
- The second look at an empty workshare in `scheduler_cycle` has no effect the
  first one has not; they are one step. `EX_SIGNAL_GC` is never raised.
- `pc = "fault"` is the panic of the status check; it has no successor.
- `INVARIANT` is not defined in the repository; it is read as a comment. So a put from
  an empty local queue (line 395) takes one off `sch_num_threads`, gets NULL and goes
  on to `scheduler_result`.
- The collector is environment here. `GcStart` is one step because the phase
  cannot leave the initial one without the executor that set it (the comment in
  `gc_alloc.c`). `GcEnd` needs every executor in its collector thread because
  the barrier has as many places as there are executors.
- Guests keep the documented contract: no call on a thread after its destruction
  was asked for, and no deferred update to `RUNNABLE`, which an INVARIANT excludes.
- Start-up and shutdown are left out: `Init` is the state after every
  `scheduler_init`. A thread structure is not reused after its destruction.
- That `ws` is atomic is what `lf_thread_queue.h` says. Section 4 shows when the
  queue's code keeps that promise; all results about `Scheduler` are relative to
  it. Activation ignores a failed enqueue, as the code does; the runs have nodes
  enough (`QueueCap`), the proofs hold for any number.

### Runs

`MCScheduler` adds symmetry of the threads and `BusyInit`, a state reached from
`Init` by creating all threads before the other executors come online; it makes
deep queues affordable.

| Run | Instance | Shows |
|---|---|---|
| `core` | 2 executors, 3 threads, 3 calls of every kind | `NoDoubleEntry`, `HeldIsReferenced`, `ReferencedIsHeld`: `T_REF` and the places agree; `NeverPanics`; `DestroyedOnce`; `MailboxNamesRunner`, in each state; `DeadEnds`; `SchedInv`, the inductive invariant of the proofs |
| `busy` | 5 threads, suspension and destruction of queued threads | the same for threads in local queues and in balancing, while `sch_num_threads` wraps and empty local queues are put from |
| `live` | 2 threads that suspend themselves, wait for collections and wake each other, 4 calls | `SchedInv` with collections; `SleepersAreWoken`, `CallsReturn` |
| `gc_lost` | violation of `ReferencedIsHeld` | a thread waiting for a collection is dropped with `T_REF` set |
| `lost_wakeup` | violation of `SleepersAreWoken` | a mailbox bit without OS signal hides an idle executor from all later wake-ups |

The cause of `lost_wakeup` is in `executor_raise`: it sends the OS signal if
`sch_curr_thread` is the idle thread, but an idle executor's `sch_curr_thread`
is NULL. `live` passes because there only self-suspension occurs, which never
raises another executor.

`CallsReturn` bounds no retries: an executor whose CAS always loses to another one's
calls retries for ever in the code, and `MaxCalls` ends those calls. That a thread
that balancing puts on the workshare is found in the end is not checked: `live` has two
threads, and balancing needs three.

Disagreements met while modelling that have no run of their own:
`sch_num_threads` passes below zero and an empty local queue is put from, which
the INVARIANT at line 395 and `scheduler.h:25-26` exclude; a thread picked up
during its deactivation runs on unsignalled (`scheduler.h:230-232`);
`sched_try_workshare` runs a thread for which the status check said "skip", so a
thread waiting for the collection can run during it; `sched_active_threads` is
not decremented for a thread suspended by `cc_thread_update`; activation
ignores the result of the enqueue after `T_REF` is set.

**Bounds.** Two executors race in every pair of functions. A third thread gives
a thread in a queue while both executors are busy; five threads exceed the upper
bound of balancing. `MaxCalls` bounds the API calls of a run: three suffice for
create, deactivate or destroy, and wake of the same thread, which is the longest
chain one `T_REF` cycle needs. `UintMod = 16` stands for 2^32: counters reach the
wrap from below zero, not from above. `QueueCap` is the capacity, which the code
sets to executors times max(executors, 16).

**Fairness.** `FairSpec` is weak fairness of each executor's runtime steps:
executors are OS threads, and guests poll safe-points. Guests need not call
anything. Deadlock is not checked, since all executors may sleep for ever when
nothing is runnable.

### Proofs

`SchedulerProofs` proves first that each step keeps `TypeOK` (`TypeStep`), and
then, for every number of executors, threads and nodes, every mix of calls
and any collections (assumptions: `ThreadAssumption`, `SizeAssumption`,
`CallAssumption`):

| Theorem | States |
|---|---|
| `Invariance` | `Spec => []SchedInv` |
| `TypeCorrect`, `SingleEntry`, `HeldReferenced`, `PanicFree` | the invariants of the runs that follow from it |
| `NoResurrection` | `Spec => DeadEnds` |

*The invariant.* `NoDoubleEntry` alone is not inductive: an activation inserts a
thread some steps after the CAS that found `T_REF` unset. `SchedInv` adds that
whatever is held is referenced (so the CAS proves that the thread is nowhere),
that the value a CAS is about to replace passed its function's test (`LocalOK`),
what is known of a thread during a call, in particular that a destruction has no
rival call (`CallOK`), and how status, `T_REF` and lifetime go together
(`ThreadOK`: a referenced thread has a status the status check accepts).

*The argument.* `Frame` says which private variables a step of one executor
leaves alone. `LocalStep`, `CallOwn` and `CallOther` treat the private facts: of
the executor that moves, and of the others under its interference. `Quiet` and
`Still` cover the steps that change no status and no place. Each step that moves
a thread has a lemma (`MoveSetCurr`, `MoveLocal`, `MoveShare`, `MoveTry`,
`MoveActCas`, `MoveActInc`, `MoveActEnqueue`) that it leaves one place as it
enters another; `MoveActCas` is the only entrance. `AckDrops` and `TryDrops` say
that where `T_REF` is cleared the thread leaves its place in the same step;
`ReferenceStep` puts this together, and `NextInv` combines one step per action.

`SchedulerThreadProofs` adds what `SchedInv` says nothing about, each with an
invariant of its own that is inductive together with `SchedInv`:

| Theorem | States | Assumes besides |
|---|---|---|
| `RunnerNamed` | `MailboxNamesRunner` | nothing |
| `OneDestruction` | `DestroyedOnce` | finitely many threads, fewer than `UintMod` |
| `NoThreadLost` | `ReferencedIsHeld` | finitely many threads, a queue node for each, and either no collections or no guest that waits for one |

- `MailInv`: the thread of an executor that runs a guest names that executor, and
  an executor named in a mailbox has that thread until its next scheduling cycle
  takes the name back. Only `Result` and `Cycle` write mailboxes (`MailStep`). This is
  about one state. `executor_raise` uses a name that was read before the status was
  changed (line 852); that it reaches the executor that runs the thread does not follow.
- `LifeInv`: `thread_num` is the number of living threads, and a destroying call
  whose CAS found no reference still has the thread to itself when it frees it
  (`LastInv`). A "doomed" thread is destroyed either by the executor that drops its reference or
  by the destroying call, if there was no reference (`LifeStep`); the CAS decides
  which. That the counter does not wrap is what the second assumption is for.
- `PlaceInv`: no executor overwrites its hand or its current thread, and a thread
  with `T_REF` is somewhere. The assumptions are the ones the code needs. The result
  of the enqueue is ignored after `T_REF` is set, so a full workshare loses the
  thread: with a node for every thread `RoomLeft` shows, from `NoDoubleEntry`, that
  it is never full. `GC_WAIT` during a collection loses it too (`gc_lost`).

*Only checked by TLC.* Liveness (`SleepersAreWoken`, `CallsReturn`), because fairness
is outside the prover.

## 4. Queues

`ThreadFifo` is the header's promise: a sequence with atomic enqueue and dequeue.
`LFThreadQueue` is the code, one access to shared memory per step: `head`,
`tail`, `next`, `data` are the fields of the list, `hp` the two hazard pointers
of each executor, `rlist` and `rcount` its retired nodes. As in the code the
retired nodes are linked through `lfn_next`. The refinement mapping takes the
threads behind the dummy node as the queue; a dequeue takes effect when `lf_head`
moves. `free` is the allocator, as a set. When it is empty an enqueue returns
false, which changes nothing. The local pointers of an attempt that failed are
forgotten, and so are the fields of a freed node; the table of hazard pointers is
the set of pointers seen.

`LFBlockQueue` has the enqueue and dequeue steps of `LFThreadQueue`, instantiated,
and the code's own allocator: a stack of free nodes popped and pushed by CAS,
slices cut into nodes when it is empty, and a scan that gives back what it frees
as one batch. It scans when more than twice as many nodes as there are executors
are retired, so that the batch cannot be empty (`ScanFreesOne`). `bqFree`, the only
history variable, is the set of nodes that no call has: in a slice that is not
mapped, in a new slice, on the stack or in a batch. With it `LFBlockQueue` maps to
`LFThreadQueue` until a stale pop (`ImplementsThreadQueue`, `AllocatorHidden`): the allocator's steps are hidden, the call
begins where it has got a node, a node is free where a scan has sorted it out, and
the fields of a free node are nobody's.
`LFObjectQueue` has the text of the workshare queue and consists of its steps.

`NodeAllocator` is the allocator behind the set `free`: a private list per
executor with bounds and one shared list. Nodes are numbers, as they are in the
array `lf_thread_queue_init` divides among the executors.

| Run | Instance | Shows |
|---|---|---|
| `queues` | two executors enqueue and dequeue; workshare: 3 nodes, a scan at every dequeue; block queue: fresh or much used, pages of 2 nodes; object queue: 3 nodes | `ImplementsLossyFifo`, `BlockQueueIsLossyFifo`: a FIFO but for late links; `NodesKept`, `BlockNodesKept`: until one, no node leaks or is in two places; `ScanFreesOneKept`; `AllocatorHidden`: each step of the block queue is one of the workshare queue's or none; `ObjectsProtected` |
| `queue_shared` | both enqueue and dequeue, a scan at every second dequeue; executor 0 may stop for ever | `ProtectedNotFree`: no executor follows a freed node; `EmptyWasTrue`; `LockFree` |
| `queue_lost` | both enqueue and dequeue, 4 nodes | violation of `ImplementsFifo` |
| `node_pool` | the allocator for two executors and 32 threads | violation of `PoolNeverDry` |

*`queue_lost`.* An enqueuer reads the last node and its NULL successor and is
overtaken: another enqueue links behind that node, and a dequeue retires it.
Retiring stores the list of retired nodes into the same field, NULL if that list
is empty. The enqueuer's CAS from NULL then succeeds on the retired node, and the
thread in it is in no queue although the call returned true. Hazard pointers do
not help: the node was not reused, only relinked. The other two queues have the
same lines.

*What holds nevertheless.* Call such a CAS a late link (`LateLink`). `ImplementsLossyFifo`
says that it is the only departure from the FIFO: its thread is lost (`Lose`), and every
other step is one of the FIFO's or none. `NodesKept` says that the nodes are accounted for
until there is one; then the node is on a list of retired nodes it was never put on, and
a scan frees it. `queue_shared` shows that no freed node is followed even so.

The block queue has a second such step. Its free nodes are one stack, popped by
comparing the first node only (`lf_block_queue.c:47`): if that node was popped and
given back in between, with another successor, the pop installs a successor that may
be in use (`StalePop`). Its properties say what holds until there is one (`"pop"` in
`disturbed`). `queues` reaches late links in the workshare and in the block queue; a stale pop takes more
calls than `MCCalls` has, so that what it breaks is not in the run, and the theorems
below say for any number of calls that everything holds until then.

*`node_pool`.* `lf_thread_queue_init` gives the shared list nothing but its
sentinel when the nodes divide evenly. An executor whose private list is below
its lower bound takes a node from the shared list at every allocation and does
not look whether there is one: after a few enqueues without a free it follows
NULL, with most nodes unused. The steps that move nodes to the shared list
are modelled (`Unlink`), but no behaviour of the instance gets there first.

**Bounds.** Three nodes are a dummy and two in the queue, or a retired one and
two others, so nodes are recycled while others look at them. `Threshold` is the
number of retired nodes before a scan; zero makes every dequeue scan. Nodes
and threads are symmetric; `queue_shared`, which checks liveness, does not use it.
A scan of the block queue needs five retired nodes; `UsedQueue` (in `MCQueues`)
starts where every executor has four and one or three free nodes are left, so that
the bounded calls (`MCCalls`) reach scans, batches and new pages. It is a state
that many sequential calls from `lf_block_queue_init` reach.

**Fairness.** Only executors in `FairExecs` take steps for ever; the others may be
stopped by the OS anywhere, which is what lock-freedom is about.

### Proofs

For every number of executors, threads and nodes and every threshold of the scan
(assumption: `QueueAssumption`, whose nodes are finitely many because
`lf_thread_queue_init` allocates an array of them):

| Theorem | Module | States |
|---|---|---|
| `HazardInvariant` | `LFThreadQueueProofs` | `Spec => []HazardInv` |
| `HazardPointersProtect`, `DequeuedEmptyWasEmpty` | `LFThreadQueueProofs` | `ProtectedNotFree`, `EmptyWasTrue` |
| `ObjectsSafe` | `CollectorProofs` | `ObjectsProtected` |
| `FifoInvariant` | `WorkshareProofs` | `Spec => []FifoInv` |
| `LossyQueue` | `WorkshareProofs` | `Spec => ImplementsLossyFifo` |
| `AtomicQueue` | `WorkshareProofs` | `ImplementsFifo`, in behaviours without a late link |
| `EveryNodeInOnePlace` | `WorkshareProofs` | `NodesAccounted`, in behaviours without a late link |
| `AllocatorIsHidden` | `BlockQueueProofs` | `ImplementsThreadQueue`, in undisturbed behaviours |
| `AtomicBlockQueue` | `BlockQueueProofs` | `BlockQueueIsFifo`, in undisturbed behaviours |
| `ScansFree` | `BlockQueueProofs` | `ScanFreesOne`, in undisturbed behaviours |
| `EveryBlockNodeInOnePlace` | `BlockQueueProofs` | `BlockNodesAccounted`, in undisturbed behaviours |

Any executor may enqueue in all of them. Where the code does not keep a promise in every
behaviour, the theorem's hypothesis names the step that breaks it and nothing
else: `[][\A e \in Execs : ~LateLink(e)]_vars`, or for the block queue
`[][Undisturbed]_blockVars`, which excludes late links and stale pops. Such a theorem
says that these steps are the only causes, whoever calls what, and how often. It does not
say that the code avoids them; `queue_lost` shows that it does not.

The last four assume `BlockQueueAssumption` about the constants of `LFBlockQueue`:
the slices are finitely many, since the address space is, and a slice has at least
two nodes (`AllocPageCas` takes the first and leaves the others on the stack).

*`HazardInv`.* It says that there are two functions, `kind` and `by`, that give every
node its use (free, in the queue, an enqueuer's, a dequeuer's, retired) and its owner,
such that (`PlacesOK`) following `lfn_next` leaves neither the queue nor a list of
retired nodes, no node is the successor of two, and the lists start where no node
leads; every local pointer is of the kind its label says (`Possesses`); a node
behind a hazard pointer that was checked is not free, and if it is retired and the
scan of its owner has passed that pointer, it is in the table of the scan
(`Protects`); and what was read of a node still in the queue is still so
(`Remembers`). The functions are no variables because they are not in the code; a
step gives the next ones (`NodeTaken`, `NodeLinked`, `HeadMoves`, `NodeRetired`,
`NodeSorted`), or keeps them.

It is proved for any number of enqueuers, although the queue then loses threads
(`queue_lost`): a node that is linked behind a retired one is counted as retired by
the same executor, because that is what the executor's scan will do with it.
`GuardOther` and `OthersKept` say under which changes of the shared words the facts
of the other executors survive, so that each step is treated once for its own
executor. A protected node that has left the queue does not come back, since only a
scan that has not seen the pointer frees it; that is why the second look at `lf_head`
is enough, and why NULL behind it means that the queue was empty.

*`FifoInv`.* It adds that the nodes from `lf_head` on are a path without a cycle
(`Path`) that ends with NULL, and which thread is in whose node (`ValuesOK`). Nothing is said
of `lf_tail`, which may have left the queue. A CAS of an enqueue that succeeds on a
node of the path has the last one, whatever the executor read before, because only the last
one's successor is NULL; any other is a late link (`LinksOrLate`), which leaves the path
as it is. So the invariant needs no hypothesis, and the refinement one
only if `Lose` is to be excluded.
`Contents` is defined by recursion over `lfn_next`; `ContentsOfPath` shows that it is
the threads on the path, by induction on the position (`SetInduction`, from the
well-foundedness of the natural numbers). `QueueGrows`, `QueueShrinks` and `QueueKept`
follow the path through a step. `CasEnqueues` and `CasDequeues` are the two steps
that are one of the FIFO's; `FifoStep` maps the others: a call's start to `Accept`,
its return to `Deliver`, the rest to a stutter. The read of `lfn_data` after the CAS is
a stutter because its hazard pointer keeps the node as it was (`HeldOther`).

*`AccountInv`.* The functions `kind` and `by` of `HazardInv` do not count: a node
linked behind a retired one has a kind, but is on no list. Without late links that does
not happen, and `Account` says so: the retired nodes of every executor, and what its
scan has not sorted yet, are lists without a cycle (`Trail`), and two functions say
which list or hand has each node (`SpotsOK`). There is one lemma for each step that
changes a list (`AccountTaken`, `AccountLinked`, `AccountUnlinked`, `AccountRetired`,
`AccountScanned`, `AccountSorted`) and one for all others (`AccountKept`); `TrailGrows`,
`TrailShrinks` and `TrailKept` follow a list through them. `NodesAccounted` follows
because `Chain` finds exactly the list (`ChainOfTrail`).

*The block queue.* `BlockInv` is `AccountInv` of the queue with its allocator hidden,
and what the allocator relies on. The stack is a list without a cycle; a batch is linked from
`free_head` to `free_tail` (`Segment`); every free node of a slice in use is on the
stack or in one batch (`FreePlaced`), where a slice is in use (`Live`) while it is
mapped, except between the mapping and the compare-and-set that puts its nodes on the
stack. What an executor has read of the stack may be out of date when it compares
(`AllocOK` does not say otherwise). If the node is on top again with the successor that
was read, the pop is as good as any; if the successor is another one, it is a `StalePop`.
`StepShown` maps the steps, `FreeStep` and `BlockInvStep` keep the invariant.

The mapping hides the enqueuer until it has a node, so it hides that the descriptor
has left the pool. `AtomicBlockQueue` takes that back (`Given`, `SeenOK`): the
descriptors that are hidden move from the pool to the enqueuer in `ToAllocator` and on
to the call in `FromAllocator`, and all else is a step of the FIFO as it was.

`ScansFree` counts. `rcount` is the length of the list of retired nodes (`ScanOK`), so
that a scan starts with more nodes than `HptrThreshold`, which is twice the number
of executors. `Full` says that until it has freed one, what it kept and what it has
left are still that many, and that all it kept are in its table; the table has at most two pointers
of each executor. At the end nothing is left, so that more nodes would be kept than
the table has places (`ScanFrees`).

`EveryBlockNodeInOnePlace` joins the lists of `BlockInv`. The last node of a batch
points to wherever it pointed before until it is linked to the stack, so that `Chain`
finds more than the batch; `BeginningFound` says that up to `free_tail` it finds the
batch.

*The object queue* instantiates the steps of `LFThreadQueue`; `CollectorProofs`
instantiates the lemmas in the same way. All executors enqueue there, so only
the hazard-pointer results carry over.

*Only checked by TLC.* `LockFree`, because it is liveness.

## 5. Memory

`Slice`: `freeList` and `sNext` are the stack of free entries, `spaceOf` the three
counters, `mapped` and `owned` what is mapped and what callers hold. An
allocation reserves in the total, then in the counter of its type, pops an entry,
maps; each failure undoes what was done, as far as the code undoes it.

`LFMalloc` is `malloc_lf` and `free_lf` of one size class. `phActive` is the active
word (descriptor and credits), `phPartial` and `scPartial` the partial superblocks,
`anchor` the four fields of each descriptor, `word` the first word of each block
(the next free block, or the descriptor while the block is held), `descAvail` and
`desNext` the free descriptors. Any executor works on any heap: `malloc_lf` reads
the executor's number and the thread may move before it uses the heap.
The queue of partial superblocks is a sequence and slices are a set, by the
promises of `LFBlockQueue` and `Slice`. The tag of an anchor does not wrap.

`MallocWords` packs and unpacks the two words, with the widths as constants.
`SizeClasses` is the arithmetic from a request to its class and block.

| Run | Instance | Shows |
|---|---|---|
| `memory` | 2 executors that all allocate and free; 3 entries, 3 slice allocations, any value in the uninitialised `out`; 1 heap, 3 superblocks of 3 blocks, 4 mallocs; requests 1 to 16095; fields of 2 bits | `EntriesKept`, `SpaceCovered`; `CreditsMatchBlocks`, `HeldIsMapped`, `DescriptorsKept`; `BlockHoldsRequest`, `CountsFitWords`; `FieldsIndependent` |
| `desc_twice` | 1 executor, a page of 3 descriptors, 2 superblocks | violation of `HeldIsMapped` |

*`desc_twice`.* `try_desc_alloc` returns the last but one descriptor of a new page
but leaves it at the end of the list it installs. When the page is used up that
descriptor describes a second superblock; freeing the first one's blocks then
unmaps the second while its blocks are held.

*What breaks the two lists, and what does not.* Free slice entries and free
descriptors are stacks whose pop compares the first element only. If that was popped
and pushed again on another successor in between, the pop installs a stale successor:
entries are lost and handed out twice (`StalePop` in `Slice`, `slice.c:58`), or a
descriptor in use is free again (`StaleDescPop`, `lf_malloc.c:402-406`). Besides, the
error path of `slice_alloc` pushes whatever the uninitialised `out` holds (`GarbageOut`,
line 369), and a page of descriptors may be used up (`PageUsedUp`). `EntriesKept` and
`DescriptorsKept` say that the entries and the descriptors are right until such a
step, in every interleaving of allocations and frees, and thereby that these are the only
causes. `memory` reaches the two of the slices. With four mallocs and three superblocks it
reaches neither of the two of the descriptors (with `DescsPerPage = 6`
four descriptors are popped before one that is in use; a stale pop needs two pops and a retirement within another
pop): its results about `LFMalloc` are results up to
there, and `CreditsMatchBlocks` and `HeldIsMapped` do not survive either.

`SpaceCovered` is a lower bound of the counters: what was given out has been
reserved. No upper bound holds, since line 113 tests the limits the wrong way round.

**Bounds.** Two executors race in each CAS. Three blocks to a superblock give one
for the credits, one to pop and one to free, so that a superblock goes from active to full, partial
and empty and back. `UsedHeap` starts with a full superblock, or with a partial and
a full one, to reach the partial ones and the unmapping with few calls; both are
reached from `mm_malloc_init` by more of them. Every executor allocates and frees
slices. The fields of two bits overflow in few steps; the real ones have 10, 10,
2, 42 and 6. The requests are all that have a size class.

**Met while modelling, without a run.** `slice.c:113` tests the limits the wrong way
round, so that they are not enforced; `slice_free` gives no space back;
`slice_release_gc_space` and `slice_release_malloc_space` subtract from the total, and are
never called. `remove_empty_desc` drops the non-empty descriptors it dequeues
before an empty one. A request of 16096 bytes gets class 32, one past the last,
since `find_heap` accepts sizes up to 0x40000 where an INVARIANT says 0x4000. A
request above that gets `((size - 1) % PAGE_SIZE) + PAGE_SIZE` bytes, and freeing it
passes the memory in place of its slice. `free_lf` computes a block's number from the
address of its descriptor's slice (`FreeRead`); the model takes the number as known, which
differs only when the descriptor describes two superblocks.

### Proofs

`MemoryProofs`:

| Theorem | States | Assumes |
|---|---|---|
| `NoEntryLostOrTwice` | `EntriesPartitioned`, in behaviours without `StalePop` and `GarbageOut` | `SliceAssumption` |
| `BlocksLargeEnough` | `BlockHoldsRequest` | requests of 1 to 16095 bytes |
| `CountsFit` | `CountsFitWords` | requests of 1 to 16095 bytes |
| `FieldsReadBack` | `FieldsIndependent` | `WordsAssumption`, `ExponentLaws` |

*The slices.* All executors allocate and free; executors, entries, sizes and calls are
any number, and `mmap` may fail at any call. The hypothesis
`[][Undisturbed]_sliceVars` excludes the two steps above and nothing else, so that the
theorem names the only causes. `SliceInv` says that the free list is a stack
without a cycle (`StackOK`) and that every entry is on it or in one place besides
(`PlacesOK`). What an executor has read before a pop may be out of date (`CallOK`
does not say otherwise): a pop that succeeds either takes the top entry with the successor
it has now, or is a `StalePop`. `OutAssigned` is where `GarbageOut` is used.
`StackFound` shows that `ListFrom`, which collects the entries by iteration, finds
exactly the stack, by induction on its length (`SetInduction`).

*The size classes.* `BigClassHolds` follows the five halvings of
`malloc_big_size_class` with the rounding error that each of them leaves, and compares
the class they end at with its size. A request of 16096 bytes gets no class, which is
why the theorems stop there. `CountsFit` uses that no request, with the line for its
tag, is in the class of 32 bytes, whose 2048 blocks would not fit in 10 bits.

*The words.* A word is a number of four digits, whose bases are the powers of two of the
widths (`AnchorOf`). `WordDigits` reads the digits off, `AnchorSets` replaces one,
`WordsInv` says that the words are the numbers of the values stored last. The provers
know nothing of exponents, so `MallocWords` names the two laws it needs
(`ExponentLaws`); they hold for all natural numbers, and TLC evaluates them for the
widths of the run.

*Only checked by TLC.* `SpaceCovered`, and `CreditsMatchBlocks`, `HeldIsMapped` and
`DescriptorsKept` of `LFMalloc`, for the reasons in section 2.

## 6. Services

`Executor` has one process per OS thread: the signal thread and the executors.
`exPc` is what it does next, `exMbox`, `osPending` the mailbox bit and the OS signal,
`exCurr`, `exQueue`, `workshare` where the guests are. Which guest runs next is a
choice here; `Scheduler` says how it is made. `GcPhases` has one process per
collector: a guest allocates and starts a collection with a test and a later store
(`ActivateTest`, `ActivateStore`), collectors start or are interrupted, and go
through three barriers. A barrier is its counter, the last arrival's sequential
work, the reset and the broadcast, each a step.

| Run | Instance | Shows |
|---|---|---|
| `lifecycle` | 3 executors, 3 guests, one stop; 3 collectors, any number of collections | `ShutdownEnds`: every OS thread exits once one guest stops the system, if the guests come back to the scheduler; `GuestsDestroyedOnce`, `ShareOutlivesExecutors`; `CollectorsAgree`, `PhasesInOrder`, `BarriersOpen` |

`PhasesInOrder` settles the comment in `gc_alloc.c`: although the start of a
collection is an unconditional store, nobody can leave the first barrier without
the executor that is about to store.

*The tests of `gc_state`.* `GC_STATE_X == state & GC_STATE_PHASE` means
`(GC_STATE_X == state) & GC_STATE_PHASE` in C: it compares the whole word, in which
the generation is as well (`gc_alloc.c:222`, `gc_thread.c:2045`, 2056; 2109 compares the
whole word explicitly). The models have it so (`WholeWord`). The generation is 0 in the phases
inactive and initial, so only the test for the normal loop (2056) is affected: it
holds in generation 0. In every other generation the collectors skip the
normal loop and the middle barrier, run the weak loop in the phase normal, and the
final barrier takes the phase from normal to inactive. The comment at 2078-2080, "I can only
be in the weak state at this point", is not true of them. `CollectorsAgree` and
`PhasesInOrder` say what remains: all collectors make the same choice, and the phase
goes the way of the generation. That the tests are not always 0 takes a
`GC_STATE_PHASE` with its lowest bit set; the constants are not in the repository.

*Shutdown.* `executor_shutdown` (545-556) sends one OS signal to every executor and joins
it. It sets no mailbox, and a safe-point with an empty mailbox returns without looking
at `executor_live` (`executor_check_mbox_sigs`, 160-195). So an executor stops when
it idles, or when its guest comes to the scheduler: by yielding, suspending, or at a
safe-point that finds a bit in the mailbox. `ShutdownEnds` has that as its
hypothesis; a guest that only polls safe-points is never stopped, although
`include/cc/executor.h:49` says that `executor_stop` "terminates all executors". Nor does
the property speak of an executor that waits in a barrier of the collector when the
system is stopped: `Executor` has no collector, and the barrier would wait for executors that
have exited.

**Bounds.** Three executors: one that stops, one that is joined and one that is still
coming online. Collections are unbounded; generations are counted up to
`NumGenerations`, `flipflop` is the parity of the number of collections.
`MaxStops = 1`: two guests that stop the system join each other for ever.

**Fairness.** Each OS thread runs its runtime's steps (`RuntimeStep`), a safe-point that
finds the mailbox set among them; what a guest calls of itself (`GuestStep`: activating
another one, yielding, stopping) is not fair. In `GcPhases` only `BarrierStep`: no guest has to allocate,
no loop has to end and no interrupted collector has to come back.

**Met while modelling, without a run.** `scheduler_destroy` walks its queue from the
last thread, so it destroys only that guest (`executor.h:49-50` says all). The
signal thread is created before `executor_live` is set and may exit at once. The
final barrier sets the peak of the generations to the one just collected, so that
the sawtooth that line 50 of `gc_thread.c` describes never rises, and the INVARIANT at 1727
contradicts it. The loops at 1321 and 1404 claim while the claim reports failure.
`gc_thread_activate` tests the phase the wrong way round; it is not called.

### Proofs

`CollectorProofs`, for every finite set of collectors (`CollectorsAssumption`), any
number of collections and of generations:

| Theorem | States |
|---|---|
| `PhaseInvariant` | `GcPhasesSpec => []PhaseInv` |
| `CollectorsWorkTogether`, `PhasesFollow` | `CollectorsAgree`, `PhasesInOrder` |

`PhaseInv` says where a collector can be in each phase (`PhaseOK`): late ones are
still leaving the barrier that began it, early ones wait at the one that ends it. It
needs three more facts about barriers. The counter is the number of arrivals until
it is reset (`CountsArrived`); while one collector opens a barrier all others wait
at it (`OneOpens`); and who waits at the barrier behind has somebody who opens it
(`NoneForgotten`). The last arrival is the last because a counter equal to the number
of collectors means that nobody is elsewhere (`AllAtBarrier`, a fact about finite
sets). The late store of `ActivateStore` is harmless because a collector between the
test and the store has not come to the first barrier, so that `PhaseOK` leaves only
the phases "inactive" and "initial".

`ExecutorProofs`, for any number of executors, guests and calls of `executor_stop`
(`ExecutorAssumption`: more than one executor, which `cc.c:65` requires, and finitely
many guests):

| Theorem | States |
|---|---|
| `ShareGoesLast` | `ShareOutlivesExecutors` |
| `GuestInvariant` | `ExecutorSpec => []GuestInv` |
| `GuestsSafe` | `GuestsDestroyedOnce` |

`ControlInv` is about the OS threads: an executor that has exited stays so, and whoever
shuts the system down has joined those before its loop variable (`JoinedExited`).
`GuestInv` adds that a guest is in one place, that only what an exited executor or
the stopping one has in its queue is destroyed, and how often. With several
stops the theorem bounds the destructions by the shutdowns, as the property does.

*Only checked by TLC.* `ShutdownEnds` and `BarriersOpen`: they are liveness.

## 7. Not modelled

- Claiming and copying, the write log and the balance of object lists in
  `gc_thread.c`. The file does not compile as it is (undeclared `thread` at 1646,
  an assignment to a type at 1898, a call without its argument), and the parts that
  do compile stop before anything interleaves: a claim stores the new copy without
  the bit that says "not copied yet" (1465), so nothing is copied; an old object
  is compared through a second `fwd_ptr` that hides the first (1523) and is never
  claimed; a collector that finds no cluster left keeps asking (1321, 1404), or follows
  NULL when it had found one (1263). A model of it would only restate these lines.
  `GcPhases` treats claiming and copying as loops that end or are interrupted
  at will. Object descriptors serve only them; the getters of the next
  generation and of the count mask their bits away before they shift.
- `gc_alloc.c` beyond the trigger. Every slice an allocator gets is counted by a
  compare-and-set on the address of the pointer `gc_used_space` or its siblings
  (246-278), which does not succeed, so that no allocation returns after its first
  slice. Where slices go (363) is then without effect.
- Whole-slice blocks, `calloc`, `realloc`; `slice_set_usage`, `slice_set_prot`.
- Switching of stacks, contexts, the assembly of the atomic operations (a
  compare-and-set is a step), `mm.c`, launcher, dynamic loading, OS memory: no
  interleaving of their own. The KSE executor is unfinished and not built.
- An executor that waits in a barrier of the collector while the system is stopped.
- Store buffers and spurious wake-ups: all models are sequentially consistent, and
  `pthread_cond_wait` returns only after a broadcast.
