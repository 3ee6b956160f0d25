--------------------------- MODULE NodeAllocator ---------------------------
(***************************************************************************)
(* The allocator of queue nodes (cc/lf_thread_queue.c; lf_object_queue.c   *)
(* has the same code): a private list per executor and a shared one, with  *)
(* nodes moved between them when a private list's count leaves its bounds. *)
(* One step per access to the shared list.  The caller is the queue, which *)
(* takes a node to enqueue and gives one back when a scan frees it.        *)
(***************************************************************************)
EXTENDS Runtime, Sequences

CONSTANTS
    QueueLength,    \* num: the threads the queue is made for
    MaxOperations   \* bound: allocations and frees in a behaviour

VARIABLES
    qnaShared,      \* qna_shared_list
    nlList,         \* nl_list of every executor
    nlCount,        \* nl_count
    lfnNext,        \* lfn_next of every node
    inUse,          \* the nodes the queue has, the sentinel among them
    na,             \* the local variables and the pc of every executor
    operations      \* history: how many allocations and frees there were

nodeVars == <<qnaShared, nlList, nlCount, lfnNext, inUse, na, operations>>

\* Executors as array indices, in some fixed order.
ExecNumber == CHOOSE f \in [Execs -> 0 .. Cardinality(Execs) - 1] :
                  \A d, e \in Execs : d # e => f[d] # f[e]
NumExecutors == Cardinality(Execs)

\* lf_thread_queue_request and _init: the nodes by their index in the array.
ExtraNodes == NumExecutors * NumExecutors * 2 + NumExecutors * 2 + 1
NodeCount == QueueLength + ExtraNodes
QueueNodes == 0 .. NodeCount - 1
QueueSentinel == NodeCount - 1
ExecutorNodes == (NodeCount - 1) \div NumExecutors
SharedNodes == (NodeCount - 1) - ExecutorNodes * NumExecutors

NodeIdle == [pc |-> "idle", node |-> NULL, next |-> NULL, then |-> "idle"]

\* The private lists run from high indices to low ones.  What is left over is
\* linked as well, but the shared list is set to the sentinel, whose successor
\* lf_thread_queue_init clears at the end.
lf_thread_queue_init ==
    /\ qnaShared = IF SharedNodes = 0 THEN NULL ELSE QueueSentinel
    /\ nlList = [e \in Execs |-> ExecNumber[e] * ExecutorNodes + ExecutorNodes - 1]
    /\ nlCount = [e \in Execs |-> ExecutorNodes]
    /\ lfnNext = [n \in QueueNodes |->
           IF n = QueueSentinel \/ n % ExecutorNodes = 0 \/ n = ExecutorNodes * NumExecutors
           THEN NULL ELSE n - 1]
    /\ inUse = {QueueSentinel}
    /\ na = [e \in Execs |-> NodeIdle]
    /\ operations = 0

Quarter == NodeCount \div 4
AtLeastOne(n) == IF n = 0 THEN 1 ELSE n
allocator_upper_bound == AtLeastOne((NodeCount + Quarter) \div NumExecutors)
allocator_lower_bound == AtLeastOne((NodeCount - Quarter) \div NumExecutors)

Here(e, label) == na[e].pc = label
Locals(e, l) == na' = [na EXCEPT ![e] = l]

\* lf_thread_queue_node_alloc begins with balancing ...
node_alloc(e) ==
    /\ Here(e, "idle") /\ operations < MaxOperations
    /\ operations' = operations + 1
    /\ Locals(e, [NodeIdle EXCEPT !.pc = "balance", !.then = "take"])
    /\ UNCHANGED <<qnaShared, nlList, nlCount, lfnNext, inUse>>

\* ... and takes the first node of the private list.
Take(e) ==
    LET n == nlList[e] IN
    /\ Here(e, "take")
    /\ \/ /\ n # NULL
          /\ nlList' = [nlList EXCEPT ![e] = lfnNext[n]]
          /\ nlCount' = [nlCount EXCEPT ![e] = USub(@, 1)]
          /\ inUse' = inUse \cup {n}
       \/ n = NULL /\ UNCHANGED <<nlList, nlCount, inUse>>
    /\ Locals(e, NodeIdle)
    /\ UNCHANGED <<qnaShared, lfnNext, operations>>

\* lf_thread_queue_node_free: a private list that is above its lower bound
\* gets the node, otherwise the shared one does; then balancing.
node_free(e) ==
    \E n \in inUse \ {QueueSentinel} :
        /\ Here(e, "idle") /\ operations < MaxOperations
        /\ operations' = operations + 1
        /\ inUse' = inUse \ {n}
        /\ \/ /\ allocator_lower_bound < nlCount[e]
              /\ lfnNext' = [lfnNext EXCEPT ![n] = nlList[e]]
              /\ nlList' = [nlList EXCEPT ![e] = n]
              /\ nlCount' = [nlCount EXCEPT ![e] = UAdd(@, 1)]
              /\ Locals(e, [NodeIdle EXCEPT !.pc = "balance"])
           \/ /\ allocator_lower_bound >= nlCount[e]
              /\ Locals(e, [NodeIdle EXCEPT !.pc = "push", !.node = n, !.then = "balance"])
              /\ UNCHANGED <<lfnNext, nlList, nlCount>>
        /\ UNCHANGED qnaShared

\* lf_thread_queue_node_alloc_balance: above the upper bound the first private
\* node is pushed, below the lower one a node is pulled.
node_alloc_balance(e) ==
    LET l == na[e] IN
    /\ Here(e, "balance")
    /\ \/ /\ allocator_upper_bound < nlCount[e]
          /\ Locals(e, [l EXCEPT !.pc = "push", !.node = nlList[e],
                                 !.then = IF l.then = "take" THEN "unlink take"
                                          ELSE "unlink"])
       \/ /\ allocator_lower_bound > nlCount[e]
          /\ Locals(e, [l EXCEPT !.pc = "pull"])
       \/ /\ nlCount[e] \in allocator_lower_bound .. allocator_upper_bound
          /\ Locals(e, [l EXCEPT !.pc = l.then])
    /\ UNCHANGED <<qnaShared, nlList, nlCount, lfnNext, inUse, operations>>

\* lf_thread_queue_node_alloc_try_push
Link(e) ==
    LET l == na[e] IN
    /\ Here(e, "push")
    /\ lfnNext' = [lfnNext EXCEPT ![l.node] = qnaShared]
    /\ Locals(e, [l EXCEPT !.next = qnaShared, !.pc = "pushCas"])
    /\ UNCHANGED <<qnaShared, nlList, nlCount, inUse, operations>>

LinkCas(e) ==
    LET l == na[e] IN
    /\ Here(e, "pushCas")
    /\ \/ /\ qnaShared = l.next
          /\ qnaShared' = l.node
          /\ Locals(e, [l EXCEPT !.pc = IF l.then = "unlink take" THEN "unlink"
                                        ELSE l.then,
                                 !.then = IF l.then = "unlink take" THEN "take"
                                          ELSE "idle"])
       \/ /\ qnaShared # l.next
          /\ Locals(e, [l EXCEPT !.pc = "push"])
          /\ UNCHANGED qnaShared
    /\ UNCHANGED <<nlList, nlCount, lfnNext, inUse, operations>>

\* After the push the private list goes on with the successor the node has now.
Unlink(e) ==
    LET l == na[e] IN
    /\ Here(e, "unlink")
    /\ nlList' = [nlList EXCEPT ![e] = lfnNext[l.node]]
    /\ Locals(e, [NodeIdle EXCEPT !.pc = l.then])
    /\ UNCHANGED <<qnaShared, nlCount, lfnNext, inUse, operations>>

\* lf_thread_queue_node_alloc_pull
PullRead(e) ==
    LET l == na[e] IN
    /\ Here(e, "pull")
    /\ \/ /\ qnaShared # NULL
          /\ Locals(e, [l EXCEPT !.node = qnaShared, !.pc = "pullNext"])
       \/ /\ qnaShared = NULL
          /\ Locals(e, [l EXCEPT !.node = NULL, !.pc = "topUp"])
    /\ UNCHANGED <<qnaShared, nlList, nlCount, lfnNext, inUse, operations>>

PullNext(e) ==
    LET l == na[e] IN
    /\ Here(e, "pullNext")
    /\ Locals(e, [l EXCEPT !.next = lfnNext[l.node], !.pc = "pullCas"])
    /\ UNCHANGED <<qnaShared, nlList, nlCount, lfnNext, inUse, operations>>

PullCas(e) ==
    LET l == na[e] IN
    /\ Here(e, "pullCas")
    /\ \/ /\ qnaShared = l.node
          /\ qnaShared' = l.next
          /\ Locals(e, [l EXCEPT !.pc = "topUp"])
       \/ /\ qnaShared # l.node
          /\ Locals(e, [l EXCEPT !.pc = "pull"])
          /\ UNCHANGED qnaShared
    /\ UNCHANGED <<nlList, nlCount, lfnNext, inUse, operations>>

\* The node that was pulled is linked in front of the private list, whose count
\* stays as it is.  It is not looked at whether there is one: without one the
\* step dereferences NULL and the program ends.
TopUp(e) ==
    LET l == na[e] IN
    /\ Here(e, "topUp")
    /\ l.node # NULL
    /\ lfnNext' = [lfnNext EXCEPT ![l.node] = nlList[e]]
    /\ nlList' = [nlList EXCEPT ![e] = l.node]
    /\ Locals(e, [NodeIdle EXCEPT !.pc = l.then])
    /\ UNCHANGED <<qnaShared, nlCount, inUse, operations>>

NodeStep(e) ==
    \/ node_alloc(e) \/ Take(e) \/ node_free(e) \/ node_alloc_balance(e)
    \/ Link(e) \/ LinkCas(e) \/ Unlink(e)
    \/ PullRead(e) \/ PullNext(e) \/ PullCas(e) \/ TopUp(e)

NodesNext == \E e \in Execs : NodeStep(e)

NodesSpec == lf_thread_queue_init /\ [][NodesNext]_nodeVars

-----------------------------------------------------------------------------
(* Properties.                                                             *)

\* An executor never tops up its list from an empty pool: the nodes are enough
\* for the case "where every executor has a full rlist and a reference to a
\* node, and the queue is full" (lf_thread_queue.c:43).
PoolNeverDry == \A e \in Execs : Here(e, "topUp") => na[e].node # NULL
=============================================================================
