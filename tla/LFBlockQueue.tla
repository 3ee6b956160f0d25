---------------------------- MODULE LFBlockQueue ----------------------------
(***************************************************************************)
(* The queue of partially used superblocks (mm/malloc/lf_block_queue.c).   *)
(* Its enqueue and dequeue are those of cc/lf_thread_queue.c, statement by *)
(* statement, and are taken from LFThreadQueue; its nodes are its own:     *)
(* they come from slices, free ones form one lock-free stack, and a scan   *)
(* gives back all the nodes it frees in one piece.                         *)
(***************************************************************************)
EXTENDS Integers, Sequences, FiniteSets

CONSTANTS
    BlockExecs,     \* the number of executors
    BlockEnqueuers, \* the executors that enqueue; all of them dequeue
    QueuedBlocks,   \* the descriptors that go through the queue
    NodePages,      \* the slices nodes are made of
    NodesPerPage,   \* the nodes in one of them
    NoBlock,        \* NULL
    MaxBlockCalls   \* bound: the calls of enqueue and dequeue of every executor

BlockNodes == NodePages \X (0 .. NodesPerPage - 1)
FirstNode == <<CHOOSE p \in NodePages : TRUE, 0>>
BlockCallers == 0 .. BlockExecs - 1

ASSUME BlockQueueAssumption ==
    /\ BlockExecs \in Nat \ {0}
    /\ BlockEnqueuers \subseteq BlockCallers
    /\ NoBlock \notin QueuedBlocks /\ NoBlock \notin BlockNodes
    /\ IsFiniteSet(NodePages) /\ NodePages # {}
    /\ NodesPerPage \in Nat /\ NodesPerPage >= 2

VARIABLES
    bqHead, bqTail,         \* lf_head, lf_tail
    bqNext, bqData,         \* lfn_next, lfn_data
    bqHp,                   \* bhp_ptrs
    bqRlist, bqRcount,      \* bhp_rlist, bhp_rcount
    bqNodes,                \* lf_block_queue_nodes, the stack of free nodes
    bqPages,                \* the slices that are mapped
    bqBatch,                \* free_head and free_tail of a scan
    bqPool,                 \* the descriptors outside the queue
    bqPc, bqVal, bqLoc, bqScan, bqSaw,  \* as in LFThreadQueue
    bqCalls,                \* the calls made by every executor
    bqFree                  \* history: the nodes that no call has, mapped or not

blockVars == <<bqHead, bqTail, bqNext, bqData, bqHp, bqRlist, bqRcount, bqNodes,
               bqPages, bqBatch, bqPool, bqPc, bqVal, bqLoc, bqScan, bqSaw, bqCalls,
               bqFree>>
blockQueueVars == <<bqHead, bqTail, bqNext, bqData>>
blockHazardVars == <<bqHp, bqRlist, bqRcount, bqNodes>>
blockCallVars == <<bqPool, bqVal, bqSaw>>
blockOwn == <<bqPages, bqBatch, bqCalls, bqFree>>

\* lf_block_queue_hptr_threshold
\* Mutant: every node is scanned for as soon as it is retired.
ThresholdNone == 0

HptrThreshold == BlockExecs * 2

B == INSTANCE LFThreadQueue WITH
    NumExecs <- BlockExecs, Enqueuers <- BlockEnqueuers, FairExecs <- {},
    Threads <- QueuedBlocks, NoThread <- NoBlock,
    Nodes <- BlockNodes, Sentinel <- FirstNode, NoNode <- NoBlock,
    Threshold <- HptrThreshold,
    head <- bqHead, tail <- bqTail, next <- bqNext, data <- bqData, hp <- bqHp,
    rlist <- bqRlist, rcount <- bqRcount, free <- bqNodes, pool <- bqPool,
    pc <- bqPc, val <- bqVal, loc <- bqLoc, scan <- bqScan, sawEmpty <- bqSaw

NoBatch == [head |-> NoBlock, tail |-> NoBlock]

\* The nodes of a new slice: all but the first form a list.
LinkedPage(next, p) ==
    [n \in BlockNodes |->
        IF n[1] # p \/ n[2] = 0 THEN next[n]
        ELSE IF n[2] < NodesPerPage - 1 THEN <<p, n[2] + 1>> ELSE NoBlock]

\* lf_block_queue_init: the sentinel is the first node of the first slice.
lf_block_queue_init ==
    LET p == FirstNode[1] IN
        /\ bqHead = FirstNode /\ bqTail = FirstNode
        /\ bqNodes = <<p, 1>>
        /\ bqNext = LinkedPage([n \in BlockNodes |-> NoBlock], p)
        /\ bqData = [n \in BlockNodes |-> NoBlock]
        /\ bqHp = [e \in BlockCallers |-> [j \in 0 .. 1 |-> NoBlock]]
        /\ bqRlist = [e \in BlockCallers |-> NoBlock]
        /\ bqRcount = [e \in BlockCallers |-> 0]
        /\ bqPages = {p}
        /\ bqBatch = [e \in BlockCallers |-> NoBatch]
        /\ bqPool = QueuedBlocks
        /\ bqPc = [e \in BlockCallers |-> "idle"]
        /\ bqVal = [e \in BlockCallers |-> NoBlock]
        /\ bqLoc = [e \in BlockCallers |-> B!NoLoc]
        /\ bqScan = [e \in BlockCallers |-> B!NoScan]
        /\ bqSaw = [e \in BlockCallers |-> FALSE]
        /\ bqCalls = [e \in BlockCallers |-> 0]
        /\ bqFree = BlockNodes \ {FirstNode}

BlockCall(e) == /\ bqPc[e] = "idle" /\ bqCalls[e] < MaxBlockCalls[e]
                /\ bqCalls' = [bqCalls EXCEPT ![e] = @ + 1]

-----------------------------------------------------------------------------
(* lf_block_queue_alloc_node.                                              *)

lf_block_queue_enqueue(e) ==
    /\ BlockCall(e) /\ e \in BlockEnqueuers
    /\ \E b \in bqPool : /\ bqPool' = bqPool \ {b}
                         /\ bqVal' = [bqVal EXCEPT ![e] = b]
    /\ B!Goto(e, "a_read")
    /\ UNCHANGED <<bqHead, bqTail, bqNext, bqData, bqHp, bqRlist, bqRcount, bqNodes,
                   bqPages, bqBatch, bqFree, bqLoc, bqScan, bqSaw>>

\* lf_block_queue_try_alloc_node: the first free node ...
AllocRead(e) ==
    /\ bqPc[e] = "a_read"
    /\ B!Local(e, "node", bqNodes)
    /\ B!Goto(e, IF bqNodes = NoBlock THEN "a_page" ELSE "a_next")
    /\ UNCHANGED <<blockQueueVars, blockHazardVars, blockCallVars, bqScan, blockOwn>>

AllocNext(e) ==
    /\ bqPc[e] = "a_next"
    /\ B!Local(e, "next", bqNext[bqLoc[e].node])
    /\ B!Goto(e, "a_cas")
    /\ UNCHANGED <<blockQueueVars, blockHazardVars, blockCallVars, bqScan, blockOwn>>

\* The node is filled in; nobody else has it before it is linked.
Filled(e, next, n) ==
    /\ bqFree' = bqFree \ {n}
    /\ bqNext' = [next EXCEPT ![n] = NoBlock]
    /\ bqData' = [bqData EXCEPT ![n] = bqVal[e]]
    /\ bqLoc' = [bqLoc EXCEPT ![e] = [B!NoLoc EXCEPT !.node = n]]
    /\ B!Goto(e, "e_tail")

AllocCas(e) ==
    LET n == bqLoc[e].node IN
    /\ bqPc[e] = "a_cas"
    /\ \/ /\ bqNodes = n
          /\ bqNodes' = bqLoc[e].next
          /\ Filled(e, bqNext, n)
       \/ /\ bqNodes # n
          /\ bqLoc' = [bqLoc EXCEPT ![e] = B!NoLoc]
          /\ B!Goto(e, "a_read")
          /\ UNCHANGED <<bqNodes, bqNext, bqData, bqFree>>
    /\ UNCHANGED <<bqHead, bqTail, bqHp, bqRlist, bqRcount, blockCallVars, bqScan,
                   bqPages, bqBatch, bqCalls>>

\* ... or the first one of a new slice, whose others become the stack if it is
\* still empty.  Without memory the program panics.
AllocPage(e) ==
    /\ bqPc[e] = "a_page"
    /\ \/ \E p \in NodePages \ bqPages :
              /\ bqPages' = bqPages \cup {p}
              /\ bqNext' = LinkedPage(bqNext, p)
              /\ B!Local(e, "node", <<p, 0>>)
              /\ B!Goto(e, "a_pageCas")
       \/ /\ B!Goto(e, "panic")
          /\ UNCHANGED <<bqPages, bqNext, bqLoc>>
    /\ UNCHANGED <<bqHead, bqTail, bqData, blockHazardVars, blockCallVars, bqScan,
                   bqBatch, bqCalls, bqFree>>

AllocPageCas(e) ==
    LET n == bqLoc[e].node IN
    /\ bqPc[e] = "a_pageCas"
    /\ \/ /\ bqNodes = NoBlock
          /\ bqNodes' = <<n[1], 1>>
          /\ Filled(e, bqNext, n)
          /\ UNCHANGED bqPages
       \/ /\ bqNodes # NoBlock
          /\ bqPages' = bqPages \ {n[1]}
          /\ bqLoc' = [bqLoc EXCEPT ![e] = B!NoLoc]
          /\ B!Goto(e, "a_read")
          /\ UNCHANGED <<bqNodes, bqNext, bqData, bqFree>>
    /\ UNCHANGED <<bqHead, bqTail, bqHp, bqRlist, bqRcount, blockCallVars, bqScan,
                   bqBatch, bqCalls>>

-----------------------------------------------------------------------------
(* The steps of the queue itself.                                          *)

\* lf_block_queue_try_enqueue and the end of lf_block_queue_enqueue.
BlockEnqueue(e) ==
    /\ \/ B!EnqueueTail(e) \/ B!EnqueueHazard(e) \/ B!EnqueueCheck(e)
       \/ B!EnqueueNext(e) \/ B!EnqueueAgain(e) \/ B!EnqueueHelp(e)
       \/ B!EnqueueCas(e) \/ B!EnqueueSwing(e) \/ B!EnqueueDone(e)
    /\ UNCHANGED blockOwn

lf_block_queue_dequeue(e) ==
    /\ BlockCall(e)
    /\ B!DequeueHead(e)
    /\ UNCHANGED <<bqPages, bqBatch, bqFree>>

\* lf_block_queue_try_dequeue
\* Mutant: lf_head is stored to instead of compared and set.
BlockDequeueStore(e) ==
    /\ \/ bqPc[e] # "idle" /\ B!DequeueHead(e)
       \/ B!DequeueHazard(e) \/ B!DequeueCheck(e) \/ B!DequeueTail(e)
       \/ B!DequeueNext(e) \/ B!DequeueHazardNext(e) \/ B!DequeueAgain(e)
       \/ B!DequeueHelp(e) \/ B!DequeueCasStore(e) \/ B!DequeueData(e)
       \/ B!DequeueUnhazard(e) \/ B!DequeueEmpty(e) \/ B!DequeueDone(e)
    /\ UNCHANGED blockOwn

BlockDequeue(e) ==
    /\ \/ bqPc[e] # "idle" /\ B!DequeueHead(e)
       \/ B!DequeueHazard(e) \/ B!DequeueCheck(e) \/ B!DequeueTail(e)
       \/ B!DequeueNext(e) \/ B!DequeueHazardNext(e) \/ B!DequeueAgain(e)
       \/ B!DequeueHelp(e) \/ B!DequeueCas(e) \/ B!DequeueData(e)
       \/ B!DequeueUnhazard(e) \/ B!DequeueEmpty(e) \/ B!DequeueDone(e)
    /\ UNCHANGED blockOwn

\* lf_block_queue_node_retire, and lf_block_queue_scan up to the table.
BlockRetire(e) ==
    /\ B!Retire(e) \/ B!Scan(e) \/ B!ScanStart(e)
    /\ UNCHANGED blockOwn

-----------------------------------------------------------------------------
(* lf_block_queue_scan_free_rlist.                                         *)

BlockScanNext(e) ==
    LET n == bqLoc[e].curr IN
    /\ bqPc[e] = "s_next"
    /\ \/ n = NoBlock /\ B!Onward(e, "f_read")
       \/ n # NoBlock /\ B!Local(e, "next", bqNext[n]) /\ B!Goto(e, "s_sort")
    /\ UNCHANGED <<blockQueueVars, blockHazardVars, blockCallVars, bqScan, blockOwn>>

\* Mutant: the end of the batch stays where it was.
BlockScanSortTail(e) ==
    LET n == bqLoc[e].curr
        batch == bqBatch[e] IN
    /\ bqPc[e] = "s_sort"
    /\ \/ /\ n \in bqScan[e].ptab
          /\ bqNext' = [bqNext EXCEPT ![n] = bqRlist[e]]
          /\ bqRlist' = [bqRlist EXCEPT ![e] = n]
          /\ bqRcount' = [bqRcount EXCEPT ![e] = @ + 1]
          /\ UNCHANGED <<bqBatch, bqFree>>
       \/ /\ n \notin bqScan[e].ptab /\ batch.head = NoBlock
          /\ bqBatch' = [bqBatch EXCEPT ![e] = [head |-> n, tail |-> n]]
          /\ bqFree' = bqFree \cup {n}
          /\ UNCHANGED <<bqNext, bqRlist, bqRcount>>
       \/ /\ n \notin bqScan[e].ptab /\ batch.head # NoBlock
          /\ bqNext' = [bqNext EXCEPT ![batch.tail] = n]
          /\ bqFree' = bqFree \cup {n}
          /\ UNCHANGED <<bqRlist, bqRcount, bqBatch>>
    /\ bqLoc' = [bqLoc EXCEPT ![e].curr = bqLoc[e].next]
    /\ B!Goto(e, "s_next")
    /\ UNCHANGED <<bqHead, bqTail, bqData, bqHp, bqNodes, blockCallVars, bqScan,
                   bqPages, bqCalls>>

\* A node that was seen in a hazard pointer is kept, another one joins the
\* batch of nodes to free.
BlockScanSort(e) ==
    LET n == bqLoc[e].curr
        batch == bqBatch[e] IN
    /\ bqPc[e] = "s_sort"
    /\ \/ /\ n \in bqScan[e].ptab
          /\ bqNext' = [bqNext EXCEPT ![n] = bqRlist[e]]
          /\ bqRlist' = [bqRlist EXCEPT ![e] = n]
          /\ bqRcount' = [bqRcount EXCEPT ![e] = @ + 1]
          /\ UNCHANGED <<bqBatch, bqFree>>
       \/ /\ n \notin bqScan[e].ptab /\ batch.head = NoBlock
          /\ bqBatch' = [bqBatch EXCEPT ![e] = [head |-> n, tail |-> n]]
          /\ bqFree' = bqFree \cup {n}
          /\ UNCHANGED <<bqNext, bqRlist, bqRcount>>
       \/ /\ n \notin bqScan[e].ptab /\ batch.head # NoBlock
          /\ bqNext' = [bqNext EXCEPT ![batch.tail] = n]
          /\ bqFree' = bqFree \cup {n}
          /\ bqBatch' = [bqBatch EXCEPT ![e].tail = n]
          /\ UNCHANGED <<bqRlist, bqRcount>>
    /\ bqLoc' = [bqLoc EXCEPT ![e].curr = bqLoc[e].next]
    /\ B!Goto(e, "s_next")
    /\ UNCHANGED <<bqHead, bqTail, bqData, bqHp, bqNodes, blockCallVars, bqScan,
                   bqPages, bqCalls>>

\* lf_block_queue_try_free_nodes: the last node of the batch is linked to the
\* stack.  Without a batch the step follows NULL.
BatchLink(e) ==
    /\ bqPc[e] = "f_read" /\ bqBatch[e].tail # NoBlock
    /\ bqNext' = [bqNext EXCEPT ![bqBatch[e].tail] = bqNodes]
    /\ B!Local(e, "next", bqNodes)
    /\ B!Goto(e, "f_cas")
    /\ UNCHANGED <<bqHead, bqTail, bqData, blockHazardVars, blockCallVars, bqScan,
                   blockOwn>>

BatchCas(e) ==
    /\ bqPc[e] = "f_cas"
    /\ \/ /\ bqNodes = bqLoc[e].next
          /\ bqNodes' = bqBatch[e].head
          /\ bqBatch' = [bqBatch EXCEPT ![e] = NoBatch]
          /\ bqScan' = [bqScan EXCEPT ![e] = B!NoScan]
          /\ bqLoc' = [bqLoc EXCEPT ![e] = B!NoLoc]
          /\ B!Goto(e, "d_done")
       \/ /\ bqNodes # bqLoc[e].next
          /\ B!Onward(e, "f_read")
          /\ UNCHANGED <<bqNodes, bqBatch, bqScan>>
    /\ UNCHANGED <<blockQueueVars, bqHp, bqRlist, bqRcount, blockCallVars, bqPages, bqCalls,
                   bqFree>>

BlockStep(e) ==
    \/ lf_block_queue_enqueue(e) \/ AllocRead(e) \/ AllocNext(e) \/ AllocCas(e)
    \/ AllocPage(e) \/ AllocPageCas(e) \/ BlockEnqueue(e)
    \/ lf_block_queue_dequeue(e) \/ BlockDequeue(e) \/ BlockRetire(e)
    \/ BlockScanNext(e) \/ BlockScanSort(e) \/ BatchLink(e) \/ BatchCas(e)

BlockNext == \E e \in BlockCallers : BlockStep(e)

BlockSpec == lf_block_queue_init /\ [][BlockNext]_blockVars

-----------------------------------------------------------------------------
(* Properties.                                                             *)

\* A scan frees at least one node: its list has one node more than there are
\* hazard pointers.  The code frees the batch without looking whether it is
\* empty (lf_block_queue.c:189), also while other executors keep their hazard
\* pointers on retired nodes.
ScanFreesOne ==
    \A e \in BlockCallers : bqPc[e] = "f_read" => bqBatch[e].head # NoBlock

\* Every node of a mapped slice is free, in the queue, retired by one executor
\* or in the hands of one: the batches that scans give back neither lose nor
\* duplicate a node.
BlockNodesAccounted ==
    LET batch(e) ==     \* from free_head on to free_tail
            LET c == B!Chain(bqBatch[e].head) IN
            {c[k] : k \in {j \in DOMAIN c : \A i \in 1 .. j - 1 : c[i] # bqBatch[e].tail}}
        inHand(e) ==
            CASE bqPc[e] \in {"e_tail", "e_hp", "e_check", "e_next", "e_again",
                              "e_help", "e_cas"} -> {bqLoc[e].node}
              [] bqPc[e] \in {"d_data", "d_unhp1", "retire"} -> {bqLoc[e].head}
              [] bqPc[e] = "s_next" -> batch(e) \cup B!OnChain(bqLoc[e].curr)
              [] bqPc[e] = "s_sort" ->
                     batch(e) \cup {bqLoc[e].curr} \cup B!OnChain(bqLoc[e].next)
              [] bqPc[e] \in {"f_read", "f_cas"} -> batch(e)
              [] OTHER -> {}
        fresh == {bqLoc[e].node[1] : e \in {f \in BlockCallers : bqPc[f] = "a_pageCas"}}
        hands == [e \in BlockCallers |-> inHand(e)]
        retired == [e \in BlockCallers |-> B!OnChain(bqRlist[e])]
        stack == B!OnChain(bqNodes)
        queue == B!OnChain(bqHead)
        places(n) == {"stack" : x \in {n} \cap stack} \cup {"queue" : x \in {n} \cap queue}
                     \cup {<<"retired", e>> : e \in {f \in BlockCallers : n \in retired[f]}}
                     \cup {<<"hand", e>> : e \in {f \in BlockCallers : n \in hands[f]}}
    IN  \A n \in BlockNodes : n[1] \in bqPages \ fresh => Cardinality(places(n)) = 1

\* The allocator uses the queue as an atomic FIFO (mm/malloc/lf_malloc.c).
BlockQueueIsFifo == B!ImplementsFifo

-----------------------------------------------------------------------------
(* The same queue with its allocator hidden, as LFThreadQueue has it: the  *)
(* step that gets a node starts the call, a node is free as soon as a scan *)
(* has sorted it out, and the fields of a free node are nobody's.          *)

AllocLabels == {"a_read", "a_next", "a_cas", "a_page", "a_pageCas", "panic"}
BatchLabels == {"f_read", "f_cas"}
Allocating == {e \in BlockCallers : bqPc[e] \in AllocLabels}

tqNext == [n \in BlockNodes |-> IF n \in bqFree THEN NoBlock ELSE bqNext[n]]
tqData == [n \in BlockNodes |-> IF n \in bqFree THEN NoBlock ELSE bqData[n]]
tqPool == bqPool \cup {bqVal[e] : e \in Allocating}
tqPc == [e \in BlockCallers |-> IF bqPc[e] \in AllocLabels THEN "idle"
                                ELSE IF bqPc[e] \in BatchLabels THEN "s_next" ELSE bqPc[e]]
tqVal == [e \in BlockCallers |-> IF bqPc[e] \in AllocLabels THEN NoBlock ELSE bqVal[e]]
tqLoc == [e \in BlockCallers |->
             IF bqPc[e] \in AllocLabels \cup BatchLabels THEN B!NoLoc ELSE bqLoc[e]]

Queue == INSTANCE LFThreadQueue WITH
    NumExecs <- BlockExecs, Enqueuers <- BlockEnqueuers, FairExecs <- {},
    Threads <- QueuedBlocks, NoThread <- NoBlock,
    Nodes <- BlockNodes, Sentinel <- FirstNode, NoNode <- NoBlock,
    Threshold <- HptrThreshold,
    head <- bqHead, tail <- bqTail, next <- tqNext, data <- tqData, hp <- bqHp,
    rlist <- bqRlist, rcount <- bqRcount, free <- bqFree, pool <- tqPool,
    pc <- tqPc, val <- tqVal, loc <- tqLoc, scan <- bqScan, sawEmpty <- bqSaw

\* A free node is taken off the stack although its successor is no longer the
\* one that was read before: it was popped and given back in between, which the
\* comparison of lf_block_queue.c:47 does not see.
StalePop(e) ==
    /\ AllocCas(e)
    /\ bqNodes = bqLoc[e].node
    /\ bqNext[bqLoc[e].node] # bqLoc[e].next

\* The two steps after which the queue promises nothing any more: such a pop,
\* and an enqueue behind a node that has left the queue.
Undisturbed == \A e \in BlockCallers : ~StalePop(e) /\ ~Queue!LateLink(e)

\* Nobody but the allocator can tell that nodes come from slices and go back in
\* batches: every step is one of LFThreadQueue's or none (lf_block_queue.c
\* repeats lf_thread_queue.c but for its nodes).  A stale pop breaks that.
ImplementsThreadQueue == [][Queue!Next]_(Queue!vars)
=============================================================================
