------------------------------ MODULE LFMalloc ------------------------------
(***************************************************************************)
(* The lock-free allocator of unmanaged memory (mm/malloc/lf_malloc.c)     *)
(* for one size class: superblocks of MaxCount blocks, each described by   *)
(* a descriptor whose anchor (first free block, free blocks, state, tag)   *)
(* is changed only by compare-and-set; every heap has an active superblock *)
(* with credits, that is reserved blocks, and a partially used one, and    *)
(* the size class a queue of partially used ones.                          *)
(*                                                                         *)
(* A heap belongs to an executor, but malloc reads the executor's id and   *)
(* the calling thread may be moved before it uses the heap: any executor   *)
(* may work on any heap.  The slices come from slice.c and the queue from  *)
(* lf_block_queue.c; both are used here through what they promise.         *)
(***************************************************************************)
EXTENDS Runtime, Sequences, FiniteSetsExt

CONSTANTS
    Heaps,          \* the processor heaps of the size class
    Superblocks,    \* the slices superblocks are made of
    DescPages,      \* the slices descriptors are made of
    DescsPerPage,   \* the descriptors in one of them
    MaxCount,       \* the blocks of a superblock
    MaxCredits,     \* MAX_CREDITS
    MaxMallocs      \* bound: calls of malloc_lf in a behaviour

Descs == DescPages \X (0 .. DescsPerPage - 1)
Blocks == 0 .. MaxCount - 1

\* What an unsigned int read from a word that holds a descriptor's address is
\* taken for: not a block of the superblock.
Garbage == MaxCount

VARIABLES
    phActive,       \* ph_active of every heap: descriptor and credits
    phPartial,      \* ph_partial of every heap
    scPartial,      \* sc_partial, the queue of the size class
    anchor,         \* des_anchor of every descriptor
    desSlice,       \* des_slice
    desHeap,        \* des_heap
    desNext,        \* des_next
    descAvail,      \* malloc_desc_avail
    word,           \* the first word of every block: a block or a descriptor
    mappedSb,       \* the slices that are mapped
    held,           \* the blocks the callers hold
    ml,             \* the local variables and the pc of every executor
    mallocCalls     \* calls of malloc_lf so far

heapVars == <<phActive, phPartial, scPartial>>
descVars == <<anchor, desSlice, desHeap>>
listVars == <<desNext, descAvail>>
mallocVars == <<heapVars, descVars, listVars, word, mappedSb, held, ml,
                mallocCalls>>

\* An active word without a superblock is 0.
NoActive == [ptr |-> NULL, credits |-> 0]
NoAnchor == [avail |-> 0, credits |-> 0, state |-> "ACTIVE", tag |-> 0]
IndexWord(i) == [index |-> i, desc |-> NULL]
DescWord(d) == [index |-> Garbage, desc |-> d]

MallocIdle == [pc |-> "idle", ret |-> "idle", heap |-> NULL, desc |-> NULL,
               act |-> NoActive, anc |-> NoAnchor, next |-> 0, more |-> 0,
               block |-> 0, sb |-> NULL, ptr |-> NULL]

mm_malloc_init ==
    /\ phActive = [h \in Heaps |-> NoActive]
    /\ phPartial = [h \in Heaps |-> NULL]
    /\ scPartial = <<>>
    /\ anchor = [d \in Descs |-> NoAnchor]
    /\ desSlice = [d \in Descs |-> NULL]
    /\ desHeap = [d \in Descs |-> NULL]
    /\ desNext = [d \in Descs |-> NULL]
    /\ descAvail = NULL
    /\ word = [s \in Superblocks |-> [b \in Blocks |-> IndexWord(0)]]
    /\ mappedSb = {}
    /\ held = {}
    /\ ml = [e \in Execs |-> MallocIdle]
    /\ mallocCalls = 0

Set(e, l) == ml' = [ml EXCEPT ![e] = l]
At(e, label) == ml[e].pc = label
Goto(e, label) == Set(e, [ml[e] EXCEPT !.pc = label])
Lesser(a, b) == IF a <= b THEN a ELSE b

-----------------------------------------------------------------------------
(* malloc_lf: from the active superblock, a partial one or a new one.      *)

\* find_heap: the request has a heap of its size class.
malloc_lf(e) ==
    \E h \in Heaps :
        /\ At(e, "idle") /\ mallocCalls < MaxMallocs
        /\ mallocCalls' = mallocCalls + 1
        /\ Set(e, [MallocIdle EXCEPT !.heap = h, !.pc = "reserve"])
        /\ UNCHANGED <<heapVars, descVars, listVars, word, mappedSb, held>>

\* reserve_from_active: without an active superblock, try a partial one.
ReserveActive(e) ==
    LET l == ml[e]
        a == phActive[l.heap] IN
    /\ At(e, "reserve")
    /\ Set(e, [l EXCEPT !.act = a, !.pc = IF a.ptr = NULL THEN "getPartial"
                                          ELSE "reserveCas"])
    /\ UNCHANGED <<heapVars, descVars, listVars, word, mappedSb, held,
                   mallocCalls>>

\* The active word once a credit has been taken: the last one takes the
\* superblock with it.
Taken(a) == IF a.credits = 0 THEN [a EXCEPT !.ptr = NULL]
            ELSE [a EXCEPT !.credits = @ - 1]

try_reserve_from_active(e) ==
    LET l == ml[e] IN
    /\ At(e, "reserveCas")
    /\ \/ /\ phActive[l.heap] = l.act
          /\ phActive' = [phActive EXCEPT ![l.heap] = Taken(l.act)]
          /\ Set(e, [l EXCEPT !.desc = l.act.ptr, !.pc = "popRead"])
       \/ /\ phActive[l.heap] # l.act
          /\ Goto(e, "reserve")
          /\ UNCHANGED phActive
    /\ UNCHANGED <<phPartial, scPartial, descVars, listVars, word, mappedSb,
                   held, mallocCalls>>

\* pop_from_active and pop_from_partial read the anchor, then the word of the
\* first free block, which another executor may have taken meanwhile.
PopRead(e) ==
    LET l == ml[e] IN
    /\ ml[e].pc \in {"popRead", "partialPopRead"}
    /\ Set(e, [l EXCEPT !.anc = anchor[l.desc],
               !.pc = IF l.pc = "popRead" THEN "popNext" ELSE "partialPopNext"])
    /\ UNCHANGED <<heapVars, descVars, listVars, word, mappedSb, held,
                   mallocCalls>>

PopNext(e) ==
    LET l == ml[e] IN
    /\ ml[e].pc \in {"popNext", "partialPopNext"}
    /\ Set(e, [l EXCEPT !.next = word[desSlice[l.desc]][l.anc.avail].index,
               !.pc = IF l.pc = "popNext" THEN "popCas" ELSE "partialPopCas"])
    /\ UNCHANGED <<heapVars, descVars, listVars, word, mappedSb, held,
                   mallocCalls>>

\* The anchor without its first block.
Popped(anc, next) == [anc EXCEPT !.avail = next, !.tag = @ + 1]

\* pop_from_active: whoever took the last credit makes the superblock full or
\* moves more of its free blocks to the active word.
PopActive(e) ==
    LET l == ml[e]
        last == l.act.credits = 0
        more == Lesser(l.anc.credits, MaxCredits)
        popped == Popped(l.anc, l.next)
        new == IF ~last THEN popped
               ELSE IF l.anc.credits = 0 THEN [popped EXCEPT !.state = "FULL"]
               ELSE [popped EXCEPT !.credits = @ - more] IN
    /\ At(e, "popCas")
    /\ \/ /\ anchor[l.desc] = l.anc
          /\ anchor' = [anchor EXCEPT ![l.desc] = new]
          /\ Set(e, [l EXCEPT !.block = l.anc.avail, !.more = more,
                     !.pc = IF last /\ l.anc.credits > 0 THEN "activeCas"
                            ELSE "store"])
       \/ /\ anchor[l.desc] # l.anc
          /\ Goto(e, "popRead")
          /\ UNCHANGED anchor
    /\ UNCHANGED <<heapVars, desSlice, desHeap, listVars, word, mappedSb, held,
                   mallocCalls>>

\* The block is the caller's once its first word names the descriptor.
StoreDesc(e) ==
    LET l == ml[e]
        sb == desSlice[l.desc] IN
    /\ At(e, "store")
    /\ word' = [word EXCEPT ![sb][l.block] = DescWord(l.desc)]
    /\ held' = held \cup {<<sb, l.block>>}
    /\ Set(e, MallocIdle)
    /\ UNCHANGED <<heapVars, descVars, listVars, mappedSb, mallocCalls>>

\* update_active: the credits go to the active word if there is none.
update_active(e) ==
    LET l == ml[e] IN
    /\ At(e, "activeCas")
    /\ \/ /\ phActive[l.heap] = NoActive
          /\ phActive' = [phActive EXCEPT ![l.heap] =
                              [ptr |-> l.desc, credits |-> l.more - 1]]
          /\ Goto(e, "store")
       \/ /\ phActive[l.heap] # NoActive
          /\ Set(e, [l EXCEPT !.pc = "updateRead"])
          /\ UNCHANGED phActive
    /\ UNCHANGED <<phPartial, scPartial, descVars, listVars, word, mappedSb,
                   held, mallocCalls>>

UpdateRead(e) ==
    /\ At(e, "updateRead")
    /\ Set(e, [ml[e] EXCEPT !.anc = anchor[ml[e].desc], !.pc = "updateCas"])
    /\ UNCHANGED <<heapVars, descVars, listVars, word, mappedSb, held,
                   mallocCalls>>

\* Mutant: the credits that could not be made active are forgotten.
UpdateCasForgets(e) ==
    LET l == ml[e] IN
    /\ At(e, "updateCas")
    /\ \/ /\ anchor[l.desc] = l.anc
          /\ anchor' = [anchor EXCEPT ![l.desc].state = "PARTIAL"]
          /\ Set(e, [l EXCEPT !.pc = "putRead", !.ret = "store"])
       \/ /\ anchor[l.desc] # l.anc
          /\ Goto(e, "updateRead")
          /\ UNCHANGED anchor
    /\ UNCHANGED <<heapVars, desSlice, desHeap, listVars, word, mappedSb, held,
                   mallocCalls>>

\* update_partial: otherwise they go back to the anchor.
UpdateCas(e) ==
    LET l == ml[e] IN
    /\ At(e, "updateCas")
    /\ \/ /\ anchor[l.desc] = l.anc
          /\ anchor' = [anchor EXCEPT ![l.desc].state = "PARTIAL",
                                      ![l.desc].credits = @ + l.more]
          /\ Set(e, [l EXCEPT !.pc = "putRead", !.ret = "store"])
       \/ /\ anchor[l.desc] # l.anc
          /\ Goto(e, "updateRead")
          /\ UNCHANGED anchor
    /\ UNCHANGED <<heapVars, desSlice, desHeap, listVars, word, mappedSb, held,
                   mallocCalls>>

-----------------------------------------------------------------------------
(* Partially used superblocks.                                             *)

\* try_heap_put_partial: the descriptor becomes its heap's partial one.
PutRead(e) ==
    LET l == ml[e] IN
    /\ At(e, "putRead")
    /\ Set(e, [l EXCEPT !.ptr = phPartial[desHeap[l.desc]], !.pc = "putCas"])
    /\ UNCHANGED <<heapVars, descVars, listVars, word, mappedSb, held,
                   mallocCalls>>

PutCas(e) ==
    LET l == ml[e]
        h == desHeap[l.desc] IN
    /\ At(e, "putCas")
    /\ \/ /\ phPartial[h] = l.ptr
          /\ phPartial' = [phPartial EXCEPT ![h] = l.desc]
          /\ Goto(e, IF l.ptr = NULL THEN l.ret ELSE "putEnqueue")
       \/ /\ phPartial[h] # l.ptr
          /\ Goto(e, "putRead")
          /\ UNCHANGED phPartial
    /\ UNCHANGED <<phActive, scPartial, descVars, listVars, word, mappedSb,
                   held, mallocCalls>>

\* The one it replaces goes to the queue.
PutEnqueue(e) ==
    LET l == ml[e] IN
    /\ At(e, "putEnqueue")
    /\ scPartial' = Append(scPartial, l.ptr)
    /\ Set(e, [l EXCEPT !.ptr = NULL, !.pc = l.ret])
    /\ UNCHANGED <<phActive, phPartial, descVars, listVars, word, mappedSb,
                   held, mallocCalls>>

\* heap_get_partial: the heap's partial descriptor, else one of the queue,
\* else a new superblock is needed.
GetPartial(e) ==
    LET l == ml[e]
        p == phPartial[l.heap] IN
    /\ At(e, "getPartial")
    /\ Set(e, [l EXCEPT !.desc = p,
               !.pc = IF p = NULL THEN "getDequeue" ELSE "getCas"])
    /\ UNCHANGED <<heapVars, descVars, listVars, word, mappedSb, held,
                   mallocCalls>>

GetCas(e) ==
    LET l == ml[e] IN
    /\ At(e, "getCas")
    /\ \/ /\ phPartial[l.heap] = l.desc
          /\ phPartial' = [phPartial EXCEPT ![l.heap] = NULL]
          /\ Goto(e, "claimRead")
       \/ /\ phPartial[l.heap] # l.desc
          /\ Goto(e, "getPartial")
          /\ UNCHANGED phPartial
    /\ UNCHANGED <<phActive, scPartial, descVars, listVars, word, mappedSb,
                   held, mallocCalls>>

GetDequeue(e) ==
    LET l == ml[e] IN
    /\ At(e, "getDequeue")
    /\ \/ /\ scPartial = <<>>
          /\ Goto(e, "newSb")
          /\ UNCHANGED scPartial
       \/ /\ scPartial # <<>>
          /\ Set(e, [l EXCEPT !.desc = Head(scPartial), !.pc = "claimRead"])
          /\ scPartial' = Tail(scPartial)
    /\ UNCHANGED <<phActive, phPartial, descVars, listVars, word, mappedSb,
                   held, mallocCalls>>

\* malloc_from_partial: an emptied superblock is passed over.
ClaimRead(e) ==
    LET l == ml[e]
        a == anchor[l.desc] IN
    /\ At(e, "claimRead")
    /\ Set(e, [l EXCEPT !.anc = a, !.pc = IF a.state = "EMPTY" THEN "getPartial"
                                          ELSE "claimCas"])
    /\ UNCHANGED <<heapVars, descVars, listVars, word, mappedSb, held,
                   mallocCalls>>

\* One free block is reserved for this call and up to MaxCredits for the
\* active word.
ClaimCas(e) ==
    LET l == ml[e]
        credits == Lesser(l.anc.credits - 1, MaxCredits) IN
    /\ At(e, "claimCas")
    /\ \/ /\ anchor[l.desc] = l.anc
          /\ anchor' = [anchor EXCEPT
                 ![l.desc].state = IF credits > 0 THEN "ACTIVE" ELSE "FULL",
                 ![l.desc].credits = @ - (credits + 1)]
          /\ Set(e, [l EXCEPT !.more = credits, !.pc = "partialPopRead"])
       \/ /\ anchor[l.desc] # l.anc
          /\ Goto(e, "claimRead")
          /\ UNCHANGED anchor
    /\ UNCHANGED <<heapVars, desSlice, desHeap, listVars, word, mappedSb, held,
                   mallocCalls>>

\* pop_from_partial
PopPartial(e) ==
    LET l == ml[e] IN
    /\ At(e, "partialPopCas")
    /\ \/ /\ anchor[l.desc] = l.anc
          /\ anchor' = [anchor EXCEPT ![l.desc] = Popped(l.anc, l.next)]
          /\ Set(e, [l EXCEPT !.block = l.anc.avail,
                     !.pc = IF l.more > 0 THEN "activeCas" ELSE "store"])
       \/ /\ anchor[l.desc] # l.anc
          /\ Goto(e, "partialPopRead")
          /\ UNCHANGED anchor
    /\ UNCHANGED <<heapVars, desSlice, desHeap, listVars, word, mappedSb, held,
                   mallocCalls>>

-----------------------------------------------------------------------------
(* New superblocks and descriptors.                                        *)

\* malloc_from_new_sb: slice_alloc may have no memory, then the whole attempt
\* starts again.
NewSb(e) ==
    LET l == ml[e] IN
    /\ At(e, "newSb")
    /\ \/ \E s \in Superblocks \ mappedSb :
              /\ mappedSb' = mappedSb \cup {s}
              /\ Set(e, [l EXCEPT !.sb = s, !.pc = "descRead"])
       \/ /\ Goto(e, "reserve")
          /\ UNCHANGED mappedSb
    /\ UNCHANGED <<heapVars, descVars, listVars, word, held, mallocCalls>>

\* try_desc_alloc: the first free descriptor and then its successor ...
DescRead(e) ==
    LET l == ml[e] IN
    /\ At(e, "descRead")
    /\ Set(e, [l EXCEPT !.desc = descAvail,
               !.pc = IF descAvail = NULL THEN "descPage" ELSE "descNext"])
    /\ UNCHANGED <<heapVars, descVars, listVars, word, mappedSb, held,
                   mallocCalls>>

DescNext(e) ==
    /\ At(e, "descNext")
    /\ Set(e, [ml[e] EXCEPT !.ptr = desNext[ml[e].desc], !.pc = "descCas"])
    /\ UNCHANGED <<heapVars, descVars, listVars, word, mappedSb, held,
                   mallocCalls>>

\* Mutant: the list is moved on without looking whether it still begins with
\* the descriptor that was read.
DescCasStore(e) ==
    LET l == ml[e] IN
    /\ At(e, "descCas")
    /\ descAvail' = l.ptr
    /\ Set(e, [l EXCEPT !.ptr = NULL, !.pc = "install"])
    /\ UNCHANGED <<heapVars, descVars, desNext, word, mappedSb, held,
                   mallocCalls>>

DescCas(e) ==
    LET l == ml[e] IN
    /\ At(e, "descCas")
    /\ \/ /\ descAvail = l.desc
          /\ descAvail' = l.ptr
          /\ Set(e, [l EXCEPT !.ptr = NULL, !.pc = "install"])
       \/ /\ descAvail # l.desc
          /\ Goto(e, "descRead")
          /\ UNCHANGED descAvail
    /\ UNCHANGED <<heapVars, descVars, desNext, word, mappedSb, held,
                   mallocCalls>>

\* ... or a page of new ones, linked from the second to the last but one.  That
\* one is returned, and stays the last of the list.  Without memory the
\* allocation is tried again.
DescPage(e) ==
    LET l == ml[e]
        last == DescsPerPage - 2 IN
    /\ At(e, "descPage")
    /\ \/ \E p \in DescPages \ mappedSb :
              /\ mappedSb' = mappedSb \cup {p}
              /\ desNext' = [d \in Descs |->
                     CASE d[1] # p -> desNext[d]
                       [] d[1] = p /\ d[2] < last -> <<p, d[2] + 1>>
                       [] OTHER -> NULL]
              /\ Set(e, [l EXCEPT !.desc = <<p, last>>, !.pc = "descPageCas"])
       \/ /\ Goto(e, "descRead")
          /\ UNCHANGED <<desNext, mappedSb>>
    /\ UNCHANGED <<heapVars, descVars, descAvail, word, held, mallocCalls>>

DescPageCas(e) ==
    LET l == ml[e] IN
    /\ At(e, "descPageCas")
    /\ \/ /\ descAvail = NULL
          /\ descAvail' = <<l.desc[1], 1>>
          /\ Goto(e, "install")
          /\ UNCHANGED mappedSb
       \/ /\ descAvail # NULL
          /\ mappedSb' = mappedSb \ {l.desc[1]}
          /\ Set(e, [l EXCEPT !.desc = NULL, !.pc = "descRead"])
          /\ UNCHANGED descAvail
    /\ UNCHANGED <<heapVars, descVars, desNext, word, held, mallocCalls>>

\* The credits of a new active superblock: block 0 is this call's.
NewCredits == Lesser(MaxCount - 1, MaxCredits) - 1

\* The blocks from the second on are linked and the descriptor is filled in.
Install(e) ==
    LET l == ml[e] IN
    /\ At(e, "install")
    /\ word' = [word EXCEPT ![l.sb] = [b \in Blocks |->
                   IF b \in 1 .. MaxCount - 2 THEN IndexWord(b + 1)
                   ELSE IndexWord(0)]]
    /\ desSlice' = [desSlice EXCEPT ![l.desc] = l.sb]
    /\ desHeap' = [desHeap EXCEPT ![l.desc] = l.heap]
    /\ anchor' = [anchor EXCEPT ![l.desc] =
                     [avail |-> 1, credits |-> (MaxCount - 1) - (NewCredits + 1),
                      state |-> "ACTIVE", tag |-> 0]]
    /\ Goto(e, "installCas")
    /\ UNCHANGED <<heapVars, listVars, mappedSb, held, mallocCalls>>

\* It becomes the active superblock unless another one has: then the memory
\* is given back and malloc_lf tries again.
InstallCas(e) ==
    LET l == ml[e] IN
    /\ At(e, "installCas")
    /\ \/ /\ phActive[l.heap] = NoActive
          /\ phActive' = [phActive EXCEPT ![l.heap] =
                              [ptr |-> l.desc, credits |-> NewCredits]]
          /\ Set(e, [l EXCEPT !.block = 0, !.pc = "store"])
          /\ UNCHANGED mappedSb
       \/ /\ phActive[l.heap] # NoActive
          /\ mappedSb' = mappedSb \ {l.sb}
          /\ Set(e, [l EXCEPT !.pc = "retireRead", !.ret = "reserve"])
          /\ UNCHANGED phActive
    /\ UNCHANGED <<phPartial, scPartial, descVars, listVars, word, held,
                   mallocCalls>>

\* malloc_try_desc_retire
RetireRead(e) ==
    LET l == ml[e] IN
    /\ At(e, "retireRead")
    /\ desNext' = [desNext EXCEPT ![l.desc] = descAvail]
    /\ Set(e, [l EXCEPT !.ptr = descAvail, !.pc = "retireCas"])
    /\ UNCHANGED <<heapVars, descVars, descAvail, word, mappedSb, held,
                   mallocCalls>>

RetireCas(e) ==
    LET l == ml[e] IN
    /\ At(e, "retireCas")
    /\ \/ /\ descAvail = l.ptr
          /\ descAvail' = l.desc
          /\ Set(e, [MallocIdle EXCEPT !.pc = l.ret,
                     !.heap = IF l.ret = "idle" THEN NULL ELSE l.heap])
       \/ /\ descAvail # l.ptr
          /\ Goto(e, "retireRead")
          /\ UNCHANGED descAvail
    /\ UNCHANGED <<heapVars, descVars, desNext, word, mappedSb, held,
                   mallocCalls>>

-----------------------------------------------------------------------------
(* free_lf                                                                 *)

free_lf(e) ==
    \E x \in held :
        /\ At(e, "idle")
        /\ held' = held \ {x}
        /\ Set(e, [MallocIdle EXCEPT !.desc = word[x[1]][x[2]].desc,
                   !.sb = x[1], !.block = x[2], !.pc = "freeRead"])
        /\ UNCHANGED <<heapVars, descVars, listVars, word, mappedSb, mallocCalls>>

\* try_free: the anchor is read, and the block's number computed from the
\* address of the descriptor's slice, which is the block's own unless the
\* descriptor describes two (desc_twice); the number is taken as known.
FreeRead(e) ==
    /\ At(e, "freeRead")
    /\ Set(e, [ml[e] EXCEPT !.anc = anchor[ml[e].desc], !.pc = "freeLink"])
    /\ UNCHANGED <<heapVars, descVars, listVars, word, mappedSb, held, mallocCalls>>

\* The block is linked in front of the list.
FreeLink(e) ==
    LET l == ml[e] IN
    /\ At(e, "freeLink")
    /\ word' = [word EXCEPT ![l.sb][l.block] = IndexWord(l.anc.avail)]
    /\ Set(e, [l EXCEPT !.heap = desHeap[l.desc], !.pc = "freeCas"])
    /\ UNCHANGED <<heapVars, descVars, listVars, mappedSb, held, mallocCalls>>

\* The anchor with the block freed: EMPTY when all the others are free.
\* Mutant: empty one block too early.
FreedEarly(anc, block) ==
    IF anc.credits = MaxCount - 2
    THEN [anc EXCEPT !.avail = block, !.state = "EMPTY"]
    ELSE [anc EXCEPT !.avail = block, !.credits = @ + 1,
                     !.state = IF @ = "FULL" THEN "PARTIAL" ELSE @]

Freed(anc, block) ==
    IF anc.credits = MaxCount - 1
    THEN [anc EXCEPT !.avail = block, !.state = "EMPTY"]
    ELSE [anc EXCEPT !.avail = block, !.credits = @ + 1,
                     !.state = IF @ = "FULL" THEN "PARTIAL" ELSE @]

\* An emptied superblock is unmapped, a full one becomes a partial one.
FreeCas(e) ==
    LET l == ml[e]
        new == Freed(l.anc, l.block) IN
    /\ At(e, "freeCas")
    /\ \/ /\ anchor[l.desc] = l.anc
          /\ anchor' = [anchor EXCEPT ![l.desc] = new]
          /\ \/ /\ new.state = "EMPTY"
                /\ mappedSb' = mappedSb \ {desSlice[l.desc]}
                /\ Goto(e, "remove")
             \/ /\ new.state # "EMPTY" /\ l.anc.state = "FULL"
                /\ Goto(e, "putRead")
                /\ UNCHANGED mappedSb
             \/ /\ new.state # "EMPTY" /\ l.anc.state # "FULL"
                /\ Set(e, MallocIdle)
                /\ UNCHANGED mappedSb
       \/ /\ anchor[l.desc] # l.anc
          /\ Goto(e, "freeRead")
          /\ UNCHANGED <<anchor, mappedSb>>
    /\ UNCHANGED <<heapVars, desSlice, desHeap, listVars, word, held,
                   mallocCalls>>

\* remove_empty_desc: the descriptor is retired if its heap still has it.
RemoveCas(e) ==
    LET l == ml[e] IN
    /\ At(e, "remove")
    /\ \/ /\ phPartial[l.heap] = l.desc
          /\ phPartial' = [phPartial EXCEPT ![l.heap] = NULL]
          /\ Goto(e, "retireRead")
       \/ /\ phPartial[l.heap] # l.desc
          /\ Goto(e, "removeDequeue")
          /\ UNCHANGED phPartial
    /\ UNCHANGED <<phActive, scPartial, descVars, listVars, word, mappedSb,
                   held, mallocCalls>>

\* Otherwise descriptors are taken off the queue until an empty one is found,
\* and that one is put back.
RemoveDequeue(e) ==
    LET l == ml[e] IN
    /\ At(e, "removeDequeue")
    /\ \/ /\ scPartial = <<>>
          /\ Set(e, MallocIdle)
          /\ UNCHANGED scPartial
       \/ /\ scPartial # <<>>
          /\ scPartial' = Tail(scPartial)
          /\ Set(e, [l EXCEPT !.ptr = Head(scPartial), !.pc = "removeLook"])
    /\ UNCHANGED <<phActive, phPartial, descVars, listVars, word, mappedSb,
                   held, mallocCalls>>

RemoveLook(e) ==
    LET l == ml[e] IN
    /\ At(e, "removeLook")
    /\ Set(e, [l EXCEPT !.ret = "idle",
               !.pc = IF anchor[l.ptr].state = "EMPTY" THEN "putEnqueue"
                      ELSE "removeDequeue"])
    /\ UNCHANGED <<heapVars, descVars, listVars, word, mappedSb, held,
                   mallocCalls>>

MallocStep(e) ==
    \/ malloc_lf(e) \/ ReserveActive(e) \/ try_reserve_from_active(e)
    \/ PopRead(e) \/ PopNext(e) \/ PopActive(e) \/ StoreDesc(e)
    \/ update_active(e) \/ UpdateRead(e) \/ UpdateCas(e)
    \/ PutRead(e) \/ PutCas(e) \/ PutEnqueue(e)
    \/ GetPartial(e) \/ GetCas(e) \/ GetDequeue(e)
    \/ ClaimRead(e) \/ ClaimCas(e) \/ PopPartial(e)
    \/ NewSb(e) \/ DescRead(e) \/ DescNext(e) \/ DescCas(e)
    \/ DescPage(e) \/ DescPageCas(e) \/ Install(e) \/ InstallCas(e)
    \/ RetireRead(e) \/ RetireCas(e)
    \/ free_lf(e) \/ FreeRead(e) \/ FreeLink(e) \/ FreeCas(e)
    \/ RemoveCas(e) \/ RemoveDequeue(e) \/ RemoveLook(e)

MallocNext == \E e \in Execs : MallocStep(e)

MallocSpec == mm_malloc_init /\ [][MallocNext]_mallocVars

-----------------------------------------------------------------------------
(* Properties.                                                             *)

\* The descriptor whose superblock an executor is about to read or write.
Touches(e) ==
    IF ml[e].pc \in {"popNext", "partialPopNext", "store", "freeRead",
                  "freeLink"}
    THEN {ml[e].desc} ELSE {}

\* The block an executor has taken and not handed to its caller, or has been
\* given to free and not yet put back.
BlockInHand(e) ==
    LET l == ml[e] IN
    IF \/ l.pc \in {"activeCas", "updateRead", "updateCas", "store", "freeRead",
                    "freeLink", "freeCas"}
       \/ l.pc \in {"putRead", "putCas", "putEnqueue"} /\ l.ret = "store"
    THEN {<<desSlice[l.desc], l.block>>}
    ELSE IF l.pc = "installCas" THEN {<<l.sb, 0>>} ELSE {}

\* The blocks of descriptor d that executor e has reserved and not popped.
ReservedBy(e, d) ==
    LET l == ml[e] IN
    IF l.desc # d THEN 0
    ELSE CASE l.pc \in {"popRead", "popNext", "popCas"} -> 1
           [] l.pc \in {"partialPopRead", "partialPopNext", "partialPopCas"} -> 1 + l.more
           [] l.pc \in {"activeCas", "updateRead", "updateCas"} -> l.more
           [] l.pc = "installCas" -> NewCredits + 1
           [] OTHER -> 0

\* The descriptors in use: a heap, the queue, a block or an executor has them,
\* and their superblock has not been emptied.
InUse ==
    LET parts == {phActive[h].ptr : h \in Heaps} \cup {phPartial[h] : h \in Heaps}
                 \cup {scPartial[i] : i \in DOMAIN scPartial}
        blocks == {word[x[1]][x[2]].desc : x \in held}
        hands == {ml[e].desc : e \in {f \in Execs : BlockInHand(f) # {}}}
    IN  {d \in (parts \cup blocks \cup hands) \ {NULL} : anchor[d].state # "EMPTY"}

\* The first n blocks of the list of free blocks of a descriptor.
FreeBlocks(d, n) ==
    LET at[i \in Nat] == IF i = 0 THEN anchor[d].avail
                         ELSE LET b == at[i - 1] IN
                              IF b \in Blocks THEN word[desSlice[d]][b].index
                              ELSE Garbage
    IN  {at[i] : i \in 0 .. n - 1}

\* A superblock accounts for each of its blocks once: the blocks of its list
\* are exactly the ones no caller holds and no executor has in its hands, and
\* they are as many as the anchor, the active word of a heap and the executors'
\* reservations have credits for.  Were it not so, a block would be handed out
\* twice or never again.
CreditsMatchBlocks ==
    \A d \in InUse :
        LET sb == desSlice[d]
            taken == held \cup UNION {BlockInHand(e) : e \in Execs}
            free == {b \in Blocks : <<sb, b>> \notin taken}
            credits == anchor[d].credits
                + MapThenSumSet(LAMBDA h : IF phActive[h].ptr = d
                                           THEN phActive[h].credits + 1 ELSE 0, Heaps)
                + MapThenSumSet(LAMBDA e : ReservedBy(e, d), Execs)
        IN  /\ Cardinality(free) = credits
            /\ FreeBlocks(d, credits) = free

\* Blocks in use are in mapped memory: a superblock is unmapped only when its
\* last block has been freed and nobody has reserved one, and no executor
\* reads or writes a block of an unmapped one.
HeldIsMapped ==
    /\ \A x \in held : x[1] \in mappedSb /\ word[x[1]][x[2]].desc # NULL
    /\ \A e \in Execs : \A d \in Touches(e) : desSlice[d] \in mappedSb

\* The compare-and-set of try_desc_alloc (line 402) succeeds although the
\* descriptor was popped and retired again since its successor was read.
StaleDescPop(e) ==
    /\ DescCas(e)
    /\ descAvail = ml[e].desc
    /\ desNext[ml[e].desc] # ml[e].ptr

\* It pops the last descriptor of a page, which was returned when the page was
\* made and left on the list (lines 430 to 444).
PageUsedUp(e) ==
    /\ DescCas(e)
    /\ descAvail = ml[e].desc
    /\ ml[e].desc[2] = DescsPerPage - 2

\* A descriptor describes one superblock: it is neither taken off the list of
\* free descriptors twice nor put there while it is in use.
DescriptorsUnique ==
    LET uses(e) == IF ml[e].pc \in {"install", "installCas", "retireRead", "retireCas"}
                   THEN {ml[e].desc} ELSE {}
    IN  /\ \A e, f \in Execs : e # f => uses(e) \cap uses(f) = {}
        /\ \A e \in Execs : \A h \in Heaps :
               phActive[h].ptr \notin uses(e) /\ phPartial[h] \notin uses(e)
        /\ \A x \in held : word[x[1]][x[2]].desc # NULL =>
               desSlice[word[x[1]][x[2]].desc] = x[1]
=============================================================================
