------------------------------- MODULE Slice -------------------------------
(***************************************************************************)
(* The slice allocator (mm/slice.c): slices are large blocks mapped from   *)
(* the operating system.  Their descriptors come from a static table whose *)
(* free entries form a lock-free stack, and the space they take is         *)
(* reserved in three counters before it is mapped.  One step per access to *)
(* a shared word.                                                          *)
(***************************************************************************)
EXTENDS Runtime, FiniteSetsExt

CONSTANTS
    SliceTabSize,   \* SLICE_TAB_SIZE
    SliceSizes,     \* the sizes the callers ask for
    SliceTypes,     \* the types they ask for
    Limit,          \* the limit of each counter: "total", "gc", "malloc"
    Uninitialized,  \* what slice_alloc's `out' may hold before it is assigned
    MaxSliceAllocs  \* bound: calls of slice_alloc in a behaviour

ASSUME SliceAssumption ==
    /\ SliceTabSize \in Nat \ {0}
    /\ NULL \notin Nat
    /\ SliceSizes \subseteq Nat

VARIABLES
    freeList,       \* slice_free_list
    sNext,          \* s_next of every entry
    spaceOf,        \* total_size, gc_size, malloc_size
    mapped,         \* the entries whose s_ptr is mapped memory
    desc,           \* s_type and s_size of every entry
    owned,          \* the entries the callers of slice_alloc hold
    sl,             \* the local variables and the pc of every executor
    sliceCalls      \* calls of slice_alloc so far

sliceVars == <<freeList, sNext, spaceOf, mapped, desc, owned, sl, sliceCalls>>

Entries == 1 .. SliceTabSize
Counters == {"total", "gc", "malloc"}

\* The counter that is reserved besides the total, by type.
ClassOf(type) == CASE type = "GC" -> {"gc"} [] type = "MALLOC" -> {"malloc"}
                   [] OTHER -> {}

SliceIdle == [pc |-> "idle", type |-> "STATIC", size |-> 0, counter |-> "total",
              old |-> 0, entry |-> NULL, next |-> NULL]

\* slice_init: the whole table is free.  gc_size and malloc_size are static.
slice_init ==
    /\ freeList = 1
    /\ sNext = [s \in Entries |-> IF s < SliceTabSize THEN s + 1 ELSE NULL]
    /\ spaceOf = [c \in Counters |-> 0]
    /\ mapped = {}
    /\ desc = [s \in Entries |-> [type |-> "STATIC", size |-> 0]]
    /\ owned = {}
    /\ sl = [e \in Execs |-> SliceIdle]
    /\ sliceCalls = 0

Local(e, l) == sl' = [sl EXCEPT ![e] = l]

\* The end of an operation: the locals are gone.
Return(e) == Local(e, SliceIdle)

-----------------------------------------------------------------------------
(* Space: a counter is reserved and released by compare-and-set loops.     *)

slice_alloc(e) ==
    \E type \in SliceTypes, size \in SliceSizes :
        /\ sl[e].pc = "idle" /\ sliceCalls < MaxSliceAllocs
        /\ sliceCalls' = sliceCalls + 1
        /\ Local(e, [SliceIdle EXCEPT !.pc = "reserve", !.type = type,
                                      !.size = size])
        /\ UNCHANGED <<freeList, sNext, spaceOf, mapped, desc, owned>>

\* The test of the loops: the code goes on when the new value has reached the
\* limit and gives up when it is below it.
Available(old, size, counter) == UAdd(old, size) >= Limit[counter]

\* Where a failed reservation leads: `out' has not been assigned yet, and the
\* error path of slice_alloc pushes it on the free list unless it is NULL.
ReserveFailed(e) ==
    \/ /\ sl[e].counter = "total"
       /\ \E x \in Uninitialized :
              Local(e, [sl[e] EXCEPT !.entry = x, !.pc = "fail"])
    \/ /\ sl[e].counter # "total"
       /\ Local(e, [sl[e] EXCEPT !.pc = "release"])

\* One round of slice_reserve_total_space, _gc_space or _malloc_space.  The
\* count of failures of the first one is not initialized: it may give up at
\* once or look again.
ReserveRead(e) ==
    LET l == sl[e]
        old == spaceOf[l.counter] IN
    /\ l.pc = "reserve"
    /\ \/ /\ Available(old, l.size, l.counter)
          /\ Local(e, [l EXCEPT !.old = old, !.pc = "reserveCas"])
       \/ /\ ~Available(old, l.size, l.counter)
          /\ ReserveFailed(e)
       \/ /\ ~Available(old, l.size, l.counter) /\ l.counter = "total"
          /\ UNCHANGED sl
    /\ UNCHANGED <<freeList, sNext, spaceOf, mapped, desc, owned, sliceCalls>>

\* slice_reserve_space: after the total, the counter of the type.
Reserved(l) ==
    LET more == IF l.counter = "total" THEN ClassOf(l.type) ELSE {} IN
    IF more = {} THEN [l EXCEPT !.pc = "entry"]
    ELSE [l EXCEPT !.pc = "reserve", !.counter = CHOOSE c \in more : TRUE]

\* Mutant: the counter is stored instead of compared and set.
ReserveCasStore(e) ==
    LET l == sl[e] IN
    /\ l.pc = "reserveCas"
    /\ spaceOf' = [spaceOf EXCEPT ![l.counter] = UAdd(l.old, l.size)]
    /\ Local(e, Reserved(l))
    /\ UNCHANGED <<freeList, sNext, mapped, desc, owned, sliceCalls>>

ReserveCas(e) ==
    LET l == sl[e] IN
    /\ l.pc = "reserveCas"
    /\ \/ /\ spaceOf[l.counter] = l.old
          /\ spaceOf' = [spaceOf EXCEPT ![l.counter] = UAdd(l.old, l.size)]
          /\ Local(e, Reserved(l))
       \/ /\ spaceOf[l.counter] # l.old
          /\ Local(e, [l EXCEPT !.pc = "reserve"])
          /\ UNCHANGED spaceOf
    /\ UNCHANGED <<freeList, sNext, mapped, desc, owned, sliceCalls>>

ReleaseRead(e) ==
    /\ sl[e].pc = "release"
    /\ Local(e, [sl[e] EXCEPT !.old = spaceOf["total"], !.pc = "releaseCas"])
    /\ UNCHANGED <<freeList, sNext, spaceOf, mapped, desc, owned, sliceCalls>>

\* slice_release_total_space, after the counter of the type was refused.
ReleaseCas(e) ==
    LET l == sl[e] IN
    /\ l.pc = "releaseCas"
    /\ \/ /\ spaceOf["total"] = l.old
          /\ spaceOf' = [spaceOf EXCEPT !["total"] = USub(l.old, l.size)]
          /\ \E x \in Uninitialized :
                 Local(e, [l EXCEPT !.entry = x, !.pc = "fail"])
       \/ /\ spaceOf["total"] # l.old
          /\ Local(e, [l EXCEPT !.pc = "release"])
          /\ UNCHANGED spaceOf
    /\ UNCHANGED <<freeList, sNext, mapped, desc, owned, sliceCalls>>

-----------------------------------------------------------------------------
(* Entries: a stack with a compare-and-set of its first entry.             *)

\* slice_entry_try_alloc: the first entry, then its successor, then the CAS.
EntryRead(e) ==
    LET l == [sl[e] EXCEPT !.entry = freeList] IN
    /\ sl[e].pc = "entry"
    /\ Local(e, [l EXCEPT !.pc = IF freeList = NULL THEN "fail" ELSE "entryNext"])
    /\ UNCHANGED <<freeList, sNext, spaceOf, mapped, desc, owned, sliceCalls>>

EntryNext(e) ==
    /\ sl[e].pc = "entryNext"
    /\ Local(e, [sl[e] EXCEPT !.next = sNext[sl[e].entry], !.pc = "entryCas"])
    /\ UNCHANGED <<freeList, sNext, spaceOf, mapped, desc, owned, sliceCalls>>

\* Mutant: the list is moved on without looking whether it still begins with
\* the entry that was read.
EntryCasStore(e) ==
    LET l == sl[e] IN
    /\ l.pc = "entryCas"
    /\ freeList' = l.next
    /\ Local(e, [l EXCEPT !.pc = "map"])
    /\ UNCHANGED <<sNext, spaceOf, mapped, desc, owned, sliceCalls>>

EntryCas(e) ==
    LET l == sl[e] IN
    /\ l.pc = "entryCas"
    /\ \/ /\ freeList = l.entry
          /\ freeList' = l.next
          /\ Local(e, [l EXCEPT !.pc = "map"])
       \/ /\ freeList # l.entry
          /\ Local(e, [l EXCEPT !.pc = "entry", !.entry = NULL])
          /\ UNCHANGED freeList
    /\ UNCHANGED <<sNext, spaceOf, mapped, desc, owned, sliceCalls>>

\* os_mem_map: mmap gives the memory or refuses it; in the second case the
\* entry goes back and the space stays reserved.
Map(e) ==
    LET l == sl[e] IN
    /\ l.pc = "map"
    /\ \/ /\ mapped' = mapped \cup {l.entry}
          /\ desc' = [desc EXCEPT ![l.entry] = [type |-> l.type, size |-> l.size]]
          /\ owned' = owned \cup {l.entry}
          /\ Return(e)
       \/ /\ mapped' = mapped \ {l.entry}
          /\ Local(e, [l EXCEPT !.pc = "fail"])
          /\ UNCHANGED <<desc, owned>>
    /\ UNCHANGED <<freeList, sNext, spaceOf, sliceCalls>>

\* The error path of slice_alloc.
Fail(e) ==
    LET l == sl[e] IN
    /\ l.pc = "fail"
    /\ \/ l.entry = NULL /\ Return(e)
       \/ l.entry # NULL /\ Local(e, [l EXCEPT !.pc = "push"])
    /\ UNCHANGED <<freeList, sNext, spaceOf, mapped, desc, owned, sliceCalls>>

\* slice_free: the caller's slice is unmapped and its entry pushed.  The space
\* it was reserved from stays as it is.
slice_free(e) ==
    \E s \in owned :
        /\ sl[e].pc = "idle"
        /\ owned' = owned \ {s}
        /\ mapped' = mapped \ {s}
        /\ Local(e, [SliceIdle EXCEPT !.pc = "push", !.entry = s])
        /\ UNCHANGED <<freeList, sNext, spaceOf, desc, sliceCalls>>

\* slice_entry_try_free: the successor is stored, then the CAS.
Push(e) ==
    LET l == sl[e] IN
    /\ l.pc = "push"
    /\ sNext' = [sNext EXCEPT ![l.entry] = freeList]
    /\ Local(e, [l EXCEPT !.next = freeList, !.pc = "pushCas"])
    /\ UNCHANGED <<freeList, spaceOf, mapped, desc, owned, sliceCalls>>

PushCas(e) ==
    LET l == sl[e] IN
    /\ l.pc = "pushCas"
    /\ \/ /\ freeList = l.next
          /\ freeList' = l.entry
          /\ Return(e)
       \/ /\ freeList # l.next
          /\ Local(e, [l EXCEPT !.pc = "push"])
          /\ UNCHANGED freeList
    /\ UNCHANGED <<sNext, spaceOf, mapped, desc, owned, sliceCalls>>

SliceStep(e) ==
    \/ slice_alloc(e) \/ ReserveRead(e) \/ ReserveCas(e) \/ ReleaseRead(e)
    \/ ReleaseCas(e) \/ EntryRead(e) \/ EntryNext(e) \/ EntryCas(e) \/ Map(e)
    \/ Fail(e) \/ slice_free(e) \/ Push(e) \/ PushCas(e)

SliceNext == \E e \in Execs : SliceStep(e)

SliceSpec == slice_init /\ [][SliceNext]_sliceVars

-----------------------------------------------------------------------------
(* Properties.                                                             *)

\* The entry an executor has taken off the list and not handed on.
InHand(e) == IF sl[e].pc \in {"map", "fail", "push", "pushCas"}
             THEN {sl[e].entry} \ {NULL} ELSE {}

\* Every entry of the table is on the free list, in the hands of one executor
\* inside slice_alloc or slice_free, or held by a caller, and in one of these
\* places only: none is lost and none is handed out twice when executors pop
\* (line 59) and push (line 336) at the same time.
EntriesPartitioned ==
    LET free == ListFrom(freeList, sNext)
        places(s) == (IF s \in free THEN 1 ELSE 0) + (IF s \in owned THEN 1 ELSE 0)
                     + Cardinality({e \in Execs : s \in InHand(e)})
    IN  \A s \in Entries : places(s) = 1

\* The compare-and-set of slice_entry_try_alloc (line 58) succeeds although the
\* entry was popped and pushed again since its successor was read: the first
\* entry is the same and its successor is another one.
StalePop(e) ==
    /\ EntryCas(e)
    /\ freeList = sl[e].entry
    /\ sNext[sl[e].entry] # sl[e].next

\* The error path reads `out' (line 369) though slice_reserve_space failed and
\* nothing has been assigned to it, and finds what it takes for an entry.
GarbageOut(e) ==
    /\ ReserveRead(e) \/ ReleaseCas(e)
    /\ sl'[e].pc = "fail" /\ sl'[e].entry # NULL

\* A step that is neither.
Undisturbed == \A e \in Execs : ~StalePop(e) /\ ~GarbageOut(e)

\* The part of a counter that executors inside slice_alloc have reserved.
Pending(c) ==
    {e \in Execs : \/ sl[e].pc \in {"entry", "entryNext", "entryCas", "map"}
                      /\ c \in {"total"} \cup ClassOf(sl[e].type)
                   \/ sl[e].pc \in {"release", "releaseCas"} /\ c = "total"
                   \/ sl[e].pc \in {"reserve", "reserveCas"} /\ c = "total"
                      /\ sl[e].counter # "total"}

\* Memory that a caller holds, or that an executor is about to map, is
\* reserved in the total and in the counter of its type: a reservation is
\* never lost between the executors that reserve and release (lines 87, 115,
\* 173 and 231).
SpaceCovered ==
    \A c \in Counters :
        LET slices == {s \in owned : c \in {"total"} \cup ClassOf(desc[s].type)} IN
        spaceOf[c] >= MapThenSumSet(LAMBDA s : desc[s].size, slices)
                      + MapThenSumSet(LAMBDA e : sl[e].size, Pending(c))
=============================================================================
