------------------------------ MODULE MCMemory ------------------------------
(***************************************************************************)
(* Model-checking instance of the unmanaged memory: the slices, the        *)
(* allocator, its packed words and its size classes, side by side.  Each   *)
(* is used by the others through what it promises, so that a behaviour is  *)
(* one of one of them; the others stay as they are.                        *)
(***************************************************************************)
EXTENDS Slice, LFMalloc, SizeClasses, MallocWords, TLC

VARIABLES
    component,      \* the one this behaviour is about
    disturbed       \* history: a step like those of Disturbance was taken

memoryVars == <<component, disturbed, sliceVars, mallocVars, request, wordVars>>

\* Executors are interchangeable, and so are the slices of a kind.
MemorySymmetry ==
    Permutations(Execs) \cup Permutations(Superblocks) \cup Permutations(DescPages)

MCLimit == [c \in Counters |-> IF c = "malloc" THEN 1 ELSE 2]

\* Requests up to the first that has no size class.
MCRequests == 1 .. 16095

\* A heap whose first descriptor and, if there are two, whose second one are
\* used for the superblocks of `of'; those of full are full, another one is
\* the heap's partial superblock with one block in use.
Heap(p, of, full, calls) ==
    LET used == DOMAIN of
        sbOf == [d \in Descs |-> IF \E s \in used : of[s] = d
                                 THEN CHOOSE s \in used : of[s] = d ELSE NULL] IN
    /\ phActive = [h \in Heaps |-> NoActive]
    /\ phPartial = [h \in Heaps |-> IF used = full THEN NULL
                                    ELSE of[CHOOSE s \in used : s \notin full]]
    /\ scPartial = <<>>
    /\ anchor = [d \in Descs |->
           IF sbOf[d] = NULL THEN NoAnchor
           ELSE IF sbOf[d] \in full
           THEN [avail |-> 0, credits |-> 0, state |-> "FULL", tag |-> MaxCount - 1]
           ELSE [avail |-> 2, credits |-> 2, state |-> "PARTIAL", tag |-> MaxCount - 1]]
    /\ desSlice = sbOf
    /\ desHeap = [d \in Descs |-> IF sbOf[d] = NULL THEN NULL
                                  ELSE CHOOSE h \in Heaps : TRUE]
    /\ desNext = [d \in Descs |-> IF d[1] = p /\ d[2] < DescsPerPage - 2
                                  THEN <<p, d[2] + 1>> ELSE NULL]
    /\ descAvail = <<p, Cardinality(used)>>
    /\ word = [s \in Superblocks |-> [b \in Blocks |->
           CASE s \notin used -> IndexWord(0)
             [] s \in used \ full /\ b > 0 -> IndexWord(b - 1)
             [] OTHER -> DescWord(of[s])]]
    /\ mappedSb = used \cup {p}
    /\ held = (full \X Blocks) \cup ((used \ full) \X {0})
    /\ ml = [e \in Execs |-> MallocIdle]
    /\ mallocCalls = calls

\* Two states that mm_malloc_init reaches, with calls left: one full
\* superblock, or one partial and one full.
UsedHeap ==
    \E p \in DescPages, s, t \in Superblocks :
        LET first == <<p, DescsPerPage - 2>>
            second == <<p, 1>> IN
        \/ Heap(p, s :> first, {s}, MaxMallocs - 2)
        \/ s # t /\ Heap(p, s :> first @@ t :> second, {t}, MaxMallocs - 1)

MemoryInit ==
    /\ component \in {"slice", "malloc", "sizes", "words"}
    /\ disturbed = FALSE
    /\ slice_init
    /\ \/ mm_malloc_init
       \/ component = "malloc" /\ UsedHeap
    /\ SizesInit
    /\ WordsInit
    /\ component = "words" \/ (anchorWord = 0 /\ activeWord = Min(Lines))

\* The steps after which the entries or the descriptors are no longer what the
\* code takes them for.
Disturbance ==
    \/ component = "slice" /\ ~Undisturbed
    \/ component = "malloc" /\ \E e \in Execs : StaleDescPop(e) \/ PageUsedUp(e)
Record == disturbed' = (disturbed \/ Disturbance)

SliceAlone == /\ component = "slice" /\ SliceNext /\ Record
              /\ UNCHANGED <<component, mallocVars, request, wordVars>>
MallocAlone == /\ component = "malloc" /\ MallocNext /\ Record
               /\ UNCHANGED <<component, sliceVars, request, wordVars>>
SizesAlone == /\ component = "sizes" /\ SizesNext
              /\ UNCHANGED <<component, disturbed, sliceVars, mallocVars, wordVars>>
WordsAlone == /\ component = "words" /\ WordsNext
              /\ UNCHANGED <<component, disturbed, sliceVars, mallocVars, request>>

MemoryNext == SliceAlone \/ MallocAlone \/ SizesAlone \/ WordsAlone

MemorySpec == MemoryInit /\ [][MemoryNext]_memoryVars

-----------------------------------------------------------------------------
(* Properties.                                                             *)

\* As long as no executor has popped a stale entry (slice.c:58) or pushed an
\* unassigned `out' (line 369), EntriesPartitioned: racing slice_alloc and
\* slice_free of all executors lose an entry or hand it out twice in these two
\* ways only.
EntriesKept == disturbed \/ EntriesPartitioned

\* As long as no executor has popped a stale descriptor (lf_malloc.c:402) or the
\* last one of a page, which has been in use since the page was made,
\* DescriptorsUnique: the racing malloc_lf and free_lf of all executors give a
\* descriptor two superblocks in these two ways only.
DescriptorsKept == disturbed \/ DescriptorsUnique
=============================================================================
