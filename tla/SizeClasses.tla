---------------------------- MODULE SizeClasses ----------------------------
(***************************************************************************)
(* How malloc_lf (mm/malloc/lf_malloc.c) chooses the block for a request:  *)
(* the size class, the heap of that class and the block it hands out.      *)
(* CACHE_LINE_SIZE is 32, PAGE_SIZE 4096 (include/arch/ia32/arch.h).       *)
(***************************************************************************)
EXTENDS Naturals, Sequences

CONSTANTS
    Requests,       \* the sizes callers ask for
    HeapExecs       \* the number of executors, each with a heap per class

VARIABLE request    \* the request malloc_lf works on, 0: none

CacheLineSize == 32
PageSize == 4096
SuperblockSize == 65536     \* sc_block_size, the same for every class
NumSizeClasses == 32

\* malloc_sizeclasses[c].sc_size
ScSize(c) ==
    << 32, 64, 96, 128, 160, 192, 224, 256, 320, 384, 448, 512,
       640, 768, 896, 1024, 1280, 1536, 1792, 2048, 2560, 3072, 3584, 4096,
       5120, 6144, 7168, 8192, 10240, 12288, 14336, 16384 >>[c + 1]

\* malloc_big_size_class: up to six divisions by two, until fewer than four
\* steps of the class's width are left; the last one has no such test.
malloc_big_size_class(size, base) ==
    LET div[k \in 0 .. 5] == IF k = 0 THEN size \div 64 ELSE (div[k - 1] - 4) \div 2
        level == CHOOSE k \in 0 .. 5 : /\ k = 5 \/ div[k] < 4
                                       /\ \A j \in 0 .. k - 1 : div[j] >= 4
    IN  base + 4 * level + div[level]

\* Mutant: the classes of the big sizes start one too low.
SizeClassLow(size) ==
    IF size \div 32 < 8 THEN size \div 32 ELSE malloc_big_size_class(size, 7)

malloc_size_class(size) ==
    IF size \div 32 < 8 THEN size \div 32 ELSE malloc_big_size_class(size, 8)

\* The size malloc_lf looks for: the block begins with a line for its tag.
\* Mutant: the line is not added.
FullSizeBare(req) == req

FullSize(req) == req + CacheLineSize

\* find_heap: small requests have a heap.
HasHeap(size) == size <= 262144

\* The size of the block that a heap or a whole slice gives.  The heaps of the
\* executors follow each other in memory: a class past the last one is a heap
\* of the next executor, and past the last executor there is none.
BlockSizes(size) ==
    IF HasHeap(size)
    THEN {IF h < HeapExecs * NumSizeClasses THEN ScSize(h % NumSizeClasses) ELSE 0 :
             h \in {e * NumSizeClasses + malloc_size_class(size) : e \in 0 .. HeapExecs - 1}}
    ELSE {((size - 1) % PageSize) + PageSize}

SizesInit == request = 0

malloc_request == request = 0 /\ request' \in Requests

malloc_reply == request # 0 /\ request' = 0

SizesNext == malloc_request \/ malloc_reply

SizesSpec == SizesInit /\ [][SizesNext]_request

-----------------------------------------------------------------------------
(* Properties.                                                             *)

\* malloc_lf returns "A pointer to a block of at least size bytes, or NULL"
\* (include/mm/mm_malloc.h:59), whichever executor asks.
BlockHoldsRequest ==
    request # 0 => \A b \in BlockSizes(FullSize(request)) : b >= FullSize(request)

\* The blocks of a superblock of any class that a request can reach are few
\* enough for the anchor and the active word: an index and a count of free
\* blocks have 10 bits, the credits of the active word 6 (MAX_CREDITS is 64).
CountsFitWords ==
    request # 0 =>
        LET maxcount == SuperblockSize \div ScSize(malloc_size_class(FullSize(request)))
            lesser == IF maxcount - 1 < 64 THEN maxcount - 1 ELSE 64
        IN  /\ maxcount - 1 < 2^10
            /\ lesser >= 1 /\ lesser - 1 < 2^6
=============================================================================
