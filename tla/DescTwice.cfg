\* A page of three descriptors, as good as used up: the one that remains on the
\* list is the one that was handed out with the page.
SPECIFICATION MallocSpec
CONSTANTS
    Execs = {e1}
    NULL = NULL
    UintMod = 32
    Heaps = {h1}
    Superblocks = {s1, s2}
    DescPages = {p1}
    DescsPerPage = 3
    MaxCount = 3
    MaxCredits = 1
    MaxMallocs = 6
CHECK_DEADLOCK FALSE
INVARIANTS
    HeldIsMapped
