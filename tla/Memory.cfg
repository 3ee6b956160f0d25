\* Slices, unmanaged memory, its packed words and its size classes.
SPECIFICATION MemorySpec
CONSTANTS
    Execs = {e1, e2}
    NULL = NULL
    UintMod = 32
    SliceTabSize = 3
    SliceSizes = {1, 2}
    SliceTypes = {"GC", "MALLOC"}
    Limit <- MCLimit
    Uninitialized = {NULL, 1, 2, 3}
    MaxSliceAllocs = 3
    Heaps = {h1}
    Superblocks = {s1, s2, s3}
    DescPages = {p1, p2}
    DescsPerPage = 6
    MaxCount = 3
    MaxCredits = 1
    MaxMallocs = 4
    HeapExecs = 2
    Requests <- MCRequests
    AvailBits = 2
    CreditsBits = 2
    StateBits = 2
    TagBits = 2
    ActiveBits = 2
    Lines = {4, 8}
SYMMETRY MemorySymmetry
CHECK_DEADLOCK FALSE
INVARIANTS
    EntriesKept
    SpaceCovered
    CreditsMatchBlocks
    HeldIsMapped
    DescriptorsKept
    BlockHoldsRequest
    CountsFitWords
    FieldsIndependent
