------------------------------ MODULE Runtime ------------------------------
(***************************************************************************)
(* What the memory-management modules share: the executors, the NULL       *)
(* pointer, unsigned arithmetic and the linked lists kept in memory.       *)
(***************************************************************************)
EXTENDS Naturals, FiniteSets

CONSTANTS
    Execs,      \* the executors: the threads the operating system schedules
    NULL,       \* the NULL pointer
    UintMod     \* one more than the largest unsigned int

ASSUME RuntimeAssumption ==
    /\ IsFiniteSet(Execs) /\ Execs # {}
    /\ UintMod \in Nat \ {0}

\* unsigned int arithmetic: it wraps
UAdd(a, b) == (a + b) % UintMod
USub(a, b) == (a + UintMod - b) % UintMod

\* The cells a list that starts at head runs through when next[c] is the
\* successor of c.  A list that runs into a cycle has them all the same.
ListFrom(head, next) ==
    LET cells == DOMAIN next
        after[n \in Nat] == IF n = 0 THEN {head}
                            ELSE {next[c] : c \in after[n - 1] \cap cells}
    IN  cells \cap UNION {after[n] : n \in 0 .. Cardinality(cells)}

=============================================================================
