---------------------------- MODULE MallocWords ----------------------------
(***************************************************************************)
(* The words lf_malloc.c compares and sets (mm/arch/ia32/lf_malloc_data.c):*)
(* the anchor of a descriptor packs four fields, the active word of a heap *)
(* a pointer and its credits.  The widths are parameters; in the code they *)
(* are 10, 10, 2 and 42 bits, and 6 bits under a pointer.                  *)
(***************************************************************************)
EXTENDS Naturals

CONSTANTS
    AvailBits, CreditsBits, StateBits, TagBits,     \* of an anchor
    ActiveBits,     \* of the credits of an active word
    Lines           \* the pointers: addresses that end in ActiveBits zeros

ASSUME WordsAssumption ==
    /\ {AvailBits, CreditsBits, StateBits, TagBits, ActiveBits} \subseteq Nat
    /\ Lines \subseteq {p \in Nat : p % 2^ActiveBits = 0}

\* Two laws of exponents, at these widths: they hold of all natural numbers, and
\* the provers know nothing of exponents.
ASSUME ExponentLaws ==
    /\ \A n \in {AvailBits, CreditsBits, StateBits, TagBits, ActiveBits} : 2^n \in Nat \ {0}
    /\ 2^(TagBits + StateBits) = 2^TagBits * 2^StateBits
    /\ 2^(TagBits + StateBits + CreditsBits) = 2^TagBits * 2^StateBits * 2^CreditsBits

VARIABLES
    anchorWord, activeWord,     \* the packed words
    fields                      \* history: what was stored in the fields last

wordVars == <<anchorWord, activeWord, fields>>

\* The shifts of the fields; the masks are the bits from there to the next.
anchor_state_shift == TagBits
anchor_credits_shift == TagBits + StateBits
anchor_avail_shift == TagBits + StateBits + CreditsBits

Field(w, shift, bits) == (w \div 2^shift) % 2^bits

\* Mutant: the value is not masked.
WithFieldUnmasked(w, shift, bits, v) == w - Field(w, shift, bits) * 2^shift + v * 2^shift

\* w with v, cut to the field's width, in place of the field.
WithField(w, shift, bits, v) ==
    w - Field(w, shift, bits) * 2^shift + (v % 2^bits) * 2^shift

anchor_create(avail, credits, state) ==
    (avail % 2^AvailBits) * 2^anchor_avail_shift
    + (credits % 2^CreditsBits) * 2^anchor_credits_shift
    + (state % 2^StateBits) * 2^anchor_state_shift

anchor_get_avail(w) == Field(w, anchor_avail_shift, AvailBits)
anchor_set_avail(w, v) == WithField(w, anchor_avail_shift, AvailBits, v)
anchor_get_credits(w) == Field(w, anchor_credits_shift, CreditsBits)
anchor_set_credits(w, v) == WithField(w, anchor_credits_shift, CreditsBits, v)
anchor_get_state(w) == Field(w, anchor_state_shift, StateBits)
anchor_set_state(w, v) == WithField(w, anchor_state_shift, StateBits, v)
anchor_get_tag(w) == Field(w, 0, TagBits)
anchor_set_tag(w, v) == WithField(w, 0, TagBits, v)

\* The mask of the pointer cuts the low bits of an address.
PtrPart(w) == w - (w % 2^ActiveBits)

active_create(ptr, credits) == PtrPart(ptr) + (credits % 2^ActiveBits)
active_get_credits(w) == w % 2^ActiveBits
active_set_credits(w, v) == PtrPart(w) + (v % 2^ActiveBits)
active_get_ptr(w) == PtrPart(w)
active_set_ptr(w, ptr) == PtrPart(ptr) + (w % 2^ActiveBits)

\* Any value an int variable may hold here: one bit more than the field.
Ints(bits) == 0 .. 2^(bits + 1) - 1

WordsInit ==
    \E a \in Ints(AvailBits), c \in Ints(CreditsBits), s \in Ints(StateBits), p \in Lines :
        /\ anchorWord = anchor_create(a, c, s)
        /\ activeWord = active_create(p, c)
        /\ fields = [avail |-> a % 2^AvailBits, credits |-> c % 2^CreditsBits,
                     state |-> s % 2^StateBits, tag |-> 0, ptr |-> p,
                     active |-> c % 2^ActiveBits]

SetAvail == \E v \in Ints(AvailBits) :
    /\ anchorWord' = anchor_set_avail(anchorWord, v)
    /\ fields' = [fields EXCEPT !.avail = v % 2^AvailBits]
    /\ UNCHANGED activeWord

SetCredits == \E v \in Ints(CreditsBits) :
    /\ anchorWord' = anchor_set_credits(anchorWord, v)
    /\ fields' = [fields EXCEPT !.credits = v % 2^CreditsBits]
    /\ UNCHANGED activeWord

SetState == \E v \in 0 .. 3 :
    /\ anchorWord' = anchor_set_state(anchorWord, v)
    /\ fields' = [fields EXCEPT !.state = v % 2^StateBits]
    /\ UNCHANGED activeWord

\* The tag counts the pops of a superblock and wraps.
NextTag ==
    /\ anchorWord' = anchor_set_tag(anchorWord, anchor_get_tag(anchorWord) + 1)
    /\ fields' = [fields EXCEPT !.tag = (@ + 1) % 2^TagBits]
    /\ UNCHANGED activeWord

SetActive == \E v \in Ints(ActiveBits), p \in Lines :
    /\ \/ activeWord' = active_set_credits(active_set_ptr(activeWord, p), v)
       \/ activeWord' = active_set_ptr(active_set_credits(activeWord, v), p)
    /\ fields' = [fields EXCEPT !.ptr = p, !.active = v % 2^ActiveBits]
    /\ UNCHANGED anchorWord

WordsNext == SetAvail \/ SetCredits \/ SetState \/ NextTag \/ SetActive

WordsSpec == WordsInit /\ [][WordsNext]_wordVars

-----------------------------------------------------------------------------

\* Every field of both words reads back what was stored in it last: setting one
\* never spills into its neighbours, not even with a value that is too wide or
\* when the tag wraps.
FieldsIndependent ==
    fields = [avail |-> anchor_get_avail(anchorWord),
              credits |-> anchor_get_credits(anchorWord),
              state |-> anchor_get_state(anchorWord),
              tag |-> anchor_get_tag(anchorWord),
              ptr |-> active_get_ptr(activeWord),
              active |-> active_get_credits(activeWord)]
=============================================================================
