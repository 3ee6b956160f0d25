---------------------------- MODULE MemoryProofs ----------------------------
(***************************************************************************)
(* The memory below the collector.                                         *)
(*   - The table of slices: no entry of it is lost or handed out twice     *)
(*     unless a stale entry is popped or an unassigned one pushed.         *)
(*   - The size classes: every request that has one gets a block it fits   *)
(*     in, for every number of executors, and the counts of the blocks fit *)
(*     in the packed words.                                                *)
(*   - The packed words: their fields are independent, for every width.    *)
(***************************************************************************)
EXTENDS Slice, SizeClasses, MallocWords, TLAPS, FiniteSetTheorems, WellFoundedInduction

-----------------------------------------------------------------------------
(* Stacks of entries.                                                      *)

\* The n entries of r, from the last one, to which top points, along next
\* down to NULL.
StackOK(next, top, n, r) ==
    /\ n \in Nat /\ r \in [1 .. n -> Entries]
    /\ top = IF n = 0 THEN NULL ELSE r[n]
    /\ \A i \in 1 .. n : next[r[i]] = IF i = 1 THEN NULL ELSE r[i - 1]
    /\ \A i, j \in 1 .. n : r[i] = r[j] => i = j

On(n, r) == {r[i] : i \in 1 .. n}

EntryOrNull == Entries \cup {NULL}

\* What holds of 0, and of n + 1 if of n, holds of every natural number.
LEMMA SetInduction ==
    ASSUME NEW S, 0 \in S, \A n \in Nat : n \in S => n + 1 \in S
    PROVE  Nat \subseteq S
<1> SUFFICES ASSUME Nat \ S # {} PROVE FALSE
  OBVIOUS
<1> DEFINE R == OpToRel(<, Nat)
<1>1. IsWellFoundedOn(R, Nat)
  BY NatLessThanWellFounded
<1>2. R = {ss \in Nat \X Nat : ss[1] < ss[2]}
  BY DEF OpToRel
<1> HIDE DEF R
<1>3. PICK m \in Nat \ S : \A y \in Nat \ S : ~ (<<y, m>> \in R)
  BY <1>1, WFMin
<1>4. m # 0
  OBVIOUS
<1>5. \A k \in Nat : k < m => <<k, m>> \in R
  BY <1>2
<1>6. m - 1 \in Nat /\ m - 1 < m /\ (m - 1) + 1 = m
  BY <1>4
<1>7. m - 1 \in S
  BY <1>3, <1>5, <1>6
<1> QED BY <1>6, <1>7

\* A stack has no more entries than the table.
LEMMA StackLength ==
    ASSUME NEW next, NEW top, NEW n, NEW r, StackOK(next, top, n, r)
    PROVE  n \in Nat /\ n <= SliceTabSize
<1>1. n \in Nat /\ SliceTabSize \in Nat /\ SliceTabSize > 0
  BY SliceAssumption DEF StackOK
<1>2. r \in Injection(1 .. n, Entries)
  BY DEF StackOK, Injection, IsInjective
<1>3. \A k \in Nat : IsFiniteSet(1 .. k) /\ Cardinality(1 .. k) = k
  <2>1. ASSUME NEW k \in Nat
        PROVE  IsFiniteSet(1 .. k) /\ Cardinality(1 .. k) = k
    <3>1. 1 \in Int /\ k \in Int
      OBVIOUS
    <3>2. /\ IsFiniteSet(1 .. k)
          /\ Cardinality(1 .. k) = IF 1 > k THEN 0 ELSE k - 1 + 1
      BY <3>1, FS_Interval
    <3> QED BY <3>2
  <2> QED BY <2>1
<1>4. Cardinality(1 .. n) <= Cardinality(Entries)
  BY <1>1, <1>2, <1>3, FS_Injection DEF Entries
<1> QED BY <1>1, <1>3, <1>4 DEF Entries

\* The entries that ListFrom finds are those of the stack.
LEMMA StackFound ==
    ASSUME NEW next \in [Entries -> EntryOrNull], NEW top, NEW n, NEW r,
           StackOK(next, top, n, r)
    PROVE  ListFrom(top, next) = On(n, r)
<1> DEFINE cells == DOMAIN next
           Iterates(f) == f = [k \in Nat |-> IF k = 0 THEN {top}
                                             ELSE {next[c] : c \in f[k - 1] \cap cells}]
           g == [k \in Nat |-> IF k < n THEN {r[n - k]} ELSE IF k = n THEN {NULL} ELSE {}]
           after == CHOOSE f : Iterates(f)
<1>1. n \in Nat /\ n <= SliceTabSize
  BY StackLength
<1>2. /\ r \in [1 .. n -> Entries] /\ cells = Entries /\ NULL \notin Entries
      /\ \A i \in 1 .. n : next[r[i]] = IF i = 1 THEN NULL ELSE r[i - 1]
      /\ top = IF n = 0 THEN NULL ELSE r[n]
  BY SliceAssumption DEF StackOK, Entries
<1> HIDE DEF cells
<1>3. Iterates(g)
  <2>1. ASSUME NEW k \in Nat
        PROVE  g[k] = IF k = 0 THEN {top} ELSE {next[c] : c \in g[k - 1] \cap cells}
    <3>1. CASE k = 0
      BY <1>1, <1>2, <3>1
    <3>2. CASE k # 0 /\ k <= n
      <4>1. g[k - 1] = {r[n - (k - 1)]} /\ n - (k - 1) \in 1 .. n
        BY <1>1, <3>2
      <4>2. r[n - (k - 1)] \in cells
        BY <1>2, <4>1
      <4>3. {next[c] : c \in g[k - 1] \cap cells} = {next[r[n - (k - 1)]]}
        BY <4>1, <4>2
      <4>4. next[r[n - (k - 1)]] = IF k = n THEN NULL ELSE r[n - k]
        BY <1>1, <1>2, <3>2, <4>1
      <4>5. g[k] = {IF k = n THEN NULL ELSE r[n - k]}
        BY <1>1, <3>2
      <4> QED BY <3>2, <4>3, <4>4, <4>5
    <3>3. CASE k > n
      <4>1. g[k] = {} /\ g[k - 1] \cap cells = {}
        BY <1>1, <1>2, <3>3
      <4>2. k # 0
        BY <1>1, <3>3
      <4> HIDE DEF g
      <4> QED BY <4>1, <4>2
    <3> QED BY <1>1, <3>1, <3>2, <3>3
  <2>2. g = [k \in Nat |-> g[k]]
    OBVIOUS
  <2> HIDE DEF g
  <2> QED BY <2>1, <2>2
<1> HIDE DEF Iterates, g
<1>4. Iterates(after)
  BY <1>3
<1> HIDE DEF after
<1>5. \A k \in Nat : after[k] = g[k]
  <2> DEFINE S == {k \in Nat : after[k] = g[k]}
  <2>1. /\ after = [k \in Nat |-> IF k = 0 THEN {top}
                                  ELSE {next[c] : c \in after[k - 1] \cap cells}]
        /\ g = [k \in Nat |-> IF k = 0 THEN {top} ELSE {next[c] : c \in g[k - 1] \cap cells}]
    BY <1>3, <1>4 DEF Iterates
  <2>2. after[0] = {top} /\ g[0] = {top}
    BY <2>1
  <2>3. ASSUME NEW k \in Nat, after[k] = g[k]
        PROVE  after[k + 1] = g[k + 1]
    <3>1. k + 1 \in Nat /\ k + 1 # 0 /\ (k + 1) - 1 = k
      OBVIOUS
    <3>2. after[k + 1] = {next[c] : c \in after[k] \cap cells}
      BY <2>1, <3>1
    <3>3. g[k + 1] = {next[c] : c \in g[k] \cap cells}
      BY <2>1, <3>1
    <3> QED BY <2>3, <3>2, <3>3
  <2>4. 0 \in S /\ \A k \in Nat : k \in S => k + 1 \in S
    BY <2>2, <2>3
  <2> HIDE DEF S
  <2>5. Nat \subseteq S
    BY <2>4, SetInduction
  <2> QED BY <2>5 DEF S
<1>6. ListFrom(top, next) = cells \cap UNION {after[k] : k \in 0 .. Cardinality(cells)}
  BY DEF ListFrom, after, Iterates, cells
<1>7. Cardinality(cells) = SliceTabSize /\ SliceTabSize \in Nat
  <2>1. 1 \in Int /\ SliceTabSize \in Int /\ SliceTabSize > 0
    BY SliceAssumption
  <2>2. Cardinality(1 .. SliceTabSize) =
            IF 1 > SliceTabSize THEN 0 ELSE SliceTabSize - 1 + 1
    BY <2>1, FS_Interval
  <2> QED BY <1>2, <2>1, <2>2, SliceAssumption DEF Entries
<1>8. ASSUME NEW s
      PROVE  s \in ListFrom(top, next) <=> s \in On(n, r)
  <2>1. s \in ListFrom(top, next)
        <=> s \in cells /\ \E k \in 0 .. SliceTabSize : s \in g[k]
    <3>1. s \in ListFrom(top, next)
          <=> s \in cells /\ \E k \in 0 .. Cardinality(cells) : s \in after[k]
      BY <1>6
    <3>2. \A k \in 0 .. SliceTabSize : after[k] = g[k]
      BY <1>5, <1>7
    <3> QED BY <1>7, <3>1, <3>2
  <2>2. ASSUME NEW k \in 0 .. SliceTabSize, s \in g[k], s \in cells
        PROVE  s \in On(n, r)
    <3>1. k < n /\ s = r[n - k]
      BY <1>1, <1>2, <2>2 DEF g
    <3> QED BY <1>1, <3>1 DEF On
  <2>3. ASSUME NEW i \in 1 .. n, s = r[i]
        PROVE  s \in cells /\ \E k \in 0 .. SliceTabSize : s \in g[k]
    <3>1. n - i \in 0 .. SliceTabSize /\ n - i < n /\ n - (n - i) = i /\ n - i \in Nat
      BY <1>1, <1>7
    <3>2. g[n - i] = {r[i]}
      BY <3>1 DEF g
    <3> QED BY <1>2, <2>3, <3>1, <3>2
  <2> QED BY <2>1, <2>2, <2>3 DEF On
<1> QED BY <1>8

\* A stack stays as it is when no successor in it changes.
LEMMA StackKept ==
    ASSUME NEW f, NEW g, NEW top, NEW n, NEW r, StackOK(f, top, n, r),
           \A s \in On(n, r) : g[s] = f[s]
    PROVE  StackOK(g, top, n, r)
BY DEF StackOK, On

\* An entry is pushed.
LEMMA StackGrows ==
    ASSUME NEW f, NEW top, NEW n, NEW r, StackOK(f, top, n, r),
           NEW s \in Entries, s \notin On(n, r), f[s] = top
    PROVE  \E q : StackOK(f, s, n + 1, q) /\ On(n + 1, q) = On(n, r) \cup {s}
<1> DEFINE q == [i \in 1 .. n + 1 |-> IF i <= n THEN r[i] ELSE s]
<1>1. n \in Nat /\ n + 1 \in Nat /\ r \in [1 .. n -> Entries]
  BY DEF StackOK
<1>2. /\ \A i \in 1 .. n : q[i] = r[i]
      /\ q[n + 1] = s /\ q \in [1 .. n + 1 -> Entries]
  BY <1>1
<1>3. \A i \in 1 .. n + 1 : i \in 1 .. n \/ i = n + 1
  BY <1>1
<1> HIDE DEF q
<1>4. \A i \in 1 .. n + 1 : f[q[i]] = IF i = 1 THEN NULL ELSE q[i - 1]
  <2>1. ASSUME NEW i \in 1 .. n
        PROVE  f[q[i]] = IF i = 1 THEN NULL ELSE q[i - 1]
    <3>1. i = 1 \/ i - 1 \in 1 .. n
      BY <1>1
    <3> QED BY <1>2, <3>1 DEF StackOK
  <2>2. f[q[n + 1]] = IF n + 1 = 1 THEN NULL ELSE q[n]
    <3>1. n = 0 \/ n \in 1 .. n
      BY <1>1
    <3> QED BY <1>1, <1>2, <3>1 DEF StackOK
  <2> QED BY <1>1, <1>3, <2>1, <2>2
<1>5. \A i, j \in 1 .. n + 1 : q[i] = q[j] => i = j
  <2>1. \A i \in 1 .. n : q[i] # s
    BY <1>2 DEF On
  <2> QED BY <1>2, <1>3, <2>1 DEF StackOK
<1>6. On(n + 1, q) = On(n, r) \cup {s}
  BY <1>1, <1>2, <1>3 DEF On
<1>7. StackOK(f, s, n + 1, q)
  BY <1>1, <1>2, <1>4, <1>5 DEF StackOK
<1> QED BY <1>6, <1>7

\* The top entry is popped.
LEMMA StackShrinks ==
    ASSUME NEW f, NEW top, NEW n, NEW r, StackOK(f, top, n, r), top # NULL
    PROVE  /\ top \in Entries /\ top \in On(n, r)
           /\ \E q : StackOK(f, f[top], n - 1, q) /\ On(n - 1, q) = On(n, r) \ {top}
<1> DEFINE q == [i \in 1 .. n - 1 |-> r[i]]
<1>1. n \in Nat /\ n # 0 /\ n - 1 \in Nat /\ n \in 1 .. n /\ r \in [1 .. n -> Entries]
  BY DEF StackOK
<1>2. top = r[n] /\ top \in Entries /\ top \in On(n, r)
  BY <1>1 DEF StackOK, On
<1>3. /\ \A i \in 1 .. n - 1 : q[i] = r[i] /\ i \in 1 .. n /\ i # n
      /\ q \in [1 .. n - 1 -> Entries]
  BY <1>1
<1>4. \A i \in 1 .. n : i \in 1 .. n - 1 \/ i = n
  BY <1>1
<1> HIDE DEF q
<1>5. f[top] = IF n - 1 = 0 THEN NULL ELSE q[n - 1]
  <2>1. n = 1 \/ n - 1 \in 1 .. n - 1
    BY <1>1
  <2> QED BY <1>1, <1>2, <1>3, <2>1 DEF StackOK
<1>6. \A i \in 1 .. n - 1 : f[q[i]] = IF i = 1 THEN NULL ELSE q[i - 1]
  <2>1. ASSUME NEW i \in 1 .. n - 1
        PROVE  f[q[i]] = IF i = 1 THEN NULL ELSE q[i - 1]
    <3>1. i = 1 \/ i - 1 \in 1 .. n - 1
      BY <1>1
    <3> QED BY <1>3, <3>1 DEF StackOK
  <2> QED BY <2>1
<1>7. \A i, j \in 1 .. n - 1 : q[i] = q[j] => i = j
  BY <1>3 DEF StackOK
<1>8. On(n - 1, q) = On(n, r) \ {top}
  <2>1. \A i \in 1 .. n - 1 : r[i] # r[n]
    BY <1>1, <1>3 DEF StackOK
  <2> QED BY <1>1, <1>2, <1>3, <1>4, <2>1 DEF On
<1>9. StackOK(f, f[top], n - 1, q)
  BY <1>1, <1>3, <1>5, <1>6, <1>7 DEF StackOK
<1> QED BY <1>2, <1>8, <1>9
-----------------------------------------------------------------------------
(* The invariant.                                                          *)

SpacePcs == {"reserve", "reserveCas", "release", "releaseCas", "entry"}
PopPcs == {"entryNext", "entryCas"}
AllocPcs == SpacePcs \cup PopPcs \cup {"map", "fail"}
PushPcs == {"push", "pushCas"}

LocalType ==
    [pc : {"idle"} \cup AllocPcs \cup PushPcs, type : SliceTypes \cup {"STATIC"},
     size : Nat, counter : Counters, old : Nat, entry : EntryOrNull, next : EntryOrNull]

SliceTypeOK ==
    /\ freeList \in EntryOrNull
    /\ sNext \in [Entries -> EntryOrNull]
    /\ spaceOf \in [Counters -> Nat]
    /\ owned \subseteq Entries
    /\ sl \in [Execs -> LocalType]

\* Who pops, maps or pushes has an entry; who is about to push has linked it to
\* what it has read.
CallOK(e) ==
    LET l == sl[e] IN
    /\ l.pc \in SpacePcs \cup {"idle"} => l.entry = NULL
    /\ l.pc \in {"map"} \cup PopPcs \cup PushPcs => l.entry \in Entries
    /\ l.pc = "pushCas" => l.next = sNext[l.entry]

\* Every entry is on the stack of free ones, held by a caller or in the hands
\* of one executor.
PlacesOK(free) ==
    /\ free \subseteq Entries
    /\ \A s \in Entries : s \in free \/ s \in owned \/ \E e \in Execs : s \in InHand(e)
    /\ \A s \in owned : s \notin free
    /\ \A e \in Execs : /\ \A s \in InHand(e) : s \notin free /\ s \notin owned
                        /\ \A f \in Execs : f # e => InHand(e) \cap InHand(f) = {}

FreeOK ==
    \E n, r : StackOK(sNext, freeList, n, r) /\ PlacesOK(On(n, r))

SliceInv ==
    /\ SliceTypeOK
    /\ \A e \in Execs : CallOK(e)
    /\ FreeOK

-----------------------------------------------------------------------------
(* Steps.                                                                  *)

\* Unsigned arithmetic yields numbers.
LEMMA UnsignedNat ==
    ASSUME NEW a \in Nat, NEW b \in Nat
    PROVE  UAdd(a, b) \in Nat /\ USub(a, b) \in Nat
BY RuntimeAssumption DEF UAdd, USub

\* The local variables an executor has set.
LEMMA LocalSet ==
    ASSUME SliceTypeOK, NEW e \in Execs, NEW l, Local(e, l)
    PROVE  sl'[e] = l
BY DEF Local, SliceTypeOK

\* What the error path reads is no entry, unless the step is a GarbageOut.
LEMMA OutAssigned ==
    ASSUME SliceTypeOK, NEW e \in Execs, ~GarbageOut(e), NEW x,
           ReserveRead(e) \/ ReleaseCas(e),
           Local(e, [sl[e] EXCEPT !.entry = x, !.pc = "fail"])
    PROVE  x = NULL
<1>1. sl'[e] = [sl[e] EXCEPT !.entry = x, !.pc = "fail"]
  BY LocalSet
<1>2. sl[e] \in LocalType
  BY DEF SliceTypeOK
<1>3. sl'[e].entry = x /\ sl'[e].pc = "fail"
  BY <1>1, <1>2 DEF LocalType
<1> QED BY <1>3 DEF GarbageOut

\* Each step changes the local variables of one executor, and keeps the types.
LEMMA SliceTypeStep ==
    ASSUME SliceTypeOK, \A f \in Execs : CallOK(f),
           NEW e \in Execs, SliceStep(e), ~GarbageOut(e)
    PROVE  SliceTypeOK' /\ \A f \in Execs \ {e} : sl'[f] = sl[f]
<1>1. /\ sl \in [Execs -> LocalType] /\ sl[e] \in LocalType /\ CallOK(e)
      /\ freeList \in EntryOrNull /\ spaceOf \in [Counters -> Nat]
      /\ sNext \in [Entries -> EntryOrNull] /\ owned \subseteq Entries
      /\ NULL \in EntryOrNull /\ SliceIdle \in LocalType
  BY DEF SliceTypeOK, SliceIdle, LocalType, EntryOrNull, Counters
<1>2. ASSUME NEW l \in LocalType, Local(e, l)
      PROVE  sl' \in [Execs -> LocalType] /\ \A f \in Execs \ {e} : sl'[f] = sl[f]
  BY <1>1, <1>2 DEF Local
<1>3. CASE slice_alloc(e)
  <2>1. PICK type \in SliceTypes, size \in SliceSizes :
            Local(e, [SliceIdle EXCEPT !.pc = "reserve", !.type = type, !.size = size])
    BY <1>3 DEF slice_alloc
  <2>2. [SliceIdle EXCEPT !.pc = "reserve", !.type = type, !.size = size] \in LocalType
    BY <1>1, SliceAssumption DEF LocalType, AllocPcs, SpacePcs
  <2> QED BY <1>2, <1>3, <2>1, <2>2 DEF slice_alloc, SliceTypeOK
<1>4. CASE ReserveRead(e)
  <2>1. CASE UNCHANGED sl
    BY <1>4, <2>1 DEF ReserveRead, SliceTypeOK
  <2>2. CASE ReserveFailed(e)
    <3>1. PICK l \in LocalType : Local(e, l)
      <4>1. CASE \E x \in Uninitialized : Local(e, [sl[e] EXCEPT !.entry = x, !.pc = "fail"])
        <5>1. PICK x \in Uninitialized : Local(e, [sl[e] EXCEPT !.entry = x, !.pc = "fail"])
          BY <4>1
        <5>2. x = NULL
          BY <1>1, <1>4, <5>1, OutAssigned DEF SliceTypeOK
        <5>3. [sl[e] EXCEPT !.entry = x, !.pc = "fail"] \in LocalType
          BY <1>1, <5>2 DEF LocalType, AllocPcs
        <5> QED BY <5>1, <5>3
      <4>2. CASE Local(e, [sl[e] EXCEPT !.pc = "release"])
        <5>1. [sl[e] EXCEPT !.pc = "release"] \in LocalType
          BY <1>1 DEF LocalType, AllocPcs, SpacePcs
        <5> QED BY <4>2, <5>1
      <4> QED BY <2>2, <4>1, <4>2 DEF ReserveFailed
    <3> QED BY <1>2, <1>4, <3>1 DEF ReserveRead, SliceTypeOK
  <2>3. CASE Local(e, [sl[e] EXCEPT !.old = spaceOf[sl[e].counter], !.pc = "reserveCas"])
    <3>1. [sl[e] EXCEPT !.old = spaceOf[sl[e].counter], !.pc = "reserveCas"] \in LocalType
      BY <1>1 DEF LocalType, AllocPcs, SpacePcs
    <3> QED BY <1>2, <1>4, <2>3, <3>1 DEF ReserveRead, SliceTypeOK
  <2> QED BY <1>4, <2>1, <2>2, <2>3 DEF ReserveRead
<1>5. CASE ReserveCas(e)
  <2>1. CASE UNCHANGED spaceOf /\ Local(e, [sl[e] EXCEPT !.pc = "reserve"])
    <3>1. [sl[e] EXCEPT !.pc = "reserve"] \in LocalType
      BY <1>1 DEF LocalType, AllocPcs, SpacePcs
    <3> QED BY <1>2, <1>5, <2>1, <3>1 DEF ReserveCas, SliceTypeOK
  <2>2. CASE /\ spaceOf' = [spaceOf EXCEPT ![sl[e].counter] = UAdd(sl[e].old, sl[e].size)]
             /\ Local(e, Reserved(sl[e]))
    <3>1. UAdd(sl[e].old, sl[e].size) \in Nat
      BY <1>1, UnsignedNat DEF LocalType
    <3>2. Reserved(sl[e]) \in LocalType
      <4>1. \A m \in SUBSET Counters : m # {} => (CHOOSE c \in m : TRUE) \in Counters
        OBVIOUS
      <4>2. (IF sl[e].counter = "total" THEN ClassOf(sl[e].type) ELSE {}) \in SUBSET Counters
        BY DEF ClassOf, Counters
      <4>3. [sl[e] EXCEPT !.pc = "entry"] \in LocalType
        BY <1>1 DEF LocalType, AllocPcs, SpacePcs
      <4>4. \A c \in Counters : [sl[e] EXCEPT !.pc = "reserve", !.counter = c] \in LocalType
        BY <1>1 DEF LocalType, AllocPcs, SpacePcs
      <4> QED BY <4>1, <4>2, <4>3, <4>4 DEF Reserved
    <3> QED BY <1>1, <1>2, <1>5, <2>2, <3>1, <3>2 DEF ReserveCas, SliceTypeOK
  <2> QED BY <1>5, <2>1, <2>2 DEF ReserveCas
<1>6. CASE ReleaseRead(e)
  <2>1. [sl[e] EXCEPT !.old = spaceOf["total"], !.pc = "releaseCas"] \in LocalType
    BY <1>1 DEF LocalType, AllocPcs, SpacePcs, Counters
  <2> QED BY <1>2, <1>6, <2>1 DEF ReleaseRead, SliceTypeOK
<1>7. CASE ReleaseCas(e)
  <2>1. CASE UNCHANGED spaceOf /\ Local(e, [sl[e] EXCEPT !.pc = "release"])
    <3>1. [sl[e] EXCEPT !.pc = "release"] \in LocalType
      BY <1>1 DEF LocalType, AllocPcs, SpacePcs
    <3> QED BY <1>2, <1>7, <2>1, <3>1 DEF ReleaseCas, SliceTypeOK
  <2>2. CASE /\ spaceOf' = [spaceOf EXCEPT !["total"] = USub(sl[e].old, sl[e].size)]
             /\ \E x \in Uninitialized : Local(e, [sl[e] EXCEPT !.entry = x, !.pc = "fail"])
    <3>1. USub(sl[e].old, sl[e].size) \in Nat
      BY <1>1, UnsignedNat DEF LocalType
    <3>2. PICK x \in Uninitialized : Local(e, [sl[e] EXCEPT !.entry = x, !.pc = "fail"])
      BY <2>2
    <3>3. x = NULL
      BY <1>7, <3>2, OutAssigned
    <3>4. [sl[e] EXCEPT !.entry = x, !.pc = "fail"] \in LocalType
      BY <1>1, <3>3 DEF LocalType, AllocPcs
    <3> QED BY <1>1, <1>2, <1>7, <2>2, <3>1, <3>2, <3>4 DEF ReleaseCas, SliceTypeOK
  <2> QED BY <1>7, <2>1, <2>2 DEF ReleaseCas
<1>8. CASE EntryRead(e)
  <2>1. \A p \in {"fail", "entryNext"} :
            [[sl[e] EXCEPT !.entry = freeList] EXCEPT !.pc = p] \in LocalType
    BY <1>1 DEF LocalType, AllocPcs, PopPcs
  <2> QED BY <1>2, <1>8, <2>1 DEF EntryRead, SliceTypeOK
<1>9. CASE EntryNext(e)
  <2>1. \A x \in EntryOrNull : [sl[e] EXCEPT !.next = x, !.pc = "entryCas"] \in LocalType
    BY <1>1 DEF LocalType, AllocPcs, PopPcs
  <2>2. sl[e].pc = "entryNext" => sNext[sl[e].entry] \in EntryOrNull
    BY <1>1 DEF CallOK, PopPcs
  <2> QED BY <1>2, <1>9, <2>1, <2>2 DEF EntryNext, SliceTypeOK
<1>10. CASE EntryCas(e)
  <2>1. CASE freeList' = sl[e].next /\ Local(e, [sl[e] EXCEPT !.pc = "map"])
    <3>1. [sl[e] EXCEPT !.pc = "map"] \in LocalType /\ sl[e].next \in EntryOrNull
      BY <1>1 DEF LocalType, AllocPcs
    <3> QED BY <1>2, <1>10, <2>1, <3>1 DEF EntryCas, SliceTypeOK
  <2>2. CASE UNCHANGED freeList /\ Local(e, [sl[e] EXCEPT !.pc = "entry", !.entry = NULL])
    <3>1. [sl[e] EXCEPT !.pc = "entry", !.entry = NULL] \in LocalType
      BY <1>1 DEF LocalType, AllocPcs, SpacePcs
    <3> QED BY <1>2, <1>10, <2>2, <3>1 DEF EntryCas, SliceTypeOK
  <2> QED BY <1>10, <2>1, <2>2 DEF EntryCas
<1>11. CASE Map(e)
  <2>1. [sl[e] EXCEPT !.pc = "fail"] \in LocalType
    BY <1>1 DEF LocalType, AllocPcs
  <2>2. sl[e].pc = "map" => sl[e].entry \in Entries
    BY <1>1 DEF CallOK
  <2> QED BY <1>1, <1>2, <1>11, <2>1, <2>2 DEF Map, Return, SliceTypeOK
<1>12. CASE Fail(e)
  <2>1. [sl[e] EXCEPT !.pc = "push"] \in LocalType
    BY <1>1 DEF LocalType, PushPcs
  <2> QED BY <1>1, <1>2, <1>12, <2>1 DEF Fail, Return, SliceTypeOK
<1>13. CASE slice_free(e)
  <2>1. \A s \in owned : [SliceIdle EXCEPT !.pc = "push", !.entry = s] \in LocalType
    BY <1>1 DEF LocalType, PushPcs, EntryOrNull
  <2> QED BY <1>1, <1>2, <1>13, <2>1 DEF slice_free, SliceTypeOK
<1>14. CASE Push(e)
  <2>1. [sl[e] EXCEPT !.next = freeList, !.pc = "pushCas"] \in LocalType
    BY <1>1 DEF LocalType, PushPcs
  <2> QED BY <1>1, <1>2, <1>14, <2>1 DEF Push, SliceTypeOK
<1>15. CASE PushCas(e)
  <2>1. [sl[e] EXCEPT !.pc = "push"] \in LocalType /\ sl[e].entry \in EntryOrNull
    BY <1>1 DEF LocalType, PushPcs
  <2> QED BY <1>1, <1>2, <1>15, <2>1 DEF PushCas, Return, SliceTypeOK
<1> QED BY <1>3, <1>4, <1>5, <1>6, <1>7, <1>8, <1>9, <1>10, <1>11, <1>12, <1>13, <1>14,
           <1>15 DEF SliceStep

\* What an executor has in its hands is entries of the table.
LEMMA HandsAreEntries ==
    ASSUME SliceTypeOK, NEW e \in Execs
    PROVE  /\ InHand(e) \subseteq Entries
           /\ sl[e].pc \notin {"map", "fail"} \cup PushPcs => InHand(e) = {}
           /\ sl[e].entry = NULL => InHand(e) = {}
           /\ sl[e].pc \in {"map", "fail"} \cup PushPcs /\ sl[e].entry \in Entries
                  => InHand(e) = {sl[e].entry}
<1>1. sl[e].entry \in Entries \cup {NULL} /\ NULL \notin Entries
  BY SliceAssumption DEF SliceTypeOK, LocalType, EntryOrNull, Entries
<1> QED BY <1>1 DEF InHand, PushPcs

\* A step leaves what the other executors rely on.
LEMMA CallKept ==
    ASSUME SliceInv, NEW e \in Execs, SliceStep(e),
           NEW f \in Execs \ {e}, sl'[f] = sl[f]
    PROVE  CallOK(f)'
<1>1. /\ CallOK(f) /\ CallOK(e) /\ SliceTypeOK
      /\ sl[e].pc \in PushPcs => InHand(e) = {sl[e].entry}
      /\ sl[f].pc \in PushPcs => InHand(f) = {sl[f].entry}
  BY HandsAreEntries DEF SliceInv, CallOK
<1>2. PICK n, r : StackOK(sNext, freeList, n, r) /\ PlacesOK(On(n, r))
  BY DEF SliceInv, FreeOK
<1>3. sl[f].pc = "pushCas" => sNext'[sl[f].entry] = sNext[sl[f].entry]
  <2>1. CASE Push(e)
    <3>1. sl[e].pc \in PushPcs
      BY <2>1 DEF Push, PushPcs
    <3>2. sl[f].pc = "pushCas" => sl[f].entry # sl[e].entry
      BY <1>1, <1>2, <3>1 DEF PlacesOK, PushPcs
    <3>3. sl[f].pc = "pushCas" => sl[f].entry \in Entries
      BY <1>1 DEF CallOK, PushPcs
    <3> QED BY <1>1, <2>1, <3>2, <3>3 DEF Push, SliceTypeOK
  <2>2. CASE ~Push(e)
    <3>1. UNCHANGED sNext
      BY <2>2 DEF SliceStep, slice_alloc, ReserveRead, ReserveCas, ReleaseRead, ReleaseCas,
            EntryRead, EntryNext, EntryCas, Map, Fail, slice_free, PushCas
    <3> QED BY <3>1
  <2> QED BY <2>1, <2>2
<1> QED BY <1>1, <1>3 DEF CallOK

\* A step leaves its executor where its next step can go on.
LEMMA CallStep ==
    ASSUME SliceInv, SliceTypeOK', NEW e \in Execs, SliceStep(e), ~GarbageOut(e)
    PROVE  CallOK(e)'
<1>1. /\ CallOK(e) /\ SliceTypeOK /\ sl[e] \in LocalType /\ owned \subseteq Entries
      /\ freeList \in EntryOrNull
  BY DEF SliceInv, SliceTypeOK
<1> USE DEF SpacePcs, PopPcs, AllocPcs, PushPcs
<1>2. CASE slice_alloc(e)
  <2>1. PICK type \in SliceTypes, size \in SliceSizes :
            sl'[e] = [SliceIdle EXCEPT !.pc = "reserve", !.type = type, !.size = size]
    BY <1>1, <1>2, LocalSet DEF slice_alloc
  <2>2. sl'[e].pc = "reserve" /\ sl'[e].entry = NULL
    BY <2>1 DEF SliceIdle
  <2> QED BY <1>2, <2>2 DEF slice_alloc, CallOK
<1>3. CASE ReserveRead(e) \/ ReserveCas(e) \/ ReleaseRead(e) \/ ReleaseCas(e)
  <2>1. sl'[e].pc \in SpacePcs \cup {"fail"} /\ sl'[e].entry = NULL
    <3>1. sl[e].entry = NULL /\ sl[e].pc \in SpacePcs
      BY <1>1, <1>3 DEF CallOK, ReserveRead, ReserveCas, ReleaseRead, ReleaseCas
    <3>2. \A l : Local(e, l) => sl'[e] = l
      BY <1>1, LocalSet
    <3>3. CASE ReserveRead(e)
      BY <1>1, <3>1, <3>2, <3>3 DEF ReserveRead, ReserveFailed, GarbageOut, LocalType
    <3>4. CASE ReserveCas(e)
      BY <1>1, <3>1, <3>2, <3>4 DEF ReserveCas, Reserved, LocalType
    <3>5. CASE ReleaseRead(e)
      BY <1>1, <3>1, <3>2, <3>5 DEF ReleaseRead, LocalType
    <3>6. CASE ReleaseCas(e)
      BY <1>1, <3>1, <3>2, <3>6 DEF ReleaseCas, GarbageOut, LocalType
    <3> QED BY <1>3, <3>3, <3>4, <3>5, <3>6
  <2> QED BY <2>1 DEF CallOK
<1>4. CASE EntryRead(e)
  <2>1. sl'[e] = [[sl[e] EXCEPT !.entry = freeList]
                     EXCEPT !.pc = IF freeList = NULL THEN "fail" ELSE "entryNext"]
    BY <1>1, <1>4, LocalSet DEF EntryRead
  <2>2. sl'[e].pc = (IF freeList = NULL THEN "fail" ELSE "entryNext")
        /\ sl'[e].entry = freeList
    BY <1>1, <2>1 DEF LocalType
  <2> QED BY <1>1, <2>2 DEF CallOK, EntryOrNull
<1>5. CASE EntryNext(e)
  <2>1. sl'[e] = [sl[e] EXCEPT !.next = sNext[sl[e].entry], !.pc = "entryCas"]
    BY <1>1, <1>5, LocalSet DEF EntryNext
  <2>2. sl'[e].pc = "entryCas" /\ sl'[e].entry = sl[e].entry
        /\ sl'[e].next = sNext[sl[e].entry]
    BY <1>1, <2>1 DEF LocalType
  <2> QED BY <1>1, <1>5, <2>2 DEF CallOK, EntryNext
<1>6. CASE EntryCas(e)
  <2>1. \/ sl'[e] = [sl[e] EXCEPT !.pc = "map"]
        \/ sl'[e] = [sl[e] EXCEPT !.pc = "entry", !.entry = NULL]
    BY <1>1, <1>6, LocalSet DEF EntryCas
  <2>2. \/ sl'[e].pc = "map" /\ sl'[e].entry = sl[e].entry
        \/ sl'[e].pc = "entry" /\ sl'[e].entry = NULL
    BY <1>1, <2>1 DEF LocalType
  <2> QED BY <1>1, <1>6, <2>2 DEF CallOK, EntryCas
<1>7. CASE Map(e)
  <2>1. \/ sl'[e] = SliceIdle
        \/ sl'[e] = [sl[e] EXCEPT !.pc = "fail"]
    BY <1>1, <1>7, LocalSet DEF Map, Return
  <2>2. \/ sl'[e].pc = "idle" /\ sl'[e].entry = NULL
        \/ sl'[e].pc = "fail"
    BY <1>1, <2>1 DEF LocalType, SliceIdle
  <2> QED BY <1>1, <1>7, <2>2 DEF CallOK, Map
<1>8. CASE Fail(e)
  <2>1. \/ sl'[e] = SliceIdle
        \/ sl[e].entry # NULL /\ sl'[e] = [sl[e] EXCEPT !.pc = "push"]
    BY <1>1, <1>8, LocalSet DEF Fail, Return
  <2>2. \/ sl'[e].pc = "idle" /\ sl'[e].entry = NULL
        \/ sl'[e].pc = "push" /\ sl'[e].entry \in Entries
    BY <1>1, <2>1 DEF LocalType, SliceIdle, EntryOrNull
  <2> QED BY <1>1, <1>8, <2>2 DEF CallOK, Fail
<1>9. CASE slice_free(e)
  <2>1. \E s \in owned : sl'[e] = [SliceIdle EXCEPT !.pc = "push", !.entry = s]
    BY <1>1, <1>9, LocalSet DEF slice_free
  <2>2. sl'[e].pc = "push" /\ sl'[e].entry \in Entries
    BY <1>1, <2>1 DEF SliceIdle
  <2> QED BY <1>9, <2>2 DEF CallOK, slice_free
<1>10. CASE Push(e)
  <2>1. sl'[e] = [sl[e] EXCEPT !.next = freeList, !.pc = "pushCas"]
    BY <1>1, <1>10, LocalSet DEF Push
  <2>2. sl'[e].pc = "pushCas" /\ sl'[e].next = freeList /\ sl'[e].entry = sl[e].entry
    BY <1>1, <2>1 DEF LocalType
  <2>3. sl[e].entry \in Entries
    BY <1>1, <1>10 DEF CallOK, Push
  <2>4. sNext'[sl[e].entry] = freeList
    BY <1>1, <1>10, <2>3 DEF Push, SliceTypeOK
  <2> QED BY <1>1, <1>10, <2>2, <2>3, <2>4 DEF CallOK, Push
<1>11. CASE PushCas(e)
  <2>1. \/ sl'[e] = SliceIdle
        \/ sl'[e] = [sl[e] EXCEPT !.pc = "push"]
    BY <1>1, <1>11, LocalSet DEF PushCas, Return
  <2>2. \/ sl'[e].pc = "idle" /\ sl'[e].entry = NULL
        \/ sl'[e].pc = "push" /\ sl'[e].entry = sl[e].entry
    BY <1>1, <2>1 DEF LocalType, SliceIdle
  <2> QED BY <1>1, <1>11, <2>2 DEF CallOK, PushCas
<1> QED BY <1>2, <1>3, <1>4, <1>5, <1>6, <1>7, <1>8, <1>9, <1>10, <1>11 DEF SliceStep

\* The entries of one executor and of the lists change places.
LEMMA PlacesMove ==
    ASSUME NEW free, PlacesOK(free), NEW new, new \subseteq Entries,
           NEW e \in Execs,
           \A f \in Execs \ {e} : sl'[f] = sl[f],
           new \cup owned' \cup InHand(e)' = free \cup owned \cup InHand(e),
           new \cap owned' = {}, new \cap InHand(e)' = {}, owned' \cap InHand(e)' = {}
    PROVE  PlacesOK(new)'
<1>1. \A f \in Execs \ {e} : InHand(f)' = InHand(f)
  BY DEF InHand
<1>2. \A s \in Entries : s \in new \/ s \in owned' \/ \E f \in Execs : s \in InHand(f)'
  <2>1. ASSUME NEW s \in Entries
        PROVE  s \in new \/ s \in owned' \/ \E f \in Execs : s \in InHand(f)'
    <3>1. s \in free \cup owned \cup InHand(e) \/ \E f \in Execs \ {e} : s \in InHand(f)
      BY DEF PlacesOK
    <3> QED BY <1>1, <3>1
  <2> QED BY <2>1
<1>3. ASSUME NEW f \in Execs
      PROVE  /\ \A s \in InHand(f)' : s \notin new /\ s \notin owned'
             /\ \A g \in Execs : g # f => InHand(f)' \cap InHand(g)' = {}
  <2>1. \A g \in Execs \ {e} : InHand(g)' \cap (new \cup owned' \cup InHand(e)') = {}
    BY <1>1 DEF PlacesOK
  <2>2. \A g, h \in Execs \ {e} : g # h => InHand(g)' \cap InHand(h)' = {}
    BY <1>1 DEF PlacesOK
  <2>3. CASE f = e
    BY <2>1, <2>3
  <2>4. CASE f # e
    <3>1. \A s \in InHand(f)' : s \notin new /\ s \notin owned'
      BY <2>1, <2>4
    <3>2. \A g \in Execs : g # f => InHand(f)' \cap InHand(g)' = {}
      BY <2>1, <2>2, <2>4
    <3> QED BY <3>1, <3>2
  <2> QED BY <2>3, <2>4
<1> QED BY <1>2, <1>3 DEF PlacesOK

\* Steps that leave the stack and the entries where they are.
LEMMA PlacesStay ==
    ASSUME SliceInv, NEW e \in Execs,
           \A f \in Execs \ {e} : sl'[f] = sl[f],
           freeList' = freeList, sNext' = sNext, owned' = owned,
           InHand(e)' = InHand(e)
    PROVE  FreeOK'
<1>1. PICK n, r : StackOK(sNext, freeList, n, r) /\ PlacesOK(On(n, r))
  BY DEF SliceInv, FreeOK
<1> DEFINE free == On(n, r)
<1>2. /\ free \cap owned' = {} /\ free \cap InHand(e)' = {} /\ owned' \cap InHand(e)' = {}
      /\ free \subseteq Entries
  BY <1>1 DEF PlacesOK
<1> HIDE DEF free
<1>3. PlacesOK(free)'
  BY <1>1, <1>2, PlacesMove DEF free
<1>4. StackOK(sNext', freeList', n, r)
  BY <1>1
<1> QED BY <1>3, <1>4 DEF FreeOK, free

\* A step leaves every entry in one place.
LEMMA FreeStep ==
    ASSUME SliceInv, SliceTypeOK', NEW e \in Execs, SliceStep(e),
           ~StalePop(e), ~GarbageOut(e), \A f \in Execs \ {e} : sl'[f] = sl[f]
    PROVE  FreeOK'
<1>1. /\ CallOK(e) /\ SliceTypeOK /\ sl[e] \in LocalType /\ owned \subseteq Entries
      /\ freeList \in EntryOrNull
  BY DEF SliceInv, SliceTypeOK
<1>2. PICK n, r : StackOK(sNext, freeList, n, r) /\ PlacesOK(On(n, r))
  BY DEF SliceInv, FreeOK
<1> DEFINE free == On(n, r)
<1>3. /\ free \subseteq Entries /\ free \cap owned = {} /\ free \cap InHand(e) = {}
      /\ owned \cap InHand(e) = {}
      /\ \A f \in Execs \ {e} : InHand(f) \cap InHand(e) = {}
  BY <1>2 DEF PlacesOK
<1>5. \A l : Local(e, l) => sl'[e] = l
  BY <1>1, LocalSet
<1>6. /\ sl[e].pc \notin {"map", "fail"} \cup PushPcs => InHand(e) = {}
      /\ sl[e].entry = NULL => InHand(e) = {}
      /\ sl[e].pc \in {"map", "fail"} \cup PushPcs /\ sl[e].entry \in Entries
             => InHand(e) = {sl[e].entry}
  BY <1>1, HandsAreEntries
<1>7. /\ sl'[e].pc \notin {"map", "fail"} \cup PushPcs => InHand(e)' = {}
      /\ sl'[e].entry = NULL => InHand(e)' = {}
      /\ sl'[e].pc \in {"map", "fail"} \cup PushPcs /\ sl'[e].entry \in Entries
             => InHand(e)' = {sl'[e].entry}
  <2>1. sl'[e].entry \in Entries \cup {NULL} /\ NULL \notin Entries
    BY SliceAssumption DEF SliceTypeOK, LocalType, EntryOrNull, Entries
  <2> QED BY <2>1 DEF InHand, PushPcs
<1> HIDE DEF free
<1> USE DEF PushPcs
<1>8. CASE slice_alloc(e)
  <2>1. sl'[e].pc = "reserve"
    BY <1>5, <1>8 DEF slice_alloc, SliceIdle
  <2>2. InHand(e)' = InHand(e)
    BY <1>6, <1>7, <1>8, <2>1 DEF slice_alloc
  <2> QED BY <1>8, <2>1, <2>2, PlacesStay DEF slice_alloc
<1>9. CASE ReserveRead(e) \/ ReserveCas(e) \/ ReleaseRead(e) \/ ReleaseCas(e)
  <2>1. /\ sl[e].pc \in SpacePcs
        /\ UNCHANGED <<freeList, sNext, owned>>
    BY <1>9 DEF ReserveRead, ReserveCas, ReleaseRead, ReleaseCas, SpacePcs
  <2>2. sl'[e].pc \in SpacePcs \cup {"fail"} /\ sl'[e].entry = NULL
    <3>1. sl[e].entry = NULL
      BY <1>1, <2>1 DEF CallOK
    <3>2. CASE ReserveRead(e)
      BY <1>1, <2>1, <3>1, <1>5, <3>2
         DEF ReserveRead, ReserveFailed, GarbageOut, LocalType, SpacePcs
    <3>3. CASE ReserveCas(e)
      BY <1>1, <2>1, <3>1, <1>5, <3>3 DEF ReserveCas, Reserved, LocalType, SpacePcs
    <3>4. CASE ReleaseRead(e)
      BY <1>1, <2>1, <3>1, <1>5, <3>4 DEF ReleaseRead, LocalType, SpacePcs
    <3>5. CASE ReleaseCas(e)
      BY <1>1, <2>1, <3>1, <1>5, <3>5 DEF ReleaseCas, GarbageOut, LocalType, SpacePcs
    <3> QED BY <1>9, <3>2, <3>3, <3>4, <3>5
  <2>3. InHand(e)' = InHand(e)
    BY <1>6, <1>7, <2>1, <2>2 DEF SpacePcs
  <2> QED BY <2>1, <2>3, PlacesStay
<1>10. CASE EntryRead(e)
  <2>1. sl'[e].pc = (IF freeList = NULL THEN "fail" ELSE "entryNext")
        /\ sl'[e].entry = freeList
    BY <1>1, <1>5, <1>10 DEF EntryRead, LocalType
  <2>2. InHand(e)' = InHand(e)
    BY <1>6, <1>7, <1>10, <2>1 DEF EntryRead
  <2> QED BY <1>10, <2>1, <2>2, PlacesStay DEF EntryRead
<1>11. CASE EntryNext(e)
  <2>1. sl'[e].pc = "entryCas" /\ sl'[e].entry = sl[e].entry
        /\ sl'[e].next = sNext[sl[e].entry]
    BY <1>1, <1>5, <1>11 DEF EntryNext, LocalType
  <2>2. InHand(e)' = InHand(e)
    BY <1>6, <1>7, <1>11, <2>1 DEF EntryNext
  <2> QED BY <1>11, <2>1, <2>2, PlacesStay DEF EntryNext
<1>12. CASE EntryCas(e)
  <2>1. CASE freeList = sl[e].entry /\ freeList' = sl[e].next
             /\ Local(e, [sl[e] EXCEPT !.pc = "map"])
    <3>1. /\ sl[e].pc = "entryCas" /\ UNCHANGED <<sNext, owned>>
          /\ sl[e].entry \in Entries
      BY <1>1, <1>12 DEF EntryCas, CallOK, PopPcs
    <3>2. sl'[e].pc = "map" /\ sl'[e].entry = sl[e].entry
      BY <1>1, <1>5, <2>1 DEF LocalType
    <3>3. InHand(e) = {} /\ InHand(e)' = {freeList}
      BY <1>6, <1>7, <2>1, <3>1, <3>2
    <3>4. freeList # NULL
      BY <2>1, <3>1, SliceAssumption DEF Entries
    <3>5. freeList \in free
      BY <1>2, <3>4, StackShrinks DEF free
    <3>6. freeList' = sNext[freeList]
      BY <1>12, <2>1 DEF StalePop
    <3>7. PICK q : /\ StackOK(sNext, freeList', n - 1, q)
                   /\ On(n - 1, q) = free \ {freeList}
      BY <1>2, <3>4, <3>6, StackShrinks DEF free
    <3>8. PICK new : new = free \ {freeList}
      OBVIOUS
    <3>9. PlacesOK(new)'
      <4>1. /\ new \subseteq Entries
            /\ new \cup owned' \cup InHand(e)' = free \cup owned \cup InHand(e)
            /\ new \cap owned' = {} /\ new \cap InHand(e)' = {} /\ owned' \cap InHand(e)' = {}
        BY <1>3, <3>1, <3>3, <3>5, <3>8
      <4> QED BY <1>2, <4>1, PlacesMove DEF free
    <3>12. StackOK(sNext', freeList', n - 1, q)
      BY <3>1, <3>7
    <3> QED BY <3>7, <3>8, <3>9, <3>12 DEF FreeOK
  <2>2. CASE UNCHANGED freeList /\ Local(e, [sl[e] EXCEPT !.pc = "entry", !.entry = NULL])
    <3>1. sl'[e].pc = "entry"
      BY <1>1, <1>5, <2>2 DEF LocalType
    <3>2. InHand(e)' = InHand(e)
      BY <1>6, <1>7, <1>12, <3>1 DEF EntryCas
    <3> QED BY <1>12, <2>2, <3>1, <3>2, PlacesStay DEF EntryCas
  <2> QED BY <1>12, <2>1, <2>2 DEF EntryCas
<1>13. CASE Map(e)
  <2>1. sl[e].entry \in Entries /\ sl[e].pc = "map" /\ UNCHANGED <<freeList, sNext>>
        /\ InHand(e) = {sl[e].entry}
    BY <1>1, <1>6, <1>13 DEF Map, CallOK
  <2>2. CASE owned' = owned \cup {sl[e].entry} /\ Return(e)
    <3>1. sl'[e].pc = "idle"
      BY <1>5, <2>2 DEF Return, SliceIdle
    <3>2. InHand(e)' = {}
      BY <1>7, <3>1
    <3>3. /\ free \cup owned' \cup InHand(e)' = free \cup owned \cup InHand(e)
          /\ free \cap owned' = {} /\ free \cap InHand(e)' = {} /\ owned' \cap InHand(e)' = {}
      BY <1>3, <2>1, <2>2, <3>2
    <3>4. PlacesOK(free)'
      BY <1>2, <1>3, <3>1, <3>3, PlacesMove DEF free
    <3>7. StackOK(sNext', freeList', n, r)
      BY <1>2, <2>1
    <3> QED BY <3>4, <3>7 DEF FreeOK, free
  <2>3. CASE UNCHANGED owned /\ Local(e, [sl[e] EXCEPT !.pc = "fail"])
    <3>1. sl'[e].pc = "fail" /\ sl'[e].entry = sl[e].entry
      BY <1>1, <1>5, <2>3 DEF LocalType
    <3>2. InHand(e)' = InHand(e)
      BY <1>7, <2>1, <3>1
    <3> QED BY <2>1, <2>3, <3>1, <3>2, PlacesStay
  <2> QED BY <1>13, <2>2, <2>3 DEF Map
<1>14. CASE Fail(e)
  <2>1. \/ sl[e].entry = NULL /\ sl'[e].pc = "idle"
        \/ sl[e].entry \in Entries /\ sl'[e].pc = "push" /\ sl'[e].entry = sl[e].entry
    BY <1>1, <1>5, <1>14 DEF Fail, Return, SliceIdle, LocalType, EntryOrNull
  <2>2. InHand(e)' = InHand(e)
    BY <1>6, <1>7, <1>14, <2>1 DEF Fail
  <2> QED BY <1>14, <2>1, <2>2, PlacesStay DEF Fail
<1>15. CASE slice_free(e)
  <2>1. PICK s \in owned : owned' = owned \ {s}
            /\ Local(e, [SliceIdle EXCEPT !.pc = "push", !.entry = s])
    BY <1>15 DEF slice_free
  <2>2. sl'[e].pc = "push" /\ sl'[e].entry = s /\ s \in Entries
    BY <1>1, <1>5, <2>1 DEF SliceIdle
  <2>3. InHand(e) = {} /\ InHand(e)' = {s} /\ UNCHANGED <<freeList, sNext>>
    BY <1>6, <1>7, <1>15, <2>2 DEF slice_free
  <2>4. /\ free \cup owned' \cup InHand(e)' = free \cup owned \cup InHand(e)
        /\ free \cap owned' = {} /\ free \cap InHand(e)' = {} /\ owned' \cap InHand(e)' = {}
    BY <1>3, <2>1, <2>3
  <2>5. PlacesOK(free)'
    BY <1>2, <1>3, <2>4, PlacesMove DEF free
  <2>9. StackOK(sNext', freeList', n, r)
    BY <1>2, <2>3
  <2> QED BY <2>5, <2>9 DEF FreeOK, free
<1>16. CASE Push(e)
  <2>1. /\ sl[e].entry \in Entries /\ sl[e].pc = "push" /\ UNCHANGED <<freeList, owned>>
        /\ InHand(e) = {sl[e].entry} /\ sNext' = [sNext EXCEPT ![sl[e].entry] = freeList]
    BY <1>1, <1>6, <1>16 DEF Push, CallOK
  <2>2. sl'[e].pc = "pushCas" /\ sl'[e].entry = sl[e].entry
    BY <1>1, <1>5, <1>16 DEF Push, LocalType
  <2>3. InHand(e)' = InHand(e)
    BY <1>7, <2>1, <2>2
  <2>4. \A s \in free : sNext'[s] = sNext[s]
    BY <1>1, <1>3, <2>1 DEF SliceTypeOK
  <2>5. StackOK(sNext', freeList', n, r)
    BY <1>2, <2>1, <2>4, StackKept DEF free
  <2>6. PlacesOK(free)'
    BY <1>2, <1>3, <2>1, <2>3, PlacesMove DEF free
  <2> QED BY <2>5, <2>6 DEF FreeOK, free
<1>17. CASE PushCas(e)
  <2>1. /\ sl[e].entry \in Entries /\ sl[e].pc = "pushCas" /\ UNCHANGED <<sNext, owned>>
        /\ InHand(e) = {sl[e].entry} /\ sl[e].next = sNext[sl[e].entry]
    BY <1>1, <1>6, <1>17 DEF PushCas, CallOK
  <2>2. CASE freeList = sl[e].next /\ freeList' = sl[e].entry /\ Return(e)
    <3>1. sl'[e].pc = "idle"
      BY <1>5, <2>2 DEF Return, SliceIdle
    <3>2. InHand(e)' = {}
      BY <1>7, <3>1
    <3>3. sl[e].entry \notin free /\ sNext[sl[e].entry] = freeList
      BY <1>3, <2>1, <2>2
    <3>4. PICK q : /\ StackOK(sNext, sl[e].entry, n + 1, q)
                   /\ On(n + 1, q) = free \cup {sl[e].entry}
      BY <1>2, <2>1, <3>3, StackGrows DEF free
    <3>5. PICK new : new = free \cup {sl[e].entry}
      OBVIOUS
    <3>6. PlacesOK(new)'
      <4>1. /\ new \subseteq Entries
            /\ new \cup owned' \cup InHand(e)' = free \cup owned \cup InHand(e)
            /\ new \cap owned' = {} /\ new \cap InHand(e)' = {} /\ owned' \cap InHand(e)' = {}
        BY <1>3, <2>1, <3>2, <3>5
      <4> QED BY <1>2, <4>1, PlacesMove DEF free
    <3>9. StackOK(sNext', freeList', n + 1, q)
      BY <2>1, <2>2, <3>4
    <3> QED BY <3>4, <3>5, <3>6, <3>9 DEF FreeOK
  <2>3. CASE UNCHANGED freeList /\ Local(e, [sl[e] EXCEPT !.pc = "push"])
    <3>1. sl'[e].pc = "push" /\ sl'[e].entry = sl[e].entry
      BY <1>1, <1>5, <2>3 DEF LocalType
    <3>2. InHand(e)' = InHand(e)
      BY <1>7, <2>1, <3>1
    <3> QED BY <2>1, <2>3, <3>1, <3>2, PlacesStay
  <2> QED BY <1>17, <2>2, <2>3 DEF PushCas
<1> QED BY <1>8, <1>9, <1>10, <1>11, <1>12, <1>13, <1>14, <1>15, <1>16, <1>17 DEF SliceStep

-----------------------------------------------------------------------------
(* The theorem.                                                            *)

\* slice_init puts the whole table on the stack.
LEMMA SliceInitHolds ==
    ASSUME slice_init PROVE SliceInv
<1>1. SliceTabSize \in Nat /\ SliceTabSize > 0 /\ NULL \notin Entries
  BY SliceAssumption DEF Entries
<1> DEFINE n == SliceTabSize
           r == [i \in 1 .. n |-> n + 1 - i]
<1>2. SliceTypeOK
  <2>1. SliceIdle \in LocalType
    BY DEF SliceIdle, LocalType, EntryOrNull, Counters
  <2>2. sNext \in [Entries -> EntryOrNull] /\ freeList \in EntryOrNull
    BY <1>1 DEF slice_init, EntryOrNull, Entries
  <2> QED BY <2>1, <2>2 DEF slice_init, SliceTypeOK
<1>3. ASSUME NEW e \in Execs
      PROVE  sl[e].pc = "idle" /\ sl[e].entry = NULL /\ InHand(e) = {}
  BY <1>3 DEF slice_init, SliceIdle, InHand
<1>4. \A e \in Execs : CallOK(e)
  BY <1>3 DEF CallOK, PopPcs, PushPcs, AllocPcs, SpacePcs
<1>5. /\ \A i \in 1 .. n : r[i] = n + 1 - i /\ r[i] \in Entries
      /\ \A s \in Entries : n + 1 - s \in 1 .. n /\ r[n + 1 - s] = s
  BY <1>1 DEF Entries
<1>6. On(n, r) = Entries
  BY <1>5 DEF On
<1>7. StackOK(sNext, freeList, n, r)
  <2>1. r \in [1 .. n -> Entries]
    BY <1>5
  <2>2. n # 0 /\ n \in 1 .. n /\ freeList = r[n]
    BY <1>1, <1>5 DEF slice_init
  <2>3. ASSUME NEW i \in 1 .. n
        PROVE  sNext[r[i]] = IF i = 1 THEN NULL ELSE r[i - 1]
    <3>1. sNext[r[i]] = IF r[i] < n THEN r[i] + 1 ELSE NULL
      BY <1>5 DEF slice_init
    <3>2. CASE i = 1
      BY <1>1, <1>5, <3>1, <3>2
    <3>3. CASE i # 1
      <4>1. i \in Nat /\ i > 1 /\ i <= n /\ i - 1 \in 1 .. n /\ n \in Nat
        BY <1>1, <3>3
      <4>2. r[i] = n + 1 - i /\ r[i - 1] = n + 1 - (i - 1)
        BY <1>5, <4>1
      <4>3. n + 1 - i < n /\ n + 1 - (i - 1) = (n + 1 - i) + 1
        BY <4>1
      <4> HIDE DEF r
      <4> QED BY <3>1, <3>3, <4>2, <4>3
    <3> QED BY <3>2, <3>3
  <2>4. \A i, j \in 1 .. n : r[i] = r[j] => i = j
    BY <1>1, <1>5
  <2> HIDE DEF r
  <2> QED BY <1>1, <2>1, <2>2, <2>3, <2>4 DEF StackOK
<1>8. PlacesOK(Entries)
  BY <1>3 DEF slice_init, PlacesOK
<1> HIDE DEF r
<1>9. FreeOK
  BY <1>6, <1>7, <1>8 DEF FreeOK
<1> QED BY <1>2, <1>4, <1>9 DEF SliceInv

\* The invariant is that every entry is in one place.
LEMMA SliceInvPartitions ==
    ASSUME SliceInv PROVE EntriesPartitioned
<1>1. PICK n, r : StackOK(sNext, freeList, n, r) /\ PlacesOK(On(n, r))
  BY DEF SliceInv, FreeOK
<1>2. ListFrom(freeList, sNext) = On(n, r)
  BY <1>1, StackFound DEF SliceInv, SliceTypeOK
<1> DEFINE free == ListFrom(freeList, sNext)
           Holders(s) == {e \in Execs : s \in InHand(e)}
<1>3. ASSUME NEW s \in Entries
      PROVE  (IF s \in free THEN 1 ELSE 0) + (IF s \in owned THEN 1 ELSE 0)
             + Cardinality(Holders(s)) = 1
  <2>1. /\ s \in free \/ s \in owned \/ \E e \in Execs : s \in InHand(e)
        /\ ~ (s \in free /\ s \in owned)
        /\ \A e \in Execs : s \in InHand(e) => s \notin free /\ s \notin owned
        /\ \A e, f \in Execs : s \in InHand(e) /\ s \in InHand(f) => e = f
    BY <1>1, <1>2 DEF PlacesOK
  <2> HIDE DEF free
  <2>2. CASE \E e \in Execs : s \in InHand(e)
    <3>1. PICK e \in Execs : s \in InHand(e)
      BY <2>2
    <3>2. Holders(s) = {e}
      BY <2>1, <3>1
    <3>3. Cardinality(Holders(s)) = 1
      BY <3>2, FS_Singleton
    <3> HIDE DEF Holders
    <3> QED BY <2>1, <3>1, <3>3
  <2>3. CASE ~ \E e \in Execs : s \in InHand(e)
    <3>1. Holders(s) = {}
      BY <2>3
    <3>2. Cardinality(Holders(s)) = 0
      BY <3>1, FS_EmptySet
    <3> HIDE DEF Holders
    <3> QED BY <2>1, <2>3, <3>2
  <2> QED BY <2>2, <2>3
<1> QED BY <1>3 DEF EntriesPartitioned

LEMMA SliceInvStep ==
    ASSUME SliceInv, [SliceNext]_sliceVars, [Undisturbed]_sliceVars
    PROVE  SliceInv'
<1>1. CASE UNCHANGED sliceVars
  <2>1. UNCHANGED <<freeList, sNext, spaceOf, owned, sl>>
    BY <1>1 DEF sliceVars
  <2>2. SliceTypeOK' /\ \A e \in Execs : CallOK(e)'
    BY <2>1 DEF SliceInv, SliceTypeOK, CallOK
  <2>3. FreeOK'
    <3>1. PICK n, r : StackOK(sNext, freeList, n, r) /\ PlacesOK(On(n, r))
      BY DEF SliceInv, FreeOK
    <3>2. \A e \in Execs : InHand(e)' = InHand(e)
      BY <2>1 DEF InHand
    <3>3. PlacesOK(On(n, r))'
      BY <2>1, <3>1, <3>2 DEF PlacesOK
    <3> QED BY <2>1, <3>1, <3>3 DEF FreeOK
  <2> QED BY <2>2, <2>3 DEF SliceInv
<1>2. ASSUME NEW e \in Execs, SliceStep(e), Undisturbed
      PROVE  SliceInv'
  <2>1. ~StalePop(e) /\ ~GarbageOut(e)
    BY <1>2 DEF Undisturbed
  <2>2. SliceTypeOK' /\ \A f \in Execs \ {e} : sl'[f] = sl[f]
    BY <1>2, <2>1, SliceTypeStep DEF SliceInv
  <2>3. CallOK(e)'
    BY <1>2, <2>1, <2>2, CallStep
  <2>4. \A f \in Execs \ {e} : CallOK(f)'
    BY <1>2, <2>2, CallKept
  <2>5. FreeOK'
    BY <1>2, <2>1, <2>2, FreeStep
  <2> QED BY <2>2, <2>3, <2>4, <2>5 DEF SliceInv
<1> QED BY <1>1, <1>2 DEF SliceNext

\* EntriesPartitioned holds in every state of a behaviour in which no executor
\* pops a stale entry (slice.c:58) or pushes an unassigned `out' (line 369),
\* however many allocate and free at once, whatever the size of the table and
\* whenever mmap refuses the memory: those two steps are the only ones that
\* lose an entry or hand it out twice.
THEOREM NoEntryLostOrTwice ==
    SliceSpec /\ [][Undisturbed]_sliceVars => []EntriesPartitioned
<1>1. slice_init => SliceInv
  BY SliceInitHolds
<1>2. SliceInv /\ [SliceNext]_sliceVars /\ [Undisturbed]_sliceVars => SliceInv'
  BY SliceInvStep
<1>3. SliceInv => EntriesPartitioned
  BY SliceInvPartitions
<1> QED BY <1>1, <1>2, <1>3, PTL DEF SliceSpec

-----------------------------------------------------------------------------
(* The size classes.                                                       *)

\* The sizes of the classes that big sizes are given.
LEMMA BigClasses ==
    /\ ScSize(12) = 640 /\ ScSize(13) = 768 /\ ScSize(14) = 896 /\ ScSize(15) = 1024
    /\ ScSize(16) = 1280 /\ ScSize(17) = 1536 /\ ScSize(18) = 1792 /\ ScSize(19) = 2048
    /\ ScSize(20) = 2560 /\ ScSize(21) = 3072 /\ ScSize(22) = 3584 /\ ScSize(23) = 4096
    /\ ScSize(24) = 5120 /\ ScSize(25) = 6144 /\ ScSize(26) = 7168 /\ ScSize(27) = 8192
    /\ ScSize(28) = 10240 /\ ScSize(29) = 12288 /\ ScSize(30) = 14336
    /\ ScSize(31) = 16384
BY DEF ScSize

LEMMA SmallClasses ==
    /\ ScSize(0) = 32 /\ ScSize(1) = 64 /\ ScSize(2) = 96 /\ ScSize(3) = 128
    /\ ScSize(4) = 160 /\ ScSize(5) = 192 /\ ScSize(6) = 224 /\ ScSize(7) = 256
BY DEF ScSize

\* The sizes that are given a class in a loop, and what it computes.
BigSizes == {n \in Nat : n >= 256 /\ n <= 16127}

LEMMA BigClassHolds ==
    ASSUME NEW size \in BigSizes
    PROVE  /\ malloc_big_size_class(size, 8) \in 12 .. 31
           /\ ScSize(malloc_big_size_class(size, 8)) >= size
<1> DEFINE Half(x) == (x - 4) \div 2
           First == size \div 64
           Divides(f) == f = [k \in 0 .. 5 |-> IF k = 0 THEN First ELSE Half(f[k - 1])]
           div == CHOOSE f : Divides(f)
           Stops(k) == (k = 5 \/ div[k] < 4) /\ \A j \in 0 .. k - 1 : div[j] >= 4
           level == CHOOSE k \in 0 .. 5 : Stops(k)
<1> HIDE DEF Half, First
<1>0. size \in Nat /\ size >= 256 /\ size <= 16127
  BY DEF BigSizes
<1>1. PICK d0, d1, d2, d3, d4, d5 :
          /\ d0 = First /\ d1 = Half(d0) /\ d2 = Half(d1) /\ d3 = Half(d2)
          /\ d4 = Half(d3) /\ d5 = Half(d4)
  OBVIOUS
<1> DEFINE g == [k \in 0 .. 5 |-> CASE k = 0 -> d0 [] k = 1 -> d1 [] k = 2 -> d2
                                    [] k = 3 -> d3 [] k = 4 -> d4 [] k = 5 -> d5]
<1>2. Divides(g)
  <2>1. /\ g[0] = d0 /\ g[1] = d1 /\ g[2] = d2 /\ g[3] = d3 /\ g[4] = d4 /\ g[5] = d5
        /\ g = [k \in 0 .. 5 |-> g[k]]
    OBVIOUS
  <2> HIDE DEF g
  <2>2. ASSUME NEW k \in 0 .. 5
        PROVE  g[k] = IF k = 0 THEN First ELSE Half(g[k - 1])
    <3>1. CASE k = 0
      BY <1>1, <2>1, <3>1
    <3>2. CASE k = 1
      BY <1>1, <2>1, <3>2
    <3>3. CASE k = 2
      BY <1>1, <2>1, <3>3
    <3>4. CASE k = 3
      BY <1>1, <2>1, <3>4
    <3>5. CASE k = 4
      BY <1>1, <2>1, <3>5
    <3>6. CASE k = 5
      BY <1>1, <2>1, <3>6
    <3> QED BY <3>1, <3>2, <3>3, <3>4, <3>5, <3>6
  <2> QED BY <2>1, <2>2
<1> HIDE DEF g
<1> HIDE DEF Divides
<1>3. Divides(div)
  BY <1>2
<1> HIDE DEF div
<1>4. /\ div[0] = d0 /\ div[1] = d1 /\ div[2] = d2 /\ div[3] = d3 /\ div[4] = d4
      /\ div[5] = d5
  <2>1. div[0] = First
    BY <1>3 DEF Divides
  <2>2. \A k \in 1 .. 5 : div[k] = Half(div[k - 1])
    BY <1>3 DEF Divides
  <2>3. /\ div[1] = Half(div[0]) /\ div[2] = Half(div[1]) /\ div[3] = Half(div[2])
        /\ div[4] = Half(div[3]) /\ div[5] = Half(div[4])
    BY <2>2
  <2>4. div[0] = d0
    BY <1>1, <2>1
  <2>5. div[1] = d1
    BY <1>1, <2>3, <2>4
  <2>6. div[2] = d2
    BY <1>1, <2>3, <2>5
  <2>7. div[3] = d3
    BY <1>1, <2>3, <2>6
  <2>8. div[4] = d4
    BY <1>1, <2>3, <2>7
  <2>9. div[5] = d5
    BY <1>1, <2>3, <2>8
  <2> QED BY <2>4, <2>5, <2>6, <2>7, <2>8, <2>9
<1>5. malloc_big_size_class(size, 8) = 8 + 4 * level + div[level]
  BY DEF malloc_big_size_class, level, Stops, div, Divides, Half, First
<1>6. d0 \in 4 .. 251 /\ size < 64 * d0 + 64
  <2>1. \A x \in Int : /\ x \div 64 \in Int
                       /\ 64 * (x \div 64) <= x /\ x < 64 * (x \div 64) + 64
    OBVIOUS
  <2>2. size \div 64 \in 4 .. 251 /\ size < 64 * (size \div 64) + 64
    BY <1>0, <2>1
  <2>3. d0 = size \div 64
    BY <1>1 DEF First
  <2> QED BY <2>2, <2>3
<1>7. \A x \in Int : 2 * Half(x) <= x - 4 /\ x < 2 * Half(x) + 6 /\ Half(x) \in Int
  BY DEF Half
<1>8. /\ d0 \in Int /\ d1 \in Int /\ d2 \in Int /\ d3 \in Int /\ d4 \in Int /\ d5 \in Int
      /\ 2 * d1 <= d0 - 4 /\ d0 < 2 * d1 + 6 /\ 2 * d2 <= d1 - 4 /\ d1 < 2 * d2 + 6
      /\ 2 * d3 <= d2 - 4 /\ d2 < 2 * d3 + 6 /\ 2 * d4 <= d3 - 4 /\ d3 < 2 * d4 + 6
      /\ 2 * d5 <= d4 - 4 /\ d4 < 2 * d5 + 6
  <2>1. d0 \in Int
    BY <1>6
  <2>2. d1 \in Int /\ 2 * d1 <= d0 - 4 /\ d0 < 2 * d1 + 6
    BY <1>1, <1>7, <2>1
  <2>3. d2 \in Int /\ 2 * d2 <= d1 - 4 /\ d1 < 2 * d2 + 6
    BY <1>1, <1>7, <2>2
  <2>4. d3 \in Int /\ 2 * d3 <= d2 - 4 /\ d2 < 2 * d3 + 6
    BY <1>1, <1>7, <2>3
  <2>5. d4 \in Int /\ 2 * d4 <= d3 - 4 /\ d3 < 2 * d4 + 6
    BY <1>1, <1>7, <2>4
  <2>6. d5 \in Int /\ 2 * d5 <= d4 - 4 /\ d4 < 2 * d5 + 6
    BY <1>1, <1>7, <2>5
  <2> QED BY <2>1, <2>2, <2>3, <2>4, <2>5, <2>6
<1>9. /\ ~ Stops(0)
      /\ Stops(1) <=> d1 < 4
      /\ Stops(2) <=> d1 >= 4 /\ d2 < 4
      /\ Stops(3) <=> d1 >= 4 /\ d2 >= 4 /\ d3 < 4
      /\ Stops(4) <=> d1 >= 4 /\ d2 >= 4 /\ d3 >= 4 /\ d4 < 4
      /\ Stops(5) <=> d1 >= 4 /\ d2 >= 4 /\ d3 >= 4 /\ d4 >= 4
  <2>1. /\ 0 .. 1 - 1 = {0} /\ 0 .. 2 - 1 = {0, 1} /\ 0 .. 3 - 1 = {0, 1, 2}
        /\ 0 .. 4 - 1 = {0, 1, 2, 3} /\ 0 .. 5 - 1 = {0, 1, 2, 3, 4}
    OBVIOUS
  <2> QED BY <1>4, <1>6, <1>8, <2>1
<1> HIDE DEF Stops
<1>10. level \in 0 .. 5 /\ Stops(level)
  <2>1. \E k \in 0 .. 5 : Stops(k)
    BY <1>8, <1>9
  <2> QED BY <2>1
<1> HIDE DEF level
<1>11. \/ level = 1 /\ d1 < 4
       \/ level = 2 /\ d1 >= 4 /\ d2 < 4
       \/ level = 3 /\ d2 >= 4 /\ d3 < 4
       \/ level = 4 /\ d3 >= 4 /\ d4 < 4
       \/ level = 5 /\ d4 >= 4
  <2>1. level \in {0, 1, 2, 3, 4, 5}
    BY <1>10
  <2> QED BY <1>8, <1>9, <1>10, <2>1
<1> DEFINE c == 8 + 4 * level + div[level]
<1>12. \/ level = 1 /\ c = 12 + d1 /\ d1 \in {0, 1, 2, 3} /\ size < 128 * d1 + 384
       \/ level = 2 /\ c = 16 + d2 /\ d2 \in {0, 1, 2, 3} /\ size < 256 * d2 + 1024
       \/ level = 3 /\ c = 20 + d3 /\ d3 \in {0, 1, 2, 3} /\ size < 512 * d3 + 2304
       \/ level = 4 /\ c = 24 + d4 /\ d4 \in {0, 1, 2, 3} /\ size < 1024 * d4 + 4864
       \/ level = 5 /\ c = 28 + d5 /\ d5 \in {0, 1, 2, 3} /\ size < 2048 * d5 + 9984
  BY <1>0, <1>4, <1>6, <1>8, <1>11
<1> HIDE DEF c
<1>13. c \in 12 .. 31 /\ ScSize(c) >= size
  BY <1>0, <1>12, BigClasses
<1> QED BY <1>5, <1>13 DEF c

\* The sizes that malloc_lf looks for when the request has a class.
ClassSizes == 1 .. 16127

\* Each of them has a class, and a block of it is large enough.
LEMMA ClassHolds ==
    ASSUME NEW size \in ClassSizes
    PROVE  /\ malloc_size_class(size) \in (0 .. 7) \cup (12 .. 31)
           /\ ScSize(malloc_size_class(size)) >= size
<1> USE DEF ClassSizes
<1>1. CASE size < 256
  <2>1. size \div 32 \in {0, 1, 2, 3, 4, 5, 6, 7} /\ size < 32 * (size \div 32) + 32
    BY <1>1
  <2>2. malloc_size_class(size) = size \div 32
    BY <2>1 DEF malloc_size_class
  <2> HIDE DEF malloc_size_class
  <2> DEFINE c == size \div 32
  <2>3. c \in {0, 1, 2, 3, 4, 5, 6, 7} /\ size < 32 * c + 32
    BY <2>1
  <2> HIDE DEF c
  <2>4. c \in 0 .. 7 /\ ScSize(c) >= size
    BY <2>3, SmallClasses
  <2> QED BY <2>2, <2>4 DEF c
<1>2. CASE size >= 256
  <2>1. size \in BigSizes
    BY <1>2 DEF BigSizes
  <2>4. ~ (size \div 32 < 8)
    <3>1. \A x \in Nat : x >= 256 => ~ (x \div 32 < 8)
      BY SMT
    <3> QED BY <1>2, <3>1
  <2>2. malloc_size_class(size) = malloc_big_size_class(size, 8)
    BY <2>4 DEF malloc_size_class
  <2>3. malloc_big_size_class(size, 8) \in 12 .. 31
        /\ ScSize(malloc_big_size_class(size, 8)) >= size
    BY <2>1, BigClassHolds
  <2> QED BY <2>2, <2>3
<1> QED BY <1>1, <1>2

\* A heap gives blocks of such a size that are large enough.
LEMMA HeapHolds ==
    ASSUME HeapExecs \in Nat, NEW size \in ClassSizes, NEW b \in BlockSizes(size)
    PROVE  b >= size
<1>1. HasHeap(size)
  BY DEF HasHeap, ClassSizes
<1>2. PICK c : c = malloc_size_class(size)
  OBVIOUS
<1>3. c \in (0 .. 7) \cup (12 .. 31) /\ ScSize(c) >= size
  BY <1>2, ClassHolds
<1>4. PICK e \in 0 .. HeapExecs - 1 :
          b = IF e * 32 + c < HeapExecs * 32 THEN ScSize((e * 32 + c) % 32) ELSE 0
  BY <1>1, <1>2 DEF BlockSizes, NumSizeClasses
<1>5. e \in Nat /\ e <= HeapExecs - 1 /\ c \in Nat /\ c < 32
  <2>1. e \in Nat /\ e <= HeapExecs - 1
    BY <1>4
  <2>2. c \in Nat /\ c < 32
    BY <1>3
  <2> QED BY <2>1, <2>2
<1>6. \A x, y \in Nat : y < 32 => (x * 32 + y) % 32 = y
  OBVIOUS
<1>7. e * 32 + c < HeapExecs * 32 /\ (e * 32 + c) % 32 = c
  BY <1>5, <1>6
<1>8. b = ScSize(c)
  BY <1>4, <1>7
<1> QED BY <1>3, <1>8

\* BlockHoldsRequest holds for every number of executors, whichever asks, if the
\* callers ask for at most 16095 bytes: more gets the class past the last one,
\* or a slice that may be too small (line 512).
THEOREM BlocksLargeEnough ==
    ASSUME HeapExecs \in Nat, Requests \subseteq 1 .. 16095
    PROVE  SizesSpec => []BlockHoldsRequest
<1> DEFINE Inv == request \in Requests \cup {0}
<1>1. SizesInit => Inv
  BY DEF SizesInit
<1>2. Inv /\ [SizesNext]_request => Inv'
  BY DEF SizesNext, malloc_request, malloc_reply
<1>3. Inv => BlockHoldsRequest
  <2>1. ASSUME request \in 1 .. 16095, NEW b \in BlockSizes(FullSize(request))
        PROVE  b >= FullSize(request)
    <3>1. FullSize(request) \in ClassSizes
      BY <2>1 DEF FullSize, CacheLineSize, ClassSizes
    <3> QED BY <2>1, <3>1, HeapHolds
  <2> QED BY <2>1 DEF BlockHoldsRequest
<1> QED BY <1>1, <1>2, <1>3, PTL DEF SizesSpec

\* The sizes of the classes that requests are given.
ReachedSizes ==
    {64, 96, 128, 160, 192, 224, 256, 640, 768, 896, 1024, 1280, 1536, 1792, 2048, 2560,
     3072, 3584, 4096, 5120, 6144, 7168, 8192, 10240, 12288, 14336, 16384}

\* With the line for the tag no request is in the first class, whose blocks would
\* be too many.
LEMMA ClassReached ==
    ASSUME NEW size \in ClassSizes, size >= 33
    PROVE  ScSize(malloc_size_class(size)) \in ReachedSizes
<1>1. PICK c : c = malloc_size_class(size)
  OBVIOUS
<1>2. c \in (0 .. 7) \cup (12 .. 31) /\ ScSize(c) >= size
  BY <1>1, ClassHolds
<1>3. c # 0
  <2>1. ScSize(0) = 32
    BY SmallClasses
  <2>2. size \in Nat
    BY DEF ClassSizes
  <2> QED BY <1>2, <2>1, <2>2
<1>4. c \in {1, 2, 3, 4, 5, 6, 7, 12, 13, 14, 15, 16, 17, 18, 19, 20, 21, 22, 23, 24, 25,
             26, 27, 28, 29, 30, 31}
  BY <1>2, <1>3
<1>5. ScSize(c) \in ReachedSizes
  BY <1>4, SmallClasses, BigClasses DEF ReachedSizes
<1> QED BY <1>1, <1>5

\* CountsFitWords holds for every set of requests of at most 16095 bytes.
THEOREM CountsFit ==
    ASSUME Requests \subseteq 1 .. 16095
    PROVE  SizesSpec => []CountsFitWords
<1> DEFINE Inv == request \in Requests \cup {0}
<1>1. SizesInit => Inv
  BY DEF SizesInit
<1>2. Inv /\ [SizesNext]_request => Inv'
  BY DEF SizesNext, malloc_request, malloc_reply
<1>3. Inv => CountsFitWords
  <2> SUFFICES ASSUME request \in 1 .. 16095
               PROVE  CountsFitWords
    BY DEF CountsFitWords
  <2>1. PICK s \in ReachedSizes : s = ScSize(malloc_size_class(FullSize(request)))
    <3>1. FullSize(request) \in ClassSizes /\ FullSize(request) >= 33
      BY DEF FullSize, CacheLineSize, ClassSizes
    <3> QED BY <3>1, ClassReached
  <2> DEFINE m == SuperblockSize \div s
  <2>2. m \in 4 .. 1024
    BY DEF ReachedSizes, SuperblockSize
  <2> HIDE DEF m
  <2>3. 2^10 = 1024 /\ 2^6 = 64
    OBVIOUS
  <2>4. m = SuperblockSize \div ScSize(malloc_size_class(FullSize(request)))
    BY <2>1 DEF m
  <2>5. LET lesser == IF m - 1 < 64 THEN m - 1 ELSE 64
        IN  m - 1 < 2^10 /\ lesser >= 1 /\ lesser - 1 < 2^6
    BY <2>2, <2>3
  <2> QED BY <2>4, <2>5 DEF CountsFitWords
<1> QED BY <1>1, <1>2, <1>3, PTL DEF SizesSpec

-----------------------------------------------------------------------------
(* Numbers in digits, and the words packed from them.                      *)

LEMMA DivMod ==
    ASSUME NEW d \in Nat, d > 0, NEW q \in Nat, NEW x \in Nat, x < d
    PROVE  (x + d * q) \div d = q /\ (x + d * q) % d = x
BY SMT

LEMMA ModBelow ==
    ASSUME NEW d \in Nat, d > 0, NEW x \in Nat
    PROVE  x % d \in Nat /\ x % d < d
BY SMT

\* A number of two digits is below the product of the bases.
LEMMA TwoDigits ==
    ASSUME NEW d \in Nat, NEW b \in Nat, NEW x \in Nat, NEW y \in Nat, x < d, y < b
    PROVE  x + d * y \in Nat /\ x + d * y < d * b
<1>1. d * (y + 1) <= d * b
  <2>1. b = (y + 1) + (b - (y + 1)) /\ b - (y + 1) \in Nat
    OBVIOUS
  <2>2. \A k \in Nat : d * ((y + 1) + k) = d * (y + 1) + d * k /\ d * k >= 0
    BY SMT
  <2> QED BY <2>1, <2>2
<1>2. d * (y + 1) = d * y + d /\ d * y \in Nat
  BY SMT
<1> QED BY <1>1, <1>2

\* A word of four fields, of the bases T, S, C and another, from the lowest up.
Word(T, S, C, t, s, c, a) == t + T * s + T * S * c + T * S * C * a

Digits(T, S, C, A, t, s, c, a, w) ==
    /\ w \in Nat
    /\ w % T = t
    /\ (w \div T) % S = s
    /\ (w \div (T * S)) % C = c
    /\ (w \div (T * S * C)) % A = a

LEMMA WordDigits ==
    ASSUME NEW T \in Nat, NEW S \in Nat, NEW C \in Nat, NEW A \in Nat,
           NEW t \in Nat, NEW s \in Nat, NEW c \in Nat, NEW a \in Nat,
           t < T, s < S, c < C, a < A,
           NEW w, w = Word(T, S, C, t, s, c, a)
    PROVE  Digits(T, S, C, A, t, s, c, a, w)
<1>1. /\ T > 0 /\ S > 0 /\ C > 0 /\ A > 0
      /\ T * S \in Nat /\ T * S > 0 /\ T * S * C \in Nat /\ T * S * C > 0
  <2>1. T > 0 /\ S > 0 /\ C > 0 /\ A > 0
    OBVIOUS
  <2>2. T * S \in Nat /\ T * S > 0
    BY <2>1, SMT
  <2>3. \A x \in Nat : x > 0 => x * C \in Nat /\ x * C > 0
    BY <2>1, SMT
  <2> QED BY <2>1, <2>2, <2>3
<1>2. w = t + T * (s + S * (c + C * a)) /\ s + S * (c + C * a) \in Nat
      /\ c + C * a \in Nat
  BY SMT DEF Word
<1>3. w = (t + T * s) + (T * S) * (c + C * a)
  BY SMT DEF Word
<1>4. w = ((t + T * s) + (T * S) * c) + (T * S * C) * a
  BY SMT DEF Word
<1>5. w % T = t /\ w \div T = s + S * (c + C * a)
  BY <1>1, <1>2, DivMod
<1>6. (s + S * (c + C * a)) % S = s
  BY <1>1, <1>2, DivMod
<1>7. t + T * s \in Nat /\ t + T * s < T * S
  BY TwoDigits
<1>8. w \div (T * S) = c + C * a
  BY <1>1, <1>2, <1>3, <1>7, DivMod
<1>9. (c + C * a) % C = c
  BY <1>1, DivMod
<1>10. (t + T * s) + (T * S) * c \in Nat /\ (t + T * s) + (T * S) * c < T * S * C
  BY <1>1, <1>7, TwoDigits
<1>11. w \div (T * S * C) = a
  BY <1>1, <1>4, <1>10, DivMod
<1>12. a % A = a /\ w \in Nat
  BY <1>1, <1>2
<1> QED BY <1>5, <1>6, <1>8, <1>9, <1>11, <1>12 DEF Digits

AvailBase == 2^AvailBits
CreditsBase == 2^CreditsBits
StateBase == 2^StateBits
TagBase == 2^TagBits
ActiveBase == 2^ActiveBits

LEMMA Bases ==
    /\ AvailBase \in Nat /\ AvailBase > 0 /\ CreditsBase \in Nat /\ CreditsBase > 0
    /\ StateBase \in Nat /\ StateBase > 0 /\ TagBase \in Nat /\ TagBase > 0
    /\ ActiveBase \in Nat /\ ActiveBase > 0
BY ExponentLaws DEF AvailBase, CreditsBase, StateBase, TagBase, ActiveBase

LEMMA Shifts ==
    /\ 2^anchor_state_shift = TagBase
    /\ 2^anchor_credits_shift = TagBase * StateBase
    /\ 2^anchor_avail_shift = TagBase * StateBase * CreditsBase
BY ExponentLaws DEF CreditsBase, StateBase, TagBase, anchor_state_shift,
       anchor_credits_shift, anchor_avail_shift

\* The words are the values stored last, each at its place.
FieldType ==
    [avail : 0 .. AvailBase - 1, credits : 0 .. CreditsBase - 1, state : 0 .. StateBase - 1,
     tag : 0 .. TagBase - 1, ptr : Lines, active : 0 .. ActiveBase - 1]

AnchorOf(f) == Word(TagBase, StateBase, CreditsBase, f.tag, f.state, f.credits, f.avail)

WordsInv ==
    /\ fields \in FieldType
    /\ anchorWord = AnchorOf(fields)
    /\ activeWord = fields.ptr + fields.active

\* What the four accessors of the anchor get.
LEMMA AnchorGets ==
    ASSUME NEW f \in FieldType
    PROVE  LET w == AnchorOf(f) IN
           /\ w \in Nat
           /\ anchor_get_tag(w) = f.tag /\ anchor_get_state(w) = f.state
           /\ anchor_get_credits(w) = f.credits /\ anchor_get_avail(w) = f.avail
<1> DEFINE w == AnchorOf(f)
<1>1. /\ f.tag \in Nat /\ f.tag < TagBase /\ f.state \in Nat /\ f.state < StateBase
      /\ f.credits \in Nat /\ f.credits < CreditsBase
      /\ f.avail \in Nat /\ f.avail < AvailBase
  BY Bases DEF FieldType
<1>2. w = Word(TagBase, StateBase, CreditsBase, f.tag, f.state, f.credits, f.avail)
  BY DEF AnchorOf
<1> HIDE DEF w
<1>3. /\ w \in Nat /\ w % TagBase = f.tag
      /\ (w \div TagBase) % StateBase = f.state
      /\ (w \div (TagBase * StateBase)) % CreditsBase = f.credits
      /\ (w \div (TagBase * StateBase * CreditsBase)) % AvailBase = f.avail
  <2>1. TagBase \in Nat /\ StateBase \in Nat /\ CreditsBase \in Nat /\ AvailBase \in Nat
    BY Bases
  <2>2. Digits(TagBase, StateBase, CreditsBase, AvailBase,
               f.tag, f.state, f.credits, f.avail, w)
    BY ONLY <1>1, <1>2, <2>1, WordDigits
  <2> QED BY <2>2 DEF Digits
<1>4. anchor_get_tag(w) = f.tag
  <2>1. 2^0 = 1 /\ w \div 1 = w
    BY <1>3
  <2> QED BY <1>3, <2>1 DEF anchor_get_tag, Field, TagBase
<1>5. anchor_get_state(w) = f.state
  BY <1>3, Shifts DEF anchor_get_state, Field, StateBase
<1>6. anchor_get_credits(w) = f.credits
  BY <1>3, Shifts DEF anchor_get_credits, Field, CreditsBase
<1>7. anchor_get_avail(w) = f.avail
  BY <1>3, Shifts DEF anchor_get_avail, Field, AvailBase
<1> QED BY <1>3, <1>4, <1>5, <1>6, <1>7 DEF w

\* A digit is replaced.
LEMMA DigitReplaced ==
    ASSUME NEW r \in Nat, NEW q \in Nat, NEW m \in Nat, NEW a \in Nat, NEW b \in Nat
    PROVE  (r + m * a + q) - a * m + b * m = r + m * b + q
BY SMT

\* What the four setters make of it: only their field changes.
LEMMA AnchorSets ==
    ASSUME NEW f \in FieldType, NEW v \in Nat
    PROVE  LET w == AnchorOf(f) IN
           /\ anchor_set_avail(w, v) = AnchorOf([f EXCEPT !.avail = v % AvailBase])
           /\ anchor_set_credits(w, v) = AnchorOf([f EXCEPT !.credits = v % CreditsBase])
           /\ anchor_set_state(w, v) = AnchorOf([f EXCEPT !.state = v % StateBase])
           /\ anchor_set_tag(w, v) = AnchorOf([f EXCEPT !.tag = v % TagBase])
<1> DEFINE w == AnchorOf(f)
           M1 == TagBase * StateBase
           M2 == TagBase * StateBase * CreditsBase
<1>1. /\ f.tag \in Nat /\ f.state \in Nat /\ f.credits \in Nat /\ f.avail \in Nat
      /\ M1 \in Nat /\ M2 \in Nat /\ TagBase \in Nat
      /\ TagBase * f.state \in Nat /\ M1 * f.credits \in Nat /\ M2 * f.avail \in Nat
  <2>1. \A x, y \in Nat : x * y \in Nat
    OBVIOUS
  <2>2. /\ TagBase \in Nat /\ StateBase \in Nat /\ CreditsBase \in Nat
        /\ f.tag \in Nat /\ f.state \in Nat /\ f.credits \in Nat /\ f.avail \in Nat
    BY Bases DEF FieldType
  <2>3. M1 \in Nat
    BY <2>1, <2>2
  <2>4. M2 \in Nat
    BY <2>1, <2>2, <2>3
  <2> QED BY <2>1, <2>2, <2>3, <2>4
<1>2. /\ v % AvailBase \in Nat /\ v % CreditsBase \in Nat /\ v % StateBase \in Nat
      /\ v % TagBase \in Nat
  BY Bases, ModBelow
<1>3. /\ w \in Nat /\ anchor_get_tag(w) = f.tag /\ anchor_get_state(w) = f.state
      /\ anchor_get_credits(w) = f.credits /\ anchor_get_avail(w) = f.avail
  BY AnchorGets
<1>4. w = f.tag + TagBase * f.state + M1 * f.credits + M2 * f.avail
  BY DEF AnchorOf, Word
<1> HIDE DEF w
<1>5. anchor_set_avail(w, v) = AnchorOf([f EXCEPT !.avail = v % AvailBase])
  <2>1. anchor_set_avail(w, v) = w - f.avail * M2 + (v % AvailBase) * M2
    BY <1>3, Shifts DEF anchor_set_avail, anchor_get_avail, WithField, AvailBase
  <2>2. AnchorOf([f EXCEPT !.avail = v % AvailBase]) =
            f.tag + TagBase * f.state + M1 * f.credits + M2 * (v % AvailBase)
    BY DEF AnchorOf, Word, FieldType
  <2> HIDE DEF M1, M2
  <2>3. PICK r \in Nat : r = f.tag + TagBase * f.state + M1 * f.credits
    BY <1>1
  <2>4. w = r + M2 * f.avail + 0
    BY <1>1, <1>4, <2>3
  <2>5. w - f.avail * M2 + (v % AvailBase) * M2 = r + M2 * (v % AvailBase) + 0
    BY <1>1, <1>2, <2>4, DigitReplaced
  <2> QED BY <1>1, <1>2, <2>1, <2>2, <2>3, <2>5
<1>6. anchor_set_credits(w, v) = AnchorOf([f EXCEPT !.credits = v % CreditsBase])
  <2>1. anchor_set_credits(w, v) = w - f.credits * M1 + (v % CreditsBase) * M1
    BY <1>3, Shifts DEF anchor_set_credits, anchor_get_credits, WithField, CreditsBase
  <2>2. AnchorOf([f EXCEPT !.credits = v % CreditsBase]) =
            f.tag + TagBase * f.state + M1 * (v % CreditsBase) + M2 * f.avail
    BY DEF AnchorOf, Word, FieldType
  <2> HIDE DEF M1, M2
  <2>3. PICK r \in Nat : r = f.tag + TagBase * f.state
    BY <1>1
  <2>4. w = r + M1 * f.credits + M2 * f.avail
    BY <1>1, <1>4, <2>3
  <2>5. w - f.credits * M1 + (v % CreditsBase) * M1
            = r + M1 * (v % CreditsBase) + M2 * f.avail
    BY <1>1, <1>2, <2>4, DigitReplaced
  <2> QED BY <1>1, <1>2, <2>1, <2>2, <2>3, <2>5
<1>7. anchor_set_state(w, v) = AnchorOf([f EXCEPT !.state = v % StateBase])
  <2>1. anchor_set_state(w, v) = w - f.state * TagBase + (v % StateBase) * TagBase
    BY <1>3, Shifts DEF anchor_set_state, anchor_get_state, WithField, StateBase
  <2>2. AnchorOf([f EXCEPT !.state = v % StateBase]) =
            f.tag + TagBase * (v % StateBase) + M1 * f.credits + M2 * f.avail
    BY DEF AnchorOf, Word, FieldType
  <2> HIDE DEF M1, M2
  <2>3. PICK q \in Nat : q = M1 * f.credits + M2 * f.avail
    BY <1>1
  <2>4. w = f.tag + TagBase * f.state + q
    BY <1>1, <1>4, <2>3
  <2>5. w - f.state * TagBase + (v % StateBase) * TagBase
            = f.tag + TagBase * (v % StateBase) + q
    BY <1>1, <1>2, <2>4, DigitReplaced
  <2>6. TagBase * (v % StateBase) \in Nat
    <3>1. \A x, y \in Nat : x * y \in Nat
      OBVIOUS
    <3> QED BY <1>1, <1>2, <3>1
  <2> QED BY <1>1, <2>1, <2>2, <2>3, <2>5, <2>6
<1>8. anchor_set_tag(w, v) = AnchorOf([f EXCEPT !.tag = v % TagBase])
  <2>1. anchor_set_tag(w, v) = w - f.tag * 1 + (v % TagBase) * 1
    <3>1. 2^0 = 1
      OBVIOUS
    <3> QED BY <1>3, <3>1 DEF anchor_set_tag, anchor_get_tag, WithField, TagBase
  <2>2. AnchorOf([f EXCEPT !.tag = v % TagBase]) =
            (v % TagBase) + TagBase * f.state + M1 * f.credits + M2 * f.avail
    BY DEF AnchorOf, Word, FieldType
  <2> HIDE DEF M1, M2
  <2>3. PICK q \in Nat : q = TagBase * f.state + M1 * f.credits + M2 * f.avail
    BY <1>1
  <2>4. w = f.tag + q
    BY <1>1, <1>4, <2>3
  <2>5. w - f.tag * 1 + (v % TagBase) * 1 = (v % TagBase) + q
    BY <1>1, <1>2, <2>4
  <2> QED BY <1>1, <1>2, <2>1, <2>2, <2>3, <2>5
<1> QED BY <1>5, <1>6, <1>7, <1>8 DEF w

-----------------------------------------------------------------------------
(* The active word.                                                        *)

LEMMA ActiveDigits ==
    ASSUME NEW p \in Lines, NEW x \in Nat, x < ActiveBase
    PROVE  /\ p \in Nat /\ PtrPart(p) = p
           /\ PtrPart(p + x) = p /\ (p + x) % ActiveBase = x
<1>1. p \in Nat /\ p % ActiveBase = 0
  BY WordsAssumption DEF ActiveBase
<1>2. ActiveBase \in Nat /\ ActiveBase > 0
  BY Bases
<1>3. PICK q \in Nat : p = ActiveBase * q
  <2>1. p \div ActiveBase \in Nat /\ p = ActiveBase * (p \div ActiveBase) + (p % ActiveBase)
    BY <1>1, <1>2, SMT
  <2> QED BY <1>1, <1>2, <2>1
<1>4. p + x = x + ActiveBase * q
  BY <1>1, <1>3
<1>5. (p + x) % ActiveBase = x
  BY <1>2, <1>4, DivMod
<1>6. PtrPart(p + x) = (p + x) - x /\ PtrPart(p) = p - 0
  BY <1>1, <1>5 DEF PtrPart, ActiveBase
<1> QED BY <1>1, <1>5, <1>6

LEMMA Active ==
    ASSUME NEW p \in Lines, NEW q \in Lines,
           NEW x \in Nat, x < ActiveBase, NEW v \in Nat
    PROVE  /\ v % ActiveBase \in 0 .. ActiveBase - 1
           /\ active_create(p, v) = p + (v % ActiveBase)
           /\ active_get_ptr(p + x) = p /\ active_get_credits(p + x) = x
           /\ active_set_credits(active_set_ptr(p + x, q), v) = q + (v % ActiveBase)
           /\ active_set_ptr(active_set_credits(p + x, v), q) = q + (v % ActiveBase)
<1>1. v % ActiveBase \in Nat /\ v % ActiveBase < ActiveBase
  BY Bases, ModBelow
<1>2. active_set_ptr(p + x, q) = q + x
  BY ActiveDigits DEF active_set_ptr, ActiveBase
<1>3. active_set_credits(q + x, v) = q + (v % ActiveBase)
  BY ActiveDigits DEF active_set_credits, ActiveBase
<1>4. active_set_credits(p + x, v) = p + (v % ActiveBase)
  BY ActiveDigits DEF active_set_credits, ActiveBase
<1>5. active_set_ptr(p + (v % ActiveBase), q) = q + (v % ActiveBase)
  <2> DEFINE y == v % ActiveBase
  <2>1. y \in Nat /\ y < ActiveBase
    BY <1>1
  <2> HIDE DEF y
  <2>2. (p + y) % ActiveBase = y /\ PtrPart(q) = q
    BY <2>1, ActiveDigits
  <2>3. active_set_ptr(p + y, q) = q + y
    BY <2>2 DEF active_set_ptr, ActiveBase
  <2> QED BY <2>3 DEF y
<1>6. v % ActiveBase \in 0 .. ActiveBase - 1
  BY <1>1, Bases
<1>7. active_create(p, v) = p + (v % ActiveBase)
  BY ActiveDigits DEF active_create, ActiveBase
<1>8. active_get_ptr(p + x) = p /\ active_get_credits(p + x) = x
  BY ActiveDigits DEF active_get_ptr, active_get_credits, ActiveBase
<1> QED BY <1>2, <1>3, <1>4, <1>5, <1>6, <1>7, <1>8

-----------------------------------------------------------------------------
(* Every step stores a value at its place.                                 *)

LEMMA IntsNat ==
    ASSUME NEW n \in {AvailBits, CreditsBits, StateBits, ActiveBits},
           NEW v \in Ints(n)
    PROVE  v \in Nat
BY DEF Ints

LEMMA Below ==
    ASSUME NEW v \in Nat
    PROVE  /\ v % AvailBase \in 0 .. AvailBase - 1
           /\ v % CreditsBase \in 0 .. CreditsBase - 1
           /\ v % StateBase \in 0 .. StateBase - 1
           /\ v % TagBase \in 0 .. TagBase - 1
BY Bases, ModBelow

LEMMA WordsStart ==
    ASSUME WordsInit
    PROVE  WordsInv
<1>1. PICK a \in Ints(AvailBits), c \in Ints(CreditsBits), s \in Ints(StateBits), p \in Lines :
          /\ anchorWord = anchor_create(a, c, s)
          /\ activeWord = active_create(p, c)
          /\ fields = [avail |-> a % AvailBase, credits |-> c % CreditsBase,
                       state |-> s % StateBase, tag |-> 0, ptr |-> p,
                       active |-> c % ActiveBase]
  BY DEF WordsInit, AvailBase, CreditsBase, StateBase, ActiveBase
<1>2. a \in Nat /\ c \in Nat /\ s \in Nat
  BY IntsNat
<1>3. 0 \in 0 .. TagBase - 1
  BY Bases
<1>4. 0 \in Nat /\ 0 < ActiveBase
  BY Bases
<1>5. c % ActiveBase \in 0 .. ActiveBase - 1 /\ active_create(p, c) = p + (c % ActiveBase)
  BY <1>2, <1>4, Active
<1>6. fields \in FieldType
  BY <1>1, <1>2, <1>3, <1>5, Below DEF FieldType
<1>7. anchorWord = AnchorOf(fields)
  <2> DEFINE x == a % AvailBase
             y == c % CreditsBase
             z == s % StateBase
             M2 == TagBase * StateBase * CreditsBase
             M1 == TagBase * StateBase
  <2>1. /\ x \in Nat /\ y \in Nat /\ z \in Nat
        /\ TagBase \in Nat /\ M1 \in Nat /\ M2 \in Nat
    <3>1. \A i, j \in Nat : i * j \in Nat
      OBVIOUS
    <3>2. x \in Nat /\ y \in Nat /\ z \in Nat
      BY <1>2, Below
    <3>3. TagBase \in Nat /\ StateBase \in Nat /\ CreditsBase \in Nat
      BY Bases
    <3>4. M1 \in Nat
      BY <3>1, <3>3
    <3>5. M2 \in Nat
      BY <3>1, <3>3, <3>4
    <3> QED BY <3>2, <3>3, <3>4, <3>5
  <2>2. anchorWord = x * M2 + y * M1 + z * TagBase
    BY <1>1, Shifts DEF anchor_create, AvailBase, CreditsBase, StateBase
  <2>3. AnchorOf(fields) = 0 + TagBase * z + M1 * y + M2 * x
    BY <1>1 DEF AnchorOf, Word
  <2> HIDE DEF x, y, z, M1, M2
  <2>4. x * M2 = M2 * x /\ y * M1 = M1 * y /\ z * TagBase = TagBase * z
    BY <2>1
  <2>5. M2 * x \in Nat /\ M1 * y \in Nat /\ TagBase * z \in Nat
    <3>1. \A i, j \in Nat : i * j \in Nat
      OBVIOUS
    <3> QED BY <2>1, <3>1
  <2> QED BY <2>2, <2>3, <2>4, <2>5
<1> QED BY <1>1, <1>5, <1>6, <1>7 DEF WordsInv

\* AnchorOf reads nothing of the active word.
LEMMA AnchorOnly ==
    ASSUME NEW f \in FieldType, NEW p, NEW x
    PROVE  AnchorOf([f EXCEPT !.ptr = p, !.active = x]) = AnchorOf(f)
BY DEF AnchorOf, FieldType

LEMMA WordsStep ==
    ASSUME WordsInv, [WordsNext]_wordVars
    PROVE  WordsInv'
<1> USE DEF WordsInv
<1>1. ASSUME SetAvail PROVE WordsInv'
  <2>1. PICK v \in Ints(AvailBits) :
            /\ anchorWord' = anchor_set_avail(anchorWord, v)
            /\ fields' = [fields EXCEPT !.avail = v % AvailBase]
            /\ activeWord' = activeWord
    BY <1>1 DEF SetAvail, AvailBase
  <2>2. v \in Nat
    BY IntsNat
  <2>3. anchorWord' = AnchorOf(fields')
    BY <2>1, <2>2, AnchorSets
  <2>4. fields' \in FieldType /\ fields'.ptr = fields.ptr /\ fields'.active = fields.active
    BY <2>1, <2>2, Below DEF FieldType
  <2> QED BY <2>1, <2>3, <2>4 DEF AnchorOf, FieldType
<1>2. ASSUME SetCredits PROVE WordsInv'
  <2>1. PICK v \in Ints(CreditsBits) :
            /\ anchorWord' = anchor_set_credits(anchorWord, v)
            /\ fields' = [fields EXCEPT !.credits = v % CreditsBase]
            /\ activeWord' = activeWord
    BY <1>2 DEF SetCredits, CreditsBase
  <2>2. v \in Nat
    BY IntsNat
  <2>3. anchorWord' = AnchorOf(fields')
    BY <2>1, <2>2, AnchorSets
  <2>4. fields' \in FieldType /\ fields'.ptr = fields.ptr /\ fields'.active = fields.active
    BY <2>1, <2>2, Below DEF FieldType
  <2> QED BY <2>1, <2>3, <2>4 DEF AnchorOf, FieldType
<1>3. ASSUME SetState PROVE WordsInv'
  <2>1. PICK v \in 0 .. 3 :
            /\ anchorWord' = anchor_set_state(anchorWord, v)
            /\ fields' = [fields EXCEPT !.state = v % StateBase]
            /\ activeWord' = activeWord
    BY <1>3 DEF SetState, StateBase
  <2>2. v \in Nat
    OBVIOUS
  <2>3. anchorWord' = AnchorOf(fields')
    BY <2>1, <2>2, AnchorSets
  <2>4. fields' \in FieldType /\ fields'.ptr = fields.ptr /\ fields'.active = fields.active
    BY <2>1, <2>2, Below DEF FieldType
  <2> QED BY <2>1, <2>3, <2>4 DEF AnchorOf, FieldType
<1>4. ASSUME NextTag PROVE WordsInv'
  <2>1. /\ anchorWord' = anchor_set_tag(anchorWord, anchor_get_tag(anchorWord) + 1)
        /\ fields' = [fields EXCEPT !.tag = (fields.tag + 1) % TagBase]
        /\ activeWord' = activeWord
    BY <1>4 DEF NextTag, TagBase
  <2>2. anchor_get_tag(anchorWord) = fields.tag
    BY AnchorGets
  <2>3. fields.tag + 1 \in Nat
    BY Bases DEF FieldType
  <2>4. anchorWord' = AnchorOf(fields')
    BY <2>1, <2>2, <2>3, AnchorSets
  <2>5. fields' \in FieldType /\ fields'.ptr = fields.ptr /\ fields'.active = fields.active
    BY <2>1, <2>3, Below DEF FieldType
  <2> QED BY <2>1, <2>4, <2>5 DEF AnchorOf, FieldType
<1>5. ASSUME SetActive PROVE WordsInv'
  <2>1. PICK v \in Ints(ActiveBits), p \in Lines :
            /\ \/ activeWord' = active_set_credits(active_set_ptr(activeWord, p), v)
               \/ activeWord' = active_set_ptr(active_set_credits(activeWord, v), p)
            /\ fields' = [fields EXCEPT !.ptr = p, !.active = v % ActiveBase]
            /\ anchorWord' = anchorWord
    BY <1>5 DEF SetActive, ActiveBase
  <2>2. v \in Nat /\ fields.active \in Nat /\ fields.active < ActiveBase /\ fields.ptr \in Lines
    BY IntsNat, Bases DEF FieldType
  <2>3. activeWord' = p + (v % ActiveBase) /\ v % ActiveBase \in 0 .. ActiveBase - 1
    BY <2>1, <2>2, Active
  <2>4. fields' \in FieldType /\ fields'.ptr = p /\ fields'.active = v % ActiveBase
    BY <2>1, <2>3 DEF FieldType
  <2>5. anchorWord' = AnchorOf(fields')
    BY <2>1, AnchorOnly
  <2> QED BY <2>3, <2>4, <2>5 DEF AnchorOf
<1>6. ASSUME UNCHANGED wordVars PROVE WordsInv'
  BY <1>6 DEF wordVars, AnchorOf
<1> QED BY <1>1, <1>2, <1>3, <1>4, <1>5, <1>6 DEF WordsNext

LEMMA WordsRead ==
    ASSUME WordsInv
    PROVE  FieldsIndependent
<1>1. fields \in FieldType /\ fields.active \in Nat /\ fields.active < ActiveBase
      /\ fields.ptr \in Lines
  BY Bases DEF WordsInv, FieldType
<1>2. /\ anchor_get_tag(anchorWord) = fields.tag /\ anchor_get_state(anchorWord) = fields.state
      /\ anchor_get_credits(anchorWord) = fields.credits
      /\ anchor_get_avail(anchorWord) = fields.avail
  BY <1>1, AnchorGets DEF WordsInv
<1>3. active_get_ptr(activeWord) = fields.ptr /\ active_get_credits(activeWord) = fields.active
  <2>1. 0 \in Nat
    OBVIOUS
  <2> QED BY <1>1, <2>1, Active DEF WordsInv
<1> QED BY <1>1, <1>2, <1>3 DEF FieldsIndependent, FieldType

\* Setting one field of a packed word never spills into its neighbours, for
\* every width of the fields and every set of aligned pointers (FieldsIndependent).
THEOREM FieldsReadBack ==
    WordsSpec => []FieldsIndependent
<1>1. WordsInit => WordsInv
  BY WordsStart
<1>2. WordsInv /\ [WordsNext]_wordVars => WordsInv'
  BY WordsStep
<1>3. WordsInv => FieldsIndependent
  BY WordsRead
<1> QED BY <1>1, <1>2, <1>3, PTL DEF WordsSpec
=============================================================================
