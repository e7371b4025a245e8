------------------------------- MODULE Bitset -------------------------------
(***************************************************************************)
(* bitset_t (mlist.cpp, declared in micro_on_70.hpp): a bitmap of W-bit     *)
(* words whose allocation and whose `high` mark change separately.  Words   *)
(* at and above `high` are not part of the set but stay in the allocation   *)
(* with whatever they held, so a bit may be in the memory and not in the    *)
(* set.  `high` is kept minimal by a trim after each deletion; is_subset_of  *)
(* and compare_ go by it.  clear() is the exception: it zeroes the words and  *)
(* leaves `high` above them.                                                 *)
(***************************************************************************)
EXTENDS Integers, FiniteSets

CONSTANTS
  W,         \* bits in a word (32 in the code)
  Lists,     \* bitset_t objects used as register lists
  Pools,     \* bitset_t objects reused as visited sets (g_bbidx_pool)
  Bits,      \* bit numbers the calls are given, ranges included
  Widths     \* widths the range calls are given

ASSUME WAssumption == W \in Nat \ {0}
ASSUME BitsAssumption == Bits \subseteq Nat /\ Widths \subseteq Nat
ASSUME UsesAssumption == Lists \cap Pools = {}

Objects == Lists \cup Pools

VARIABLES
  high,      \* high[s]: one past the last bit of the last live word
  bitmap,    \* bitmap[s]: the bits set in the memory, live words or not
  alloc,     \* alloc[s]: bits the memory was allocated for
  ret,       \* what the last call returned
  cleared    \* history variable: objects cleared, or that took over the words
             \* of a cleared one, and not trimmed since

vars == <<high, bitmap, alloc, ret, cleared>>

\* The set the object stands for.
Elems(s) == {i \in bitmap[s] : i < high[s]}

\* (a2 + 32) & 0xFFFFFFE0
Above(bit) == W * ((bit \div W) + 1)

MaxOf(S) == CHOOSE m \in S : \A i \in S : i <= m

\* sub_17195690: drop the zero words at the top of the live ones.
Trim(live) == IF live = {} THEN 0 ELSE Above(MaxOf(live))

Span(bit, width) == bit..(bit + width - 1)

-----------------------------------------------------------------------------
(* resize(a2): grow so that bit a2 has a word; the new live words are zeroed *)
(* and the memory is reallocated to exactly the new size.                    *)

\* Seeded faults: the new live words keep what they held; the memory is
\* allocated up to the word of a2 and not with it.
ResizedBitsStale(s, a2) == bitmap[s]
ResizedAllocShort(s, a2) == IF a2 >= high[s] THEN Above(a2) - W ELSE alloc[s]

ResizedHigh(s, a2) == IF a2 >= high[s] THEN Above(a2) ELSE high[s]
ResizedBits(s, a2) == IF a2 >= high[s] THEN Elems(s) ELSE bitmap[s]
ResizedAlloc(s, a2) == IF a2 >= high[s] THEN Above(a2) ELSE alloc[s]

Store(s, h, b, a) ==
  /\ high' = [high EXCEPT ![s] = h]
  /\ bitmap' = [bitmap EXCEPT ![s] = b]
  /\ alloc' = [alloc EXCEPT ![s] = a]

\* Seeded fault: a deletion that does not trim.
StoreUntrimmed(s, h, b) == Store(s, h, b, alloc[s])

\* Memory b is written and `high` is then trimmed, no higher than h.
StoreTrimmed(s, h, b) == Store(s, Trim({i \in b : i < h}), b, alloc[s])

Init ==
  /\ high = [s \in Objects |-> 0]
  /\ bitmap = [s \in Objects |-> {}]
  /\ alloc = [s \in Objects |-> 0]
  /\ ret = FALSE
  /\ cleared = {}

\* add(bit)
Add(s, bit) ==
  /\ Store(s, ResizedHigh(s, bit), ResizedBits(s, bit) \cup {bit},
           ResizedAlloc(s, bit))
  /\ ret' = (bit \notin Elems(s))

\* add_(bit, width): the first word, the full words between, the last word.
AddRange(s, bit, width) ==
  LET last == bit + width - 1 IN
  IF width = 0
  THEN ret' = FALSE /\ UNCHANGED <<high, bitmap, alloc>>
  ELSE /\ Store(s, ResizedHigh(s, last),
                ResizedBits(s, last) \cup Span(bit, width), ResizedAlloc(s, last))
       /\ ret' = \E i \in Span(bit, width) : i \notin Elems(s)

\* add__(ml): or the live words of t into s.
AddAll(s, t) ==
  IF high[t] = 0
  THEN ret' = FALSE /\ UNCHANGED <<high, bitmap, alloc>>
  ELSE /\ Store(s, ResizedHigh(s, high[t] - 1),
                ResizedBits(s, high[t] - 1) \cup Elems(t),
                ResizedAlloc(s, high[t] - 1))
       /\ ret' = \E i \in Elems(t) : i \notin Elems(s)

\* fill_with_ones(maxbit): bits 0..maxbit inclusive.
FillWithOnes(s, maxbit) ==
  /\ Store(s, ResizedHigh(s, maxbit), ResizedBits(s, maxbit) \cup 0..maxbit,
           ResizedAlloc(s, maxbit))
  /\ UNCHANGED ret

\* sub(bit)
Sub(s, bit) ==
  IF bit \in Elems(s)
  THEN StoreTrimmed(s, high[s], bitmap[s] \ {bit}) /\ ret' = TRUE
  ELSE ret' = FALSE /\ UNCHANGED <<high, bitmap, alloc>>

\* cut_at(maxbit): only the word maxbit falls in is masked; the words above
\* it keep their bits and leave the set because `high` comes down.
CutAt(s, maxbit) ==
  LET h == IF maxbit % W = 0 THEN maxbit ELSE Above(maxbit)
      masked == {i \in bitmap[s] : i < maxbit \/ i >= h}
  IN IF maxbit >= high[s]
     THEN ret' = FALSE /\ UNCHANGED <<high, bitmap, alloc>>
     ELSE StoreTrimmed(s, h, masked) /\ ret' = TRUE

\* sub_(bit, width): a range that runs off the top is a cut; otherwise bit by
\* bit, trimming after each bit that was set.
SubRange(s, bit, width) ==
  LET hit == Span(bit, width) \cap Elems(s) IN
  IF bit + width >= high[s] THEN CutAt(s, bit)
  ELSE /\ ret' = (hit # {})
       /\ IF hit # {}
          THEN StoreTrimmed(s, high[s], bitmap[s] \ hit)
          ELSE UNCHANGED <<high, bitmap, alloc>>

MinHigh(s, t) == IF high[s] < high[t] THEN high[s] ELSE high[t]

\* sub__(ml)
SubAll(s, t) ==
  LET common == {i \in bitmap[s] \cap bitmap[t] : i < MinHigh(s, t)}
      kept == bitmap[s] \ common
      trimmed == Trim({i \in kept : i < high[s]})
  IN IF MinHigh(s, t) = 0
     THEN ret' = FALSE /\ UNCHANGED <<high, bitmap, alloc>>
     ELSE /\ Store(s, trimmed, kept, alloc[s])
          /\ ret' = (common # {} \/ trimmed # high[s])

\* intersect(ml): `high` comes down to ml's first, then the live words are
\* masked, then trimmed.
Intersect(s, t) ==
  LET h == MinHigh(s, t)
      lost == {i \in bitmap[s] : i < h /\ i \notin bitmap[t]}
  IN /\ StoreTrimmed(s, h, bitmap[s] \ lost)
     /\ ret' = (high[s] > high[t] \/ lost # {})

\* copy(other), which operator= calls.
Copy(s, t) ==
  /\ UNCHANGED ret
  /\ IF s = t THEN UNCHANGED <<high, bitmap, alloc>>
     ELSE IF high[t] = 0
     THEN high' = [high EXCEPT ![s] = 0] /\ UNCHANGED <<bitmap, alloc>>
     ELSE Store(s, high[t],
                {i \in ResizedBits(s, high[t]) : i >= high[t]} \cup Elems(t),
                ResizedAlloc(s, high[t]))

\* The destructor followed by bitset_t(const bitset_t*) on the same object.
CopyConstruct(s, t) ==
  /\ s # t
  /\ Store(s, high[t], Elems(t), IF high[t] = 0 THEN 0 ELSE Above(high[t]))
  /\ UNCHANGED ret

Swap(s, t) ==
  LET Exchanged(f) == [f EXCEPT ![s] = f[t], ![t] = f[s]] IN
  /\ high' = Exchanged(high)
  /\ bitmap' = Exchanged(bitmap)
  /\ alloc' = Exchanged(alloc)
  /\ UNCHANGED ret

\* resize(a2) called for itself: dispatch_combinsn grows the pool this way.
Resize(s, a2) ==
  /\ Store(s, ResizedHigh(s, a2), ResizedBits(s, a2), ResizedAlloc(s, a2))
  /\ UNCHANGED ret

\* Seeded fault: the last live word is not zeroed.
ClearShort(s) ==
  /\ bitmap' = [bitmap EXCEPT ![s] = {i \in @ : i >= high[s] - W}]
  /\ UNCHANGED <<high, alloc, ret>>

\* clear(): zeroes the live words and leaves `high` where it is.  A moptrace_t
\* that is set on its next operand clears its register list, the walks their pool.
Clear(s) ==
  /\ bitmap' = [bitmap EXCEPT ![s] = {i \in @ : i >= high[s]}]
  /\ UNCHANGED <<high, alloc, ret>>

\* A deletion from s trims s if it answers TRUE.
Trims(s) == cleared' = IF ret' THEN cleared \ {s} ELSE cleared

\* s has words of t in it now, or only words of t.
TakesSome(s, t) == cleared' = IF t \in cleared THEN cleared \cup {s} ELSE cleared
TakesAll(s, t) == cleared' = IF t \in cleared THEN cleared \cup {s} ELSE cleared \ {s}
TradesWith(s, t) ==
  cleared' = {u \in Objects : (IF u = s THEN t ELSE IF u = t THEN s ELSE u) \in cleared}

ListNext ==
  \E s \in Lists :
    \/ Clear(s) /\ cleared' = cleared \cup {s}
    \/ \E bit \in Bits :
         \/ (Add(s, bit) \/ FillWithOnes(s, bit)) /\ UNCHANGED cleared
         \/ (Sub(s, bit) \/ CutAt(s, bit)) /\ Trims(s)
         \/ \E width \in Widths :
              /\ Span(bit, width) \subseteq Bits
              /\ \/ AddRange(s, bit, width) /\ UNCHANGED cleared
                 \/ SubRange(s, bit, width) /\ Trims(s)
    \/ \E t \in Lists :
         \/ AddAll(s, t) /\ TakesSome(s, t)
         \/ SubAll(s, t) /\ Trims(s)
         \/ Intersect(s, t) /\ cleared' = cleared \ {s}
         \/ (Copy(s, t) \/ CopyConstruct(s, t)) /\ TakesAll(s, t)
         \/ Swap(s, t) /\ TradesWith(s, t)

\* find_definition_size and the gather functions: size the pool, clear it, add
\* the blocks visited.
PoolNext ==
  \E p \in Pools :
    \/ \E bit \in Bits : (Resize(p, bit) \/ Add(p, bit)) /\ UNCHANGED cleared
    \/ Clear(p) /\ cleared' = cleared \cup {p}

Next == ListNext \/ PoolNext

Spec == Init /\ [][Next]_vars

-----------------------------------------------------------------------------
(* The questions asked of a list, as the code answers them from the words.  *)

Has(s, bit) == bit < high[s] /\ bit \in bitmap[s]
Empty(s) == \A i \in bitmap[s] : i >= high[s]
HasCommon(s, t) == \E i \in bitmap[s] \cap bitmap[t] : i < MinHigh(s, t)
IsSubsetOf(s, t) ==
  high[s] <= high[t] /\ \A i \in bitmap[s] : i < high[s] => i \in bitmap[t]
\* compare_() = 0
SameAs(s, t) ==
  high[s] = high[t] /\ \A i \in 0..(high[s] - 1) : i \in bitmap[s] <=> i \in bitmap[t]
\* has_any and has_all step `bit` before they test it.
HasAny(s, bit, width) == \E i \in 1..width : Has(s, bit + i)
HasAll(s, bit, width) == \A i \in 1..width : Has(s, bit + i)
Last(s) == IF Empty(s) THEN -1 ELSE MaxOf(Elems(s))
\* The first bit at or after `reg`, or `high`: begin() and inc() are built on it.
Goup(s, reg) ==
  LET ahead == {i \in bitmap[s] : reg <= i /\ i < high[s]}
  IN IF ahead = {} THEN high[s] ELSE CHOOSE m \in ahead : \A i \in ahead : m <= i

-----------------------------------------------------------------------------
TypeOK ==
  /\ high \in [Objects -> Nat]
  /\ bitmap \in [Objects -> SUBSET Nat]
  /\ alloc \in [Objects -> Nat]
  /\ ret \in BOOLEAN
  /\ cleared \subseteq Objects

\* Memory safety of every call sequence: the live words are inside the
\* allocation and no call (memcpy of copy, the or loop of add__) has written a
\* bit outside it.
InBounds ==
  \A s \in Objects : high[s] <= alloc[s] /\ \A i \in bitmap[s] : i < alloc[s]

\* The last live word holds a bit. "highest bit+1 (multiply of bitset_width)" is
\* what the member `high` is declared to be.
HighIsMinimal(s) ==
  high[s] = 0 \/ \E i \in bitmap[s] : high[s] - W <= i /\ i < high[s]

\* Whatever calls were made, `high` of a register list is its highest bit + 1
\* rounded up to a word, unless the list was cleared, or has words of one that
\* was, and no deletion has trimmed it since.  Every deletion has to restore
\* this, and answer TRUE when it does.
Trimmed ==
  /\ \A s \in Objects : high[s] % W = 0
  /\ \A s \in Lists \ cleared : HighIsMinimal(s)

\* Stale words and different lengths notwithstanding: has_common answers for
\* the sets; is_subset_of and compare_ are never wrong in saying yes, and wrong
\* in saying no only of a cleared list, which is longer than its bits.  A list
\* that was not cleared is empty just if `high` is 0.
QueriesAgree ==
  \A s, t \in Lists :
    /\ HasCommon(s, t) <=> Elems(s) \cap Elems(t) # {}
    /\ IsSubsetOf(s, t) => Elems(s) \subseteq Elems(t)
    /\ SameAs(s, t) => Elems(s) = Elems(t)
    /\ s \notin cleared =>
         /\ Elems(s) \subseteq Elems(t) => IsSubsetOf(s, t)
         /\ t \notin cleared /\ Elems(s) = Elems(t) => SameAs(s, t)
         /\ Empty(s) <=> high[s] = 0

\* The object with its words, capacity and stale bits is a set of integers
\* whose mutating calls report whether they changed it, those on a cleared
\* list less exactly.
Abstract == INSTANCE BitsetSpec WITH
  Lists <- Objects,
  elems <- [s \in Objects |-> Elems(s)],
  loose <- cleared
Refines == Abstract!Spec
=============================================================================
