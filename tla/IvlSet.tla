------------------------------- MODULE IvlSet -------------------------------
(***************************************************************************)
(* ivlset_t (mlist.cpp, declared in micro_on_70.hpp): the memory half of an *)
(* mlist_t, a vector of intervals kept sorted, disjoint and never touching. *)
(* The has_common_ walk and the searches in add are only right because      *)
(* every add leaves the vector that way.  Addresses are unsigned and wrap.  *)
(***************************************************************************)
EXTENDS Integers, Sequences, FiniteSetsExt

CONSTANTS
  M,       \* number of addresses, 2^64 in the code
  Sets,    \* the ivlset_t objects
  Offs,    \* offsets the calls are given
  Sizes    \* sizes the calls are given

ASSUME MAssumption == M \in Nat /\ M > 1
ASSUME OffsAssumption == Offs \subseteq 0..(M - 1) /\ Sizes \subseteq 0..(M - 1)

VARIABLES
  bag,     \* bag[s]: the vector of intervals
  ret      \* what the last call returned

vars == <<bag, ret>>

Ivl(off, size) == [off |-> off, size |-> size]
End(i) == (i.off + i.size) % M

\* allmem = {0, BADADDR}
AllMem == Ivl(0, M - 1)

-----------------------------------------------------------------------------
(* add(ivl).  The first interval that ends at or after ivl starts either     *)
(* lies beyond it, and ivl is put in before it, or touches it, and absorbs   *)
(* ivl and every following interval the widened one reaches.                 *)

FirstReaching(b, i) ==
  LET reaching == {k \in 1..Len(b) : End(b[k]) >= i.off}
  IN IF reaching = {} THEN Len(b) + 1 ELSE Min(reaching)

\* Seeded fault: an interval that only touches the next one stays apart.
ApartTouching(b, i, k) == k > Len(b) \/ b[k].off >= End(i)

Apart(b, i, k) == k > Len(b) \/ b[k].off > End(i)

\* The end of the widened k-th interval after it swallowed those up to j.
Reach(b, i, k, j) == Max({End(i)} \cup {End(b[n]) : n \in k..j})

\* The last interval swallowed: the next one starts beyond the reach.
Swallowed(b, i, k) ==
  Min({j \in k..Len(b) : j = Len(b) \/ Reach(b, i, k, j) < b[j + 1].off})

\* Seeded fault: the widened interval loses what lay before ivl.
AbsorbForward(b, i, k) ==
  LET j == Swallowed(b, i, k)
  IN SubSeq(b, 1, k - 1)
       \o <<Ivl(i.off, Reach(b, i, k, j) - i.off)>>
       \o SubSeq(b, j + 1, Len(b))

Absorb(b, i, k) ==
  LET off == Min({b[k].off, i.off})
      j == Swallowed(b, i, k)
  IN SubSeq(b, 1, k - 1)
       \o <<Ivl(off, Reach(b, i, k, j) - off)>>
       \o SubSeq(b, j + 1, Len(b))

\* Seeded fault: empty intervals are taken.
IgnoredWraps(i) == i # AllMem /\ End(i) < i.off

Ignored(i) == i.size = 0 \/ (i # AllMem /\ End(i) < i.off)

Added(b, i) ==
  LET k == FirstReaching(b, i) IN
  IF Ignored(i) THEN b
  ELSE IF i = AllMem THEN <<AllMem>>
  ELSE IF Apart(b, i, k) THEN SubSeq(b, 1, k - 1) \o <<i>> \o SubSeq(b, k, Len(b))
  ELSE IF b[k].off <= i.off /\ End(b[k]) >= End(i) THEN b
  ELSE Absorb(b, i, k)

\* The value add returns, decided by the branch it leaves through.
Grew(b, i) ==
  LET k == FirstReaching(b, i) IN
  /\ ~Ignored(i)
  /\ \/ i = AllMem /\ b # <<AllMem>>
     \/ /\ i # AllMem
        /\ Apart(b, i, k) \/ b[k].off > i.off \/ End(b[k]) < End(i)

-----------------------------------------------------------------------------
Init == bag = [s \in Sets |-> <<>>] /\ ret = FALSE

Add(s, i) ==
  /\ bag' = [bag EXCEPT ![s] = Added(@, i)]
  /\ ret' = Grew(bag[s], i)

\* add_(ivs): one interval of ivs after the other, TRUE if one of them grew
\* the set.
AddedAll(b, ivs) ==
  LET upto[n \in 0..Len(ivs)] == IF n = 0 THEN b ELSE Added(upto[n - 1], ivs[n])
  IN upto

AddSet(s, t) ==
  LET upto == AddedAll(bag[s], bag[t])
  IN /\ bag' = [bag EXCEPT ![s] = upto[Len(bag[t])]]
     /\ ret' = \E n \in 1..Len(bag[t]) : Grew(upto[n - 1], bag[t][n])

Copy(s, t) == bag' = [bag EXCEPT ![s] = bag[t]] /\ UNCHANGED ret

Swap(s, t) ==
  bag' = [bag EXCEPT ![s] = bag[t], ![t] = bag[s]] /\ UNCHANGED ret

Clear(s) == bag' = [bag EXCEPT ![s] = <<>>] /\ UNCHANGED ret

Next ==
  \E s \in Sets :
    \/ \E off \in Offs, size \in Sizes : Add(s, Ivl(off, size))
    \/ \E t \in Sets : AddSet(s, t) \/ Copy(s, t) \/ Swap(s, t)
    \/ Clear(s)

Spec == Init /\ [][Next]_vars

-----------------------------------------------------------------------------
(* The questions asked of a set.                                             *)

\* interval::includes of the SDK: no wrap check on either end.
Includes(x, i) == x.off <= i.off /\ End(i) <= End(x)
Has(b, i) == \E k \in 1..Len(b) : Includes(b[k], i)

Overlap(x, y) == y.off < End(x) /\ x.off < End(y)

Beyond(v, from, off) == {n \in from..Len(v) : End(v[n]) > off}

\* has_common_: both vectors walked together; on no overlap the one that lies
\* behind moves to its first interval that ends beyond the other's start.
HasCommon(b, c) ==
  LET walk[at \in (1..Len(b)) \X (1..Len(c))] ==
        LET is == Beyond(b, at[1], c[at[2]].off)
            js == Beyond(c, at[2], b[Min(is)].off)
        IN \/ Overlap(b[at[1]], c[at[2]])
           \/ is # {} /\ js # {} /\ walk[<<Min(is), Min(js)>>]
  IN b # <<>> /\ c # <<>> /\ walk[<<1, 1>>]

\* compare() = 0
SameAs(b, c) == Len(b) = Len(c) /\ \A k \in 1..Len(b) : b[k] = c[k]

-----------------------------------------------------------------------------
Addresses(i) == i.off..(i.off + i.size - 1)
Covers(b) == UNION {Addresses(b[k]) : k \in 1..Len(b)}

TypeOK ==
  /\ bag \in [Sets -> Seq([off : 0..(M - 1), size : 1..(M - 1)])]
  /\ ret \in BOOLEAN

\* Whatever was added in whatever order, every vector is sorted and between
\* two of its intervals lies an address of neither: add coalesces fully, also
\* when one interval closes several gaps at once.
Canonical ==
  \A s \in Sets :
    /\ \A k \in 1..Len(bag[s]) : bag[s][k].off + bag[s][k].size < M
    /\ \A k \in 1..(Len(bag[s]) - 1) : End(bag[s][k]) < bag[s][k + 1].off

\* The pointer walk, the containment test and the element-wise comparison
\* answer for the sets of addresses: def-use tests ask the first, operand tests
\* the second.
QueriesAgree ==
  \A s, t \in Sets :
    /\ HasCommon(bag[s], bag[t]) <=> Covers(bag[s]) \cap Covers(bag[t]) # {}
    /\ SameAs(bag[s], bag[t]) <=> Covers(bag[s]) = Covers(bag[t])
    /\ \A off \in Offs, size \in Sizes \ {0} :
         off + size < M =>
           (Has(bag[s], Ivl(off, size)) <=> Addresses(Ivl(off, size)) \subseteq Covers(bag[s]))

\* The vector of intervals is a set of addresses, and add says whether the set
\* grew; an interval that ends past the last address changes nothing.
Abstract == INSTANCE IvlSetSpec WITH covers <- [s \in Sets |-> Covers(bag[s])]
Refines == Abstract!Spec
=============================================================================
