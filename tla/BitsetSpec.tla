----------------------------- MODULE BitsetSpec -----------------------------
(***************************************************************************)
(* What a bitset_t promises its users, without words, capacity or `high`:  *)
(* a finite set of bit numbers, and an answer from each mutating call that  *)
(* says whether the call changed the set.  A set that was cleared may answer *)
(* that another was taken from it though it had nothing of it, until it has  *)
(* once so answered.  Bitset.tla is shown to implement this module.          *)
(***************************************************************************)
EXTENDS Integers

CONSTANTS
  Lists,    \* the bitset_t objects (the register lists of an mlist_t)
  Bits,     \* the bit numbers a call may be given
  Widths    \* the widths a range call may be given

VARIABLES
  elems,    \* elems[s]: the bits in list s
  ret,      \* what the last call returned
  loose     \* the lists that may answer so

aVars == <<elems, ret, loose>>

\* The bits a range call (bit, width) is about.
Span(bit, width) == bit..(bit + width - 1)

\* Only list s changes.
OnlyIn(s) == elems' = [elems EXCEPT ![s] = elems'[s]]

\* List s changes to the set E, and the call answers r.
Becomes(s, E, r) == ret' = r /\ elems'[s] = E

Init == elems = [s \in Lists |-> {}] /\ ret = FALSE /\ loose = {}

AddSet(s, E) == Becomes(s, elems[s] \cup E, ~(E \subseteq elems[s]))

SubSet(s, E) == Becomes(s, elems[s] \ E, elems[s] \cap E # {})

\* Deletions by range or by limit may answer TRUE with nothing deleted, but
\* never FALSE when something was.
Cut(s, E) ==
  \E r \in BOOLEAN : (elems[s] \cap E # {} => r) /\ Becomes(s, elems[s] \ E, r)

IntersectWith(s, t) ==
  /\ loose' = loose \ {s}
  /\ IF s \in loose
     THEN Cut(s, elems[s] \ elems[t])
     ELSE Becomes(s, elems[s] \cap elems[t], ~(elems[s] \subseteq elems[t]))

\* Another set is taken from s.
Less(s, t) == IF s \in loose THEN Cut(s, elems[t]) ELSE SubSet(s, elems[t])

CopyOf(s, t) == Becomes(s, elems[t], ret)

Exchange(s, t) ==
  /\ UNCHANGED ret
  /\ elems' = [elems EXCEPT ![s] = elems[t], ![t] = elems[s]]
  /\ loose' = {u \in Lists : (IF u = s THEN t ELSE IF u = t THEN s ELSE u) \in loose}

\* A call that answers TRUE to a deletion from s leaves it strict.
Firm(s) == loose' = IF ret' THEN loose \ {s} ELSE loose

\* What s takes over from t makes it loose if t is.
Loosened(s, t, others) == loose' = IF t \in loose THEN others \cup {s} ELSE others

Next ==
  \/ \E s \in Lists :
       /\ OnlyIn(s)
       /\ \/ loose' = loose \cup {s} /\ Becomes(s, {}, ret)
          \/ \E bit \in Bits :
               \/ UNCHANGED loose /\ (AddSet(s, {bit}) \/ Becomes(s, elems[s] \cup 0..bit, ret))
               \/ Firm(s) /\ (SubSet(s, {bit}) \/ Cut(s, {i \in elems[s] : i >= bit}))
               \/ \E width \in Widths :
                    \/ UNCHANGED loose /\ AddSet(s, Span(bit, width))
                    \/ Firm(s) /\ Cut(s, Span(bit, width))
          \/ \E t \in Lists :
               \/ Loosened(s, t, loose) /\ AddSet(s, elems[t])
               \/ Firm(s) /\ Less(s, t)
               \/ IntersectWith(s, t)
               \/ Loosened(s, t, loose \ {s}) /\ CopyOf(s, t)
  \/ \E s, t \in Lists : Exchange(s, t)

Spec == Init /\ [][Next]_aVars
=============================================================================
