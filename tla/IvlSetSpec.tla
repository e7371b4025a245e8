----------------------------- MODULE IvlSetSpec -----------------------------
(***************************************************************************)
(* What an ivlset_t promises its users: a set of addresses, grown by        *)
(* intervals, with an answer from each add that says whether the set grew.  *)
(* IvlSet.tla is shown to implement this module.                            *)
(***************************************************************************)
EXTENDS Integers

CONSTANTS
  M,        \* number of addresses, 2^64 in the code
  Sets      \* the ivlset_t objects

VARIABLES
  covers,   \* covers[s]: the addresses in set s
  ret       \* what the last call returned

cVars == <<covers, ret>>

\* An interval whose end is not an address is not taken.
Addresses(off, size) == IF off + size < M THEN off..(off + size - 1) ELSE {}

Init == covers = [s \in Sets |-> {}] /\ ret = FALSE

Grow(s, E) ==
  /\ covers' = [covers EXCEPT ![s] = @ \cup E]
  /\ ret' = ~(E \subseteq covers[s])

Becomes(s, E) == covers' = [covers EXCEPT ![s] = E] /\ UNCHANGED ret

Exchange(s, t) ==
  covers' = [covers EXCEPT ![s] = covers[t], ![t] = covers[s]] /\ UNCHANGED ret

Next ==
  \E s, t \in Sets :
    \/ \E off, size \in 0..(M - 1) : Grow(s, Addresses(off, size))
    \/ Grow(s, covers[t])
    \/ Becomes(s, covers[t])
    \/ Becomes(s, {})
    \/ Exchange(s, t)

Spec == Init /\ [][Next]_cVars
=============================================================================
