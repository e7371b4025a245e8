------------------------------ MODULE IndFacts ------------------------------
(***************************************************************************)
(* Induction and recursion in the form the proofs about the models need:     *)
(* over sets instead of predicates, with the step of a recursion as a        *)
(* function.                                                                  *)
(***************************************************************************)
EXTENDS Naturals, Sequences, WellFoundedInduction, TLAPS

\* A set with 0 in it that has n + 1 whenever it has n holds every number.
LEMMA SetInduction ==
  ASSUME NEW S, 0 \in S, \A n \in Nat : n \in S => n + 1 \in S
  PROVE  Nat \subseteq S
<1> DEFINE T == Nat \ S
<1>1. SUFFICES ASSUME T # {} PROVE FALSE
  OBVIOUS
<1>2. PICK m \in T : \A n \in T : ~(<<n, m>> \in OpToRel(<, Nat))
  BY <1>1, NatLessThanWellFounded, WFMin, Zenon
<1>3. m # 0 /\ m \in Nat /\ m - 1 \in Nat /\ (m - 1) + 1 = m
  OBVIOUS
<1>4. m - 1 \in T
  BY <1>3
<1>5. <<m - 1, m>> \in OpToRel(<, Nat)
  BY <1>3 DEF OpToRel
<1> QED
  BY <1>2, <1>4, <1>5

\* f[n] is what n steps of F make of x0.
Unrolls(f, X, x0, F, k) ==
  /\ f \in [0..k -> X]
  /\ f[0] = x0 /\ \A n \in 0..(k - 1) : f[n + 1] = F[<<n, f[n]>>]

\* What is defined by recursion over 0..k exists.
LEMMA Recursion ==
  ASSUME NEW X, NEW x0 \in X, NEW F \in [Nat \X X -> X], NEW k \in Nat
  PROVE  \E f : Unrolls(f, X, x0, F, k)
<1> DEFINE S == {n \in Nat : \E f : Unrolls(f, X, x0, F, n)}
<1>1. 0 \in S
  <2>1. Unrolls([n \in 0..0 |-> x0], X, x0, F, 0)
    BY DEF Unrolls
  <2> QED
    BY <2>1
<1>2. ASSUME NEW n \in Nat, n \in S PROVE n + 1 \in S
  <2>1. PICK f : Unrolls(f, X, x0, F, n)
    BY <1>2
  <2>2. /\ f \in [0..n -> X] /\ f[0] = x0
        /\ \A m \in 0..(n - 1) : f[m + 1] = F[<<m, f[m]>>]
    BY <2>1 DEF Unrolls
  <2> DEFINE e == [m \in 0..(n + 1) |-> IF m = n + 1 THEN F[<<n, f[n]>>] ELSE f[m]]
  <2>3. e \in [0..(n + 1) -> X] /\ e[0] = x0
    <3>1. F[<<n, f[n]>>] \in X
      BY <2>2
    <3> QED
      BY <2>2, <3>1
  <2>4. \A m \in 0..n : e[m + 1] = F[<<m, e[m]>>]
    <3> TAKE m \in 0..n
    <3>1. CASE m = n
      <4>1. n + 1 \in 0..(n + 1) /\ n \in 0..(n + 1) /\ n # n + 1
        OBVIOUS
      <4>2. e[n + 1] = F[<<n, f[n]>>] /\ e[n] = f[n]
        BY <4>1
      <4> QED
        BY <3>1, <4>2
    <3>2. CASE m # n
      <4>1. m \in 0..(n - 1) /\ m + 1 \in 0..n
        BY <3>2
      <4>2. e[m + 1] = f[m + 1] /\ e[m] = f[m]
        BY <3>2, <4>1
      <4> QED
        BY <2>2, <4>1, <4>2
    <3> QED
      BY <3>1, <3>2
  <2>5. (n + 1) - 1 = n
    OBVIOUS
  <2> HIDE DEF e
  <2>6. Unrolls(e, X, x0, F, n + 1)
    BY <2>3, <2>4, <2>5 DEF Unrolls
  <2> QED
    BY <2>6
<1>3. Nat \subseteq S
  <2> HIDE DEF S
  <2> QED
    BY <1>1, <1>2, SetInduction
<1> QED
  BY <1>3

\* f is defined by recursion over 0..k and keeps to S, a set of steps and values.
FoldsTo(f, k, x0, F, S) ==
  /\ f = [n \in 0..k |-> IF n = 0 THEN x0 ELSE F[<<n - 1, f[n - 1]>>]]
  /\ \A n \in 0..k : <<n, f[n]>> \in S

\* What is defined by recursion over 0..k exists, if every step of it keeps
\* to S.
LEMMA Folded ==
  ASSUME NEW k \in Nat, NEW S, NEW x0, <<0, x0>> \in S, NEW F,
         \A n \in 0..(k - 1) : \A x : <<n, x>> \in S => <<n + 1, F[<<n, x>>]>> \in S
  PROVE  \E f : FoldsTo(f, k, x0, F, S)
<1> DEFINE T == {n \in Nat : n <= k =>
                   \E f : /\ f = [i \in 0..n |-> IF i = 0 THEN x0 ELSE F[<<i - 1, f[i - 1]>>]]
                         /\ \A i \in 0..n : <<i, f[i]>> \in S}
<1>1. 0 \in T
  <2> DEFINE f == [i \in 0..0 |-> x0]
  <2>1. \A i \in 0..0 : i = 0 /\ f[i] = x0
    OBVIOUS
  <2>2. f = [i \in 0..0 |-> IF i = 0 THEN x0 ELSE F[<<i - 1, f[i - 1]>>]]
    BY <2>1
  <2>3. \A i \in 0..0 : <<i, f[i]>> \in S
    BY <2>1
  <2> QED
    BY <2>2, <2>3
<1>2. ASSUME NEW n \in Nat, n \in T PROVE n + 1 \in T
  <2> SUFFICES ASSUME n + 1 <= k
               PROVE  \E f : /\ f = [i \in 0..(n + 1) |-> IF i = 0 THEN x0 ELSE F[<<i - 1, f[i - 1]>>]]
                            /\ \A i \in 0..(n + 1) : <<i, f[i]>> \in S
    OBVIOUS
  <2>1. PICK f : /\ f = [i \in 0..n |-> IF i = 0 THEN x0 ELSE F[<<i - 1, f[i - 1]>>]]
                 /\ \A i \in 0..n : <<i, f[i]>> \in S
    <3>1. n <= k
      OBVIOUS
    <3> QED
      BY <1>2, <3>1
  <2>2. \A i \in 0..n : f[i] = IF i = 0 THEN x0 ELSE F[<<i - 1, f[i - 1]>>]
    BY <2>1
  <2> DEFINE e == [i \in 0..(n + 1) |-> IF i = n + 1 THEN F[<<n, f[n]>>] ELSE f[i]]
  <2>3. /\ e[n + 1] = F[<<n, f[n]>>]
        /\ \A i \in 0..n : e[i] = f[i]
    OBVIOUS
  <2>4. e = [i \in 0..(n + 1) |-> e[i]]
    OBVIOUS
  <2> HIDE DEF e
  <2>5. ASSUME NEW i \in 0..(n + 1) PROVE e[i] = IF i = 0 THEN x0 ELSE F[<<i - 1, e[i - 1]>>]
    <3>1. CASE i = n + 1
      <4>1. i - 1 = n /\ n \in 0..n /\ i # 0
        BY <3>1
      <4> QED
        BY <2>3, <3>1, <4>1
    <3>2. CASE i # n + 1
      <4>1. i \in 0..n /\ (i # 0 => i - 1 \in 0..n)
        BY <3>2
      <4>2. e[i] = f[i] /\ (i # 0 => e[i - 1] = f[i - 1])
        BY <2>3, <4>1
      <4>3. f[i] = IF i = 0 THEN x0 ELSE F[<<i - 1, f[i - 1]>>]
        BY <2>2, <4>1
      <4> QED
        BY <4>2, <4>3, Zenon
    <3> QED
      BY <3>1, <3>2
  <2>6. e = [i \in 0..(n + 1) |-> IF i = 0 THEN x0 ELSE F[<<i - 1, e[i - 1]>>]]
    BY <2>4, <2>5, Zenon
  <2>7. ASSUME NEW i \in 0..(n + 1) PROVE <<i, e[i]>> \in S
    <3>1. CASE i = n + 1
      <4>1. n \in 0..(k - 1) /\ n \in 0..n
        OBVIOUS
      <4>2. <<n, f[n]>> \in S
        BY <2>1, <4>1
      <4> QED
        BY <2>3, <3>1, <4>1, <4>2
    <3>2. CASE i # n + 1
      <4>1. i \in 0..n
        BY <3>2
      <4> QED
        BY <2>1, <2>3, <4>1
    <3> QED
      BY <3>1, <3>2
  <2> QED
    BY <2>6, <2>7
<1>3. Nat \subseteq T
  <2> HIDE DEF T
  <2> QED
    BY <1>1, <1>2, SetInduction
<1>4. \E f : /\ f = [i \in 0..k |-> IF i = 0 THEN x0 ELSE F[<<i - 1, f[i - 1]>>]]
            /\ \A i \in 0..k : <<i, f[i]>> \in S
  BY <1>3
<1> QED
  BY <1>4, Zenon DEF FoldsTo

\* Induction that stops at k.
LEMMA IntervalInduction ==
  ASSUME NEW k \in Nat, NEW S, 0 \in S, \A n \in 0..(k - 1) : n \in S => n + 1 \in S
  PROVE  0..k \subseteq S
<1> DEFINE T == {n \in Nat : n \in 0..k => n \in S}
<1>1. 0 \in T
  OBVIOUS
<1>2. ASSUME NEW n \in Nat, n \in T PROVE n + 1 \in T
  <2>1. CASE n + 1 \in 0..k
    <3>1. n \in 0..(k - 1) /\ n \in 0..k
      BY <2>1
    <3> QED
      BY <1>2, <3>1
  <2>2. CASE n + 1 \notin 0..k
    BY <2>2
  <2> QED
    BY <2>1, <2>2
<1>3. Nat \subseteq T
  <2> HIDE DEF T
  <2> QED
    BY <1>1, <1>2, SetInduction
<1> QED
  BY <1>3

\* Of some numbers one is the first.
LEMMA FirstOf ==
  ASSUME NEW S \in SUBSET Nat, S # {}
  PROVE  \E m \in S : \A n \in S : m <= n
<1>1. PICK m \in S : \A n \in S : ~(<<n, m>> \in OpToRel(<, Nat))
  BY NatLessThanWellFounded, WFMin, Zenon
<1>2. ASSUME NEW n \in S PROVE m <= n
  <2>1. ~(n < m)
    BY <1>1 DEF OpToRel
  <2> QED
    BY <2>1
<1> QED
  BY <1>2

\* Of the numbers up to k some of which are in S, one is the last.
LEMMA LastOf ==
  ASSUME NEW k \in Nat, NEW S \in SUBSET (0..k), S # {}
  PROVE  \E m \in S : \A n \in S : n <= m
<1> DEFINE T == {b \in Nat : \A n \in S : n <= b}
<1>1. T # {}
  <2>1. k \in T
    OBVIOUS
  <2> QED
    BY <2>1
<1>2. PICK b \in T : \A c \in T : b <= c
  <2> HIDE DEF T
  <2>1. T \in SUBSET Nat
    BY DEF T
  <2> QED
    BY <1>1, <2>1, FirstOf
<1>3. b \in S
  <2>1. SUFFICES ASSUME b \notin S PROVE FALSE
    OBVIOUS
  <2>2. \A n \in S : n < b
    BY <2>1
  <2>3. b # 0 /\ b - 1 \in Nat
    <3>1. PICK n \in S : TRUE
      OBVIOUS
    <3>2. n \in Nat /\ n < b
      BY <2>2, <3>1
    <3> QED
      BY <3>2
  <2>4. b - 1 \in T
    BY <2>2, <2>3
  <2>5. b <= b - 1
    BY <1>2, <2>4
  <2> QED
    BY <2>3, <2>5
<1> QED
  BY <1>2, <1>3

-----------------------------------------------------------------------------
(* Sequences put together and taken apart.                                   *)

\* The elements of two sequences put together.
LEMMA JoinedIs ==
  ASSUME NEW X, NEW s \in Seq(X), NEW t \in Seq(X)
  PROVE  /\ s \o t \in Seq(X) /\ Len(s \o t) = Len(s) + Len(t)
         /\ \A i \in 1..(Len(s) + Len(t)) : (s \o t)[i] = IF i <= Len(s) THEN s[i] ELSE t[i - Len(s)]
OBVIOUS

\* Of three, it does not matter which two are put together first.
LEMMA JoinedTwice ==
  ASSUME NEW X, NEW s \in Seq(X), NEW t \in Seq(X), NEW u \in Seq(X)
  PROVE  (s \o t) \o u = s \o (t \o u)
OBVIOUS

\* Sequences of one length are the same if their elements are.
LEMMA SameSeq ==
  ASSUME NEW X, NEW s \in Seq(X), NEW t \in Seq(X), Len(s) = Len(t), \A i \in 1..Len(t) : s[i] = t[i]
  PROVE  s = t
OBVIOUS

\* The elements of a part of a sequence.
LEMMA PartIs ==
  ASSUME NEW X, NEW s \in Seq(X), NEW a \in 1..(Len(s) + 1), NEW b \in 0..Len(s), a <= b + 1
  PROVE  /\ SubSeq(s, a, b) \in Seq(X) /\ Len(SubSeq(s, a, b)) = (b - a) + 1
         /\ \A i \in 1..((b - a) + 1) : SubSeq(s, a, b)[i] = s[(a + i) - 1]
OBVIOUS
=============================================================================
