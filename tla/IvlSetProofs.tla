---------------------------- MODULE IvlSetProofs ----------------------------
(***************************************************************************)
(* Proofs about ivlset_t for every number of addresses: every vector stays  *)
(* sorted with a gap between two of its intervals, whatever is added; the    *)
(* questions asked of vectors are answered for the sets of addresses they    *)
(* stand for; and the objects implement such sets.  All rest on what one    *)
(* add does (AddedIs) to a canonical vector.                                 *)
(***************************************************************************)
EXTENDS IvlSet, IndFacts

\* Intervals with something in them.
Ivls == [off : 0..(M - 1), size : 1..(M - 1)]

\* Canonical, for one vector.
Good(b) ==
  /\ b \in Seq(Ivls)
  /\ \A k \in 1..Len(b) : b[k].off + b[k].size < M
  /\ \A k \in 1..(Len(b) - 1) : End(b[k]) < b[k + 1].off

-----------------------------------------------------------------------------
(* Numbers.                                                                  *)

\* A set of numbers has its least member.
LEMMA MinIs ==
  ASSUME NEW S \in SUBSET Nat, S # {}
  PROVE  Min(S) \in S /\ \A x \in S : Min(S) <= x
<1>1. \E m \in S : \A n \in S : m <= n
  BY FirstOf
<1> QED
  BY <1>1 DEF Min

\* A bounded set of numbers has its greatest.
LEMMA MaxIs ==
  ASSUME NEW k \in Nat, NEW S \in SUBSET (0..k), S # {}
  PROVE  Max(S) \in S /\ \A x \in S : x <= Max(S)
<1>1. \E m \in S : \A n \in S : n <= m
  BY LastOf
<1>2. PICK m \in S : \A n \in S : m >= n
  BY <1>1
<1>3. Max(S) \in S /\ \A x \in S : Max(S) >= x
  BY <1>2 DEF Max
<1> QED
  BY <1>3

\* The end of an interval that does not wrap.
LEMMA EndIs ==
  ASSUME NEW i, i.off \in Nat, i.size \in Nat, i.off + i.size < M
  PROVE  End(i) = i.off + i.size
<1> DEFINE n == i.off + i.size
<1>1. n \in Nat /\ M \in Nat /\ M > 1 /\ n < M
  BY MAssumption
<1> HIDE DEF n
<1>2. n % M = n
  BY <1>1
<1> QED
  BY <1>2 DEF End, n

-----------------------------------------------------------------------------
(* Canonical vectors.                                                        *)

\* The intervals of a canonical vector, one by one.
LEMMA GoodAt ==
  ASSUME NEW b, Good(b), NEW k \in 1..Len(b)
  PROVE  /\ b[k] \in Ivls /\ b[k].off \in 0..(M - 1) /\ b[k].size \in 1..(M - 1)
         /\ End(b[k]) \in 1..(M - 1) /\ End(b[k]) = b[k].off + b[k].size /\ b[k].off < End(b[k])
<1>1. b[k] \in Ivls /\ b[k].off + b[k].size < M
  BY DEF Good
<1>2. M \in Nat /\ b[k].off \in 0..(M - 1) /\ b[k].size \in 1..(M - 1)
  BY <1>1, MAssumption DEF Ivls
<1>3. End(b[k]) = b[k].off + b[k].size
  BY <1>1, <1>2, EndIs
<1> QED
  BY <1>1, <1>2, <1>3

\* Not only neighbours lie apart.
LEMMA Sorted ==
  ASSUME NEW b, Good(b), NEW k \in 1..Len(b), NEW l \in 1..Len(b), k < l
  PROVE  End(b[k]) < b[l].off
<1> DEFINE S == {n \in Nat : k + 1 + n \in 1..Len(b) => End(b[k]) < b[k + 1 + n].off}
<1>1. Len(b) \in Nat /\ k \in Nat /\ l \in Nat
  BY DEF Good
<1>2. 0 \in S
  <2>1. k + 1 + 0 = k + 1
    BY <1>1
  <2>2. k + 1 \in 1..Len(b) => k \in 1..(Len(b) - 1)
    BY <1>1
  <2> QED
    BY <2>1, <2>2 DEF Good
<1>3. ASSUME NEW n \in Nat, n \in S PROVE n + 1 \in S
  <2>1. SUFFICES ASSUME k + 1 + (n + 1) \in 1..Len(b) PROVE End(b[k]) < b[k + 1 + (n + 1)].off
    OBVIOUS
  <2> DEFINE m == k + 1 + n
  <2>2. m \in 1..Len(b) /\ m \in 1..(Len(b) - 1) /\ k + 1 + (n + 1) = m + 1 /\ m + 1 \in 1..Len(b)
    BY <1>1, <2>1
  <2>3. End(b[k]) < b[m].off
    BY <1>3, <2>2
  <2> HIDE DEF m
  <2>4. End(b[m]) < b[m + 1].off
    BY <2>2 DEF Good
  <2>5. b[m].off < End(b[m])
    BY <2>2, GoodAt
  <2>6. /\ End(b[k]) \in Nat /\ b[m].off \in Nat /\ End(b[m]) \in Nat /\ b[m + 1].off \in Nat
    BY <2>2, GoodAt
  <2> DEFINE w == End(b[k])
             x == b[m].off
             y == End(b[m])
             z == b[m + 1].off
  <2> HIDE DEF w, x, y, z
  <2>7. w < z
    BY <2>3, <2>4, <2>5, <2>6 DEF w, x, y, z
  <2> QED
    BY <2>2, <2>7 DEF w, z
<1>4. Nat \subseteq S
  <2> HIDE DEF S
  <2> QED
    BY <1>2, <1>3, SetInduction
<1>5. l - (k + 1) \in Nat /\ k + 1 + (l - (k + 1)) = l
  BY <1>1
<1> QED
  BY <1>4, <1>5

\* What lies in a vector.
In(b, x) == \E k \in 1..Len(b) : b[k].off <= x /\ x < End(b[k])

\* Covers has the numbers that lie in one of the intervals.
LEMMA CoversIs ==
  ASSUME NEW b, Good(b)
  PROVE  /\ Covers(b) \subseteq 0..(M - 2)
         /\ \A x \in Int : x \in Covers(b) <=> In(b, x)
<1>1. \A k \in 1..Len(b) :
        Addresses(b[k]) = {x \in Int : b[k].off <= x /\ x < End(b[k])}
  <2> TAKE k \in 1..Len(b)
  <2>1. b[k].off \in Nat /\ b[k].size \in Nat /\ End(b[k]) = b[k].off + b[k].size
    <3>1. M \in Nat
      BY MAssumption
    <3> QED
      BY <3>1, GoodAt
  <2> DEFINE o == b[k].off
             s == b[k].size
             e == End(b[k])
  <2> HIDE DEF o, s, e
  <2>2. o..(o + s - 1) = {x \in Int : o <= x /\ x < e}
    BY <2>1 DEF o, s, e
  <2> QED
    BY <2>2 DEF Addresses, o, s, e
<1>2. \A k \in 1..Len(b) : Addresses(b[k]) \subseteq 0..(M - 2)
  <2> TAKE k \in 1..Len(b)
  <2>1. b[k].off \in 0..(M - 1) /\ End(b[k]) \in 1..(M - 1) /\ M \in Nat
    BY MAssumption, GoodAt
  <2> DEFINE o == b[k].off
             e == End(b[k])
  <2> HIDE DEF o, e
  <2>2. {x \in Int : o <= x /\ x < e} \subseteq 0..(M - 2)
    BY <2>1 DEF o, e
  <2> QED
    BY <1>1, <2>2 DEF o, e
<1> QED
  BY <1>1, <1>2 DEF Covers, In

\* The numbers next to an interval lie in none.
LEMMA Gaps ==
  ASSUME NEW b, Good(b), NEW k \in 1..Len(b)
  PROVE  ~In(b, End(b[k])) /\ ~In(b, b[k].off - 1)
<1>1. Len(b) \in Nat
  BY DEF Good
<1>2. b[k].off \in Nat /\ End(b[k]) \in Nat /\ b[k].off < End(b[k])
  BY GoodAt
<1>3. ASSUME NEW l \in 1..Len(b)
      PROVE  /\ ~(b[l].off <= End(b[k]) /\ End(b[k]) < End(b[l]))
             /\ ~(b[l].off <= b[k].off - 1 /\ b[k].off - 1 < End(b[l]))
  <2>1. b[l].off \in Nat /\ End(b[l]) \in Nat /\ b[l].off < End(b[l])
    BY GoodAt
  <2>2. l < k => End(b[l]) < b[k].off
    BY Sorted
  <2>3. k < l => End(b[k]) < b[l].off
    BY Sorted
  <2>4. l < k \/ k < l \/ k = l
    BY <1>1
  <2> QED
    BY <1>2, <2>1, <2>2, <2>3, <2>4
<1> QED
  BY <1>3 DEF In

\* The numbers of an interval all lie in one interval of a vector that has them.
LEMMA OneRun ==
  ASSUME NEW b, Good(b), NEW o \in Nat, NEW e \in Nat, o < e,
         \A x \in Int : o <= x /\ x < e => In(b, x)
  PROVE  \E k \in 1..Len(b) : b[k].off <= o /\ e <= End(b[k])
<1>1. PICK k \in 1..Len(b) : b[k].off <= o /\ o < End(b[k])
  BY DEF In
<1>2. End(b[k]) \in Nat
  BY GoodAt
<1>3. ~(End(b[k]) < e)
  <2>1. SUFFICES ASSUME End(b[k]) < e PROVE FALSE
    OBVIOUS
  <2>2. End(b[k]) \in Int /\ o <= End(b[k])
    BY <1>1, <1>2
  <2>3. In(b, End(b[k]))
    BY <2>1, <2>2
  <2> QED
    BY <2>3, Gaps
<1> QED
  BY <1>1, <1>2, <1>3

\* What two vectors for the same set have in common: their intervals.
LEMMA SameRuns ==
  ASSUME NEW b, Good(b), NEW c, Good(c), Covers(b) = Covers(c), NEW k \in 1..Len(b)
  PROVE  \E m \in 1..Len(c) : c[m] = b[k]
<1>1. \A x \in Int : In(b, x) <=> In(c, x)
  BY CoversIs
<1> DEFINE o == b[k].off
           e == End(b[k])
<1>2. o \in Nat /\ e \in Nat /\ o < e /\ e = o + b[k].size /\ b[k] \in Ivls
  BY GoodAt
<1>3. \A x \in Int : o <= x /\ x < e => In(c, x)
  BY <1>1 DEF In
<1> HIDE DEF o, e
<1>4. PICK m \in 1..Len(c) : c[m].off <= o /\ e <= End(c[m])
  BY <1>2, <1>3, OneRun
<1>5. /\ c[m].off \in Nat /\ End(c[m]) \in Nat /\ c[m].off < End(c[m]) /\ c[m] \in Ivls
      /\ End(c[m]) = c[m].off + c[m].size
  BY GoodAt
<1>6. ~In(b, o - 1) /\ ~In(b, e)
  BY Gaps DEF o, e
<1>7. c[m].off = o
  <2>1. SUFFICES ASSUME c[m].off <= o - 1 PROVE FALSE
    BY <1>2, <1>4, <1>5
  <2>2. o - 1 \in Int /\ o - 1 < End(c[m])
    BY <1>2, <1>4, <1>5
  <2>3. In(c, o - 1)
    BY <2>1, <2>2 DEF In
  <2> QED
    BY <1>1, <1>6, <2>2, <2>3
<1>8. End(c[m]) = e
  <2>1. SUFFICES ASSUME e < End(c[m]) PROVE FALSE
    BY <1>2, <1>4, <1>5
  <2>2. e \in Int /\ c[m].off <= e
    BY <1>2, <1>4, <1>5
  <2>3. In(c, e)
    BY <2>1, <2>2 DEF In
  <2> QED
    BY <1>1, <1>6, <2>2, <2>3
<1>9. c[m].off = b[k].off /\ c[m].size = b[k].size
  <2>1. c[m].size \in Nat /\ b[k].size \in Nat
    <3>1. c[m].size \in 1..(M - 1) /\ b[k].size \in 1..(M - 1)
      BY <1>2, <1>5 DEF Ivls
    <3>2. M \in Nat
      BY MAssumption
    <3> QED
      BY <3>1, <3>2
  <2>2. o + c[m].size = o + b[k].size
    BY <1>2, <1>5, <1>7, <1>8
  <2> QED
    BY <1>2, <1>7, <2>1, <2>2 DEF o
<1>10. c[m] = b[k]
  <2>1. \A x \in Ivls : x = [off |-> x.off, size |-> x.size]
    BY DEF Ivls
  <2>2. /\ c[m] = [off |-> c[m].off, size |-> c[m].size]
        /\ b[k] = [off |-> b[k].off, size |-> b[k].size]
    BY <1>2, <1>5, <2>1, Zenon
  <2> QED
    BY <1>9, <2>2, Zenon
<1> QED
  BY <1>10

\* A set has one canonical vector: the n-th intervals of two are the same.
LEMMA SameAt ==
  ASSUME NEW b, Good(b), NEW c, Good(c), Covers(b) = Covers(c)
  PROVE  \A n \in 1..Len(b) : n \in 1..Len(c) /\ c[n] = b[n]
<1> DEFINE Same(n) == (n \in 1..Len(b) => n \in 1..Len(c) /\ c[n] = b[n])
           S == {n \in Nat : \A l \in 1..n : Same(l)}
<1>1. Len(b) \in Nat /\ Len(c) \in Nat
  BY DEF Good
<1>2. 0 \in S
  OBVIOUS
<1>3. ASSUME NEW n \in Nat, n \in S PROVE n + 1 \in S
  <2> DEFINE k == n + 1
  <2>1. SUFFICES ASSUME k \in 1..Len(b) PROVE k \in 1..Len(c) /\ c[k] = b[k]
    <3>1. \A l \in 1..k : l \in 1..n \/ l = k
      OBVIOUS
    <3> QED
      BY <1>3, <3>1
  <2>2. \A l \in 1..Len(b) : l < k => l \in 1..Len(c) /\ c[l] = b[l]
    BY <1>1, <1>3
  <2>3. k \in Nat
    OBVIOUS
  <2> HIDE DEF k, S, Same
  <2>4. PICK m \in 1..Len(c) : c[m] = b[k]
    BY <2>1, SameRuns
  <2>5. \A l \in 1..Len(b) : l < k => b[l] # b[k]
    <3> TAKE l \in 1..Len(b)
    <3>1. SUFFICES ASSUME l < k, b[l] = b[k] PROVE FALSE
      OBVIOUS
    <3>2. End(b[l]) < b[k].off /\ b[k].off < End(b[k]) /\ b[k].off \in Nat /\ End(b[k]) \in Nat
      BY <2>1, <3>1, Sorted, GoodAt
    <3> QED
      BY <3>1, <3>2
  <2>6. ~(m < k)
    <3>1. SUFFICES ASSUME m < k PROVE FALSE
      OBVIOUS
    <3>2. m \in 1..Len(b)
      BY <1>1, <2>1, <2>3, <3>1
    <3> QED
      BY <2>2, <2>4, <2>5, <3>1, <3>2
  <2>7. ~(k < m)
    <3>1. SUFFICES ASSUME k < m PROVE FALSE
      OBVIOUS
    <3>2. k \in 1..Len(c)
      BY <1>1, <2>1, <2>3, <3>1
    <3>3. PICK l \in 1..Len(b) : b[l] = c[k]
      BY <3>2, SameRuns
    <3>4. /\ End(c[k]) < c[m].off /\ c[k].off < End(c[k])
          /\ c[k].off \in Nat /\ c[m].off \in Nat /\ End(c[k]) \in Nat
      BY <3>1, <3>2, Sorted, GoodAt
    <3>5. b[l].off < b[k].off
      BY <2>4, <3>3, <3>4
    <3>6. l < k
      <4>1. SUFFICES ASSUME k < l \/ k = l PROVE FALSE
        BY <1>1, <2>3
      <4>2. CASE k = l
        BY <3>4, <3>5, <4>2, GoodAt
      <4>3. CASE k < l
        <5>1. End(b[k]) < b[l].off /\ b[k].off < End(b[k])
          BY <2>1, <4>3, Sorted, GoodAt
        <5>2. b[k].off \in Nat /\ b[l].off \in Nat /\ End(b[k]) \in Nat
          BY <2>1, GoodAt
        <5> QED
          BY <3>5, <5>1, <5>2
      <4> QED
        BY <4>1, <4>2, <4>3
    <3>7. l \in 1..Len(c) /\ c[l] = c[k]
      BY <2>2, <3>3, <3>6
    <3>8. End(c[l]) < c[k].off
      BY <3>2, <3>6, <3>7, Sorted
    <3>9. End(c[k]) < c[k].off
      BY <3>7, <3>8
    <3> QED
      BY <3>4, <3>9
  <2>8. m = k
    BY <1>1, <2>3, <2>6, <2>7
  <2> QED
    BY <2>4, <2>8
<1>4. Nat \subseteq S
  <2> HIDE DEF S
  <2> QED
    BY <1>2, <1>3, SetInduction
<1>5. Len(b) \in S
  BY <1>1, <1>4
<1> QED
  BY <1>1, <1>5

\* So the vectors are the same.
LEMMA SameVector ==
  ASSUME NEW b, Good(b), NEW c, Good(c), Covers(b) = Covers(c)
  PROVE  b = c
<1>1. \A n \in 1..Len(b) : n \in 1..Len(c) /\ c[n] = b[n]
  BY SameAt
<1>2. \A n \in 1..Len(c) : n \in 1..Len(b) /\ b[n] = c[n]
  BY SameAt
<1>3. b \in Seq(Ivls) /\ c \in Seq(Ivls) /\ Len(b) \in Nat /\ Len(c) \in Nat
  BY DEF Good
<1>4. Len(b) = Len(c)
  <2>1. ~(Len(b) < Len(c))
    <3>1. SUFFICES ASSUME Len(b) < Len(c) PROVE FALSE
      OBVIOUS
    <3>2. Len(c) \in 1..Len(c)
      BY <1>3, <3>1
    <3>3. Len(c) \in 1..Len(b)
      BY <1>2, <3>2
    <3> QED
      BY <1>3, <3>1, <3>3
  <2>2. ~(Len(c) < Len(b))
    <3>1. SUFFICES ASSUME Len(c) < Len(b) PROVE FALSE
      OBVIOUS
    <3>2. Len(b) \in 1..Len(b)
      BY <1>3, <3>1
    <3>3. Len(b) \in 1..Len(c)
      BY <1>1, <3>2
    <3> QED
      BY <1>3, <3>1, <3>3
  <2> QED
    BY <1>3, <2>1, <2>2
<1> QED
  BY <1>1, <1>3, <1>4

-----------------------------------------------------------------------------
(* A vector with some intervals in a row replaced by one.                    *)

\* Interval x in place of those from k to j.
Splice(b, k, j, x) == SubSeq(b, 1, k - 1) \o <<x>> \o SubSeq(b, j + 1, Len(b))

\* The intervals of the result.
LEMMA SpliceIs ==
  ASSUME NEW b \in Seq(Ivls), NEW k \in 1..(Len(b) + 1), NEW j \in (k - 1)..Len(b), NEW x \in Ivls
  PROVE  LET c == Splice(b, k, j, x)
         IN  /\ c \in Seq(Ivls) /\ Len(c) = k + (Len(b) - j)
             /\ \A m \in 1..(k - 1) : c[m] = b[m]
             /\ c[k] = x
             /\ \A m \in (k + 1)..(k + (Len(b) - j)) : c[m] = b[(m - k) + j]
<1> DEFINE s == SubSeq(b, 1, k - 1)
           u == SubSeq(b, j + 1, Len(b))
           e == <<x>>
           L == Len(b)
<1>1. L \in Nat /\ k \in 1..(L + 1) /\ j \in (k - 1)..L /\ j \in Nat
  OBVIOUS
<1> HIDE DEF L
<1>2. s \in Seq(Ivls) /\ Len(s) = k - 1 /\ \A m \in 1..(k - 1) : s[m] = b[m]
  <2>1. 1 \in 1..(L + 1) /\ k - 1 \in 0..L /\ 1 <= (k - 1) + 1 /\ ((k - 1) - 1) + 1 = k - 1
    BY <1>1
  <2>2. \A m \in 1..(k - 1) : (1 + m) - 1 = m
    BY <1>1
  <2>3. /\ SubSeq(b, 1, k - 1) \in Seq(Ivls) /\ Len(SubSeq(b, 1, k - 1)) = ((k - 1) - 1) + 1
        /\ \A m \in 1..(((k - 1) - 1) + 1) : SubSeq(b, 1, k - 1)[m] = b[(1 + m) - 1]
    BY <2>1, PartIs DEF L
  <2> QED
    BY <2>1, <2>2, <2>3
<1>3. u \in Seq(Ivls) /\ Len(u) = L - j /\ \A m \in 1..(L - j) : u[m] = b[m + j]
  <2>1. j + 1 \in 1..(L + 1) /\ L \in 0..L /\ j + 1 <= L + 1 /\ (L - (j + 1)) + 1 = L - j
    BY <1>1
  <2>2. \A m \in 1..(L - j) : ((j + 1) + m) - 1 = m + j
    BY <1>1
  <2>3. /\ SubSeq(b, j + 1, L) \in Seq(Ivls) /\ Len(SubSeq(b, j + 1, L)) = (L - (j + 1)) + 1
        /\ \A m \in 1..((L - (j + 1)) + 1) : SubSeq(b, j + 1, L)[m] = b[((j + 1) + m) - 1]
    BY <2>1, PartIs DEF L
  <2> QED
    BY <2>1, <2>2, <2>3 DEF L
<1>4. e \in Seq(Ivls) /\ Len(e) = 1 /\ e[1] = x
  OBVIOUS
<1> HIDE DEF s, u, e
<1> DEFINE v == s \o e
<1>5. /\ v \in Seq(Ivls) /\ Len(v) = k /\ v[k] = x
      /\ \A m \in 1..(k - 1) : v[m] = b[m]
  <2>1. /\ v \in Seq(Ivls) /\ Len(v) = Len(s) + Len(e)
        /\ \A m \in 1..(Len(s) + Len(e)) : v[m] = IF m <= Len(s) THEN s[m] ELSE e[m - Len(s)]
    BY <1>2, <1>4, JoinedIs
  <2>2. Len(s) + Len(e) = k /\ Len(s) = k - 1 /\ k \in 1..k /\ ~(k <= k - 1) /\ k - (k - 1) = 1
    BY <1>1, <1>2, <1>4
  <2>3. v[k] = x
    BY <1>4, <2>1, <2>2
  <2>4. \A m \in 1..(k - 1) : m \in 1..k /\ m <= k - 1
    BY <1>1
  <2> QED
    BY <1>2, <2>1, <2>2, <2>3, <2>4
<1> HIDE DEF v
<1> DEFINE c == v \o u
<1>6. /\ c \in Seq(Ivls) /\ Len(c) = k + (L - j)
      /\ \A m \in 1..(k + (L - j)) : c[m] = IF m <= k THEN v[m] ELSE u[m - k]
  <2>1. /\ c \in Seq(Ivls) /\ Len(c) = Len(v) + Len(u)
        /\ \A m \in 1..(Len(v) + Len(u)) : c[m] = IF m <= Len(v) THEN v[m] ELSE u[m - Len(v)]
    BY <1>3, <1>5, JoinedIs
  <2> QED
    BY <1>3, <1>5, <2>1
<1>7. c = Splice(b, k, j, x)
  BY DEF Splice, v, s, e, u, L
<1> HIDE DEF c
<1>8. \A m \in 1..(k - 1) : c[m] = b[m]
  <2>1. \A m \in 1..(k - 1) : m \in 1..(k + (L - j)) /\ m <= k
    BY <1>1
  <2> QED
    BY <1>5, <1>6, <2>1
<1>9. c[k] = x
  <2>1. k \in 1..(k + (L - j)) /\ k <= k
    BY <1>1
  <2> QED
    BY <1>5, <1>6, <2>1
<1>10. \A m \in (k + 1)..(k + (L - j)) : c[m] = b[(m - k) + j]
  <2>1. \A m \in (k + 1)..(k + (L - j)) :
          m \in 1..(k + (L - j)) /\ ~(m <= k) /\ m - k \in 1..(L - j)
    BY <1>1
  <2> QED
    BY <1>3, <1>6, <2>1
<1> QED
  BY <1>6, <1>7, <1>8, <1>9, <1>10 DEF L

\* An interval that leaves a gap to what stays on both sides keeps the vector
\* canonical; what lies in the result lies in it or in what stays.
LEMMA SpliceGood ==
  ASSUME NEW b, Good(b), NEW k \in 1..(Len(b) + 1), NEW j \in (k - 1)..Len(b), NEW x \in Ivls,
         x.off + x.size < M,
         \A m \in 1..(k - 1) : End(b[m]) < x.off,
         \A m \in (j + 1)..Len(b) : End(x) < b[m].off
  PROVE  LET c == Splice(b, k, j, x)
         IN  /\ Good(c)
             /\ \A y \in Int : In(c, y) <=>
                  \/ x.off <= y /\ y < End(x)
                  \/ \E m \in 1..Len(b) : (m < k \/ j < m) /\ b[m].off <= y /\ y < End(b[m])
<1> DEFINE c == Splice(b, k, j, x)
           L == Len(b)
           n == k + (L - j)
<1>1. b \in Seq(Ivls) /\ L \in Nat /\ k \in 1..(L + 1) /\ j \in (k - 1)..L /\ j \in Nat /\ n \in Nat
  <2>1. b \in Seq(Ivls) /\ L \in Nat
    BY DEF Good
  <2> QED
    BY <2>1
<1>2. /\ c \in Seq(Ivls) /\ Len(c) = n
      /\ \A m \in 1..(k - 1) : c[m] = b[m]
      /\ c[k] = x
      /\ \A m \in (k + 1)..n : c[m] = b[(m - k) + j]
  BY <1>1, SpliceIs
<1> HIDE DEF c, L
<1>3. ASSUME NEW m \in 1..n PROVE m \in 1..(k - 1) \/ m = k \/ m \in (k + 1)..n
  BY <1>1
<1>4. \A m \in (k + 1)..n : (m - k) + j \in 1..L /\ (m - k) + j \in (j + 1)..L
  BY <1>1
<1>5. \A m \in 1..n : c[m].off + c[m].size < M
  <2> TAKE m \in 1..n
  <2>1. CASE m \in 1..(k - 1)
    <3>1. m \in 1..L
      BY <1>1, <2>1
    <3> QED
      BY <1>2, <2>1, <3>1 DEF Good, L
  <2>2. CASE m = k
    BY <1>2, <2>2
  <2>3. CASE m \in (k + 1)..n
    BY <1>2, <1>4, <2>3 DEF Good, L
  <2> QED
    BY <1>3, <2>1, <2>2, <2>3
<1>6. \A m \in 1..(n - 1) : End(c[m]) < c[m + 1].off
  <2> TAKE m \in 1..(n - 1)
  <2>1. CASE m \in 1..(k - 1) /\ m + 1 # k
    <3>1. m + 1 \in 1..(k - 1) /\ m \in 1..L /\ m \in 1..(L - 1)
      BY <1>1, <2>1
    <3> QED
      BY <1>2, <2>1, <3>1 DEF Good, L
  <2>2. CASE m \in 1..(k - 1) /\ m + 1 = k
    BY <1>2, <2>2
  <2>3. CASE m = k
    <3>1. /\ m + 1 \in (k + 1)..n /\ ((m + 1) - k) + j = j + 1 /\ j + 1 \in (j + 1)..L
      BY <1>1, <2>3
    <3> QED
      BY <1>2, <2>3, <3>1 DEF L
  <2>4. CASE m \in (k + 1)..n
    <3>1. /\ m + 1 \in (k + 1)..n /\ ((m + 1) - k) + j = ((m - k) + j) + 1
          /\ (m - k) + j \in 1..(L - 1)
      BY <1>1, <2>4
    <3> QED
      BY <1>2, <2>4, <3>1 DEF Good, L
  <2>5. m \in 1..n
    BY <1>1
  <2> QED
    BY <1>3, <2>1, <2>2, <2>3, <2>4, <2>5
<1>7. Good(c)
  BY <1>2, <1>5, <1>6 DEF Good
<1>8. ASSUME NEW y \in Int
      PROVE  In(c, y) <=>
               \/ x.off <= y /\ y < End(x)
               \/ \E m \in 1..L : (m < k \/ j < m) /\ b[m].off <= y /\ y < End(b[m])
  <2>1. ASSUME NEW m \in 1..n, c[m].off <= y, y < End(c[m]), m # k
        PROVE  \E l \in 1..L : (l < k \/ j < l) /\ b[l].off <= y /\ y < End(b[l])
    <3>1. CASE m \in 1..(k - 1)
      <4>1. m \in 1..L /\ m < k
        BY <1>1, <3>1
      <4> QED
        BY <1>2, <2>1, <3>1, <4>1
    <3>2. CASE m \in (k + 1)..n
      <4>1. (m - k) + j \in 1..L /\ j < (m - k) + j
        BY <1>1, <3>2
      <4> QED
        BY <1>2, <2>1, <3>2, <4>1
    <3> QED
      BY <1>3, <2>1, <3>1, <3>2
  <2>2. ASSUME NEW l \in 1..L, l < k \/ j < l, b[l].off <= y, y < End(b[l])
        PROVE  In(c, y)
    <3>1. CASE l < k
      <4>1. l \in 1..(k - 1) /\ l \in 1..n
        BY <1>1, <3>1
      <4> QED
        BY <1>2, <2>2, <4>1 DEF In
    <3>2. CASE j < l
      <4>1. ((l - j) + k) \in (k + 1)..n /\ (((l - j) + k) - k) + j = l /\ ((l - j) + k) \in 1..n
        BY <1>1, <3>2
      <4> QED
        BY <1>2, <2>2, <4>1 DEF In
    <3> QED
      BY <2>2, <3>1, <3>2
  <2>3. k \in 1..n
    BY <1>1
  <2>4. ASSUME x.off <= y, y < End(x) PROVE In(c, y)
    BY <1>2, <2>3, <2>4 DEF In
  <2>5. ASSUME In(c, y)
        PROVE  \/ x.off <= y /\ y < End(x)
               \/ \E l \in 1..L : (l < k \/ j < l) /\ b[l].off <= y /\ y < End(b[l])
    BY <1>2, <2>1, <2>5 DEF In
  <2> QED
    BY <2>2, <2>4, <2>5
<1> QED
  BY <1>7, <1>8 DEF c, L

-----------------------------------------------------------------------------
(* One add.                                                                  *)

\* Intervals a call may give.
Givens == [off : 0..(M - 1), size : 0..(M - 1)]

\* The addresses an add is about.
Given(i) == IF i.off + i.size < M THEN Addresses(i) ELSE {}

\* Past the last address.
LEMMA Wraps ==
  ASSUME NEW n \in Nat, M <= n, n < M + M
  PROVE  n % M = n - M
<1>1. M \in Nat /\ M > 1
  BY MAssumption
<1>2. (n - M) \in Nat /\ n - M < M /\ n = 1 * M + (n - M)
  BY <1>1
<1>3. n \div M = 1
  BY <1>1, <1>2
<1> QED
  BY <1>1, <1>3

\* What is ignored has no addresses; what is not has its end at an address.
LEMMA IgnoredIs ==
  ASSUME NEW i \in Givens
  PROVE  /\ Ignored(i) => Given(i) = {}
         /\ ~Ignored(i) => /\ i \in Ivls /\ i.off + i.size < M
                           /\ Given(i) = {y \in Int : i.off <= y /\ y < End(i)}
<1> DEFINE o == i.off
           s == i.size
<1>1. M \in Nat /\ M > 1 /\ o \in 0..(M - 1) /\ s \in 0..(M - 1)
  BY MAssumption DEF Givens
<1>2. o + s < M => End(i) = o + s
  <2>1. o \in Nat /\ s \in Nat
    BY <1>1
  <2> QED
    BY <2>1, EndIs
<1>3. ~(o + s < M) => End(i) = (o + s) - M
  <2> DEFINE n == o + s
  <2> SUFFICES ASSUME ~(n < M) PROVE End(i) = n - M
    OBVIOUS
  <2>1. n \in Nat /\ M <= n /\ n < M + M
    BY <1>1
  <2> HIDE DEF n
  <2>2. n % M = n - M
    BY <2>1, Wraps
  <2> QED
    BY <2>2 DEF End, n
<1>4. i = AllMem => o = 0 /\ s = M - 1
  BY DEF AllMem, Ivl
<1>5. ASSUME Ignored(i), o + s < M PROVE Addresses(i) = {}
  <2>1. s = 0 \/ End(i) < o
    BY <1>5 DEF Ignored
  <2>2. s = 0
    BY <1>1, <1>2, <1>5, <2>1
  <2>3. o..(o + s - 1) = {}
    BY <1>1, <2>2
  <2> QED
    BY <2>3 DEF Addresses
<1>6. ASSUME ~Ignored(i) PROVE s # 0 /\ o + s < M
  <2>1. s # 0 /\ (i = AllMem \/ ~(End(i) < o))
    BY <1>6 DEF Ignored
  <2> HIDE DEF o, s
  <2>2. CASE i = AllMem
    BY <1>1, <1>4, <2>1, <2>2
  <2>3. CASE ~(End(i) < o)
    BY <1>1, <1>3, <2>1, <2>3
  <2> QED
    BY <2>1, <2>2, <2>3
<1>7. ASSUME s # 0, o + s < M
      PROVE  i \in Ivls /\ Addresses(i) = {y \in Int : o <= y /\ y < End(i)}
  <2>1. i \in Ivls
    <3>1. s \in 1..(M - 1)
      BY <1>1, <1>7
    <3> QED
      BY <3>1 DEF Givens, Ivls
  <2>2. End(i) = o + s
    BY <1>2, <1>7
  <2> DEFINE e == End(i)
  <2> HIDE DEF o, s, e
  <2>3. o..(o + s - 1) = {y \in Int : o <= y /\ y < e}
    BY <1>1, <2>2 DEF e
  <2> QED
    BY <2>1, <2>3 DEF Addresses, o, s, e
<1> QED
  BY <1>5, <1>6, <1>7 DEF Given

\* Intervals that end before the one to add come first.
LEMMA FirstIs ==
  ASSUME NEW b, Good(b), NEW i, i.off \in Nat
  PROVE  LET k == FirstReaching(b, i)
         IN  /\ k \in 1..(Len(b) + 1)
             /\ \A m \in 1..(k - 1) : m \in 1..Len(b) /\ End(b[m]) < i.off
             /\ k <= Len(b) => k \in 1..Len(b) /\ i.off <= End(b[k])
<1> DEFINE R == {k \in 1..Len(b) : End(b[k]) >= i.off}
           f == FirstReaching(b, i)
           L == Len(b)
<1>1. L \in Nat /\ \A m \in 1..L : End(b[m]) \in Nat
  <2>1. \A m \in 1..L : End(b[m]) \in Nat
    BY GoodAt
  <2>2. L \in Nat
    BY DEF Good
  <2> QED
    BY <2>1, <2>2
<1>2. f = IF R = {} THEN L + 1 ELSE Min(R)
  BY DEF FirstReaching
<1>3. R \in SUBSET Nat
  BY <1>1
<1> HIDE DEF f
<1>4. CASE R = {}
  <2>1. f = L + 1
    BY <1>2, <1>4
  <2>2. \A m \in 1..L : ~(End(b[m]) >= i.off)
    BY <1>4
  <2>3. \A m \in 1..L : End(b[m]) < i.off
    BY <1>1, <2>2
  <2> QED
    BY <1>1, <2>1, <2>3 DEF f
<1>5. CASE R # {}
  <2>1. f \in R /\ \A m \in R : f <= m
    <3>1. f = Min(R)
      BY <1>2, <1>5
    <3> HIDE DEF R
    <3> QED
      BY <1>3, <1>5, <3>1, MinIs
  <2>2. f \in 1..L /\ End(b[f]) >= i.off
    BY <2>1
  <2>3. ASSUME NEW m \in 1..(f - 1) PROVE m \in 1..L /\ End(b[m]) < i.off
    <3>1. m \in 1..L /\ ~(f <= m)
      BY <1>1, <2>2
    <3>2. ~(End(b[m]) >= i.off)
      BY <2>1, <3>1
    <3> QED
      BY <1>1, <3>1, <3>2
  <2> QED
    BY <1>1, <2>2, <2>3 DEF f
<1> QED
  BY <1>4, <1>5

\* Later intervals end later.
LEMMA EndsGrow ==
  ASSUME NEW b, Good(b), NEW n \in 1..Len(b), NEW j \in 1..Len(b), n <= j
  PROVE  End(b[n]) <= End(b[j])
<1>1. /\ End(b[n]) \in Nat /\ End(b[j]) \in Nat /\ b[j].off \in Nat /\ b[j].off < End(b[j])
  BY GoodAt
<1>2. CASE n = j
  BY <1>1, <1>2
<1>3. CASE n < j
  <2>1. End(b[n]) < b[j].off
    BY <1>3, Sorted
  <2> QED
    BY <1>1, <2>1
<1> QED
  BY <1>2, <1>3

\* A widened interval reaches as far as the last one swallowed, or the new one.
LEMMA ReachIs ==
  ASSUME NEW b, Good(b), NEW i, End(i) \in 1..(M - 1), NEW k \in 1..Len(b), NEW j \in k..Len(b)
  PROVE  LET r == Reach(b, i, k, j)
         IN  /\ r \in 1..(M - 1) /\ End(i) <= r
             /\ \A n \in k..j : n \in 1..Len(b) /\ End(b[n]) <= r
             /\ r = End(i) \/ r = End(b[j])
<1> DEFINE r == Reach(b, i, k, j)
           S == {End(i)} \cup {End(b[n]) : n \in k..j}
<1>1. Len(b) \in Nat /\ M \in Nat
  BY MAssumption DEF Good
<1>2. \A n \in k..j : n \in 1..Len(b)
  BY <1>1
<1>3. \A n \in k..j : End(b[n]) \in 1..(M - 1)
  BY <1>2, GoodAt
<1>4. S \in SUBSET (0..(M - 1)) /\ S # {}
  BY <1>1, <1>3
<1>5. r \in S /\ \A x \in S : x <= r
  <2>1. r = Max(S)
    BY DEF Reach
  <2>2. M - 1 \in Nat
    BY MAssumption
  <2> HIDE DEF S, r
  <2> QED
    BY <1>4, <2>1, <2>2, MaxIs
<1> HIDE DEF r
<1>6. End(i) <= r /\ \A n \in k..j : End(b[n]) <= r
  BY <1>5
<1>7. r \in 1..(M - 1)
  BY <1>3, <1>5
<1>8. r = End(i) \/ r = End(b[j])
  <2>1. SUFFICES ASSUME NEW n \in k..j, r = End(b[n]) PROVE r = End(b[j])
    BY <1>5
  <2>2. n <= j /\ n \in 1..Len(b) /\ j \in 1..Len(b) /\ j \in k..j
    BY <1>1
  <2>3. End(b[n]) <= End(b[j]) /\ End(b[j]) <= r
    BY <1>6, <2>2, EndsGrow
  <2>4. End(b[j]) \in 1..(M - 1)
    BY <1>3, <2>2
  <2> QED
    BY <1>1, <1>7, <2>1, <2>3, <2>4
<1> QED
  BY <1>2, <1>6, <1>7, <1>8 DEF r

\* The last interval swallowed leaves a gap; each one before it did not.
LEMMA SwallowedIs ==
  ASSUME NEW b, Good(b), NEW i, NEW k \in 1..Len(b)
  PROVE  LET j == Swallowed(b, i, k)
         IN  /\ j \in k..Len(b)
             /\ j = Len(b) \/ Reach(b, i, k, j) < b[j + 1].off
             /\ \A n \in k..(j - 1) : ~(Reach(b, i, k, n) < b[n + 1].off)
<1> DEFINE j == Swallowed(b, i, k)
           S == {n \in k..Len(b) : n = Len(b) \/ Reach(b, i, k, n) < b[n + 1].off}
<1>1. Len(b) \in Nat
  BY DEF Good
<1>2. S \in SUBSET Nat /\ S # {}
  <2>1. Len(b) \in k..Len(b)
    BY <1>1
  <2>2. Len(b) \in S
    BY <2>1
  <2> QED
    BY <1>1, <2>2
<1>3. j \in S /\ \A n \in S : j <= n
  <2>1. j = Min(S)
    BY DEF Swallowed
  <2> HIDE DEF S, j
  <2> QED
    BY <1>2, <2>1, MinIs
<1> HIDE DEF j
<1>4. j \in k..Len(b) /\ (j = Len(b) \/ Reach(b, i, k, j) < b[j + 1].off)
  BY <1>3
<1>5. \A n \in k..(j - 1) : ~(Reach(b, i, k, n) < b[n + 1].off)
  <2> TAKE n \in k..(j - 1)
  <2>1. n \in k..Len(b) /\ ~(j <= n)
    BY <1>1, <1>4
  <2> QED
    BY <1>3, <2>1
<1> QED
  BY <1>4, <1>5 DEF j

\* What add does: the vector stays canonical, has what it had and the new
\* addresses, and the answer says whether one of these was missing.
AddedRight(b, i) ==
  /\ Good(Added(b, i))
  /\ \A y \in Int : In(Added(b, i), y) <=> In(b, y) \/ y \in Given(i)
  /\ Grew(b, i) <=> \E y \in Int : y \in Given(i) /\ ~In(b, y)

\* An interval to itself is put in.
LEMMA ApartAdded ==
  ASSUME NEW b, Good(b), NEW i \in Givens, ~Ignored(i), i # AllMem,
         Apart(b, i, FirstReaching(b, i))
  PROVE  AddedRight(b, i)
<1> DEFINE k == FirstReaching(b, i)
           c == Splice(b, k, k - 1, i)
<1>1. Len(b) \in Nat /\ M \in Nat
  BY MAssumption DEF Good
<1>2. /\ i \in Ivls /\ i.off + i.size < M
      /\ Given(i) = {y \in Int : i.off <= y /\ y < End(i)}
  BY IgnoredIs
<1>3. i.off \in Nat /\ i.size \in Nat \ {0} /\ End(i) = i.off + i.size /\ End(i) \in Nat
  <2>1. i.off \in Nat /\ i.size \in Nat \ {0}
    BY <1>1, <1>2 DEF Ivls
  <2>2. End(i) = i.off + i.size
    BY <1>2, <2>1, EndIs
  <2> QED
    BY <2>1, <2>2
<1>4. /\ k \in 1..(Len(b) + 1)
      /\ \A m \in 1..(k - 1) : m \in 1..Len(b) /\ End(b[m]) < i.off
  BY <1>3, FirstIs
<1>5. k > Len(b) \/ b[k].off > End(i)
  BY DEF Apart
<1>6. Added(b, i) = c /\ Grew(b, i)
  <2>1. Added(b, i) = SubSeq(b, 1, k - 1) \o <<i>> \o SubSeq(b, k, Len(b))
    BY DEF Added
  <2>2. (k - 1) + 1 = k
    BY <1>4
  <2> QED
    BY <2>1, <2>2 DEF Splice, Grew
<1> HIDE DEF k
<1>7. \A m \in k..Len(b) : m \in 1..Len(b) /\ End(i) < b[m].off
  <2> TAKE m \in k..Len(b)
  <2>1. m \in 1..Len(b) /\ k \in 1..Len(b) /\ (k = m \/ k < m) /\ ~(k > Len(b))
    BY <1>1, <1>4
  <2>2. b[k].off > End(i) /\ b[k].off \in Nat /\ b[m].off \in Nat /\ End(b[k]) \in Nat
    BY <1>5, <2>1, GoodAt
  <2>3. k < m => b[k].off < End(b[k]) /\ End(b[k]) < b[m].off
    BY <2>1, Sorted, GoodAt
  <2> QED
    BY <1>3, <2>1, <2>2, <2>3
<1>8. /\ Good(c)
      /\ \A y \in Int : In(c, y) <=>
           \/ i.off <= y /\ y < End(i)
           \/ \E m \in 1..Len(b) : (m < k \/ k - 1 < m) /\ b[m].off <= y /\ y < End(b[m])
  <2>1. k - 1 \in (k - 1)..Len(b) /\ \A m \in ((k - 1) + 1)..Len(b) : m \in k..Len(b)
    BY <1>1, <1>4
  <2> QED
    BY <1>2, <1>4, <1>7, <2>1, SpliceGood
<1> HIDE DEF c
<1>9. \A m \in 1..Len(b) : m < k \/ k - 1 < m
  BY <1>4
<1>10. \A y \in Int : In(c, y) <=> In(b, y) \/ y \in Given(i)
  BY <1>2, <1>8, <1>9 DEF In
<1>11. i.off \in Given(i) /\ ~In(b, i.off)
  <2>1. i.off \in Given(i)
    BY <1>2, <1>3
  <2>2. ASSUME NEW m \in 1..Len(b), b[m].off <= i.off, i.off < End(b[m]) PROVE FALSE
    <3>1. b[m].off \in Nat /\ End(b[m]) \in Nat
      BY GoodAt
    <3>2. CASE m < k
      <4>1. m \in 1..(k - 1)
        BY <1>4, <3>2
      <4> QED
        BY <1>3, <1>4, <2>2, <3>1, <4>1
    <3>3. CASE ~(m < k)
      <4>1. m \in k..Len(b)
        BY <1>4, <3>3
      <4> QED
        BY <1>3, <1>7, <2>2, <3>1, <4>1
    <3> QED
      BY <3>2, <3>3
  <2> QED
    BY <2>1, <2>2 DEF In
<1>12. i.off \in Int
  BY <1>3
<1> QED
  BY <1>6, <1>8, <1>10, <1>11, <1>12 DEF AddedRight

\* An interval within another changes nothing.
LEMMA WithinAdded ==
  ASSUME NEW b, Good(b), NEW i \in Givens, ~Ignored(i), i # AllMem,
         ~Apart(b, i, FirstReaching(b, i)),
         b[FirstReaching(b, i)].off <= i.off, End(b[FirstReaching(b, i)]) >= End(i)
  PROVE  AddedRight(b, i)
<1> DEFINE k == FirstReaching(b, i)
<1>1. /\ i \in Ivls /\ Given(i) = {y \in Int : i.off <= y /\ y < End(i)}
      /\ i.off \in Nat /\ End(i) \in Nat
  <2>1. i \in Ivls /\ i.off + i.size < M /\ Given(i) = {y \in Int : i.off <= y /\ y < End(i)}
    BY IgnoredIs
  <2>2. i.off \in Nat /\ i.size \in Nat
    BY <2>1, MAssumption DEF Ivls
  <2> QED
    BY <2>1, <2>2, EndIs
<1>2. k \in 1..Len(b)
  <2>1. k \in 1..(Len(b) + 1) /\ ~(k > Len(b)) /\ Len(b) \in Nat
    BY <1>1, FirstIs DEF Apart, Good
  <2> QED
    BY <2>1
<1>3. Added(b, i) = b
  BY DEF Added
<1>4. b[k].off \in Nat /\ End(b[k]) \in Nat
  BY <1>2, GoodAt
<1>5. ~Grew(b, i)
  <2>1. ~(b[k].off > i.off) /\ ~(End(b[k]) < End(i))
    BY <1>1, <1>4
  <2> QED
    BY <2>1 DEF Grew
<1>6. \A y \in Int : y \in Given(i) => In(b, y)
  <2> TAKE y \in Int
  <2>1. y \in Given(i) => b[k].off <= y /\ y < End(b[k])
    BY <1>1, <1>4
  <2> HIDE DEF k
  <2> QED
    BY <1>2, <2>1 DEF In
<1> QED
  BY <1>3, <1>5, <1>6 DEF AddedRight

\* An interval that touches others becomes one with them.
LEMMA Absorbed ==
  ASSUME NEW b, Good(b), NEW i \in Givens, ~Ignored(i), i # AllMem,
         ~Apart(b, i, FirstReaching(b, i)),
         ~(b[FirstReaching(b, i)].off <= i.off /\ End(b[FirstReaching(b, i)]) >= End(i))
  PROVE  AddedRight(b, i)
<1> DEFINE k == FirstReaching(b, i)
           j == Swallowed(b, i, k)
           o == Min({b[k].off, i.off})
           r == Reach(b, i, k, j)
           x == Ivl(o, r - o)
           c == Splice(b, k, j, x)
<1>1. Len(b) \in Nat /\ M \in Nat
  BY MAssumption DEF Good
<1>2. /\ Given(i) = {y \in Int : i.off <= y /\ y < End(i)}
      /\ i.off \in 0..(M - 1) /\ End(i) \in 1..(M - 1) /\ i.off < End(i)
  <2>1. i \in Ivls /\ i.off + i.size < M /\ Given(i) = {y \in Int : i.off <= y /\ y < End(i)}
    BY IgnoredIs
  <2>2. i.off \in 0..(M - 1) /\ i.size \in 1..(M - 1)
    BY <2>1 DEF Ivls
  <2>3. i.off \in Nat /\ i.size \in Nat
    BY <1>1, <2>2
  <2>4. End(i) = i.off + i.size
    BY <2>1, <2>3, EndIs
  <2> QED
    BY <1>1, <2>1, <2>2, <2>4
<1>3. /\ k \in 1..Len(b) /\ i.off <= End(b[k])
      /\ \A m \in 1..(k - 1) : m \in 1..Len(b) /\ End(b[m]) < i.off
      /\ b[k].off <= End(i)
  <2>1. i.off \in Nat
    BY <1>1, <1>2
  <2>2. /\ k \in 1..(Len(b) + 1)
        /\ \A m \in 1..(k - 1) : m \in 1..Len(b) /\ End(b[m]) < i.off
        /\ k <= Len(b) => k \in 1..Len(b) /\ i.off <= End(b[k])
    BY <2>1, FirstIs
  <2>3. ~(k > Len(b)) /\ ~(b[k].off > End(i))
    BY DEF Apart
  <2>4. k \in 1..Len(b)
    BY <1>1, <2>2, <2>3
  <2>5. b[k].off \in Nat /\ End(i) \in Nat
    BY <1>1, <1>2, <2>4, GoodAt
  <2> QED
    BY <1>1, <2>2, <2>3, <2>4, <2>5
<1>4. Added(b, i) = c
  BY DEF Added, Absorb, Splice
<1>5. Grew(b, i) /\ (b[k].off > i.off \/ End(b[k]) < End(i))
  <2>1. b[k].off \in Nat /\ End(b[k]) \in Nat /\ i.off \in Nat /\ End(i) \in Nat
    BY <1>1, <1>2, <1>3, GoodAt
  <2>2. b[k].off > i.off \/ End(b[k]) < End(i)
    BY <2>1
  <2> QED
    BY <2>2 DEF Grew
<1> HIDE DEF k
<1>6. /\ b[k].off \in 0..(M - 1) /\ End(b[k]) \in 1..(M - 1) /\ b[k].off < End(b[k])
  BY <1>3, GoodAt
<1>7. /\ j \in k..Len(b)
      /\ j = Len(b) \/ r < b[j + 1].off
      /\ \A n \in k..(j - 1) : ~(Reach(b, i, k, n) < b[n + 1].off)
  BY <1>3, SwallowedIs
<1> HIDE DEF j
<1>8. /\ r \in 1..(M - 1) /\ End(i) <= r
      /\ \A n \in k..j : n \in 1..Len(b) /\ End(b[n]) <= r
      /\ r = End(i) \/ r = End(b[j])
  BY <1>2, <1>3, <1>7, ReachIs
<1> HIDE DEF r
<1>9. o \in 0..(M - 1) /\ o <= i.off /\ o <= b[k].off /\ (o = i.off \/ o = b[k].off)
  <2>1. {b[k].off, i.off} \in SUBSET Nat /\ {b[k].off, i.off} # {}
    BY <1>1, <1>2, <1>6
  <2>2. o \in {b[k].off, i.off} /\ \A n \in {b[k].off, i.off} : o <= n
    BY <2>1, MinIs
  <2> QED
    BY <1>2, <1>6, <2>2
<1> HIDE DEF o
<1>10. x \in Ivls /\ x.off = o /\ x.off + x.size < M /\ End(x) = r
  <2>1. o \in Nat /\ r - o \in 1..(M - 1) /\ o + (r - o) = r /\ r < M /\ r - o \in Nat
    BY <1>1, <1>2, <1>8, <1>9
  <2>2. x \in Ivls /\ x.off = o /\ x.size = r - o
    BY <1>9, <2>1 DEF Ivl, Ivls
  <2> HIDE DEF x
  <2> QED
    BY <2>1, <2>2, EndIs
<1> HIDE DEF x
<1>11. \A m \in 1..(k - 1) : End(b[m]) < x.off
  <2> TAKE m \in 1..(k - 1)
  <2>1. m \in 1..Len(b) /\ m < k /\ End(b[m]) < i.off
    BY <1>1, <1>3
  <2>2. End(b[m]) < b[k].off
    BY <1>3, <2>1, Sorted
  <2> QED
    BY <1>9, <1>10, <2>1, <2>2
<1>12. \A m \in (j + 1)..Len(b) : End(x) < b[m].off
  <2> TAKE m \in (j + 1)..Len(b)
  <2>1. m \in 1..Len(b) /\ j + 1 \in 1..Len(b) /\ j # Len(b) /\ (m = j + 1 \/ j + 1 < m)
    BY <1>1, <1>3, <1>7
  <2>2. r < b[j + 1].off /\ b[j + 1].off \in Nat /\ b[m].off \in Nat /\ End(b[j + 1]) \in Nat
    BY <1>7, <2>1, GoodAt
  <2>3. j + 1 < m => b[j + 1].off < End(b[j + 1]) /\ End(b[j + 1]) < b[m].off
    BY <2>1, Sorted, GoodAt
  <2>4. r \in Nat
    BY <1>1, <1>8
  <2> QED
    BY <1>10, <2>1, <2>2, <2>3, <2>4
<1>13. /\ Good(c)
       /\ \A y \in Int : In(c, y) <=>
            \/ x.off <= y /\ y < End(x)
            \/ \E m \in 1..Len(b) : (m < k \/ j < m) /\ b[m].off <= y /\ y < End(b[m])
  <2>1. k \in 1..(Len(b) + 1) /\ j \in (k - 1)..Len(b)
    BY <1>1, <1>3, <1>7
  <2> QED
    BY <1>10, <1>11, <1>12, <2>1, SpliceGood
<1> HIDE DEF c
<1>14. ASSUME NEW y \in Int, In(b, y) \/ y \in Given(i) PROVE In(c, y)
  <2>1. CASE y \in Given(i)
    <3>1. o <= y /\ y < r
      BY <1>1, <1>2, <1>8, <1>9, <2>1
    <3> QED
      BY <1>10, <1>13, <3>1
  <2>2. CASE In(b, y)
    <3>1. PICK m \in 1..Len(b) : b[m].off <= y /\ y < End(b[m])
      BY <2>2 DEF In
    <3>2. CASE m < k \/ j < m
      BY <1>13, <3>1, <3>2
    <3>3. CASE ~(m < k \/ j < m)
      <4>1. m \in k..j /\ k \in 1..Len(b) /\ k <= m
        BY <1>1, <1>3, <1>7, <3>3
      <4>2. b[k].off <= b[m].off
        <5>1. /\ b[k].off \in Nat /\ b[m].off \in Nat /\ End(b[k]) \in Nat
              /\ b[k].off < End(b[k])
          BY <1>3, GoodAt
        <5>2. k = m \/ End(b[k]) < b[m].off
          <6>1. k = m \/ k < m
            BY <1>1, <4>1
          <6> QED
            BY <1>3, <6>1, Sorted
        <5> QED
          BY <5>1, <5>2
      <4>3. End(b[m]) <= r
        BY <1>8, <4>1
      <4>4. b[m].off \in Nat /\ End(b[m]) \in Nat /\ r \in Nat /\ o \in Nat /\ b[k].off \in Nat
        BY <1>1, <1>3, <1>8, <1>9, GoodAt
      <4>5. o <= y /\ y < r
        BY <1>9, <3>1, <4>2, <4>3, <4>4
      <4> QED
        BY <1>10, <1>13, <4>5
    <3> QED
      BY <3>2, <3>3
  <2> QED
    BY <1>14, <2>1, <2>2
<1>15. ASSUME NEW y \in Int, In(c, y), y \notin Given(i) PROVE In(b, y)
  <2>1. CASE \E m \in 1..Len(b) : b[m].off <= y /\ y < End(b[m])
    BY <2>1 DEF In
  <2>2. CASE o <= y /\ y < r
    <3>1. y < i.off \/ End(i) <= y
      BY <1>1, <1>2, <1>15
    <3>2. CASE y < i.off
      <4>1. b[k].off <= y /\ y < End(b[k])
        BY <1>1, <1>2, <1>3, <1>6, <1>9, <2>2, <3>2
      <4> QED
        BY <1>3, <4>1 DEF In
    <3>3. CASE End(i) <= y
      <4>1. j \in 1..Len(b) /\ r = End(b[j]) /\ b[j].off \in Nat
        <5>1. j \in 1..Len(b)
          BY <1>1, <1>3, <1>7
        <5>2. r # End(i)
          BY <1>1, <1>2, <1>8, <2>2, <3>3
        <5> QED
          BY <1>8, <5>1, <5>2, MAssumption, GoodAt
      <4>2. b[j].off <= y
        <5>1. SUFFICES ASSUME y < b[j].off PROVE FALSE
          BY <4>1
        <5>2. j # k
          BY <1>1, <1>2, <1>3, <1>6, <3>3, <5>1
        <5> DEFINE n == j - 1
                   q == Reach(b, i, k, n)
        <5>3. n \in k..(j - 1) /\ n + 1 = j /\ n \in k..Len(b) /\ n \in 1..Len(b) /\ n < j
          BY <1>1, <1>3, <1>7, <5>2
        <5> HIDE DEF n
        <5>4. q \in 1..(M - 1) /\ (q = End(i) \/ q = End(b[n]))
          BY <1>2, <1>3, <5>3, ReachIs
        <5>5. ~(q < b[j].off)
          BY <1>7, <5>3
        <5>6. End(b[n]) < b[j].off
          BY <4>1, <5>3, Sorted
        <5>7. q # End(b[n])
          BY <5>5, <5>6
        <5>8. q = End(i)
          BY <5>4, <5>7
        <5> QED
          BY <1>1, <1>2, <3>3, <4>1, <5>1, <5>5, <5>8
      <4> QED
        BY <2>2, <4>1, <4>2 DEF In
    <3> QED
      BY <3>1, <3>2, <3>3
  <2> QED
    BY <1>10, <1>13, <1>15, <2>1, <2>2
<1>16. \E y \in Int : y \in Given(i) /\ ~In(b, y)
  <2>1. CASE b[k].off > i.off
    <3>1. i.off \in Int /\ i.off \in Given(i)
      BY <1>1, <1>2
    <3>2. ASSUME NEW m \in 1..Len(b), b[m].off <= i.off, i.off < End(b[m]) PROVE FALSE
      <4>1. b[m].off \in Nat /\ End(b[m]) \in Nat /\ b[k].off \in Nat /\ End(b[k]) \in Nat /\ i.off \in Nat
        BY <1>1, <1>2, <1>3, GoodAt
      <4>2. CASE m < k
        <5>1. m \in 1..(k - 1)
          BY <1>3, <4>2
        <5>2. End(b[m]) < i.off
          BY <1>3, <5>1
        <5> QED
          BY <3>2, <4>1, <5>2
      <4>3. CASE m = k
        BY <2>1, <3>2, <4>1, <4>3
      <4>4. CASE k < m
        <5>1. End(b[k]) < b[m].off
          BY <1>3, <4>4, Sorted
        <5> QED
          BY <1>6, <2>1, <3>2, <4>1, <5>1
      <4>5. m < k \/ m = k \/ k < m
        BY <1>1, <1>3
      <4> QED
        BY <4>2, <4>3, <4>4, <4>5
    <3> QED
      BY <3>1, <3>2 DEF In
  <2>2. CASE End(b[k]) < End(i)
    <3>1. End(b[k]) \in Int /\ End(b[k]) \in Given(i)
      BY <1>1, <1>2, <1>3, <1>6, <2>2
    <3>2. ~In(b, End(b[k]))
      BY <1>3, Gaps
    <3> QED
      BY <3>1, <3>2
  <2> QED
    BY <1>5, <2>1, <2>2
<1>17. \A y \in Int : In(c, y) <=> In(b, y) \/ y \in Given(i)
  BY <1>14, <1>15
<1> QED
  BY <1>4, <1>5, <1>13, <1>16, <1>17 DEF AddedRight

\* All of memory replaces whatever was there.
LEMMA AllMemAdded ==
  ASSUME NEW b, Good(b)
  PROVE  AddedRight(b, AllMem)
<1> DEFINE c == <<AllMem>>
<1>1. M \in Nat /\ M > 1 /\ AllMem = [off |-> 0, size |-> M - 1]
  BY MAssumption DEF AllMem, Ivl
<1>2. AllMem.off = 0 /\ AllMem.size = M - 1 /\ AllMem \in Givens /\ AllMem \in Ivls
  BY <1>1 DEF Givens, Ivls
<1>3. End(AllMem) = M - 1
  <2>1. 0 \in Nat /\ M - 1 \in Nat /\ 0 + (M - 1) < M /\ 0 + (M - 1) = M - 1
    BY <1>1
  <2> QED
    BY <1>2, <2>1, EndIs
<1>4. ~Ignored(AllMem)
  <2>1. AllMem.size # 0
    BY <1>1, <1>2
  <2> QED
    BY <2>1 DEF Ignored
<1>5. \A y \in Int : y \in Given(AllMem) <=> 0 <= y /\ y < M - 1
  <2>1. Given(AllMem) = {y \in Int : AllMem.off <= y /\ y < End(AllMem)}
    BY <1>2, <1>4, IgnoredIs
  <2> QED
    BY <1>2, <1>3, <2>1
<1>6. Added(b, AllMem) = c /\ (Grew(b, AllMem) <=> b # c)
  BY <1>4 DEF Added, Grew
<1>7. Good(c)
  <2> DEFINE x == AllMem
  <2>1. x \in Ivls /\ x.off + x.size < M
    BY <1>1, <1>2
  <2> HIDE DEF x
  <2>2. <<x>> \in Seq(Ivls) /\ Len(<<x>>) = 1 /\ <<x>>[1] = x
    BY <2>1
  <2>3. c \in Seq(Ivls) /\ Len(c) = 1 /\ c[1] = x
    BY <2>2 DEF x
  <2> HIDE DEF c
  <2>4. \A k \in 1..Len(c) : c[k].off + c[k].size < M
    BY <2>1, <2>3
  <2>5. 1..(Len(c) - 1) = {}
    BY <2>3
  <2> QED
    BY <2>3, <2>4, <2>5 DEF Good
<1>8. \A y \in Int : In(c, y) <=> 0 <= y /\ y < M - 1
  <2>1. Len(c) = 1 /\ c[1] = AllMem
    OBVIOUS
  <2> HIDE DEF c
  <2>2. 1 \in 1..Len(c) /\ \A k \in 1..Len(c) : k = 1
    BY <2>1
  <2> QED
    BY <1>2, <1>3, <2>1, <2>2 DEF In
<1> HIDE DEF c
<1>9. \A y \in Int : In(b, y) => 0 <= y /\ y < M - 1
  <2>1. \A y \in Int : In(b, y) => y \in 0..(M - 2)
    BY CoversIs
  <2> QED
    BY <1>1, <2>1
<1>10. ASSUME \A y \in Int : y \in Given(AllMem) => In(b, y) PROVE b = c
  <2>1. \A y \in Int : In(b, y) <=> In(c, y)
    BY <1>5, <1>8, <1>9, <1>10
  <2>2. Covers(b) = Covers(c)
    <3>1. Covers(b) \subseteq Int /\ Covers(c) \subseteq Int
      <4>1. Covers(b) \subseteq 0..(M - 2) /\ Covers(c) \subseteq 0..(M - 2)
        BY <1>7, CoversIs
      <4> QED
        BY <4>1
    <3>2. \A y \in Int : y \in Covers(b) <=> y \in Covers(c)
      BY <1>7, <2>1, CoversIs
    <3> QED
      BY <3>1, <3>2
  <2> QED
    BY <1>7, <2>2, SameVector
<1>11. b = c => ~\E y \in Int : y \in Given(AllMem) /\ ~In(b, y)
  BY <1>5, <1>8
<1>12. \A y \in Int : In(c, y) <=> In(b, y) \/ y \in Given(AllMem)
  BY <1>5, <1>8, <1>9
<1> QED
  BY <1>6, <1>7, <1>10, <1>11, <1>12 DEF AddedRight

\* Every add does that.
LEMMA AddedIs ==
  ASSUME NEW b, Good(b), NEW i \in Givens
  PROVE  AddedRight(b, i)
<1>1. CASE Ignored(i)
  <2>1. Given(i) = {} /\ Added(b, i) = b /\ ~Grew(b, i)
    BY <1>1, IgnoredIs DEF Added, Grew
  <2> QED
    BY <2>1 DEF AddedRight
<1>2. CASE i = AllMem
  BY <1>2, AllMemAdded
<1> QED
  BY <1>1, <1>2, ApartAdded, WithinAdded, Absorbed

\* The same in sets.
LEMMA AddedCovers ==
  ASSUME NEW b, Good(b), NEW i \in Givens
  PROVE  /\ Good(Added(b, i))
         /\ Covers(Added(b, i)) = Covers(b) \cup Given(i)
         /\ Grew(b, i) <=> ~(Given(i) \subseteq Covers(b))
<1>1. /\ Good(Added(b, i))
      /\ \A y \in Int : In(Added(b, i), y) <=> In(b, y) \/ y \in Given(i)
      /\ Grew(b, i) <=> \E y \in Int : y \in Given(i) /\ ~In(b, y)
  BY AddedIs DEF AddedRight
<1>2. \A y \in Given(i) : y \in Int
  BY IgnoredIs
<1>3. /\ \A y \in Covers(b) : y \in Int
      /\ \A y \in Covers(Added(b, i)) : y \in Int
  <2>1. Covers(b) \subseteq 0..(M - 2) /\ Covers(Added(b, i)) \subseteq 0..(M - 2)
    BY <1>1, CoversIs
  <2> QED
    BY <2>1
<1>4. /\ \A y \in Int : y \in Covers(b) <=> In(b, y)
      /\ \A y \in Int : y \in Covers(Added(b, i)) <=> In(Added(b, i), y)
  BY <1>1, CoversIs
<1> DEFINE c == Added(b, i)
           G == Given(i)
<1> HIDE DEF c, G
<1>5. Covers(c) = Covers(b) \cup G
  BY <1>1, <1>2, <1>3, <1>4 DEF c, G
<1>6. Grew(b, i) <=> ~(G \subseteq Covers(b))
  BY <1>1, <1>2, <1>4 DEF G
<1> QED
  BY <1>1, <1>5, <1>6 DEF c, G

\* The intervals of a canonical vector are ones an add may be given.
LEMMA GoodGiven ==
  ASSUME NEW b, Good(b), NEW k \in 1..Len(b)
  PROVE  b[k] \in Givens /\ Given(b[k]) = Addresses(b[k])
<1>1. b[k] \in Ivls /\ b[k].off + b[k].size < M /\ M \in Nat
  BY MAssumption DEF Good
<1>2. Ivls \subseteq Givens
  BY <1>1 DEF Ivls, Givens
<1> QED
  BY <1>1, <1>2 DEF Given

\* Canonical vectors.
Goods == {b \in Seq(Ivls) : Good(b)}

\* The vectors between, as one is added to another, interval by interval.
LEMMA AddedAllIs ==
  ASSUME NEW b, Good(b), NEW ivs, Good(ivs)
  PROVE  LET upto == AddedAll(b, ivs)
         IN  /\ upto[0] = b
             /\ \A n \in 0..Len(ivs) : Good(upto[n])
             /\ \A n \in 1..Len(ivs) : upto[n] = Added(upto[n - 1], ivs[n])
<1> DEFINE L == Len(ivs)
           F == [p \in Nat \X Goods |->
                   IF p[1] + 1 \in 1..L THEN Added(p[2], ivs[p[1] + 1]) ELSE p[2]]
           Eq(f) == f = [n \in 0..L |-> IF n = 0 THEN b ELSE Added(f[n - 1], ivs[n])]
<1>1. L \in Nat /\ b \in Goods
  BY DEF Good, Goods
<1>2. \A c \in Goods, n \in 1..L : Added(c, ivs[n]) \in Goods
  <2> TAKE c \in Goods, n \in 1..L
  <2>1. Good(c) /\ ivs[n] \in Givens
    BY GoodGiven DEF Goods
  <2>2. Good(Added(c, ivs[n]))
    BY <2>1, AddedCovers
  <2> QED
    BY <2>2 DEF Good, Goods
<1> HIDE DEF L
<1>3. F \in [Nat \X Goods -> Goods]
  <2>1. \A p \in Nat \X Goods : (IF p[1] + 1 \in 1..L THEN Added(p[2], ivs[p[1] + 1]) ELSE p[2]) \in Goods
    BY <1>2
  <2> QED
    BY <2>1
<1>4. \A n \in Nat, c \in Goods : n + 1 \in 1..L => F[<<n, c>>] = Added(c, ivs[n + 1])
  OBVIOUS
<1>5. PICK f : Unrolls(f, Goods, b, F, L)
  <2> HIDE DEF F
  <2> QED
    BY <1>1, <1>3, Recursion
<1>6. /\ f \in [0..L -> Goods] /\ f[0] = b
      /\ \A n \in 0..(L - 1) : f[n + 1] = Added(f[n], ivs[n + 1])
  <2>1. \A n \in 0..(L - 1) : n \in Nat /\ n \in 0..L /\ n + 1 \in 1..L
    BY <1>1
  <2> HIDE DEF F
  <2> QED
    BY <1>4, <1>5, <2>1 DEF Unrolls
<1> HIDE DEF F
<1>7. Eq(f)
  <2>1. ASSUME NEW n \in 0..L, n # 0 PROVE f[n] = Added(f[n - 1], ivs[n])
    <3>1. n - 1 \in 0..(L - 1) /\ (n - 1) + 1 = n
      BY <1>1, <2>1
    <3>2. f[(n - 1) + 1] = Added(f[n - 1], ivs[(n - 1) + 1])
      BY <1>6, <3>1
    <3> QED
      BY <3>1, <3>2
  <2>2. f = [n \in 0..L |-> f[n]]
    BY <1>6
  <2> QED
    BY <1>6, <2>1, <2>2
<1>8. Eq(AddedAll(b, ivs))
  <2> DEFINE g == CHOOSE x : Eq(x)
  <2>1. Eq(g)
    <3> HIDE DEF Eq
    <3> QED
      BY <1>7
  <2>2. AddedAll(b, ivs) = g
    BY DEF AddedAll, L
  <2> QED
    BY <2>1, <2>2
<1> DEFINE g == AddedAll(b, ivs)
<1> HIDE DEF g
<1>9. g = [n \in 0..L |-> IF n = 0 THEN b ELSE Added(g[n - 1], ivs[n])]
  BY <1>8 DEF g
<1> HIDE DEF Eq
<1>10. g[0] = b /\ \A n \in 1..L : g[n] = Added(g[n - 1], ivs[n])
  <2>1. 0 \in 0..L /\ \A n \in 1..L : n \in 0..L /\ n # 0
    BY <1>1
  <2> QED
    BY <1>9, <2>1
<1>11. \A n \in 0..L : g[n] \in Goods
  <2> DEFINE S == {n \in 0..L : g[n] \in Goods}
  <2>1. 0 \in S
    BY <1>1, <1>10
  <2>2. ASSUME NEW n \in 0..(L - 1), n \in S PROVE n + 1 \in S
    <3>1. n + 1 \in 1..L /\ (n + 1) - 1 = n /\ n + 1 \in 0..L
      BY <1>1
    <3>2. g[n + 1] = Added(g[n], ivs[n + 1])
      BY <1>10, <3>1
    <3> QED
      BY <1>2, <2>2, <3>1, <3>2
  <2>3. 0..L \subseteq S
    <3> HIDE DEF S
    <3> QED
      BY <1>1, <2>1, <2>2, IntervalInduction
  <2> QED
    BY <2>3
<1>12. \A n \in 0..L : Good(g[n])
  BY <1>11 DEF Goods
<1> QED
  BY <1>10, <1>12 DEF g, L

\* The union of two sets, and whether it is more than the first.
LEMMA AddedAllCovers ==
  ASSUME NEW b, Good(b), NEW ivs, Good(ivs)
  PROVE  LET upto == AddedAll(b, ivs)
         IN  /\ Good(upto[Len(ivs)])
             /\ Covers(upto[Len(ivs)]) = Covers(b) \cup Covers(ivs)
             /\ (\E n \in 1..Len(ivs) : Grew(upto[n - 1], ivs[n])) <=> ~(Covers(ivs) \subseteq Covers(b))
<1> DEFINE g == AddedAll(b, ivs)
           L == Len(ivs)
           A(n) == UNION {Addresses(ivs[m]) : m \in 1..n}
<1>1. L \in Nat
  BY DEF Good
<1>2. /\ g[0] = b
      /\ \A n \in 0..L : Good(g[n])
      /\ \A n \in 1..L : g[n] = Added(g[n - 1], ivs[n])
  BY AddedAllIs
<1> HIDE DEF g
<1>3. \A n \in 1..L :
        /\ Covers(g[n]) = Covers(g[n - 1]) \cup Addresses(ivs[n])
        /\ Grew(g[n - 1], ivs[n]) <=> ~(Addresses(ivs[n]) \subseteq Covers(g[n - 1]))
  <2> TAKE n \in 1..L
  <2>1. n - 1 \in 0..L
    BY <1>1
  <2>2. Good(g[n - 1]) /\ ivs[n] \in Givens /\ Given(ivs[n]) = Addresses(ivs[n])
    BY <1>2, <2>1, GoodGiven
  <2> QED
    BY <1>2, <2>2, AddedCovers
<1> HIDE DEF L
<1>4. ASSUME NEW n \in 0..(L - 1)
      PROVE  A(n + 1) = A(n) \cup Addresses(ivs[n + 1])
  <2>1. 1..(n + 1) = (1..n) \cup {n + 1}
    BY <1>1
  <2> QED
    BY <2>1
<1>5. \A n \in 0..L :
        /\ Covers(g[n]) = Covers(b) \cup A(n)
        /\ (\E m \in 1..n : Grew(g[m - 1], ivs[m])) <=> ~(A(n) \subseteq Covers(b))
  <2> DEFINE Some(n) == \E m \in 1..n : Grew(g[m - 1], ivs[m])
             S == {n \in 0..L :
                     /\ Covers(g[n]) = Covers(b) \cup A(n)
                     /\ Some(n) <=> ~(A(n) \subseteq Covers(b))}
  <2>1. 0 \in S
    <3>1. 1..0 = {} /\ 0 \in 0..L
      BY <1>1
    <3>2. A(0) = {} /\ ~Some(0)
      BY <3>1
    <3> QED
      BY <1>2, <3>1, <3>2
  <2>2. ASSUME NEW n \in 0..(L - 1), n \in S PROVE n + 1 \in S
    <3>1. n + 1 \in 1..L /\ n + 1 \in 0..L /\ (n + 1) - 1 = n
      BY <1>1
    <3>2. /\ Covers(g[n + 1]) = Covers(g[n]) \cup Addresses(ivs[n + 1])
          /\ Grew(g[n], ivs[n + 1]) <=> ~(Addresses(ivs[n + 1]) \subseteq Covers(g[n]))
      BY <1>3, <3>1
    <3>3. Some(n + 1) <=> Some(n) \/ Grew(g[n], ivs[n + 1])
      <4>1. \A m \in 1..(n + 1) : m \in 1..n \/ m = n + 1
        BY <1>1
      <4>2. \A m \in 1..n : m \in 1..(n + 1)
        BY <1>1
      <4>3. n + 1 \in 1..(n + 1)
        BY <1>1
      <4> QED
        BY <3>1, <4>1, <4>2, <4>3
    <3>4. Covers(g[n]) = Covers(b) \cup A(n) /\ (Some(n) <=> ~(A(n) \subseteq Covers(b)))
      BY <2>2
    <3>5. A(n + 1) = A(n) \cup Addresses(ivs[n + 1])
      BY <1>4
    <3> HIDE DEF A, Some
    <3>6. Covers(g[n + 1]) = Covers(b) \cup A(n + 1)
      BY <3>2, <3>4, <3>5
    <3>7. Some(n + 1) <=> ~(A(n + 1) \subseteq Covers(b))
      <4> DEFINE P == A(n)
                 Q == Addresses(ivs[n + 1])
                 C == Covers(b)
                 R == A(n + 1)
                 G == Grew(g[n], ivs[n + 1])
      <4>1. R = P \cup Q /\ (G <=> ~(Q \subseteq C \cup P)) /\ (Some(n) <=> ~(P \subseteq C))
        BY <3>2, <3>4, <3>5
      <4> HIDE DEF P, Q, C, R, G
      <4>2. (Some(n) \/ G) <=> ~(R \subseteq C)
        BY <4>1
      <4> QED
        BY <3>3, <4>2 DEF R, C, G
    <3> QED
      BY <3>1, <3>6, <3>7
  <2>3. 0..L \subseteq S
    <3> HIDE DEF S
    <3> QED
      BY <1>1, <2>1, <2>2, IntervalInduction
  <2> QED
    BY <2>3
<1>6. L \in 0..L /\ A(L) = Covers(ivs)
  BY <1>1 DEF Covers, L
<1> HIDE DEF A
<1>7. /\ Covers(g[L]) = Covers(b) \cup Covers(ivs)
      /\ (\E m \in 1..L : Grew(g[m - 1], ivs[m])) <=> ~(Covers(ivs) \subseteq Covers(b))
  BY <1>5, <1>6
<1> QED
  BY <1>2, <1>6, <1>7 DEF g, L

-----------------------------------------------------------------------------
(* The walk over two vectors.                                                *)

\* From the i-th interval of b and the j-th of c on two overlap.
Meet(b, c, i, j) == \E m \in i..Len(b), n \in j..Len(c) : Overlap(b[m], c[n])

\* The positions the walk goes on to: if there are any, one of the two has gone
\* up, and nothing before them overlaps.
LEMMA WalkOn ==
  ASSUME NEW b, Good(b), NEW c, Good(c), NEW i \in 1..Len(b), NEW j \in 1..Len(c),
         ~Overlap(b[i], c[j])
  PROVE  LET is == Beyond(b, i, c[j].off)
             js == Beyond(c, j, b[Min(is)].off)
         IN  /\ is # {} => Min(is) \in i..Len(b)
             /\ is # {} /\ js # {} => Min(js) \in j..Len(c) /\ (i < Min(is) \/ j < Min(js))
             /\ Meet(b, c, i, j) <=> is # {} /\ js # {} /\ Meet(b, c, Min(is), Min(js))
<1> DEFINE is == Beyond(b, i, c[j].off)
           p == Min(is)
           js == Beyond(c, j, b[p].off)
           q == Min(js)
<1>1. Len(b) \in Nat /\ Len(c) \in Nat
  BY DEF Good
<1>2. /\ b[i].off \in Nat /\ End(b[i]) \in Nat /\ b[i].off < End(b[i])
      /\ c[j].off \in Nat /\ End(c[j]) \in Nat /\ c[j].off < End(c[j])
  BY GoodAt
<1>3. End(b[i]) <= c[j].off \/ End(c[j]) <= b[i].off
  BY <1>2 DEF Overlap
<1>4. \A n \in 1..Len(b) : n \in is <=> i <= n /\ End(b[n]) > c[j].off
  BY <1>1 DEF Beyond
<1>5. is \in SUBSET Nat /\ is \subseteq i..Len(b)
  BY <1>1 DEF Beyond
<1>6. is # {} => p \in i..Len(b) /\ p \in 1..Len(b) /\ p \in is /\ \A n \in is : p <= n
  <2> SUFFICES ASSUME is # {} PROVE p \in i..Len(b) /\ p \in 1..Len(b) /\ p \in is /\ \A n \in is : p <= n
    OBVIOUS
  <2>1. p \in is /\ \A n \in is : p <= n
    <3> HIDE DEF is
    <3> QED
      BY <1>5, MinIs
  <2>2. p \in i..Len(b)
    BY <1>5, <2>1
  <2> HIDE DEF is, p
  <2> QED
    BY <1>1, <2>1, <2>2
<1> HIDE DEF is, p
<1>7. \A n \in 1..Len(c) : n \in js <=> j <= n /\ End(c[n]) > b[p].off
  BY <1>1 DEF Beyond
<1>8. js \in SUBSET Nat /\ js \subseteq j..Len(c)
  BY <1>1 DEF Beyond
<1>9. js # {} => q \in j..Len(c) /\ q \in js /\ \A n \in js : q <= n
  <2> SUFFICES ASSUME js # {} PROVE q \in j..Len(c) /\ q \in js /\ \A n \in js : q <= n
    OBVIOUS
  <2>1. q \in js /\ \A n \in js : q <= n
    <3> HIDE DEF js
    <3> QED
      BY <1>8, MinIs
  <2>2. q \in j..Len(c)
    BY <1>8, <2>1
  <2> QED
    BY <2>1, <2>2
<1> HIDE DEF js, q
<1>10. ASSUME is # {}, js # {} PROVE i < p \/ j < q
  <2>1. CASE End(b[i]) <= c[j].off
    <3>1. i \notin is
      BY <1>2, <1>4, <2>1
    <3>2. i # p /\ i <= p
      BY <1>6, <1>10, <3>1
    <3> QED
      BY <1>1, <1>6, <1>10, <3>2
  <2>2. CASE p = i /\ End(c[j]) <= b[i].off
    <3>1. j \notin js
      BY <1>2, <1>7, <2>2
    <3>2. j # q /\ j <= q
      BY <1>9, <1>10, <3>1
    <3> QED
      BY <1>1, <1>9, <1>10, <3>2
  <2>3. p = i \/ i < p
    BY <1>1, <1>6, <1>10
  <2> QED
    BY <1>3, <2>1, <2>2, <2>3
<1>11. ASSUME Meet(b, c, i, j) PROVE is # {} /\ js # {} /\ Meet(b, c, p, q)
  <2>1. PICK m \in i..Len(b), n \in j..Len(c) : Overlap(b[m], c[n])
    BY <1>11 DEF Meet
  <2>2. m \in 1..Len(b) /\ n \in 1..Len(c) /\ (j = n \/ j < n) /\ i <= m /\ j <= n
    BY <1>1
  <2>3. /\ b[m].off \in Nat /\ End(b[m]) \in Nat /\ c[n].off \in Nat /\ End(c[n]) \in Nat
        /\ c[n].off < End(b[m]) /\ b[m].off < End(c[n])
    BY <2>1, <2>2, GoodAt DEF Overlap
  <2> DEFINE cj == c[j].off
             ej == End(c[j])
             cn == c[n].off
             en == End(c[n])
             bm == b[m].off
             em == End(b[m])
             bp == b[p].off
             ep == End(b[p])
  <2>3a. /\ cj \in Nat /\ ej \in Nat /\ cj < ej /\ cn \in Nat /\ en \in Nat
        /\ bm \in Nat /\ em \in Nat /\ cn < em /\ bm < en
    BY <1>2, <2>3
  <2>4. cj <= cn
    <3>1. CASE j < n
      <4>1. ej < cn
        BY <2>2, <3>1, Sorted
      <4> HIDE DEF cj, ej, cn, en, bm, em
      <4> QED
        BY <2>3a, <4>1
    <3>2. CASE j = n
      <4>1. cj = cn
        BY <3>2
      <4> HIDE DEF cj, ej, cn, en, bm, em
      <4> QED
        BY <2>3a, <4>1
    <3> QED
      BY <2>2, <3>1, <3>2
  <2>5. m \in is
    <3>1. em > cj
      <4> HIDE DEF cj, ej, cn, en, bm, em
      <4> QED
        BY <2>3a, <2>4
    <3> QED
      BY <1>4, <2>2, <3>1
  <2>6. p <= m /\ p \in 1..Len(b)
    BY <1>6, <2>5
  <2>6a. bp \in Nat /\ ep \in Nat /\ bp < ep
    BY <2>6, GoodAt
  <2>7. bp <= bm
    <3>1. CASE p < m
      <4>1. ep < bm
        BY <2>2, <2>6, <3>1, Sorted
      <4> HIDE DEF bm, em, bp, ep
      <4> QED
        BY <2>3a, <2>6a, <4>1
    <3>2. CASE p = m
      <4>1. bp = bm
        BY <3>2
      <4> HIDE DEF bm, em, bp, ep
      <4> QED
        BY <2>3a, <2>6a, <4>1
    <3>3. p < m \/ p = m
      BY <1>1, <2>2, <2>6
    <3> QED
      BY <3>1, <3>2, <3>3
  <2>8. n \in js
    <3>1. en > bp
      <4> HIDE DEF cj, ej, cn, en, bm, em, bp, ep
      <4> QED
        BY <2>3a, <2>6a, <2>7
    <3> QED
      BY <1>7, <2>2, <3>1
  <2>9. q <= n /\ q \in j..Len(c)
    BY <1>9, <2>8
  <2>10. m \in p..Len(b) /\ n \in q..Len(c)
    BY <1>1, <2>2, <2>6, <2>9
  <2> QED
    BY <2>1, <2>5, <2>8, <2>10 DEF Meet
<1>12. ASSUME is # {}, js # {}, Meet(b, c, p, q) PROVE Meet(b, c, i, j)
  <2>1. PICK m \in p..Len(b), n \in q..Len(c) : Overlap(b[m], c[n])
    BY <1>12 DEF Meet
  <2>2. p \in i..Len(b) /\ q \in j..Len(c)
    BY <1>6, <1>9, <1>12
  <2>3. m \in i..Len(b) /\ n \in j..Len(c)
    BY <1>1, <2>2
  <2> QED
    BY <2>1, <2>3 DEF Meet
<1>13. Meet(b, c, i, j) <=> is # {} /\ js # {} /\ Meet(b, c, p, q)
  BY <1>11, <1>12
<1> QED
  BY <1>6, <1>9, <1>10, <1>13 DEF is, js, p, q

\* has_common_ says whether two intervals overlap.
LEMMA WalkIs ==
  ASSUME NEW b, Good(b), NEW c, Good(c)
  PROVE  HasCommon(b, c) <=> b # <<>> /\ c # <<>> /\ Meet(b, c, 1, 1)
<1> DEFINE L == Len(b)
           K == Len(c)
           D == (1..L) \X (1..K)
           Is(at) == Beyond(b, at[1], c[at[2]].off)
           Js(at) == Beyond(c, at[2], b[Min(Is(at))].off)
           On(w, at) == \/ Overlap(b[at[1]], c[at[2]])
                        \/ Is(at) # {} /\ Js(at) # {} /\ w[<<Min(Is(at)), Min(Js(at))>>]
           Eq(w) == w = [at \in D |-> On(w, at)]
           f == [at \in D |-> Meet(b, c, at[1], at[2])]
<1>1. L \in Nat /\ K \in Nat
  BY DEF Good
<1>2. ASSUME NEW i \in 1..L, NEW j \in 1..K
      PROVE  /\ Overlap(b[i], c[j]) => Meet(b, c, i, j)
             /\ ~Overlap(b[i], c[j]) =>
                  LET at == <<i, j>>
                      p == Min(Is(at))
                      q == Min(Js(at))
                  IN  /\ Is(at) # {} /\ Js(at) # {} =>
                           p \in i..L /\ q \in j..K /\ (i < p \/ j < q)
                      /\ Meet(b, c, i, j) <=> Is(at) # {} /\ Js(at) # {} /\ Meet(b, c, p, q)
  <2>1. ASSUME Overlap(b[i], c[j]) PROVE Meet(b, c, i, j)
    <3>1. i \in i..L /\ j \in j..K
      BY <1>1
    <3> QED
      BY <2>1, <3>1 DEF Meet
  <2>2. <<i, j>>[1] = i /\ <<i, j>>[2] = j
    OBVIOUS
  <2>3. ~Overlap(b[i], c[j]) =>
          LET is == Beyond(b, i, c[j].off)
              js == Beyond(c, j, b[Min(is)].off)
          IN  /\ is # {} => Min(is) \in i..L
              /\ is # {} /\ js # {} => Min(js) \in j..K /\ (i < Min(is) \/ j < Min(js))
              /\ Meet(b, c, i, j) <=> is # {} /\ js # {} /\ Meet(b, c, Min(is), Min(js))
    BY WalkOn
  <2> QED
    BY <2>1, <2>2, <2>3
<1> HIDE DEF L, K, Is, Js
<1>3. ASSUME NEW at \in D PROVE On(f, at) <=> Meet(b, c, at[1], at[2])
  <2> DEFINE i == at[1]
             j == at[2]
             p == Min(Is(at))
             q == Min(Js(at))
  <2>1. i \in 1..L /\ j \in 1..K /\ at = <<i, j>>
    OBVIOUS
  <2> HIDE DEF i, j
  <2>2. /\ Overlap(b[i], c[j]) => Meet(b, c, i, j)
        /\ ~Overlap(b[i], c[j]) =>
             /\ Is(at) # {} /\ Js(at) # {} => p \in i..L /\ q \in j..K /\ (i < p \/ j < q)
             /\ Meet(b, c, i, j) <=> Is(at) # {} /\ Js(at) # {} /\ Meet(b, c, p, q)
    BY <1>2, <2>1
  <2> HIDE DEF p, q
  <2>3. ASSUME p \in i..L, q \in j..K PROVE f[<<p, q>>] <=> Meet(b, c, p, q)
    <3>1. <<p, q>> \in D /\ <<p, q>>[1] = p /\ <<p, q>>[2] = q
      BY <1>1, <2>1, <2>3
    <3> QED
      BY <3>1
  <2> HIDE DEF D, f
  <2>4. On(f, at) <=> Meet(b, c, i, j)
    <3>1. On(f, at) <=> \/ Overlap(b[i], c[j])
                        \/ Is(at) # {} /\ Js(at) # {} /\ f[<<p, q>>]
      BY DEF i, j, p, q
    <3> QED
      BY <2>2, <2>3, <3>1
  <2> QED
    BY <2>4 DEF i, j
<1>4. Eq(f)
  <2>1. ASSUME NEW at \in D PROVE On(f, at) = Meet(b, c, at[1], at[2])
    <3> HIDE DEF f, D
    <3>1. On(f, at) \in BOOLEAN
      BY Zenon
    <3>2. Meet(b, c, at[1], at[2]) \in BOOLEAN
      BY Zenon DEF Meet
    <3>3. On(f, at) <=> Meet(b, c, at[1], at[2])
      BY <1>3, <2>1
    <3> HIDE DEF On
    <3> QED
      BY <3>1, <3>2, <3>3
  <2> HIDE DEF On, D
  <2> QED
    BY <2>1, Zenon
<1> DEFINE g == CHOOSE w : Eq(w)
<1>5. Eq(g)
  <2> HIDE DEF Eq
  <2> QED
    BY <1>4
<1>6. HasCommon(b, c) <=> b # <<>> /\ c # <<>> /\ g[<<1, 1>>]
  BY DEF HasCommon, L, K, Is, Js
<1> HIDE DEF g, f
<1>7. \A at \in D : g[at] <=> On(g, at)
  <2> HIDE DEF On, D
  <2>1. g = [at \in D |-> On(g, at)]
    BY <1>5
  <2> QED
    BY <2>1, Zenon
<1> HIDE DEF Eq
<1> DEFINE Right(i, j) == (g[<<i, j>>] <=> Meet(b, c, i, j))
           S == {n \in Nat : \A i \in 1..L, j \in 1..K : (L - i) + (K - j) < n => Right(i, j)}
<1>8. 0 \in S
  <2>1. \A i \in 1..L, j \in 1..K : ~((L - i) + (K - j) < 0)
    BY <1>1
  <2> QED
    BY <2>1
<1>9. ASSUME NEW n \in Nat, n \in S PROVE n + 1 \in S
  <2>1. SUFFICES ASSUME NEW i \in 1..L, NEW j \in 1..K, (L - i) + (K - j) < n + 1
                 PROVE  Right(i, j)
    <3> HIDE DEF Right
    <3> QED
      BY <2>1
  <2> DEFINE at == <<i, j>>
             p == Min(Is(at))
             q == Min(Js(at))
  <2>2. /\ Overlap(b[i], c[j]) => Meet(b, c, i, j)
        /\ ~Overlap(b[i], c[j]) =>
             /\ Is(at) # {} /\ Js(at) # {} => p \in i..L /\ q \in j..K /\ (i < p \/ j < q)
             /\ Meet(b, c, i, j) <=> Is(at) # {} /\ Js(at) # {} /\ Meet(b, c, p, q)
    BY <1>2
  <2>3. at \in D /\ at[1] = i /\ at[2] = j
    OBVIOUS
  <2> HIDE DEF D
  <2>4. g[at] <=> \/ Overlap(b[i], c[j])
                  \/ Is(at) # {} /\ Js(at) # {} /\ g[<<p, q>>]
    <3> HIDE DEF at
    <3> QED
      BY <1>7, <2>3
  <2> HIDE DEF at, p, q
  <2>5. ASSUME ~Overlap(b[i], c[j]), Is(at) # {}, Js(at) # {} PROVE Right(p, q)
    <3>1. p \in i..L /\ q \in j..K /\ (i < p \/ j < q)
      BY <2>2, <2>5
    <3>2. p \in 1..L /\ q \in 1..K /\ (L - p) + (K - q) < n
      BY <1>1, <2>1, <3>1
    <3> HIDE DEF Right
    <3> QED
      BY <1>9, <3>2
  <2>6. g[at] <=> Meet(b, c, i, j)
    BY <2>2, <2>4, <2>5
  <2> QED
    BY <2>6 DEF at
<1>10. Nat \subseteq S
  <2> HIDE DEF S
  <2> QED
    BY <1>8, <1>9, SetInduction
<1>11. ASSUME b # <<>>, c # <<>> PROVE g[<<1, 1>>] <=> Meet(b, c, 1, 1)
  <2>1. 1 \in 1..L /\ 1 \in 1..K /\ (L - 1) + (K - 1) < L + K /\ L + K \in Nat
    <3>1. L # 0 /\ K # 0
      BY <1>11 DEF L, K, Good
    <3> QED
      BY <1>1, <3>1
  <2>2. L + K \in S
    BY <1>10, <2>1
  <2> HIDE DEF Right
  <2>3. Right(1, 1)
    BY <2>1, <2>2
  <2> QED
    BY <2>3 DEF Right
<1> QED
  BY <1>6, <1>11

-----------------------------------------------------------------------------
(* The questions.                                                            *)

\* has_common_ answers for the sets.
LEMMA CommonAgrees ==
  ASSUME NEW b, Good(b), NEW c, Good(c)
  PROVE  HasCommon(b, c) <=> Covers(b) \cap Covers(c) # {}
<1>1. Len(b) \in Nat /\ Len(c) \in Nat /\ Covers(b) \subseteq Int
  <2>1. Covers(b) \subseteq 0..(M - 2)
    BY CoversIs
  <2> QED
    BY <2>1 DEF Good
<1>2. ASSUME Meet(b, c, 1, 1) PROVE Covers(b) \cap Covers(c) # {}
  <2>1. PICK m \in 1..Len(b), n \in 1..Len(c) : Overlap(b[m], c[n])
    BY <1>2 DEF Meet
  <2>2. /\ b[m].off \in Nat /\ End(b[m]) \in Nat /\ b[m].off < End(b[m])
        /\ c[n].off \in Nat /\ End(c[n]) \in Nat /\ c[n].off < End(c[n])
        /\ c[n].off < End(b[m]) /\ b[m].off < End(c[n])
    BY <2>1, GoodAt DEF Overlap
  <2>3. \E x \in Int : b[m].off <= x /\ x < End(b[m]) /\ c[n].off <= x /\ x < End(c[n])
    <3>1. CASE b[m].off <= c[n].off
      BY <2>2, <3>1
    <3>2. CASE c[n].off <= b[m].off
      BY <2>2, <3>2
    <3> QED
      BY <2>2, <3>1, <3>2
  <2>4. PICK x \in Int : In(b, x) /\ In(c, x)
    BY <2>3 DEF In
  <2>5. x \in Covers(b) /\ x \in Covers(c)
    BY <2>4, CoversIs
  <2> QED
    BY <2>5
<1>3. ASSUME Covers(b) \cap Covers(c) # {} PROVE b # <<>> /\ c # <<>> /\ Meet(b, c, 1, 1)
  <2>1. PICK x \in Int : In(b, x) /\ In(c, x)
    <3>1. PICK x \in Int : x \in Covers(b) /\ x \in Covers(c)
      BY <1>1, <1>3
    <3>2. In(b, x) /\ In(c, x)
      BY <3>1, CoversIs
    <3> QED
      BY <3>2
  <2>2. PICK m \in 1..Len(b), n \in 1..Len(c) :
          b[m].off <= x /\ x < End(b[m]) /\ c[n].off <= x /\ x < End(c[n])
    BY <2>1 DEF In
  <2>3. b[m].off \in Nat /\ End(b[m]) \in Nat /\ c[n].off \in Nat /\ End(c[n]) \in Nat
    BY GoodAt
  <2>4. Overlap(b[m], c[n])
    BY <2>2, <2>3 DEF Overlap
  <2>5. Len(b) # 0 /\ Len(c) # 0
    BY <1>1
  <2> QED
    BY <2>4, <2>5 DEF Meet
<1> QED
  BY <1>2, <1>3, WalkIs

\* includes finds an interval that has the asked one if its addresses are there.
LEMMA HasAgrees ==
  ASSUME NEW b, Good(b), NEW off \in 0..(M - 1), NEW size \in 1..(M - 1), off + size < M
  PROVE  Has(b, Ivl(off, size)) <=> Addresses(Ivl(off, size)) \subseteq Covers(b)
<1> DEFINE i == Ivl(off, size)
           e == off + size
<1>1. i.off = off /\ i.size = size /\ M \in Nat /\ off \in Nat /\ e \in Nat /\ size \in Nat /\ off < e
  <2>1. M \in Nat
    BY MAssumption
  <2> QED
    BY <2>1 DEF Ivl
<1>2. End(i) = e
  <2> HIDE DEF i
  <2> QED
    BY <1>1, EndIs
<1>3. Addresses(i) = {x \in Int : off <= x /\ x < e}
  <2>1. off..(off + size - 1) = {x \in Int : off <= x /\ x < e}
    BY <1>1
  <2> HIDE DEF i, e
  <2> QED
    BY <1>1, <2>1 DEF Addresses
<1> HIDE DEF i, e
<1>4. Has(b, i) <=> \E k \in 1..Len(b) : b[k].off <= off /\ e <= End(b[k])
  BY <1>1, <1>2 DEF Has, Includes
<1>5. ASSUME NEW k \in 1..Len(b), b[k].off <= off, e <= End(b[k])
      PROVE  Addresses(i) \subseteq Covers(b)
  <2>1. b[k].off \in Nat /\ End(b[k]) \in Nat
    BY GoodAt
  <2>2. \A x \in Int : off <= x /\ x < e => b[k].off <= x /\ x < End(b[k])
    BY <1>1, <1>5, <2>1
  <2>3. \A x \in Int : off <= x /\ x < e => In(b, x)
    BY <2>2 DEF In
  <2> QED
    BY <1>3, <2>3, CoversIs
<1>6. ASSUME Addresses(i) \subseteq Covers(b)
      PROVE  \E k \in 1..Len(b) : b[k].off <= off /\ e <= End(b[k])
  <2>1. \A x \in Int : off <= x /\ x < e => In(b, x)
    BY <1>3, <1>6, CoversIs
  <2> QED
    BY <1>1, <2>1, OneRun
<1> QED
  BY <1>4, <1>5, <1>6 DEF i

\* The element-wise comparison answers for the sets.
LEMMA SameAgrees ==
  ASSUME NEW b, Good(b), NEW c, Good(c)
  PROVE  SameAs(b, c) <=> Covers(b) = Covers(c)
<1>1. b \in Seq(Ivls) /\ c \in Seq(Ivls)
  BY DEF Good
<1>2. SameAs(b, c) <=> b = c
  BY <1>1 DEF SameAs
<1> QED
  BY <1>2, SameVector

-----------------------------------------------------------------------------
(* The objects.                                                              *)

\* What is inductive: every object has a canonical vector.
Inv == bag \in [Sets -> Goods] /\ ret \in BOOLEAN

\* A new object's vector is canonical.
LEMMA EmptyGood == Good(<<>>) /\ <<>> \in Seq(Ivls)
BY DEF Good

\* It holds of new objects.
LEMMA InitInv == Init => Inv
<1> SUFFICES ASSUME Init PROVE Inv
  OBVIOUS
<1>1. Good(<<>>)
  BY EmptyGood
<1>2. <<>> \in Goods
  BY <1>1, Zenon DEF Good, Goods
<1> QED
  BY <1>2 DEF Init, Inv

\* An interval a call gives is one an add may be given.
LEMMA GivenOffs ==
  ASSUME NEW off \in Offs, NEW size \in Sizes
  PROVE  /\ Ivl(off, size) \in Givens
         /\ off \in 0..(M - 1) /\ size \in 0..(M - 1)
         /\ Given(Ivl(off, size)) = Abstract!Addresses(off, size)
<1>1. off \in 0..(M - 1) /\ size \in 0..(M - 1)
  BY OffsAssumption
<1>2. Ivl(off, size) \in Givens /\ Ivl(off, size).off = off /\ Ivl(off, size).size = size
  BY <1>1 DEF Ivl, Givens
<1> QED
  BY <1>1, <1>2 DEF Given, Addresses, Abstract!Addresses

\* Adding an interval or a set leaves a canonical vector, and the answer is
\* whether there was something to add.
LEMMA AddStep ==
  ASSUME NEW s \in Sets, NEW off \in Offs, NEW size \in Sizes, Inv, Add(s, Ivl(off, size))
  PROVE  \E c \in Goods :
           /\ bag' = [bag EXCEPT ![s] = c]
           /\ Covers(c) = Covers(bag[s]) \cup Abstract!Addresses(off, size)
           /\ ret' = ~(Abstract!Addresses(off, size) \subseteq Covers(bag[s]))
<1> DEFINE i == Ivl(off, size)
           c == Added(bag[s], i)
           E == Abstract!Addresses(off, size)
<1>1. Good(bag[s])
  BY DEF Inv, Goods
<1>2. i \in Givens /\ Given(i) = E
  BY GivenOffs
<1>3. bag' = [bag EXCEPT ![s] = c] /\ ret' = Grew(bag[s], i)
  BY Zenon DEF Add
<1>4. Grew(bag[s], i) \in BOOLEAN
  BY Zenon DEF Grew
<1> HIDE DEF i
<1>5. Good(c) /\ Covers(c) = Covers(bag[s]) \cup E /\ (Grew(bag[s], i) <=> ~(E \subseteq Covers(bag[s])))
  BY <1>1, <1>2, AddedCovers
<1> HIDE DEF c, E
<1>6. c \in Goods
  BY <1>5 DEF Goods, Good
<1>7. ret' = ~(E \subseteq Covers(bag[s]))
  BY <1>3, <1>4, <1>5
<1> QED
  BY <1>3, <1>5, <1>6, <1>7 DEF E

\* The same of another set.
LEMMA AddSetStep ==
  ASSUME NEW s \in Sets, NEW t \in Sets, Inv, AddSet(s, t)
  PROVE  \E c \in Goods :
           /\ bag' = [bag EXCEPT ![s] = c]
           /\ Covers(c) = Covers(bag[s]) \cup Covers(bag[t])
           /\ ret' = ~(Covers(bag[t]) \subseteq Covers(bag[s]))
<1> DEFINE upto == AddedAll(bag[s], bag[t])
           c == upto[Len(bag[t])]
           G == \E n \in 1..Len(bag[t]) : Grew(upto[n - 1], bag[t][n])
<1>1. Good(bag[s]) /\ Good(bag[t])
  BY DEF Inv, Goods
<1>2. bag' = [bag EXCEPT ![s] = c] /\ ret' = G
  BY Zenon DEF AddSet
<1>3. /\ Good(c)
      /\ Covers(c) = Covers(bag[s]) \cup Covers(bag[t])
      /\ G <=> ~(Covers(bag[t]) \subseteq Covers(bag[s]))
  BY <1>1, AddedAllCovers
<1>4. G \in BOOLEAN
  BY Zenon
<1> HIDE DEF c, G
<1>5. c \in Goods
  BY <1>3 DEF Goods, Good
<1>6. ret' = ~(Covers(bag[t]) \subseteq Covers(bag[s]))
  BY <1>2, <1>3, <1>4
<1> QED
  BY <1>2, <1>3, <1>5, <1>6

\* Every call leaves canonical vectors.
LEMMA NextInv == Inv /\ [Next]_vars => Inv'
<1> SUFFICES ASSUME Inv, [Next]_vars PROVE Inv'
  OBVIOUS
<1>0. bag \in [Sets -> Goods] /\ ret \in BOOLEAN
  BY DEF Inv
<1>1. ASSUME NEW s \in Sets, NEW off \in Offs, NEW size \in Sizes, Add(s, Ivl(off, size)) PROVE Inv'
  <2>1. ret' \in BOOLEAN
    <3>1. ret' = Grew(bag[s], Ivl(off, size))
      BY <1>1, Zenon DEF Add
    <3>2. Grew(bag[s], Ivl(off, size)) \in BOOLEAN
      BY Zenon DEF Grew
    <3> QED
      BY <3>1, <3>2
  <2>2. PICK c \in Goods : bag' = [bag EXCEPT ![s] = c]
    BY <1>1, AddStep
  <2> QED
    BY <1>0, <2>1, <2>2 DEF Inv
<1>2. ASSUME NEW s \in Sets, NEW t \in Sets, AddSet(s, t) PROVE Inv'
  <2>1. ret' \in BOOLEAN
    BY <1>2, Zenon DEF AddSet
  <2>2. PICK c \in Goods : bag' = [bag EXCEPT ![s] = c]
    BY <1>2, AddSetStep
  <2> QED
    BY <1>0, <2>1, <2>2 DEF Inv
<1>3. ASSUME NEW s \in Sets, NEW t \in Sets, Copy(s, t) PROVE Inv'
  BY <1>0, <1>3 DEF Inv, Copy
<1>4. ASSUME NEW s \in Sets, NEW t \in Sets, Swap(s, t) PROVE Inv'
  BY <1>0, <1>4 DEF Inv, Swap
<1>5. ASSUME NEW s \in Sets, Clear(s) PROVE Inv'
  <2>1. <<>> \in Goods
    BY EmptyGood, Zenon DEF Good, Goods
  <2> QED
    BY <1>0, <1>5, <2>1 DEF Inv, Clear
<1>6. CASE UNCHANGED vars
  BY <1>0, <1>6 DEF Inv, vars
<1> QED
  BY <1>1, <1>2, <1>3, <1>4, <1>5, <1>6, Zenon DEF Next

\* Inv holds of every state.
THEOREM Invariance == Spec => []Inv
BY InitInv, NextInv, PTL DEF Spec

\* The vectors are of proper intervals and the answer a truth value.
THEOREM TypeCorrect == Spec => []TypeOK
<1>1. Inv => TypeOK
  <2> SUFFICES ASSUME Inv PROVE TypeOK
    OBVIOUS
  <2>1. \A s \in Sets : bag[s] \in Seq(Ivls)
    BY DEF Inv, Goods
  <2> QED
    BY <2>1 DEF Inv, TypeOK, Ivls
<1> QED
  BY <1>1, Invariance, PTL

\* Whatever was added, in whatever order, every vector is sorted with a gap
\* between two of its intervals.
THEOREM StaysCanonical == Spec => []Canonical
<1>1. Inv => Canonical
  BY DEF Inv, Goods, Good, Canonical
<1> QED
  BY <1>1, Invariance, PTL

\* has_common_, includes and compare answer for the sets of addresses.
THEOREM AnswersForSets == Spec => []QueriesAgree
<1>1. Inv => QueriesAgree
  <2> SUFFICES ASSUME Inv PROVE QueriesAgree
    OBVIOUS
  <2> SUFFICES ASSUME NEW s \in Sets, NEW t \in Sets
               PROVE  /\ HasCommon(bag[s], bag[t]) <=> Covers(bag[s]) \cap Covers(bag[t]) # {}
                      /\ SameAs(bag[s], bag[t]) <=> Covers(bag[s]) = Covers(bag[t])
                      /\ \A off \in Offs, size \in Sizes \ {0} :
                           off + size < M =>
                             (Has(bag[s], Ivl(off, size))
                                <=> Addresses(Ivl(off, size)) \subseteq Covers(bag[s]))
    BY DEF QueriesAgree
  <2>1. Good(bag[s]) /\ Good(bag[t])
    BY DEF Inv, Goods
  <2>2. HasCommon(bag[s], bag[t]) <=> Covers(bag[s]) \cap Covers(bag[t]) # {}
    BY <2>1, CommonAgrees
  <2>3. SameAs(bag[s], bag[t]) <=> Covers(bag[s]) = Covers(bag[t])
    BY <2>1, SameAgrees
  <2>4. ASSUME NEW off \in Offs, NEW size \in Sizes \ {0}, off + size < M
        PROVE  Has(bag[s], Ivl(off, size))
                 <=> Addresses(Ivl(off, size)) \subseteq Covers(bag[s])
    <3>1. off \in 0..(M - 1) /\ size \in 1..(M - 1)
      BY OffsAssumption, MAssumption
    <3> QED
      BY <2>1, <2>4, <3>1, HasAgrees
  <2> QED
    BY <2>2, <2>3, <2>4
<1> QED
  BY <1>1, Invariance, PTL

\* The objects are sets of addresses that adds make grow, and every add says
\* whether it did.
THEOREM Implements == Spec => Refines
<1> DEFINE C == [s \in Sets |-> Covers(bag[s])]
<1>1. Init => Abstract!Init
  <2>1. Covers(<<>>) = {}
    BY DEF Covers
  <2> QED
    BY <2>1 DEF Init, Abstract!Init
<1>2. Inv /\ Inv' /\ [Next]_vars => [Abstract!Next]_Abstract!cVars
  <2> SUFFICES ASSUME Inv, Inv', [Next]_vars PROVE [Abstract!Next]_Abstract!cVars
    OBVIOUS
  <2>0. bag \in [Sets -> Goods]
    BY DEF Inv
  <2>1. ASSUME NEW s \in Sets, NEW c, bag' = [bag EXCEPT ![s] = c]
        PROVE  C' = [C EXCEPT ![s] = Covers(c)]
    BY <2>0, <2>1
  <2>2. ASSUME NEW s \in Sets, NEW off \in Offs, NEW size \in Sizes, Add(s, Ivl(off, size))
        PROVE  Abstract!Next
    <3> DEFINE E == Abstract!Addresses(off, size)
    <3>1. PICK c \in Goods : /\ bag' = [bag EXCEPT ![s] = c]
                             /\ Covers(c) = Covers(bag[s]) \cup E
                             /\ ret' = ~(E \subseteq Covers(bag[s]))
      BY <2>2, AddStep
    <3>2. C' = [C EXCEPT ![s] = Covers(c)] /\ C[s] = Covers(bag[s])
      BY <2>1, <3>1
    <3>3. off \in 0..(M - 1) /\ size \in 0..(M - 1)
      BY GivenOffs
    <3>4. Abstract!Grow(s, E)
      <4> HIDE DEF E
      <4>1. C' = [C EXCEPT ![s] = C[s] \cup E] /\ ret' = ~(E \subseteq C[s])
        BY <3>1, <3>2
      <4> QED
        BY <4>1 DEF Abstract!Grow
    <3> QED
      BY <3>3, <3>4 DEF Abstract!Next
  <2>3. ASSUME NEW s \in Sets, NEW t \in Sets, AddSet(s, t) PROVE Abstract!Next
    <3>1. PICK c \in Goods : /\ bag' = [bag EXCEPT ![s] = c]
                             /\ Covers(c) = Covers(bag[s]) \cup Covers(bag[t])
                             /\ ret' = ~(Covers(bag[t]) \subseteq Covers(bag[s]))
      BY <2>3, AddSetStep
    <3>2. C' = [C EXCEPT ![s] = Covers(c)] /\ C[s] = Covers(bag[s]) /\ C[t] = Covers(bag[t])
      BY <2>1, <3>1
    <3>3. C' = [C EXCEPT ![s] = C[s] \cup C[t]] /\ ret' = ~(C[t] \subseteq C[s])
      BY <3>1, <3>2
    <3>4. Abstract!Grow(s, C[t])
      BY <3>3 DEF Abstract!Grow
    <3> QED
      BY <3>4 DEF Abstract!Next
  <2>4. ASSUME NEW s \in Sets, NEW t \in Sets, Copy(s, t) PROVE Abstract!Next
    <3>1. C' = [C EXCEPT ![s] = Covers(bag[t])] /\ C[t] = Covers(bag[t]) /\ ret' = ret
      BY <2>1, <2>4 DEF Copy
    <3>2. C' = [C EXCEPT ![s] = C[t]]
      BY <3>1
    <3>3. Abstract!Becomes(s, C[t])
      BY <3>1, <3>2 DEF Abstract!Becomes
    <3> QED
      BY <3>3 DEF Abstract!Next
  <2>5. ASSUME NEW s \in Sets, NEW t \in Sets, Swap(s, t) PROVE Abstract!Next
    <3>1. bag' = [bag EXCEPT ![s] = bag[t], ![t] = bag[s]] /\ ret' = ret
      BY <2>5 DEF Swap
    <3>2. C' = [C EXCEPT ![s] = C[t], ![t] = C[s]]
      BY <2>0, <3>1
    <3>3. Abstract!Exchange(s, t)
      BY <3>1, <3>2 DEF Abstract!Exchange
    <3> QED
      BY <3>3 DEF Abstract!Next
  <2>6. ASSUME NEW s \in Sets, Clear(s) PROVE Abstract!Next
    <3>1. Covers(<<>>) = {}
      BY DEF Covers
    <3>2. C' = [C EXCEPT ![s] = {}] /\ ret' = ret
      BY <2>1, <2>6, <3>1 DEF Clear
    <3>3. Abstract!Becomes(s, {})
      BY <3>2 DEF Abstract!Becomes
    <3> QED
      BY <3>3 DEF Abstract!Next
  <2>7. CASE UNCHANGED vars
    BY <2>7 DEF vars, Abstract!cVars
  <2> QED
    BY <2>2, <2>3, <2>4, <2>5, <2>6, <2>7, Zenon DEF Next
<1> QED
  BY <1>1, <1>2, Invariance, PTL DEF Spec, Refines, Abstract!Spec
=============================================================================
