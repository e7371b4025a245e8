---------------------------- MODULE BitsetProofs ----------------------------
(***************************************************************************)
(* Proofs about bitset_t for every word size and every set of bit numbers:   *)
(* type correctness, that no call leaves the allocation (InBounds), that     *)
(* `high` stays the end of the last word with a bit but in cleared lists      *)
(* (Trimmed), what the answers to questions say of the sets, and that the     *)
(* objects implement the sets of BitsetSpec.  The first three together are   *)
(* inductive; the two parts about `high` need each other and the types.      *)
(***************************************************************************)
EXTENDS Bitset, WellFoundedInduction, TLAPS

\* What is inductive.
Inv == TypeOK /\ InBounds /\ Trimmed

-----------------------------------------------------------------------------
(* Word arithmetic.                                                          *)

\* A number lies in the word that starts at the multiple of W below it.
LEMMA WordOf ==
  ASSUME NEW b \in Nat
  PROVE  /\ b \div W \in Nat
         /\ W * (b \div W) <= b
         /\ b < W * (b \div W) + W
  BY WAssumption

\* (a2 + 32) & 0xFFFFFFE0 is the end of the word of a2.
LEMMA AboveFacts ==
  ASSUME NEW b \in Nat
  PROVE  /\ Above(b) \in Nat
         /\ b < Above(b)
         /\ Above(b) - W <= b
         /\ Above(b) % W = 0
  BY WAssumption, WordOf DEF Above

\* Between a number and the end of its word there is no other word boundary.
LEMMA AboveLeast ==
  ASSUME NEW b \in Nat, NEW h \in Nat, b < h, h % W = 0
  PROVE  Above(b) <= h
<1> DEFINE q == h \div W
           p == b \div W
<1>1. p \in Nat /\ q \in Nat /\ W \in Nat /\ W > 0
  BY WAssumption, WordOf
<1>2. h = W * q
  BY WAssumption
<1>3. W * p <= b
  BY WordOf
<1>4. p < q
  <2> HIDE DEF p, q
  <2>1. W * p < W * q
    BY <1>1, <1>2, <1>3
  <2> QED
    BY <1>1, <2>1
<1>5. W * (p + 1) <= W * q
  <2> HIDE DEF p, q
  <2> QED
    BY <1>1, <1>4
<1> QED
  BY <1>2, <1>5 DEF Above

\* A boundary less than a word above a number is at most the end of its word.
LEMMA BoundaryBelow ==
  ASSUME NEW b \in Nat, NEW h \in Nat, h - W <= b, h % W = 0
  PROVE  h <= Above(b)
<1> DEFINE q == h \div W
           p == b \div W
<1>1. p \in Nat /\ q \in Nat /\ W \in Nat /\ W > 0
  BY WAssumption, WordOf
<1>2. h = W * q
  BY WAssumption
<1>3. b < W * p + W
  BY WordOf
<1>4. q <= p + 1
  <2> HIDE DEF p, q
  <2>1. W * q < W * (p + 2)
    BY <1>1, <1>2, <1>3
  <2> QED
    BY <1>1, <2>1
<1>5. W * q <= W * (p + 1)
  <2> HIDE DEF p, q
  <2> QED
    BY <1>1, <1>4
<1> QED
  BY <1>2, <1>5 DEF Above

-----------------------------------------------------------------------------
(* Trimming.                                                                 *)

\* A set of numbers with something in it and a bound above it has a greatest
\* member: the distances to the bound have a least one.
LEMMA MaxOfFacts ==
  ASSUME NEW S, S \subseteq Nat, S # {}, NEW h \in Nat, \A i \in S : i < h
  PROVE  MaxOf(S) \in S /\ \A i \in S : i <= MaxOf(S)
<1> DEFINE T == {h - i : i \in S}
<1>1. T \subseteq Nat /\ T # {}
  <2>1. \A i \in S : h - i \in Nat
    OBVIOUS
  <2>2. PICK i \in S : TRUE
    OBVIOUS
  <2>3. h - i \in T
    OBVIOUS
  <2>4. T \subseteq Nat
    BY <2>1, Zenon
  <2> QED
    BY <2>3, <2>4
<1>2. PICK x \in T : \A y \in T : ~(<<y, x>> \in OpToRel(<, Nat))
  <2> HIDE DEF T
  <2> QED
    BY <1>1, NatLessThanWellFounded, WFMin
<1>3. PICK m \in S : x = h - m
  OBVIOUS
<1>4. \A i \in S : i <= m
  <2> SUFFICES ASSUME NEW i \in S, ~(i <= m) PROVE FALSE
    OBVIOUS
  <2>1. h - i \in T /\ h - i \in Nat /\ x \in Nat /\ h - i < x
    BY <1>3
  <2> QED
    BY <2>1, <1>2 DEF OpToRel
<1> QED
  BY <1>4 DEF MaxOf

\* sub_17195690 leaves a word boundary no higher than `high` was, all the bits
\* below it, and one of them in the last word.
LEMMA TrimFacts ==
  ASSUME NEW live, live \subseteq Nat, NEW h \in Nat, h % W = 0, \A i \in live : i < h
  PROVE  /\ Trim(live) \in Nat
         /\ Trim(live) <= h
         /\ Trim(live) % W = 0
         /\ Trim(live) = 0 \/ \E i \in live : Trim(live) - W <= i /\ i < Trim(live)
<1>1. CASE live = {}
  BY <1>1, WAssumption DEF Trim
<1>2. CASE live # {}
  <2> DEFINE m == MaxOf(live)
  <2>1. m \in live /\ m \in Nat /\ m < h
    BY <1>2, MaxOfFacts
  <2>2. Trim(live) = Above(m)
    BY <1>2 DEF Trim
  <2> HIDE DEF m
  <2> QED
    BY <2>1, <2>2, AboveFacts, AboveLeast
<1> QED
  BY <1>1, <1>2

-----------------------------------------------------------------------------
(* What the calls do to one object.                                          *)

\* Whether an object counts as cleared changes for s alone.
ClearedBut(s) ==
  cleared' \subseteq Objects /\ \A t \in Objects : t # s => (t \in cleared' <=> t \in cleared)

\* A deletion from s, and words of t taken over by s, leave the others alone.
LEMMA ClearedIs ==
  ASSUME Inv, NEW s \in Objects
  PROVE  /\ Trims(s) => ClearedBut(s) /\ (~ret' => cleared' = cleared)
         /\ UNCHANGED cleared => ClearedBut(s)
         /\ cleared' = cleared \cup {s} => ClearedBut(s)
         /\ cleared' = cleared \ {s} => ClearedBut(s)
         /\ \A t \in Objects : TakesSome(s, t) =>
              /\ ClearedBut(s) /\ cleared \subseteq cleared'
              /\ s \notin cleared' => s \notin cleared /\ t \notin cleared
         /\ \A t \in Objects : TakesAll(s, t) =>
              ClearedBut(s) /\ (s \notin cleared' => s = t \/ t \notin cleared)
  BY DEF Inv, TypeOK, ClearedBut, Trims, TakesSome, TakesAll

\* Writing one object keeps the invariant if what is written satisfies it.
LEMMA StoreKeeps ==
  ASSUME Inv, NEW s \in Objects, NEW h \in Nat, NEW b, NEW a \in Nat,
         b \subseteq Nat, h <= a, \A i \in b : i < a, h % W = 0,
         s \in Lists \ cleared' => h = 0 \/ \E i \in b : h - W <= i /\ i < h,
         Store(s, h, b, a), ret' \in BOOLEAN, ClearedBut(s)
  PROVE  Inv'
<1> USE DEF Inv, Store
<1>1. TypeOK'
  BY DEF TypeOK, ClearedBut
<1>2. \A t \in Objects : /\ high'[t] = IF t = s THEN h ELSE high[t]
                         /\ bitmap'[t] = IF t = s THEN b ELSE bitmap[t]
                         /\ alloc'[t] = IF t = s THEN a ELSE alloc[t]
  <2>1. /\ high' = [high EXCEPT ![s] = h] /\ DOMAIN high = Objects
        /\ bitmap' = [bitmap EXCEPT ![s] = b] /\ DOMAIN bitmap = Objects
        /\ alloc' = [alloc EXCEPT ![s] = a] /\ DOMAIN alloc = Objects
    BY DEF TypeOK
  <2> SUFFICES ASSUME NEW t \in Objects
               PROVE  /\ high'[t] = IF t = s THEN h ELSE high[t]
                      /\ bitmap'[t] = IF t = s THEN b ELSE bitmap[t]
                      /\ alloc'[t] = IF t = s THEN a ELSE alloc[t]
    OBVIOUS
  <2> HIDE DEF Inv, Store
  <2>2. high'[t] = IF t = s THEN h ELSE high[t]
    BY <2>1, Zenon
  <2>3. bitmap'[t] = IF t = s THEN b ELSE bitmap[t]
    BY <2>1, Zenon
  <2>4. alloc'[t] = IF t = s THEN a ELSE alloc[t]
    BY <2>1, Zenon
  <2> QED
    BY <2>2, <2>3, <2>4
<1>3. InBounds'
  <2> SUFFICES ASSUME NEW t \in Objects
               PROVE  high'[t] <= alloc'[t] /\ \A i \in bitmap'[t] : i < alloc'[t]
    BY DEF InBounds
  <2>1. CASE t = s
    BY <1>2, <2>1
  <2>2. CASE t # s
    <3>1. high'[t] = high[t] /\ bitmap'[t] = bitmap[t] /\ alloc'[t] = alloc[t]
      BY <1>2, <2>2
    <3> QED
      BY <3>1 DEF InBounds
  <2> QED
    BY <2>1, <2>2
<1>4. Trimmed'
  <2>1. \A t \in Objects : high'[t] % W = 0
    BY <1>2 DEF Trimmed
  <2>2. ASSUME NEW t \in Lists \ cleared' PROVE HighIsMinimal(t)'
    <3>1. t # s => HighIsMinimal(t)
      BY DEF Trimmed, ClearedBut, Objects
    <3> QED
      BY <1>2, <3>1 DEF HighIsMinimal, Objects
  <2> QED
    BY <2>1, <2>2 DEF Trimmed
<1> QED
  BY <1>1, <1>3, <1>4

\* After resize(bit) there is a live word for bit inside the allocation; the
\* object is otherwise what it was, or its `high` is the end of that word.
LEMMA ResizeFacts ==
  ASSUME Inv, NEW s \in Objects, NEW bit \in Nat
  PROVE  /\ ResizedHigh(s, bit) \in Nat /\ ResizedAlloc(s, bit) \in Nat
         /\ ResizedBits(s, bit) \subseteq Nat
         /\ bit < ResizedHigh(s, bit) /\ ResizedHigh(s, bit) <= ResizedAlloc(s, bit)
         /\ \A i \in ResizedBits(s, bit) : i < ResizedAlloc(s, bit)
         /\ ResizedHigh(s, bit) % W = 0
         /\ \/ ResizedHigh(s, bit) = Above(bit)
            \/ /\ ResizedHigh(s, bit) = high[s]
               /\ ResizedBits(s, bit) = bitmap[s]
<1>1. high[s] \in Nat /\ alloc[s] \in Nat /\ bitmap[s] \subseteq Nat
      /\ high[s] <= alloc[s] /\ high[s] % W = 0 /\ \A i \in bitmap[s] : i < alloc[s]
  BY DEF Inv, TypeOK, InBounds, Trimmed
<1>2. CASE bit >= high[s]
  BY <1>1, <1>2, AboveFacts DEF ResizedHigh, ResizedBits, ResizedAlloc, Elems
<1>3. CASE ~(bit >= high[s])
  BY <1>1, <1>3 DEF ResizedHigh, ResizedBits, ResizedAlloc
<1> QED
  BY <1>2, <1>3

\* A call that resizes for bit and then sets bits up to it, one of them in the
\* word of bit.
LEMMA GrowthKeeps ==
  ASSUME Inv, NEW s \in Objects, NEW bit \in Nat, NEW E, E \subseteq 0..bit,
         s \in Lists \ cleared' => s \notin cleared /\ \E i \in E : Above(bit) - W <= i,
         Store(s, ResizedHigh(s, bit), ResizedBits(s, bit) \cup E, ResizedAlloc(s, bit)),
         ret' \in BOOLEAN, ClearedBut(s)
  PROVE  Inv'
<1> DEFINE h == ResizedHigh(s, bit)
           b == ResizedBits(s, bit)
           a == ResizedAlloc(s, bit)
<1>1. /\ h \in Nat /\ a \in Nat /\ b \subseteq Nat /\ bit < h /\ h <= a
      /\ \A i \in b : i < a
      /\ h % W = 0
      /\ h = Above(bit) \/ (h = high[s] /\ b = bitmap[s])
  BY ResizeFacts
<1>2. Store(s, h, b \cup E, a)
  OBVIOUS
<1> HIDE DEF h, b, a
<1>3. E \subseteq Nat /\ \A i \in E : i \in Nat /\ i < h
  BY <1>1
<1>4. ASSUME s \in Lists \ cleared' PROVE h = 0 \/ \E i \in b \cup E : h - W <= i /\ i < h
  <2>1. HighIsMinimal(s)
    BY <1>4 DEF Inv, Trimmed
  <2>2. CASE h = Above(bit)
    BY <1>3, <1>4, <2>2
  <2>3. CASE h = high[s] /\ b = bitmap[s]
    BY <2>1, <2>3 DEF HighIsMinimal
  <2> QED
    BY <1>1, <2>2, <2>3
<1>5. b \cup E \subseteq Nat /\ \A i \in b \cup E : i < a
  BY <1>1, <1>3
<1> QED
  BY <1>1, <1>2, <1>4, <1>5, StoreKeeps

\* A call that leaves memory b with no bit outside the allocation and trims
\* `high` from h down.
LEMMA TrimKeeps ==
  ASSUME Inv, NEW s \in Objects, NEW h \in Nat, NEW b, b \subseteq bitmap[s],
         h <= high[s], h % W = 0, StoreTrimmed(s, h, b), ret' \in BOOLEAN, ClearedBut(s)
  PROVE  Inv'
<1> DEFINE live == {i \in b : i < h}
<1>1. /\ high[s] \in Nat /\ alloc[s] \in Nat /\ b \subseteq Nat
      /\ high[s] <= alloc[s] /\ \A i \in b : i < alloc[s]
  BY DEF Inv, TypeOK, InBounds
<1>2. /\ Trim(live) \in Nat /\ Trim(live) <= h /\ Trim(live) % W = 0
      /\ Trim(live) = 0 \/ \E i \in live : Trim(live) - W <= i /\ i < Trim(live)
  <2>1. live \subseteq Nat /\ \A i \in live : i < h
    BY <1>1
  <2> HIDE DEF live
  <2> QED
    BY <2>1, TrimFacts
<1>3. Store(s, Trim(live), b, alloc[s])
  BY DEF StoreTrimmed
<1>4. Trim(live) = 0 \/ \E i \in b : Trim(live) - W <= i /\ i < Trim(live)
  BY <1>2
<1>5. Trim(live) <= alloc[s]
  BY <1>1, <1>2
<1> HIDE DEF live
<1> QED
  BY <1>1, <1>2, <1>3, <1>4, <1>5, StoreKeeps

\* Nothing but the answer changes, and no object counts as trimmed for it.
LEMMA AnswerKeeps ==
  ASSUME Inv, UNCHANGED <<high, bitmap, alloc>>, ret' \in BOOLEAN,
         cleared \subseteq cleared', cleared' \subseteq Objects
  PROVE  Inv'
  BY DEF Inv, TypeOK, InBounds, Trimmed, HighIsMinimal

-----------------------------------------------------------------------------
(* Each call keeps the invariant.                                            *)

\* One bit, with the words it takes.
LEMMA AddKeeps ==
  ASSUME Inv, NEW s \in Objects, NEW bit \in Nat, Add(s, bit), UNCHANGED cleared
  PROVE  Inv'
<1>1. {bit} \subseteq 0..bit /\ \E i \in {bit} : Above(bit) - W <= i
  BY AboveFacts
<1>2. ret' \in BOOLEAN
  BY DEF Add
<1>3. ClearedBut(s) /\ (s \notin cleared' => s \notin cleared)
  BY ClearedIs
<1>4. Store(s, ResizedHigh(s, bit), ResizedBits(s, bit) \cup {bit}, ResizedAlloc(s, bit))
  BY Zenon DEF Add
<1> DEFINE E == {bit}
<1>5. E \subseteq 0..bit /\ \E i \in E : Above(bit) - W <= i
  BY <1>1
<1>6. Store(s, ResizedHigh(s, bit), ResizedBits(s, bit) \cup E, ResizedAlloc(s, bit))
  BY <1>4
<1> HIDE DEF E
<1> QED
  BY <1>2, <1>3, <1>5, <1>6, GrowthKeeps

\* A range of bits.
LEMMA AddRangeKeeps ==
  ASSUME Inv, NEW s \in Objects, NEW bit \in Nat, NEW width \in Nat,
         AddRange(s, bit, width), UNCHANGED cleared
  PROVE  Inv'
<1>1. CASE width = 0
  BY <1>1, AnswerKeeps DEF AddRange, Inv, TypeOK
<1>2. CASE width # 0
  <2> DEFINE last == bit + width - 1
  <2>1. last \in Nat /\ Span(bit, width) \subseteq 0..last /\ last \in Span(bit, width)
    BY <1>2 DEF Span
  <2>2. \E i \in Span(bit, width) : Above(last) - W <= i
    BY <2>1, AboveFacts
  <2>3. ret' \in BOOLEAN
    BY <1>2 DEF AddRange
  <2>4. Store(s, ResizedHigh(s, last), ResizedBits(s, last) \cup Span(bit, width),
              ResizedAlloc(s, last))
    BY <1>2 DEF AddRange
  <2> HIDE DEF last
  <2> QED
    BY <2>1, <2>2, <2>3, <2>4, ClearedIs, GrowthKeeps
<1> QED
  BY <1>1, <1>2

\* The live words of a list that was not cleared end with one that holds a bit, so
\* add__ ends with one.
LEMMA AddAllKeeps ==
  ASSUME Inv, NEW s \in Objects, NEW t \in Lists, AddAll(s, t), TakesSome(s, t)
  PROVE  Inv'
<1>1. t \in Objects /\ high[t] \in Nat /\ bitmap[t] \subseteq Nat /\ high[t] % W = 0
  BY DEF Inv, TypeOK, Trimmed, Objects
<1>4. /\ ClearedBut(s) /\ cleared \subseteq cleared' /\ cleared' \subseteq Objects
      /\ s \notin cleared' => s \notin cleared /\ t \notin cleared
  BY <1>1, ClearedIs DEF ClearedBut
<1>2. CASE high[t] = 0
  BY <1>2, <1>4, AnswerKeeps DEF AddAll
<1>3. CASE high[t] # 0
  <2> DEFINE top == high[t] - 1
  <2>1. top \in Nat
    BY <1>1, <1>3
  <2>2. Elems(t) \subseteq 0..top
    BY <1>1 DEF Elems
  <2>5. Above(top) <= high[t]
    BY <1>1, <2>1, AboveLeast
  <2>6. ASSUME s \in Lists \ cleared'
        PROVE  s \notin cleared /\ \E i \in Elems(t) : Above(top) - W <= i
    <3>1. PICK i \in bitmap[t] : high[t] - W <= i /\ i < high[t]
      BY <1>3, <1>4, <2>6 DEF Inv, Trimmed, HighIsMinimal
    <3>2. i \in Elems(t)
      BY <3>1 DEF Elems
    <3>3. Above(top) - W <= i
      BY <1>1, <2>1, <3>1, <2>5, AboveFacts, WAssumption
    <3> QED
      BY <1>4, <2>6, <3>2, <3>3
  <2>7. ret' \in BOOLEAN
    BY <1>3 DEF AddAll
  <2>8. Store(s, ResizedHigh(s, top), ResizedBits(s, top) \cup Elems(t), ResizedAlloc(s, top))
    BY <1>3 DEF AddAll
  <2> HIDE DEF top
  <2> QED
    BY <1>4, <2>1, <2>2, <2>6, <2>7, <2>8, GrowthKeeps
<1> QED
  BY <1>2, <1>3

\* All bits of a width.
LEMMA FillWithOnesKeeps ==
  ASSUME Inv, NEW s \in Objects, NEW maxbit \in Nat, FillWithOnes(s, maxbit), UNCHANGED cleared
  PROVE  Inv'
<1>1. \E i \in 0..maxbit : Above(maxbit) - W <= i
  BY AboveFacts
<1>2. ret' \in BOOLEAN
  BY DEF FillWithOnes, Inv, TypeOK
<1>3. 0..maxbit \subseteq 0..maxbit
  OBVIOUS
<1> QED
  BY <1>1, <1>2, <1>3, ClearedIs, GrowthKeeps DEF FillWithOnes

\* An object's length, as TrimKeeps asks for it.
LEMMA HighFacts ==
  ASSUME Inv, NEW s \in Objects
  PROVE  high[s] \in Nat /\ high[s] <= high[s] /\ high[s] % W = 0
  BY DEF Inv, TypeOK, Trimmed

\* One bit taken away.
LEMMA SubKeeps ==
  ASSUME Inv, NEW s \in Objects, NEW bit \in Nat, Sub(s, bit), Trims(s)
  PROVE  Inv'
<1>1. ret' \in BOOLEAN
  BY DEF Sub
<1>9. /\ ClearedBut(s) /\ (~ret' => cleared' = cleared) /\ cleared \subseteq Objects
  BY ClearedIs DEF Inv, TypeOK
<1>2. CASE bit \in Elems(s)
  <2>1. StoreTrimmed(s, high[s], bitmap[s] \ {bit})
    BY <1>2 DEF Sub
  <2>2. bitmap[s] \ {bit} \subseteq bitmap[s]
    OBVIOUS
  <2> QED
    BY <1>1, <1>9, <2>1, <2>2, HighFacts, TrimKeeps
<1>3. CASE bit \notin Elems(s)
  BY <1>1, <1>3, <1>9, AnswerKeeps DEF Sub
<1> QED
  BY <1>2, <1>3

\* The end of the word maxbit falls in is not above `high`.
LEMMA CutAtKeeps ==
  ASSUME Inv, NEW s \in Objects, NEW maxbit \in Nat, CutAt(s, maxbit), Trims(s)
  PROVE  Inv'
<1> DEFINE h == IF maxbit % W = 0 THEN maxbit ELSE Above(maxbit)
           masked == {i \in bitmap[s] : i < maxbit \/ i >= h}
<1>1. ret' \in BOOLEAN
  BY DEF CutAt
<1>9. /\ ClearedBut(s) /\ (~ret' => cleared' = cleared) /\ cleared \subseteq Objects
  BY ClearedIs DEF Inv, TypeOK
<1>2. CASE maxbit >= high[s]
  BY <1>1, <1>2, <1>9, AnswerKeeps DEF CutAt
<1>3. CASE ~(maxbit >= high[s])
  <2>1. h \in Nat /\ h <= high[s] /\ h % W = 0
    BY <1>3, HighFacts, AboveFacts, AboveLeast
  <2>2. masked \subseteq bitmap[s]
    OBVIOUS
  <2>3. StoreTrimmed(s, h, masked)
    BY <1>3 DEF CutAt
  <2> HIDE DEF h, masked
  <2> QED
    BY <1>1, <1>9, <2>1, <2>2, <2>3, TrimKeeps
<1> QED
  BY <1>2, <1>3

\* A range taken away.
LEMMA SubRangeKeeps ==
  ASSUME Inv, NEW s \in Objects, NEW bit \in Nat, NEW width \in Nat,
         SubRange(s, bit, width), Trims(s)
  PROVE  Inv'
<1> DEFINE hit == Span(bit, width) \cap Elems(s)
<1>9. /\ ClearedBut(s) /\ (~ret' => cleared' = cleared) /\ cleared \subseteq Objects
  BY ClearedIs DEF Inv, TypeOK
<1>1. CASE bit + width >= high[s]
  BY <1>1, CutAtKeeps DEF SubRange
<1>2. CASE ~(bit + width >= high[s])
  <2>1. ret' \in BOOLEAN
    BY <1>2 DEF SubRange
  <2>2. CASE hit # {}
    <3>1. StoreTrimmed(s, high[s], bitmap[s] \ hit)
      BY <1>2, <2>2 DEF SubRange
    <3>2. bitmap[s] \ hit \subseteq bitmap[s]
      OBVIOUS
    <3> HIDE DEF hit
    <3> QED
      BY <1>9, <2>1, <3>1, <3>2, HighFacts, TrimKeeps
  <2>3. CASE hit = {}
    BY <1>2, <1>9, <2>1, <2>3, AnswerKeeps DEF SubRange
  <2> QED
    BY <2>2, <2>3
<1> QED
  BY <1>1, <1>2

\* Another list taken away.
LEMMA SubAllKeeps ==
  ASSUME Inv, NEW s \in Objects, NEW t \in Objects, SubAll(s, t), Trims(s)
  PROVE  Inv'
<1> DEFINE kept == bitmap[s] \ {i \in bitmap[s] \cap bitmap[t] : i < MinHigh(s, t)}
<1>1. ret' \in BOOLEAN
  BY DEF SubAll
<1>9. /\ ClearedBut(s) /\ (~ret' => cleared' = cleared) /\ cleared \subseteq Objects
  BY ClearedIs DEF Inv, TypeOK
<1>2. CASE MinHigh(s, t) = 0
  BY <1>1, <1>2, <1>9, AnswerKeeps DEF SubAll
<1>3. CASE MinHigh(s, t) # 0
  <2>1. StoreTrimmed(s, high[s], kept)
    BY <1>3 DEF SubAll, StoreTrimmed
  <2>2. kept \subseteq bitmap[s]
    OBVIOUS
  <2> HIDE DEF kept
  <2> QED
    BY <1>1, <1>9, <2>1, <2>2, HighFacts, TrimKeeps
<1> QED
  BY <1>2, <1>3

\* All but what another list has taken away.
LEMMA IntersectKeeps ==
  ASSUME Inv, NEW s \in Objects, NEW t \in Objects, Intersect(s, t), cleared' = cleared \ {s}
  PROVE  Inv'
<1> DEFINE kept == bitmap[s] \ {i \in bitmap[s] : i < MinHigh(s, t) /\ i \notin bitmap[t]}
<1>1. ret' \in BOOLEAN
  BY DEF Intersect
<1>2. StoreTrimmed(s, MinHigh(s, t), kept)
  BY DEF Intersect
<1>3. kept \subseteq bitmap[s]
  OBVIOUS
<1>4. MinHigh(s, t) \in Nat /\ MinHigh(s, t) <= high[s] /\ MinHigh(s, t) % W = 0
  BY HighFacts DEF MinHigh
<1> HIDE DEF kept
<1> QED
  BY <1>1, <1>2, <1>3, <1>4, ClearedIs, TrimKeeps

\* copy takes over the other's `high`, and with it the bit in its last word.
LEMMA CopyKeeps ==
  ASSUME Inv, NEW s \in Lists, NEW t \in Lists, Copy(s, t), TakesAll(s, t)
  PROVE  Inv'
<1> DEFINE b == {i \in ResizedBits(s, high[t]) : i >= high[t]} \cup Elems(t)
           a == ResizedAlloc(s, high[t])
<1>1. ret' \in BOOLEAN
  BY DEF Copy, Inv, TypeOK
<1>2. s \in Objects /\ t \in Objects
  BY DEF Objects
<1>3. /\ high[t] \in Nat /\ high[t] % W = 0 /\ bitmap[t] \subseteq Nat
      /\ alloc[s] \in Nat /\ bitmap[s] \subseteq Nat /\ \A i \in bitmap[s] : i < alloc[s]
  BY <1>2 DEF Inv, TypeOK, Trimmed, InBounds
<1>9. /\ ClearedBut(s) /\ cleared' \subseteq Objects
      /\ s \notin cleared' => s = t \/ t \notin cleared
      /\ s = t => cleared \subseteq cleared'
  BY ClearedIs DEF Objects, ClearedBut, TakesAll
<1>4. CASE s = t
  BY <1>1, <1>4, <1>9, AnswerKeeps DEF Copy
<1>5. CASE s # t /\ high[t] = 0
  <2>1. Store(s, 0, bitmap[s], alloc[s])
    BY <1>2, <1>5 DEF Copy, Store, Inv, TypeOK
  <2>2. 0 % W = 0
    BY <1>3, <1>5
  <2> QED
    BY <1>1, <1>2, <1>3, <1>9, <2>1, <2>2, StoreKeeps
<1>6. CASE s # t /\ high[t] # 0
  <2>1. Store(s, high[t], b, a)
    BY <1>6 DEF Copy
  <2>2. ASSUME s \in Lists \ cleared' PROVE \E i \in b : high[t] - W <= i /\ i < high[t]
    <3>1. PICK i \in bitmap[t] : high[t] - W <= i /\ i < high[t]
      BY <1>6, <1>9, <2>2 DEF Inv, Trimmed, HighIsMinimal
    <3>2. i \in b
      BY <3>1 DEF Elems
    <3> QED
      BY <3>1, <3>2
  <2>4. a \in Nat /\ high[t] <= a /\ b \subseteq Nat /\ \A k \in b : k < a
    <3>1. /\ a \in Nat /\ high[t] < ResizedHigh(s, high[t])
          /\ ResizedHigh(s, high[t]) \in Nat /\ ResizedHigh(s, high[t]) <= a
          /\ ResizedBits(s, high[t]) \subseteq Nat
          /\ \A k \in ResizedBits(s, high[t]) : k < a
      BY <1>2, <1>3, ResizeFacts
    <3>2. \A k \in Elems(t) : k \in Nat /\ k < high[t]
      BY <1>3 DEF Elems
    <3> HIDE DEF a
    <3> QED
      BY <1>3, <3>1, <3>2
  <2> HIDE DEF a, b
  <2> QED
    BY <1>1, <1>2, <1>3, <1>9, <2>1, <2>2, <2>4, StoreKeeps
<1> QED
  BY <1>4, <1>5, <1>6

\* A copy of another object.
LEMMA CopyConstructKeeps ==
  ASSUME Inv, NEW s \in Lists, NEW t \in Lists, CopyConstruct(s, t), TakesAll(s, t)
  PROVE  Inv'
<1> DEFINE a == IF high[t] = 0 THEN 0 ELSE Above(high[t])
<1>1. ret' \in BOOLEAN /\ s \in Objects /\ t \in Objects
  BY DEF CopyConstruct, Inv, TypeOK, Objects
<1>2. high[t] \in Nat /\ high[t] % W = 0 /\ bitmap[t] \subseteq Nat
  BY <1>1 DEF Inv, TypeOK, Trimmed
<1>3. Elems(t) \subseteq Nat /\ \A i \in Elems(t) : i < high[t]
  BY <1>2 DEF Elems
<1>4. a \in Nat /\ high[t] <= a
  BY <1>2, AboveFacts
<1>8. s # t
  BY DEF CopyConstruct
<1>9. /\ ClearedBut(s) /\ cleared' \subseteq Objects
      /\ s \notin cleared' => s = t \/ t \notin cleared
      /\ s = t => cleared \subseteq cleared'
  BY ClearedIs DEF Objects, ClearedBut, TakesAll
<1>5. s \in Lists \ cleared' => high[t] = 0 \/ \E i \in Elems(t) : high[t] - W <= i /\ i < high[t]
  BY <1>8, <1>9 DEF Inv, Trimmed, HighIsMinimal, Elems
<1>6. Store(s, high[t], Elems(t), a)
  BY DEF CopyConstruct
<1>7. \A i \in Elems(t) : i < a
  BY <1>2, <1>3, <1>4
<1> HIDE DEF a
<1> QED
  BY <1>1, <1>2, <1>3, <1>4, <1>5, <1>6, <1>7, <1>9, StoreKeeps

\* Two objects change places.
LEMMA SwapKeeps ==
  ASSUME Inv, NEW s \in Lists, NEW t \in Lists, Swap(s, t), TradesWith(s, t)
  PROVE  Inv'
<1>1. s \in Objects /\ t \in Objects
  BY DEF Objects
<1>2. TypeOK'
  BY <1>1 DEF Inv, TypeOK, Swap, TradesWith
<1>3. \A u \in Objects :
        LET w == IF u = t THEN s ELSE IF u = s THEN t ELSE u
        IN high'[u] = high[w] /\ bitmap'[u] = bitmap[w] /\ alloc'[u] = alloc[w]
  BY <1>1 DEF Inv, TypeOK, Swap
<1>4. InBounds'
  BY <1>1, <1>3 DEF Inv, InBounds
<1>5. \A u \in Objects : high'[u] % W = 0
  BY <1>1, <1>3 DEF Inv, Trimmed
<1>6. ASSUME NEW u \in Lists \ cleared' PROVE HighIsMinimal(u)'
  <2>1. u \in Objects /\ HighIsMinimal(IF u = t THEN s ELSE IF u = s THEN t ELSE u)
    BY <1>1 DEF Inv, Trimmed, Objects, TradesWith
  <2> QED
    BY <1>3, <2>1 DEF HighIsMinimal
<1> QED
  BY <1>2, <1>4, <1>5, <1>6 DEF Inv, Trimmed

\* Words for a width.
LEMMA ResizeKeeps ==
  ASSUME Inv, NEW p \in Pools, NEW bit \in Nat, Resize(p, bit), UNCHANGED cleared
  PROVE  Inv'
<1>1. p \in Objects /\ p \notin Lists
  BY UsesAssumption DEF Objects
<1>2. ret' \in BOOLEAN
  BY DEF Resize, Inv, TypeOK
<1> QED
  BY <1>1, <1>2, ResizeFacts, ClearedIs, StoreKeeps DEF Resize

\* clear would not keep a list trimmed: it counts as cleared from then on.
LEMMA ClearKeeps ==
  ASSUME Inv, NEW p \in Objects, Clear(p), cleared' = cleared \cup {p}
  PROVE  Inv'
<1> DEFINE b == {i \in bitmap[p] : i >= high[p]}
<1>1. ClearedBut(p) /\ p \in cleared'
  BY ClearedIs
<1>2. /\ ret' \in BOOLEAN /\ high[p] \in Nat /\ alloc[p] \in Nat /\ high[p] <= alloc[p]
      /\ high[p] % W = 0 /\ b \subseteq Nat /\ \A i \in b : i < alloc[p]
  BY <1>1 DEF Clear, Inv, TypeOK, Trimmed, InBounds
<1>3. Store(p, high[p], b, alloc[p])
  BY <1>1 DEF Clear, Store, Inv, TypeOK
<1> HIDE DEF b
<1> QED
  BY <1>1, <1>2, <1>3, StoreKeeps

-----------------------------------------------------------------------------
(* The invariant and what follows from it.                                   *)

\* The objects begin empty.
LEMMA InitEstablishes == Init => Inv
<1> SUFFICES ASSUME Init PROVE Inv
  OBVIOUS
<1>1. 0 % W = 0
  BY WAssumption
<1>2. {} \subseteq Nat /\ \A i \in {} : i < 0
  OBVIOUS
<1>3. TypeOK
  BY <1>2 DEF Init, TypeOK
<1>4. \A s \in Objects : high[s] = 0 /\ bitmap[s] = {} /\ alloc[s] = 0
  BY DEF Init
<1>5. InBounds
  BY <1>2, <1>4 DEF InBounds
<1>6. Trimmed
  BY <1>1, <1>4 DEF Trimmed, HighIsMinimal, Objects
<1> QED
  BY <1>3, <1>5, <1>6 DEF Inv

\* Every call keeps the invariant.
LEMMA NextKeeps == Inv /\ [Next]_vars => Inv'
<1> SUFFICES ASSUME Inv, [Next]_vars PROVE Inv'
  OBVIOUS
<1>1. ASSUME NEW s \in Lists, NEW bit \in Bits,
             \/ (Add(s, bit) \/ FillWithOnes(s, bit)) /\ UNCHANGED cleared
             \/ (Sub(s, bit) \/ CutAt(s, bit)) /\ Trims(s)
      PROVE  Inv'
  <2>1. s \in Objects /\ bit \in Nat
    BY BitsAssumption DEF Objects
  <2> QED
    BY <1>1, <2>1, AddKeeps, SubKeeps, CutAtKeeps, FillWithOnesKeeps
<1>2. ASSUME NEW s \in Lists, NEW bit \in Bits, NEW width \in Widths,
             \/ AddRange(s, bit, width) /\ UNCHANGED cleared
             \/ SubRange(s, bit, width) /\ Trims(s)
      PROVE  Inv'
  <2>1. s \in Objects /\ bit \in Nat /\ width \in Nat
    BY BitsAssumption DEF Objects
  <2> QED
    BY <1>2, <2>1, AddRangeKeeps, SubRangeKeeps
<1>3. ASSUME NEW s \in Lists, NEW t \in Lists,
             \/ AddAll(s, t) /\ TakesSome(s, t)
             \/ SubAll(s, t) /\ Trims(s)
             \/ Intersect(s, t) /\ cleared' = cleared \ {s}
             \/ (Copy(s, t) \/ CopyConstruct(s, t)) /\ TakesAll(s, t)
             \/ Swap(s, t) /\ TradesWith(s, t)
      PROVE  Inv'
  <2>1. s \in Objects /\ t \in Objects
    BY DEF Objects
  <2> QED
    BY <1>3, <2>1, AddAllKeeps, SubAllKeeps, IntersectKeeps, CopyKeeps,
       CopyConstructKeeps, SwapKeeps
<1>4. ASSUME NEW p \in Pools, NEW bit \in Bits,
             (Resize(p, bit) \/ Add(p, bit)) /\ UNCHANGED cleared
      PROVE  Inv'
  <2>1. p \in Objects /\ bit \in Nat
    BY BitsAssumption DEF Objects
  <2> QED
    BY <1>4, <2>1, ResizeKeeps, AddKeeps
<1>5. ASSUME NEW p \in Objects, Clear(p) /\ cleared' = cleared \cup {p} PROVE Inv'
  BY <1>5, ClearKeeps
<1>6. CASE UNCHANGED vars
  <2>1. ret' \in BOOLEAN /\ cleared' = cleared /\ cleared \subseteq Objects
    BY <1>6 DEF vars, Inv, TypeOK
  <2> QED
    BY <1>6, <2>1, AnswerKeeps DEF vars
<1> QED
  BY <1>1, <1>2, <1>3, <1>4, <1>5, <1>6 DEF Next, ListNext, PoolNext, Objects

\* Whatever calls are made on lists and pools, `high`, the memory and the
\* capacity stay what their types in bitset_t say.
THEOREM TypeCorrect == Spec => []TypeOK
<1>1. Inv => TypeOK
  BY DEF Inv
<1> QED
  BY InitEstablishes, NextKeeps, <1>1, PTL DEF Spec

\* No call of bitset_t leaves a bit outside the allocation or a live word
\* beyond it: not the or loop of add__, not the memcpy of copy, not the fills.
THEOREM NeverOutOfBounds == Spec => []InBounds
<1>1. Inv => InBounds
  BY DEF Inv
<1> QED
  BY InitEstablishes, NextKeeps, <1>1, PTL DEF Spec

\* After any calls the last live word of a register list holds a bit, unless the
\* list or one it took words from was cleared: every deletion trims as far as it
\* must, also a list that was cleared, and no growth leaves zero words on top.
THEOREM AlwaysTrimmed == Spec => []Trimmed
<1>1. Inv => Trimmed
  BY DEF Inv
<1> QED
  BY InitEstablishes, NextKeeps, <1>1, PTL DEF Spec

\* The last word of a list that was not cleared holds a bit.
LEMMA HighestBit ==
  ASSUME Inv, NEW s \in Lists
  PROVE  /\ high[s] \in Nat /\ bitmap[s] \subseteq Nat
         /\ s \notin cleared /\ high[s] # 0 => \E i \in Elems(s) : high[s] - W <= i
  BY DEF Inv, TypeOK, Trimmed, HighIsMinimal, Elems, Objects

\* Two lists of which one has a bit in its last word and the other has that
\* bit too: the other is at least as long.
LEMMA LongerHasMore ==
  ASSUME Inv, NEW s \in Lists \ cleared, NEW t \in Lists, Elems(s) \subseteq Elems(t)
  PROVE  high[s] <= high[t]
<1>1. high[s] \in Nat /\ high[t] \in Nat /\ high[s] % W = 0 /\ high[t] % W = 0
  BY DEF Inv, TypeOK, Trimmed, Objects
<1>2. CASE high[s] = 0
  BY <1>1, <1>2
<1>3. CASE high[s] # 0
  <2>1. PICK i \in Elems(s) : high[s] - W <= i
    BY <1>3, HighestBit
  <2>2. i \in Nat /\ i < high[s] /\ i < high[t]
    BY <2>1, HighestBit DEF Elems
  <2>3. Above(i) <= high[t] /\ Above(i) <= high[s] /\ i < Above(i)
    BY <1>1, <2>2, AboveLeast, AboveFacts
  <2>4. high[s] <= Above(i)
    BY <1>1, <2>1, <2>2, <2>3, BoundaryBelow
  <2> QED
    BY <1>1, <2>2, <2>3, <2>4, AboveFacts
<1> QED
  BY <1>2, <1>3

\* The questions are answered for the sets, given the invariant.
LEMMA AnswersAgree == Inv => QueriesAgree
<1> SUFFICES ASSUME Inv, NEW s \in Lists, NEW t \in Lists
             PROVE  /\ HasCommon(s, t) <=> Elems(s) \cap Elems(t) # {}
                    /\ IsSubsetOf(s, t) => Elems(s) \subseteq Elems(t)
                    /\ SameAs(s, t) => Elems(s) = Elems(t)
                    /\ s \notin cleared =>
                         /\ Elems(s) \subseteq Elems(t) => IsSubsetOf(s, t)
                         /\ t \notin cleared /\ Elems(s) = Elems(t) => SameAs(s, t)
                         /\ Empty(s) <=> high[s] = 0
  BY DEF QueriesAgree
<1>1. /\ high[s] \in Nat /\ bitmap[s] \subseteq Nat
      /\ high[t] \in Nat /\ bitmap[t] \subseteq Nat
  BY HighestBit
<1>2. HasCommon(s, t) <=> Elems(s) \cap Elems(t) # {}
  <2>1. \A i \in Nat : i < MinHigh(s, t) <=> i < high[s] /\ i < high[t]
    BY <1>1 DEF MinHigh
  <2>2. \A i : (i \in bitmap[s] \cap bitmap[t] /\ i < MinHigh(s, t))
                 <=> i \in Elems(s) \cap Elems(t)
    BY <1>1, <2>1 DEF Elems
  <2> QED
    BY <2>2, Zenon DEF HasCommon
<1>3. IsSubsetOf(s, t) => Elems(s) \subseteq Elems(t)
  BY <1>1 DEF IsSubsetOf, Elems
<1>4. SameAs(s, t) => Elems(s) = Elems(t)
  <2> SUFFICES ASSUME SameAs(s, t) PROVE Elems(s) = Elems(t)
    OBVIOUS
  <2> QED
    BY <1>1 DEF SameAs, Elems
<1>5. ASSUME s \notin cleared, Elems(s) \subseteq Elems(t) PROVE IsSubsetOf(s, t)
  BY <1>5, LongerHasMore DEF IsSubsetOf, Elems
<1>6. ASSUME s \notin cleared, t \notin cleared, Elems(s) = Elems(t) PROVE SameAs(s, t)
  <2>1. high[s] <= high[t] /\ high[t] <= high[s]
    BY <1>6, LongerHasMore
  <2>2. high[s] = high[t]
    BY <1>1, <2>1
  <2>3. \A i \in 0..(high[s] - 1) :
          (i \in bitmap[s] <=> i \in Elems(s)) /\ (i \in bitmap[t] <=> i \in Elems(t))
    BY <1>1, <2>2 DEF Elems
  <2> QED
    BY <1>6, <2>2, <2>3 DEF SameAs
<1>7. ASSUME s \notin cleared PROVE Empty(s) <=> high[s] = 0
  <2>1. ASSUME high[s] = 0 PROVE Empty(s)
    BY <1>1, <2>1 DEF Empty
  <2>2. ASSUME high[s] # 0 PROVE ~Empty(s)
    <3>1. PICK i \in Elems(s) : high[s] - W <= i
      BY <1>7, <2>2, HighestBit
    <3>2. i \in bitmap[s] /\ i \in Nat /\ i < high[s]
      BY <1>1, <3>1 DEF Elems
    <3> QED
      BY <1>1, <3>2 DEF Empty
  <2> QED
    BY <2>1, <2>2
<1> QED
  BY <1>2, <1>3, <1>4, <1>5, <1>6, <1>7

\* The word-wise tests of two register lists, whatever stale words the lists carry
\* and however long each of them is: has_common answers for the sets, is_subset_of
\* and compare_ say yes only if it is so of the sets, and say no only if it is not
\* where no list was cleared: then is_subset_of may give up on a longer list and
\* compare_ on a different length.
THEOREM AnswersAreSetAnswers == Spec => []QueriesAgree
  BY InitEstablishes, NextKeeps, AnswersAgree, PTL DEF Spec

-----------------------------------------------------------------------------
(* The sets behind the words.                                                *)

\* What the objects stand for.
SetsOf == [s \in Objects |-> Elems(s)]

\* Every member of a set lies below its trimmed end.
LEMMA TrimAbove ==
  ASSUME NEW live, live \subseteq Nat, NEW h \in Nat, \A i \in live : i < h
  PROVE  \A i \in live : i < Trim(live)
<1> SUFFICES ASSUME NEW i \in live PROVE i < Trim(live)
  OBVIOUS
<1> DEFINE m == MaxOf(live)
<1>1. m \in live /\ i <= m
  BY MaxOfFacts
<1>2. Trim(live) = Above(m)
  BY DEF Trim
<1> HIDE DEF m
<1>3. m \in Nat /\ Above(m) \in Nat /\ m < Above(m)
  BY <1>1, AboveFacts
<1> QED
  BY <1>1, <1>2, <1>3

\* A list that was not cleared and keeps all its bits is trimmed to where it ends.
LEMMA TrimSame ==
  ASSUME Inv, NEW s \in Lists \ cleared
  PROVE  Trim(Elems(s)) = high[s]
<1> DEFINE h == high[s]
           E == Elems(s)
           e == Trim(E)
<1>1. h \in Nat /\ E \subseteq Nat /\ (h # 0 => \E i \in E : h - W <= i)
  BY HighestBit DEF Elems
<1>2. h % W = 0 /\ \A i \in E : i < h
  BY DEF Inv, Trimmed, Objects, Elems
<1> HIDE DEF h, E
<1>3. e \in Nat /\ e <= h /\ e % W = 0 /\ \A i \in E : i < e
  BY <1>1, <1>2, TrimFacts, TrimAbove
<1>4. ASSUME h = 0 PROVE e = h
  <2> HIDE DEF e
  <2> QED
    BY <1>1, <1>3, <1>4
<1>5. ASSUME h # 0 PROVE e = h
  <2>1. PICK i \in E : h - W <= i
    BY <1>1, <1>5
  <2>2. i \in Nat /\ h <= Above(i) /\ Above(i) <= e
    BY <1>1, <1>2, <1>3, <2>1, BoundaryBelow, AboveLeast
  <2>3. Above(i) \in Nat
    BY <2>2, AboveFacts
  <2> HIDE DEF e
  <2> QED
    BY <1>1, <1>3, <2>2, <2>3
<1> QED
  BY <1>4, <1>5 DEF h, E

\* What a store makes of the sets.
LEMMA StoreSets ==
  ASSUME Inv, NEW s \in Objects, NEW h, NEW b, NEW a, Store(s, h, b, a)
  PROVE  SetsOf' = [SetsOf EXCEPT ![s] = {i \in b : i < h}]
<1>1. /\ high' = [high EXCEPT ![s] = h] /\ bitmap' = [bitmap EXCEPT ![s] = b]
      /\ DOMAIN high = Objects /\ DOMAIN bitmap = Objects
  BY DEF Store, Inv, TypeOK
<1>2. \A o \in Objects : Elems(o)' = IF o = s THEN {i \in b : i < h} ELSE Elems(o)
  BY <1>1 DEF Elems
<1> QED
  BY <1>2 DEF SetsOf

\* A deletion that keeps b below h leaves just that.
LEMMA TrimSets ==
  ASSUME Inv, NEW s \in Objects, NEW h \in Nat, h % W = 0, NEW b, b \subseteq bitmap[s],
         StoreTrimmed(s, h, b)
  PROVE  SetsOf' = [SetsOf EXCEPT ![s] = {i \in b : i < h}]
<1> DEFINE live == {i \in b : i < h}
           e == Trim(live)
<1>1. b \subseteq Nat
  BY DEF Inv, TypeOK
<1>2. e \in Nat /\ e <= h /\ \A i \in live : i < e
  <2>1. live \subseteq Nat /\ \A i \in live : i < h
    BY <1>1
  <2> HIDE DEF live
  <2> QED
    BY <2>1, TrimFacts, TrimAbove
<1>3. SetsOf' = [SetsOf EXCEPT ![s] = {i \in b : i < e}]
  BY StoreSets DEF StoreTrimmed
<1> HIDE DEF e
<1>4. {i \in b : i < e} = live
  <2>1. ASSUME NEW i \in b PROVE i < e <=> i < h
    <3>1. i \in Nat /\ (i < h => i < e)
      BY <1>1, <1>2
    <3> QED
      BY <1>2, <3>1
  <2> QED
    BY <2>1
<1> QED
  BY <1>3, <1>4

\* A call that makes room for a bit adds bits up to it to what was there.
LEMMA GrowthSets ==
  ASSUME Inv, NEW s \in Objects, NEW bit \in Nat, NEW E, E \subseteq 0..bit,
         Store(s, ResizedHigh(s, bit), ResizedBits(s, bit) \cup E, ResizedAlloc(s, bit))
  PROVE  SetsOf' = [SetsOf EXCEPT ![s] = Elems(s) \cup E]
<1> DEFINE h == ResizedHigh(s, bit)
           b == ResizedBits(s, bit)
<1>1. SetsOf' = [SetsOf EXCEPT ![s] = {i \in b \cup E : i < h}]
  BY StoreSets
<1>2. h \in Nat /\ b \subseteq Nat /\ bit < h /\ high[s] \in Nat /\ bitmap[s] \subseteq Nat
  BY ResizeFacts DEF Inv, TypeOK
<1>3. {i \in b : i < h} = Elems(s)
  <2>1. CASE bit >= high[s]
    <3>1. b = Elems(s) /\ high[s] <= h
      BY <1>2, <2>1 DEF ResizedBits
    <3> HIDE DEF b, h
    <3> QED
      BY <1>2, <3>1 DEF Elems
  <2>2. CASE ~(bit >= high[s])
    <3>1. b = bitmap[s] /\ h = high[s]
      BY <2>2 DEF ResizedBits, ResizedHigh
    <3> QED
      BY <3>1 DEF Elems
  <2> QED
    BY <2>1, <2>2
<1> HIDE DEF b, h
<1>4. {i \in b \cup E : i < h} = Elems(s) \cup E
  <2>1. ASSUME NEW i \in E PROVE i < h
    <3>1. i \in Nat /\ i <= bit
      OBVIOUS
    <3> QED
      BY <1>2, <3>1
  <2> QED
    BY <1>3, <2>1
<1> QED
  BY <1>1, <1>4


\* The steps of the abstract specification, on SetsOf.
LEMMA SetIs ==
  ASSUME NEW s \in Objects, NEW E, NEW r, SetsOf' = [SetsOf EXCEPT ![s] = E], ret' = r
  PROVE  Abstract!Becomes(s, E, r) /\ Abstract!OnlyIn(s)
<1>1. SetsOf'[s] = E /\ SetsOf' = [SetsOf EXCEPT ![s] = SetsOf'[s]]
  BY DEF SetsOf
<1> QED
  BY <1>1 DEF SetsOf, Abstract!Becomes, Abstract!OnlyIn

\* A set grows.
LEMMA AddIs ==
  ASSUME NEW s \in Objects, NEW E, SetsOf' = [SetsOf EXCEPT ![s] = Elems(s) \cup E],
         ret' = ~(E \subseteq Elems(s))
  PROVE  Abstract!AddSet(s, E) /\ Abstract!OnlyIn(s)
<1>1. Abstract!Becomes(s, Elems(s) \cup E, ~(E \subseteq Elems(s))) /\ Abstract!OnlyIn(s)
  BY SetIs
<1> QED
  BY <1>1 DEF Abstract!AddSet

\* A set shrinks.
LEMMA SubIs ==
  ASSUME NEW s \in Objects, NEW E, SetsOf' = [SetsOf EXCEPT ![s] = Elems(s) \ E],
         ret' = (Elems(s) \cap E # {})
  PROVE  Abstract!SubSet(s, E) /\ Abstract!OnlyIn(s)
<1>1. Abstract!Becomes(s, Elems(s) \ E, Elems(s) \cap E # {}) /\ Abstract!OnlyIn(s)
  BY SetIs
<1> QED
  BY <1>1 DEF Abstract!SubSet

\* A set shrinks, and the answer may be TRUE though it did not.
LEMMA CutIs ==
  ASSUME NEW s \in Objects, NEW E, SetsOf' = [SetsOf EXCEPT ![s] = Elems(s) \ E],
         ret' \in BOOLEAN, Elems(s) \cap E # {} => ret'
  PROVE  Abstract!Cut(s, E) /\ Abstract!OnlyIn(s)
<1>1. Abstract!Becomes(s, Elems(s) \ E, ret') /\ Abstract!OnlyIn(s)
  BY SetIs
<1> QED
  BY <1>1 DEF Abstract!Cut

\* A call that writes nothing leaves the sets.
LEMMA SameSets ==
  ASSUME UNCHANGED <<high, bitmap, alloc>>
  PROVE  SetsOf' = SetsOf /\ \A s \in Objects : SetsOf' = [SetsOf EXCEPT ![s] = Elems(s)]
<1>1. SetsOf' = SetsOf
  BY DEF SetsOf, Elems
<1> QED
  BY <1>1 DEF SetsOf

\* add
LEMMA AddImplements ==
  ASSUME Inv, NEW s \in Objects, NEW bit \in Nat, Add(s, bit)
  PROVE  Abstract!AddSet(s, {bit}) /\ Abstract!OnlyIn(s)
<1>1. SetsOf' = [SetsOf EXCEPT ![s] = Elems(s) \cup {bit}]
  <2> DEFINE E == {bit}
  <2>1. E \subseteq 0..bit
    OBVIOUS
  <2>2. Store(s, ResizedHigh(s, bit), ResizedBits(s, bit) \cup E, ResizedAlloc(s, bit))
    BY Zenon DEF Add
  <2> HIDE DEF E
  <2>3. SetsOf' = [SetsOf EXCEPT ![s] = Elems(s) \cup E]
    BY <2>1, <2>2, GrowthSets
  <2> QED
    BY <2>3 DEF E
<1>2. ret' = ~({bit} \subseteq Elems(s))
  <2>1. ret' = (bit \notin Elems(s))
    BY Zenon DEF Add
  <2> QED
    BY <2>1
<1> QED
  BY <1>1, <1>2, AddIs

\* add_
LEMMA AddRangeImplements ==
  ASSUME Inv, NEW s \in Objects, NEW bit \in Nat, NEW width \in Nat, AddRange(s, bit, width)
  PROVE  Abstract!AddSet(s, Span(bit, width)) /\ Abstract!OnlyIn(s)
<1> DEFINE E == Span(bit, width)
           last == bit + width - 1
<1>1. CASE width = 0
  <2>1. E = {}
    BY <1>1 DEF Span
  <2>2. SetsOf' = [SetsOf EXCEPT ![s] = Elems(s)] /\ ret' = FALSE
    BY <1>1, SameSets DEF AddRange
  <2> HIDE DEF E
  <2>3. SetsOf' = [SetsOf EXCEPT ![s] = Elems(s) \cup E] /\ ret' = ~(E \subseteq Elems(s))
    BY <2>1, <2>2
  <2> QED
    BY <2>3, AddIs DEF E
<1>2. CASE width # 0
  <2>1. last \in Nat /\ E \subseteq 0..last
    BY <1>2 DEF Span
  <2>2. /\ Store(s, ResizedHigh(s, last), ResizedBits(s, last) \cup E, ResizedAlloc(s, last))
        /\ ret' = \E i \in E : i \notin Elems(s)
    BY <1>2 DEF AddRange
  <2> HIDE DEF E, last
  <2>3. SetsOf' = [SetsOf EXCEPT ![s] = Elems(s) \cup E]
    BY <2>1, <2>2, GrowthSets
  <2>4. ret' = ~(E \subseteq Elems(s))
    BY <2>2
  <2> QED
    BY <2>3, <2>4, AddIs DEF E
<1> QED
  BY <1>1, <1>2

\* add__
LEMMA AddAllImplements ==
  ASSUME Inv, NEW s \in Objects, NEW t \in Objects, AddAll(s, t)
  PROVE  Abstract!AddSet(s, Elems(t)) /\ Abstract!OnlyIn(s)
<1> DEFINE E == Elems(t)
           last == high[t] - 1
<1>1. high[t] \in Nat /\ bitmap[t] \subseteq Nat
  BY DEF Inv, TypeOK
<1>2. CASE high[t] = 0
  <2>1. E = {}
    BY <1>1, <1>2 DEF Elems
  <2>2. SetsOf' = [SetsOf EXCEPT ![s] = Elems(s)] /\ ret' = FALSE
    BY <1>2, SameSets DEF AddAll
  <2> HIDE DEF E
  <2>3. SetsOf' = [SetsOf EXCEPT ![s] = Elems(s) \cup E] /\ ret' = ~(E \subseteq Elems(s))
    BY <2>1, <2>2
  <2> QED
    BY <2>3, AddIs DEF E
<1>3. CASE high[t] # 0
  <2>1. last \in Nat
    BY <1>1, <1>3
  <2>2. E \subseteq 0..last
    <3>1. \A i \in E : i \in Nat /\ i < high[t]
      BY <1>1 DEF Elems
    <3> HIDE DEF E
    <3> QED
      BY <1>1, <3>1
  <2>3. /\ Store(s, ResizedHigh(s, last), ResizedBits(s, last) \cup E, ResizedAlloc(s, last))
        /\ ret' = \E i \in E : i \notin Elems(s)
    BY <1>3 DEF AddAll
  <2> HIDE DEF E, last
  <2>4. SetsOf' = [SetsOf EXCEPT ![s] = Elems(s) \cup E]
    BY <2>1, <2>2, <2>3, GrowthSets
  <2>5. ret' = ~(E \subseteq Elems(s))
    BY <2>3
  <2> QED
    BY <2>4, <2>5, AddIs DEF E
<1> QED
  BY <1>2, <1>3

\* fill_with_ones
LEMMA FillImplements ==
  ASSUME Inv, NEW s \in Objects, NEW maxbit \in Nat, FillWithOnes(s, maxbit)
  PROVE  Abstract!Becomes(s, Elems(s) \cup 0..maxbit, ret) /\ Abstract!OnlyIn(s)
<1>1. SetsOf' = [SetsOf EXCEPT ![s] = Elems(s) \cup 0..maxbit]
  BY GrowthSets DEF FillWithOnes
<1> QED
  BY <1>1, SetIs DEF FillWithOnes

\* sub
LEMMA SubImplements ==
  ASSUME Inv, NEW s \in Objects, NEW bit \in Nat, Sub(s, bit)
  PROVE  Abstract!SubSet(s, {bit}) /\ Abstract!OnlyIn(s)
<1>1. CASE bit \in Elems(s)
  <2>1. SetsOf' = [SetsOf EXCEPT ![s] = {i \in bitmap[s] \ {bit} : i < high[s]}]
    BY <1>1, HighFacts, TrimSets DEF Sub
  <2>2. {i \in bitmap[s] \ {bit} : i < high[s]} = Elems(s) \ {bit}
    BY DEF Elems
  <2>3. ret' = (Elems(s) \cap {bit} # {})
    BY <1>1 DEF Sub
  <2> QED
    BY <2>1, <2>2, <2>3, SubIs
<1>2. CASE bit \notin Elems(s)
  <2>1. SetsOf' = [SetsOf EXCEPT ![s] = Elems(s)] /\ ret' = FALSE
    BY <1>2, SameSets DEF Sub
  <2>2. Elems(s) \ {bit} = Elems(s) /\ Elems(s) \cap {bit} = {}
    BY <1>2
  <2> QED
    BY <2>1, <2>2, SubIs
<1> QED
  BY <1>1, <1>2

\* cut_at: what lies at or above the limit is gone.
LEMMA CutAtImplements ==
  ASSUME Inv, NEW s \in Objects, NEW maxbit \in Nat, CutAt(s, maxbit)
  PROVE  /\ SetsOf' = [SetsOf EXCEPT ![s] = {i \in Elems(s) : i < maxbit}]
         /\ ret' \in BOOLEAN
         /\ (\E i \in Elems(s) : i >= maxbit) => ret'
<1>0. high[s] \in Nat /\ bitmap[s] \subseteq Nat
  BY DEF Inv, TypeOK
<1>1. CASE maxbit >= high[s]
  <2>1. Elems(s) = {i \in Elems(s) : i < maxbit} /\ ~\E i \in Elems(s) : i >= maxbit
    BY <1>0, <1>1 DEF Elems
  <2>2. SetsOf' = [SetsOf EXCEPT ![s] = Elems(s)] /\ ret' = FALSE
    BY <1>1, SameSets DEF CutAt
  <2> QED
    BY <2>1, <2>2
<1>2. CASE ~(maxbit >= high[s])
  <2> DEFINE h == IF maxbit % W = 0 THEN maxbit ELSE Above(maxbit)
             masked == {i \in bitmap[s] : i < maxbit \/ i >= h}
  <2>1. h \in Nat /\ h % W = 0 /\ maxbit <= h
    BY AboveFacts
  <2>2. StoreTrimmed(s, h, masked) /\ ret' = TRUE
    BY <1>2 DEF CutAt
  <2> HIDE DEF h
  <2>3. masked \subseteq bitmap[s]
    OBVIOUS
  <2>4. SetsOf' = [SetsOf EXCEPT ![s] = {i \in masked : i < h}]
    <3> HIDE DEF masked
    <3> QED
      BY <2>1, <2>2, <2>3, TrimSets
  <2>5. {i \in masked : i < h} = {i \in Elems(s) : i < maxbit}
    <3>1. ASSUME NEW i \in bitmap[s]
          PROVE  (i < maxbit \/ i >= h) /\ i < h <=> i < high[s] /\ i < maxbit
      <4>1. i \in Nat
        BY <1>0
      <4> QED
        BY <1>0, <1>2, <2>1, <4>1
    <3> QED
      BY <3>1 DEF Elems
  <2> QED
    BY <2>2, <2>4, <2>5
<1> QED
  BY <1>1, <1>2

\* sub_
LEMMA SubRangeImplements ==
  ASSUME Inv, NEW s \in Objects, NEW bit \in Nat, NEW width \in Nat, SubRange(s, bit, width)
  PROVE  Abstract!Cut(s, Span(bit, width)) /\ Abstract!OnlyIn(s)
<1> DEFINE E == Span(bit, width)
<1>0. high[s] \in Nat /\ bitmap[s] \subseteq Nat /\ high[s] % W = 0
  BY DEF Inv, TypeOK, Trimmed
<1>1. CASE bit + width >= high[s]
  <2>1. /\ SetsOf' = [SetsOf EXCEPT ![s] = {i \in Elems(s) : i < bit}]
        /\ ret' \in BOOLEAN
        /\ (\E i \in Elems(s) : i >= bit) => ret'
    BY <1>1, CutAtImplements DEF SubRange
  <2>2. ASSUME NEW i \in Elems(s) PROVE (i >= bit <=> i \in E) /\ (i < bit <=> i \notin E)
    <3>1. i \in Nat /\ i < high[s]
      BY <1>0 DEF Elems
    <3> QED
      BY <1>0, <1>1, <3>1 DEF Span
  <2> HIDE DEF E
  <2>3. {i \in Elems(s) : i < bit} = Elems(s) \ E
    BY <2>2
  <2>4. Elems(s) \cap E # {} => ret'
    BY <2>1, <2>2
  <2> QED
    BY <2>1, <2>3, <2>4, CutIs DEF E
<1>2. CASE ~(bit + width >= high[s])
  <2> DEFINE hit == E \cap Elems(s)
  <2>1. /\ ret' = (hit # {})
        /\ hit # {} => StoreTrimmed(s, high[s], bitmap[s] \ hit)
        /\ hit = {} => UNCHANGED <<high, bitmap, alloc>>
    BY <1>2 DEF SubRange
  <2> HIDE DEF E
  <2>2. CASE hit # {}
    <3>1. SetsOf' = [SetsOf EXCEPT ![s] = {i \in bitmap[s] \ hit : i < high[s]}]
      BY <1>0, <2>1, <2>2, TrimSets
    <3>2. {i \in bitmap[s] \ hit : i < high[s]} = Elems(s) \ E
      BY DEF Elems
    <3> QED
      BY <2>1, <3>1, <3>2, CutIs DEF E
  <2>3. CASE hit = {}
    <3>1. SetsOf' = [SetsOf EXCEPT ![s] = Elems(s)]
      BY <2>1, <2>3, SameSets
    <3>2. Elems(s) = Elems(s) \ E
      BY <2>3
    <3> QED
      BY <2>1, <3>1, <3>2, CutIs DEF E
  <2> QED
    BY <2>2, <2>3
<1> QED
  BY <1>1, <1>2

\* sub__: where nothing was common a list that was not cleared was trimmed already.
LEMMA SubAllImplements ==
  ASSUME Inv, NEW s \in Lists, NEW t \in Lists, SubAll(s, t)
  PROVE  Abstract!Less(s, t) /\ Abstract!OnlyIn(s)
<1>0. /\ high[s] \in Nat /\ bitmap[s] \subseteq Nat /\ high[t] \in Nat /\ bitmap[t] \subseteq Nat
      /\ high[s] % W = 0 /\ s \in Objects /\ t \in Objects
  BY DEF Inv, TypeOK, Trimmed, Objects
<1> DEFINE common == {i \in bitmap[s] \cap bitmap[t] : i < MinHigh(s, t)}
           kept == bitmap[s] \ common
           live == {i \in kept : i < high[s]}
           E == Elems(t)
<1>1. common = Elems(s) \cap E
  <2>1. ASSUME NEW i \in bitmap[s] PROVE i < MinHigh(s, t) <=> i < high[s] /\ i < high[t]
    <3>1. i \in Nat
      BY <1>0
    <3> QED
      BY <1>0, <3>1 DEF MinHigh
  <2> QED
    BY <2>1 DEF Elems
<1>2. live = Elems(s) \ E
  <2> HIDE DEF common, E
  <2> QED
    BY <1>1 DEF Elems
<1>5. /\ s \notin cleared /\ Abstract!SubSet(s, E) => Abstract!Less(s, t)
      /\ s \in cleared /\ Abstract!Cut(s, E) => Abstract!Less(s, t)
  <2>1. SetsOf[t] = E
    BY <1>0 DEF SetsOf
  <2> HIDE DEF E
  <2> QED
    BY <2>1 DEF Abstract!Less, SetsOf
<1>3. CASE MinHigh(s, t) = 0
  <2>1. common = {}
    BY <1>0, <1>3
  <2>2. SetsOf' = [SetsOf EXCEPT ![s] = Elems(s)] /\ ret' = FALSE
    BY <1>0, <1>3, SameSets DEF SubAll
  <2> HIDE DEF common, E
  <2>3. Elems(s) = Elems(s) \ E /\ Elems(s) \cap E = {}
    BY <1>1, <2>1
  <2>4. SetsOf' = [SetsOf EXCEPT ![s] = Elems(s) \ E] /\ ret' = (Elems(s) \cap E # {})
    BY <2>2, <2>3
  <2> QED
    BY <1>0, <1>5, <2>4, SubIs, CutIs
<1>4. CASE MinHigh(s, t) # 0
  <2>1. Store(s, Trim(live), kept, alloc[s]) /\ ret' = (common # {} \/ Trim(live) # high[s])
    BY <1>4 DEF SubAll
  <2>2. StoreTrimmed(s, high[s], kept)
    BY <2>1 DEF StoreTrimmed
  <2>3. SetsOf' = [SetsOf EXCEPT ![s] = live]
    BY <1>0, <2>2, TrimSets
  <2> HIDE DEF common, live, E
  <2>4. ASSUME common = {}, s \notin cleared PROVE Trim(live) = high[s]
    <3>1. live = Elems(s)
      BY <1>1, <1>2, <2>4
    <3> QED
      BY <2>4, <3>1, TrimSame
  <2>5. s \notin cleared => ret' = (Elems(s) \cap E # {})
    BY <1>1, <2>1, <2>4
  <2>6. ret' \in BOOLEAN /\ (Elems(s) \cap E # {} => ret')
    BY <1>1, <2>1
  <2>7. SetsOf' = [SetsOf EXCEPT ![s] = Elems(s) \ E]
    BY <1>2, <2>3
  <2> QED
    BY <1>0, <1>5, <2>5, <2>6, <2>7, SubIs, CutIs
<1> QED
  BY <1>3, <1>4

\* intersect: a longer list that was not cleared has a bit the shorter has not.
LEMMA IntersectImplements ==
  ASSUME Inv, NEW s \in Lists, NEW t \in Lists, Intersect(s, t), cleared' = cleared \ {s}
  PROVE  Abstract!IntersectWith(s, t) /\ Abstract!OnlyIn(s)
<1>0. /\ high[s] \in Nat /\ bitmap[s] \subseteq Nat /\ high[t] \in Nat /\ bitmap[t] \subseteq Nat
      /\ high[s] % W = 0 /\ high[t] % W = 0 /\ s \in Objects /\ t \in Objects
  BY DEF Inv, TypeOK, Trimmed, Objects
<1> DEFINE h == MinHigh(s, t)
           lost == {i \in bitmap[s] : i < h /\ i \notin bitmap[t]}
           E == Elems(t)
<1>1. h \in Nat /\ h % W = 0 /\ (high[s] <= high[t] => h = high[s])
  BY <1>0 DEF MinHigh
<1>2. ASSUME NEW i \in bitmap[s] PROVE i \in Nat /\ (i < h <=> i < high[s] /\ i < high[t])
  <2>1. i \in Nat
    BY <1>0
  <2> QED
    BY <1>0, <2>1 DEF MinHigh
<1>3. StoreTrimmed(s, h, bitmap[s] \ lost) /\ ret' = (high[s] > high[t] \/ lost # {})
  BY DEF Intersect
<1> HIDE DEF h
<1>4. SetsOf' = [SetsOf EXCEPT ![s] = {i \in bitmap[s] \ lost : i < h}]
  BY <1>0, <1>1, <1>3, TrimSets
<1>5. {i \in bitmap[s] \ lost : i < h} = Elems(s) \cap E
  BY <1>2 DEF Elems
<1>6. ASSUME s \notin cleared PROVE ret' = ~(Elems(s) \subseteq E)
  <2>1. CASE high[s] > high[t]
    <3>1. ~(high[s] <= high[t])
      BY <1>0, <2>1
    <3>2. ~(Elems(s) \subseteq E)
      BY <1>6, <3>1, LongerHasMore
    <3> QED
      BY <1>3, <2>1, <3>2
  <2>2. CASE ~(high[s] > high[t])
    <3>1. h = high[s]
      BY <1>0, <1>1, <2>2
    <3>2. lost # {} <=> ~(Elems(s) \subseteq E)
      BY <1>2, <3>1 DEF Elems
    <3> QED
      BY <1>3, <2>2, <3>2
  <2> QED
    BY <2>1, <2>2
<1> HIDE DEF E
<1>7. SetsOf[s] = Elems(s) /\ SetsOf[t] = E /\ SetsOf' = [SetsOf EXCEPT ![s] = Elems(s) \cap E]
  BY <1>0, <1>4, <1>5 DEF SetsOf, E
<1>8. CASE s \notin cleared
  <2>1. Abstract!Becomes(s, Elems(s) \cap E, ~(Elems(s) \subseteq E)) /\ Abstract!OnlyIn(s)
    BY <1>0, <1>6, <1>7, <1>8, SetIs
  <2> QED
    BY <1>7, <1>8, <2>1 DEF Abstract!IntersectWith, SetsOf
<1>9. CASE s \in cleared
  <2> DEFINE F == Elems(s) \ E
  <2>1. ASSUME NEW i \in Elems(s) \cap F PROVE ret'
    <3>1. i \in bitmap[s] /\ i < high[s] /\ i \notin E
      BY DEF Elems
    <3>2. CASE high[s] > high[t]
      BY <1>3, <3>2
    <3>3. CASE ~(high[s] > high[t])
      <4>1. i < h /\ i < high[t]
        BY <1>0, <1>1, <1>2, <3>1, <3>3
      <4>2. i \in lost
        BY <3>1, <4>1 DEF E, Elems
      <4> QED
        BY <1>3, <4>2
    <3> QED
      BY <3>2, <3>3
  <2>2. ret' \in BOOLEAN /\ Elems(s) \ F = Elems(s) \cap E
    BY <1>3
  <2>3. Abstract!Cut(s, F) /\ Abstract!OnlyIn(s)
    <3> HIDE DEF F
    <3> QED
      BY <1>0, <1>7, <2>1, <2>2, CutIs
  <2> QED
    BY <1>7, <1>9, <2>3 DEF Abstract!IntersectWith, SetsOf
<1> QED
  BY <1>8, <1>9

\* copy
LEMMA CopyImplements ==
  ASSUME Inv, NEW s \in Lists, NEW t \in Lists, Copy(s, t)
  PROVE  Abstract!Becomes(s, Elems(t), ret) /\ Abstract!OnlyIn(s)
<1>0. /\ high[s] \in Nat /\ bitmap[s] \subseteq Nat /\ high[t] \in Nat /\ bitmap[t] \subseteq Nat
      /\ s \in Objects /\ t \in Objects /\ ret' = ret
  BY DEF Inv, TypeOK, Objects, Copy
<1>1. CASE s = t
  <2>1. SetsOf' = [SetsOf EXCEPT ![s] = Elems(t)]
    BY <1>0, <1>1, SameSets DEF Copy
  <2> QED
    BY <1>0, <2>1, SetIs
<1>2. CASE s # t /\ high[t] = 0
  <2>1. high' = [high EXCEPT ![s] = 0] /\ bitmap' = bitmap
    BY <1>2 DEF Copy
  <2>2. \A o \in Objects : Elems(o)' = IF o = s THEN {} ELSE Elems(o)
    <3>1. \A i \in bitmap[s] : ~(i < 0)
      BY <1>0
    <3> QED
      BY <1>0, <2>1, <3>1 DEF Elems, Inv, TypeOK
  <2>3. Elems(t) = {}
    BY <1>0, <1>2 DEF Elems
  <2>4. SetsOf' = [SetsOf EXCEPT ![s] = Elems(t)]
    BY <2>2, <2>3 DEF SetsOf
  <2> QED
    BY <1>0, <2>4, SetIs
<1>3. CASE s # t /\ high[t] # 0
  <2> DEFINE b == {i \in ResizedBits(s, high[t]) : i >= high[t]} \cup Elems(t)
  <2>1. Store(s, high[t], b, ResizedAlloc(s, high[t]))
    BY <1>3 DEF Copy
  <2>2. SetsOf' = [SetsOf EXCEPT ![s] = {i \in b : i < high[t]}]
    <3> HIDE DEF b
    <3> QED
      BY <1>0, <2>1, StoreSets
  <2>3. {i \in b : i < high[t]} = Elems(t)
    <3>1. ResizedBits(s, high[t]) \subseteq Nat
      BY <1>0, ResizeFacts
    <3>2. \A i \in ResizedBits(s, high[t]) : ~(i >= high[t] /\ i < high[t])
      BY <1>0, <3>1
    <3>3. \A i \in Elems(t) : i < high[t]
      BY DEF Elems
    <3> QED
      BY <3>2, <3>3
  <2> QED
    BY <1>0, <2>2, <2>3, SetIs
<1> QED
  BY <1>1, <1>2, <1>3

\* The copy constructor, on a destroyed object.
LEMMA CopyConstructImplements ==
  ASSUME Inv, NEW s \in Lists, NEW t \in Lists, CopyConstruct(s, t)
  PROVE  Abstract!Becomes(s, Elems(t), ret) /\ Abstract!OnlyIn(s)
<1>0. s \in Objects /\ ret' = ret
  BY DEF Objects, CopyConstruct
<1>1. SetsOf' = [SetsOf EXCEPT ![s] = {i \in Elems(t) : i < high[t]}]
  BY <1>0, StoreSets DEF CopyConstruct
<1>2. {i \in Elems(t) : i < high[t]} = Elems(t)
  BY DEF Elems
<1> QED
  BY <1>0, <1>1, <1>2, SetIs

\* swap
LEMMA SwapImplements ==
  ASSUME Inv, NEW s \in Lists, NEW t \in Lists, Swap(s, t), TradesWith(s, t)
  PROVE  Abstract!Exchange(s, t)
<1>0. s \in Objects /\ t \in Objects /\ DOMAIN high = Objects /\ DOMAIN bitmap = Objects
  BY DEF Objects, Inv, TypeOK
<1>1. /\ high' = [high EXCEPT ![s] = high[t], ![t] = high[s]]
      /\ bitmap' = [bitmap EXCEPT ![s] = bitmap[t], ![t] = bitmap[s]]
      /\ ret' = ret
  BY DEF Swap
<1>2. \A o \in Objects : Elems(o)' = IF o = t THEN Elems(s) ELSE IF o = s THEN Elems(t) ELSE Elems(o)
  BY <1>0, <1>1 DEF Elems
<1>3. SetsOf' = [SetsOf EXCEPT ![s] = SetsOf[t], ![t] = SetsOf[s]]
  BY <1>0, <1>2 DEF SetsOf
<1> QED
  BY <1>1, <1>3 DEF SetsOf, Abstract!Exchange, TradesWith

\* resize of a pool changes no set: what lies in the new words was zeroed.
LEMMA ResizeImplements ==
  ASSUME Inv, NEW p \in Pools, NEW bit \in Nat, Resize(p, bit)
  PROVE  SetsOf' = SetsOf /\ ret' = ret
<1>0. p \in Objects
  BY DEF Objects
<1>1. Store(p, ResizedHigh(p, bit), ResizedBits(p, bit) \cup {}, ResizedAlloc(p, bit)) /\ ret' = ret
  BY DEF Resize
<1>2. SetsOf' = [SetsOf EXCEPT ![p] = Elems(p) \cup {}]
  BY <1>0, <1>1, GrowthSets
<1> QED
  BY <1>1, <1>2 DEF SetsOf

\* clear
LEMMA ClearImplements ==
  ASSUME Inv, NEW p \in Objects, Clear(p)
  PROVE  Abstract!Becomes(p, {}, ret) /\ Abstract!OnlyIn(p)
<1>0. p \in Objects /\ high[p] \in Nat /\ bitmap[p] \subseteq Nat /\ DOMAIN bitmap = Objects
  BY DEF Objects, Inv, TypeOK
<1>1. high' = high /\ ret' = ret /\ bitmap' = [bitmap EXCEPT ![p] = {i \in @ : i >= high[p]}]
  BY DEF Clear
<1>2. \A o \in Objects : Elems(o)' = IF o = p THEN {} ELSE Elems(o)
  <2>1. \A i \in bitmap[p] : ~(i >= high[p] /\ i < high[p])
    BY <1>0
  <2> QED
    BY <1>0, <1>1, <2>1 DEF Elems
<1>3. SetsOf' = [SetsOf EXCEPT ![p] = {}]
  BY <1>2 DEF SetsOf
<1> QED
  BY <1>0, <1>1, <1>3, SetIs

\* Every call is one of the abstract calls or changes no set.
LEMMA NextImplements == Inv /\ [Next]_vars => [Abstract!Next]_(Abstract!aVars)
<1> SUFFICES ASSUME Inv, [Next]_vars, ~(SetsOf' = SetsOf /\ ret' = ret /\ cleared' = cleared)
             PROVE  Abstract!Next
  BY DEF SetsOf, Abstract!aVars
<1>0. Lists \subseteq Objects /\ Pools \subseteq Objects /\ Bits \subseteq Nat /\ Widths \subseteq Nat
  BY BitsAssumption DEF Objects
<1>1. ASSUME NEW s \in Objects, NEW bit \in Bits, Abstract!OnlyIn(s),
             \/ /\ UNCHANGED cleared
                /\ Abstract!AddSet(s, {bit}) \/ Abstract!Becomes(s, Elems(s) \cup 0..bit, ret)
             \/ /\ Trims(s)
                /\ Abstract!SubSet(s, {bit}) \/ Abstract!Cut(s, {i \in Elems(s) : i >= bit})
      PROVE  Abstract!Next
  <2>1. Trims(s) => Abstract!Firm(s)
    BY DEF Trims, Abstract!Firm
  <2>2. SetsOf[s] = Elems(s)
    BY DEF SetsOf
  <2> QED
    BY <1>1, <2>1, <2>2 DEF Abstract!Next, SetsOf
<1>2. ASSUME NEW s \in Objects, NEW bit \in Bits, NEW width \in Widths, Abstract!OnlyIn(s),
             \/ UNCHANGED cleared /\ Abstract!AddSet(s, Span(bit, width))
             \/ Trims(s) /\ Abstract!Cut(s, Span(bit, width))
      PROVE  Abstract!Next
  <2>1. Trims(s) => Abstract!Firm(s)
    BY DEF Trims, Abstract!Firm
  <2> QED
    BY <1>2, <2>1 DEF Abstract!Next, Span, Abstract!Span
<1>3. ASSUME NEW s \in Objects, NEW t \in Objects, Abstract!OnlyIn(s),
             \/ TakesSome(s, t) /\ Abstract!AddSet(s, Elems(t))
             \/ Trims(s) /\ Abstract!Less(s, t)
             \/ Abstract!IntersectWith(s, t)
             \/ TakesAll(s, t) /\ Abstract!Becomes(s, Elems(t), ret)
      PROVE  Abstract!Next
  <2>1. Trims(s) => Abstract!Firm(s)
    BY DEF Trims, Abstract!Firm
  <2>2. TakesSome(s, t) => Abstract!Loosened(s, t, cleared)
    BY DEF TakesSome, Abstract!Loosened
  <2>3. TakesAll(s, t) => Abstract!Loosened(s, t, cleared \ {s})
    BY DEF TakesAll, Abstract!Loosened
  <2>4. SetsOf[t] = Elems(t)
    BY DEF SetsOf
  <2>5. Abstract!Becomes(s, Elems(t), ret) => Abstract!CopyOf(s, t)
    BY <2>4 DEF Abstract!CopyOf, SetsOf
  <2> QED
    BY <1>3, <2>1, <2>2, <2>3, <2>4, <2>5 DEF Abstract!Next, SetsOf
<1>4. ASSUME NEW s \in Objects, NEW t \in Objects, Abstract!Exchange(s, t)
      PROVE  Abstract!Next
  BY <1>4 DEF Abstract!Next
<1>5. ASSUME NEW s \in Objects, NEW bit \in Bits, CutAt(s, bit)
      PROVE  Abstract!Cut(s, {i \in Elems(s) : i >= bit}) /\ Abstract!OnlyIn(s)
  <2> DEFINE E == {i \in Elems(s) : i >= bit}
  <2>1. /\ SetsOf' = [SetsOf EXCEPT ![s] = {i \in Elems(s) : i < bit}]
        /\ ret' \in BOOLEAN
        /\ (\E i \in Elems(s) : i >= bit) => ret'
    BY <1>0, <1>5, CutAtImplements
  <2>2. {i \in Elems(s) : i < bit} = Elems(s) \ E
    <3>1. ASSUME NEW i \in Elems(s) PROVE i < bit <=> ~(i >= bit)
      <4>1. i \in Nat /\ bit \in Nat
        BY <1>0 DEF Elems, Inv, TypeOK
      <4> QED
        BY <4>1
    <3> QED
      BY <3>1
  <2>3. Elems(s) \cap E # {} => ret'
    BY <2>1
  <2> HIDE DEF E
  <2>4. Abstract!Cut(s, E) /\ Abstract!OnlyIn(s)
    BY <2>1, <2>2, <2>3, CutIs
  <2> QED
    BY <2>4 DEF E
<1>6. ASSUME NEW s \in Lists, NEW bit \in Bits,
             \/ (Add(s, bit) \/ FillWithOnes(s, bit)) /\ UNCHANGED cleared
             \/ (Sub(s, bit) \/ CutAt(s, bit)) /\ Trims(s)
      PROVE  Abstract!Next
  BY <1>0, <1>1, <1>5, <1>6, AddImplements, SubImplements, FillImplements
<1>7. ASSUME NEW s \in Lists, NEW bit \in Bits, NEW width \in Widths,
             \/ AddRange(s, bit, width) /\ UNCHANGED cleared
             \/ SubRange(s, bit, width) /\ Trims(s)
      PROVE  Abstract!Next
  BY <1>0, <1>2, <1>7, AddRangeImplements, SubRangeImplements
<1>8. ASSUME NEW s \in Lists, NEW t \in Lists,
             \/ AddAll(s, t) /\ TakesSome(s, t)
             \/ SubAll(s, t) /\ Trims(s)
             \/ Intersect(s, t) /\ cleared' = cleared \ {s}
             \/ (Copy(s, t) \/ CopyConstruct(s, t)) /\ TakesAll(s, t)
             \/ Swap(s, t) /\ TradesWith(s, t)
      PROVE  Abstract!Next
  <2>1. s \in Objects /\ t \in Objects
    BY <1>0
  <2> QED
    BY <1>3, <1>4, <1>8, <2>1, AddAllImplements, SubAllImplements, IntersectImplements,
       CopyImplements, CopyConstructImplements, SwapImplements
<1>9. ASSUME NEW p \in Pools, NEW bit \in Bits,
             (Resize(p, bit) \/ Add(p, bit)) /\ UNCHANGED cleared
      PROVE  Abstract!Next
  BY <1>0, <1>1, <1>9, ResizeImplements, AddImplements
<1>10. ASSUME NEW p \in Objects, Clear(p) /\ cleared' = cleared \cup {p} PROVE Abstract!Next
  <2>1. Abstract!Becomes(p, {}, ret) /\ Abstract!OnlyIn(p)
    BY <1>10, ClearImplements
  <2> QED
    BY <1>10, <2>1 DEF Abstract!Next
<1>11. ~UNCHANGED vars
  BY DEF vars, SetsOf, Elems
<1> QED
  BY <1>0, <1>6, <1>7, <1>8, <1>9, <1>10, <1>11 DEF Next, ListNext, PoolNext

\* bitset_t with its words, capacity and stale bits is a set of numbers whose
\* calls say whether they changed it; only of a list that was cleared may a call say so
\* wrongly, and only of other lists taken from it, once.
THEOREM Implements == Spec => Refines
<1>1. Init => Abstract!Init
  BY DEF Init, Elems, Abstract!Init
<1>2. Init => Inv
  BY InitEstablishes
<1> QED
  BY <1>1, <1>2, NextKeeps, NextImplements, PTL DEF Spec, Refines, Abstract!Spec
=============================================================================
