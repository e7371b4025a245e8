---------------------------- MODULE ExroleProofs ----------------------------
(***************************************************************************)
(* Proofs about the traversal of instructions and the extended roles, for    *)
(* every instruction, every size of stack and every table of names: the      *)
(* explicit stack visits operands as recursion would and gives up only on    *)
(* depth, the table is sorted and searched right, and the role read from a   *)
(* call is one that its helper is listed with.                               *)
(***************************************************************************)
EXTENDS Exrole, IndFacts

-----------------------------------------------------------------------------
(* Places.                                                                   *)

\* The way down to p begins as l does and goes on.
Leads(l, p) == Len(l) < Len(p) /\ \A x \in 1..Len(l) : p[x] = l[x]

\* The way down to p leads through the list of e, by a position e has given out.
Given(e, p) == Leads(e.list, p) /\ p[Len(e.list) + 1] <= Position(e)

\* The way down to p leads through the list of e, by one it has not.
Due(e, p) == Leads(e.list, p) /\ p[Len(e.list) + 1] > Position(e)

\* Before, element by element.
LEMMA BeforeIs ==
  ASSUME NEW p \in Seq(Nat), NEW q \in Seq(Nat)
  PROVE  Before(p, q) <=>
           \/ Leads(p, q)
           \/ \E n \in 1..Len(p) : /\ n <= Len(q) /\ p[n] < q[n]
                                   /\ \A k \in 1..(n - 1) : p[k] = q[k]
<1>1. Len(p) \in Nat /\ Len(q) \in Nat
  OBVIOUS
<1>2. ASSUME Len(p) < Len(q)
      PROVE  p = SubSeq(q, 1, Len(p)) <=> \A x \in 1..Len(p) : q[x] = p[x]
  <2> DEFINE s == SubSeq(q, 1, Len(p))
  <2>1. s \in Seq(Nat) /\ Len(s) = Len(p) /\ \A x \in 1..Len(p) : s[x] = q[x]
    BY <1>1, <1>2
  <2> HIDE DEF s
  <2>2. ASSUME \A x \in 1..Len(p) : q[x] = p[x] PROVE p = s
    <3>1. \A x \in 1..Len(p) : s[x] = p[x]
      BY <2>1, <2>2
    <3>2. p \in Seq(Nat) /\ s \in Seq(Nat) /\ Len(s) = Len(p)
      BY <2>1
    <3> QED
      BY <3>1, <3>2, SameSeq
  <2>3. ASSUME p = s PROVE \A x \in 1..Len(p) : q[x] = p[x]
    BY <2>1, <2>3
  <2> QED
    BY <2>2, <2>3 DEF s
<1>3. Leads(p, q) <=> Len(p) < Len(q) /\ p = SubSeq(q, 1, Len(p))
  BY <1>2 DEF Leads
<1> QED
  BY <1>3, Zenon DEF Before

\* What comes before a place comes before all that lies within it.
LEMMA BeforeWithin ==
  ASSUME NEW l \in Seq(Nat), NEW q \in Seq(Nat), NEW p \in Seq(Nat), Before(l, q), Leads(q, p)
  PROVE  Before(l, p)
<1>1. Len(l) \in Nat /\ Len(q) \in Nat /\ Len(p) \in Nat
  OBVIOUS
<1>2. CASE Leads(l, q)
  <2> DEFINE dl == Len(l)
             dq == Len(q)
             dp == Len(p)
  <2>0. /\ dl \in Nat /\ dq \in Nat /\ dp \in Nat /\ dl < dq /\ dq < dp
        /\ (\A x \in 1..dl : q[x] = l[x]) /\ (\A x \in 1..dq : p[x] = q[x])
    BY <1>1, <1>2 DEF Leads
  <2>1. Leads(l, p)
    <3> HIDE DEF dl, dq, dp
    <3>1. dl < dp /\ \A x \in 1..dl : p[x] = l[x]
      BY <2>0
    <3> QED
      BY <3>1 DEF Leads, dl, dp
  <2> QED
    BY <2>1, BeforeIs
<1>3. CASE \E n \in 1..Len(l) : /\ n <= Len(q) /\ l[n] < q[n]
                                /\ \A k \in 1..(n - 1) : l[k] = q[k]
  <2>1. PICK n \in 1..Len(l) : /\ n <= Len(q) /\ l[n] < q[n]
                               /\ \A k \in 1..(n - 1) : l[k] = q[k]
    BY <1>3
  <2>2. n <= Len(p) /\ \A x \in 1..n : p[x] = q[x]
    <3> DEFINE dl == Len(l)
               dq == Len(q)
               dp == Len(p)
    <3>1. /\ dl \in Nat /\ dq \in Nat /\ dp \in Nat /\ n \in 1..dl /\ n <= dq /\ dq < dp
          /\ \A x \in 1..dq : p[x] = q[x]
      BY <1>1, <2>1 DEF Leads
    <3> HIDE DEF dl, dq, dp
    <3>2. n <= dp /\ \A x \in 1..n : p[x] = q[x]
      BY <3>1
    <3> QED
      BY <3>2 DEF dp
  <2>3. l[n] < p[n] /\ \A k \in 1..(n - 1) : l[k] = p[k]
    <3>1. n \in 1..n /\ \A k \in 1..(n - 1) : k \in 1..n
      BY <2>1
    <3> QED
      BY <2>1, <2>2, <3>1
  <2> QED
    BY <2>2, <2>3, BeforeIs
<1> QED
  BY <1>2, <1>3, BeforeIs

\* What an element has given out, and all on the way to it, comes before what is
\* due.
LEMMA GivenBefore ==
  ASSUME NEW e, e.list \in Seq(Nat), Position(e) \in Nat,
         NEW l \in Seq(Nat), NEW p \in Seq(Nat), Given(e, l), Due(e, p)
  PROVE  Before(l, p)
<1> DEFINE n == Len(e.list) + 1
<1>0. /\ Len(e.list) < Len(l) /\ Len(e.list) < Len(p)
      /\ \A k \in 1..Len(e.list) : l[k] = e.list[k] /\ p[k] = e.list[k]
  BY DEF Given, Due, Leads
<1>1. Len(l) \in Nat /\ Len(p) \in Nat /\ n \in 1..Len(l) /\ n <= Len(p) /\ Len(e.list) \in Nat
  <2> DEFINE a == Len(l)
             b == Len(p)
             c == Len(e.list)
  <2>1. a \in Nat /\ b \in Nat /\ c \in Nat /\ c < a /\ c < b
    BY <1>0
  <2> HIDE DEF a, b, c
  <2>2. c + 1 \in 1..a /\ c + 1 <= b
    BY <2>1
  <2> QED
    BY <2>1, <2>2 DEF a, b, c
<1>2. l[n] \in Nat /\ p[n] \in Nat
  <2>1. n \in 1..Len(l) /\ n \in 1..Len(p)
    BY <1>1
  <2> HIDE DEF n
  <2> QED
    BY <2>1
<1>3. l[n] < p[n]
  <2> DEFINE pos == Position(e)
  <2>1. pos \in Nat /\ l[n] <= pos /\ p[n] > pos
    BY DEF Given, Due
  <2> HIDE DEF n, pos
  <2> QED
    BY <1>2, <2>1
<1>4. \A k \in 1..(n - 1) : l[k] = p[k]
  <2> DEFINE c == Len(e.list)
  <2>1. c \in Nat /\ n = c + 1 /\ \A k \in 1..c : l[k] = p[k]
    BY <1>0, <1>1
  <2> HIDE DEF n, c
  <2>2. n - 1 = c
    BY <2>1
  <2> QED
    BY <2>1, <2>2
<1> QED
  <2> HIDE DEF n
  <2> QED
    BY <1>1, <1>3, <1>4, BeforeIs

\* An operand of a list is the way down to the list and a position.
LEMMA OperandIs ==
  ASSUME NEW l \in Seq(Nat), NEW n \in Nat
  PROVE  /\ Append(l, n) \in Seq(Nat) /\ Len(Append(l, n)) = Len(l) + 1
         /\ Append(l, n)[Len(l) + 1] = n /\ Leads(l, Append(l, n))
BY DEF Leads

\* What leads to a list leads to its operands, by the same positions.
LEMMA GivenWithin ==
  ASSUME NEW e, e.list \in Seq(Nat), NEW l \in Seq(Nat), NEW n \in Nat, Given(e, l)
  PROVE  Given(e, Append(l, n))
<1> DEFINE p == Append(l, n)
           d == Len(e.list)
<1>1. Len(l) \in Nat /\ d \in Nat /\ p \in Seq(Nat) /\ Len(p) = Len(l) + 1
      /\ \A x \in 1..Len(l) : p[x] = l[x]
  OBVIOUS
<1>2. d < Len(l) /\ (\A x \in 1..d : l[x] = e.list[x]) /\ l[d + 1] <= Position(e)
  BY DEF Given, Leads
<1> DEFINE dl == Len(l)
<1> HIDE DEF p, d, dl
<1>3. d < dl + 1 /\ (\A x \in 1..d : p[x] = e.list[x]) /\ p[d + 1] <= Position(e)
  <2>1. dl \in Nat /\ d \in Nat /\ d < dl
    BY <1>1, <1>2 DEF dl
  <2>2. d + 1 \in 1..dl /\ \A x \in 1..d : x \in 1..dl
    BY <2>1
  <2>3. p[d + 1] = l[d + 1] /\ \A x \in 1..d : p[x] = l[x]
    BY <1>1, <2>2 DEF dl
  <2> QED
    BY <1>2, <2>1, <2>3
<1> QED
  BY <1>1, <1>3 DEF Given, Leads, p, d, dl

-----------------------------------------------------------------------------
(* Instructions.                                                             *)

\* A place of an instruction.
LEMMA PlaceIs ==
  ASSUME NEW i \in Insns, NEW m \in DOMAIN i
  PROVE  /\ m \in Seq(Nat) /\ Length(i, m) \in Nat /\ <<>> \in DOMAIN i
         /\ \A n \in 1..Length(i, m) : Append(m, n) \in DOMAIN i
BY InsnsAssumption

\* A way down through m goes on through an operand of its list.
LEMMA WayDown ==
  ASSUME NEW i \in Insns, NEW m \in DOMAIN i, NEW p \in DOMAIN i, Leads(m, p)
  PROVE  /\ p[Len(m) + 1] \in 1..Length(i, m)
         /\ p = Append(m, p[Len(m) + 1]) \/ Leads(Append(m, p[Len(m) + 1]), p)
<1> DEFINE d == Len(m)
           k == d + 1
           n == p[k]
           q == Append(m, n)
<1>0. m \in Seq(Nat) /\ p \in Seq(Nat)
  BY PlaceIs
<1>1. m \in Seq(Nat) /\ p \in Seq(Nat) /\ d \in Nat /\ d < Len(p) /\ Len(p) \in Nat
      /\ \A x \in 1..d : p[x] = m[x]
  BY <1>0 DEF Leads
<1>2. k \in 1..Len(p) /\ k - 1 = d
  BY <1>1
<1>3. SubSeq(p, 1, d) = m
  <2> DEFINE s == SubSeq(p, 1, d)
  <2>1. s \in Seq(Nat) /\ Len(s) = d /\ \A x \in 1..d : s[x] = p[x]
    BY <1>1
  <2> HIDE DEF s
  <2>2. \A x \in 1..Len(m) : s[x] = m[x]
    BY <1>1, <2>1
  <2> QED
    BY <1>1, <2>1, <2>2, SameSeq DEF s
<1>4. n \in 1..Length(i, m)
  <2>1. \E above \in {SubSeq(p, 1, k - 1)} : above \in DOMAIN i /\ p[k] \in 1..Length(i, above)
    <3> HIDE DEF k
    <3> QED
      BY <1>2, InsnsAssumption
  <2>2. p[k] \in 1..Length(i, SubSeq(p, 1, k - 1))
    BY <2>1
  <2> HIDE DEF k
  <2> QED
    BY <1>2, <1>3, <2>2
<1>5. n \in Nat
  BY <1>4, PlaceIs
<1>6. q \in Seq(Nat) /\ Len(q) = k /\ (\A x \in 1..d : q[x] = p[x]) /\ q[k] = p[k]
  <2> HIDE DEF n
  <2>1. q \in Seq(Nat) /\ Len(q) = d + 1 /\ (\A x \in 1..d : q[x] = m[x]) /\ q[d + 1] = n
    BY <1>1, <1>5
  <2> QED
    BY <1>1, <2>1 DEF n
<1>7. \A x \in 1..k : q[x] = p[x]
  <2> HIDE DEF q
  <2>1. \A x \in 1..k : x \in 1..d \/ x = k
    BY <1>1
  <2> HIDE DEF d, k
  <2> QED
    BY <1>6, <2>1
<1> HIDE DEF d, n, q
<1>8. CASE k = Len(p)
  <2>1. q = p
    BY <1>1, <1>6, <1>7, <1>8, SameSeq
  <2> QED
    BY <1>4, <2>1 DEF q, n, d
<1>9. CASE k < Len(p)
  <2>1. Leads(q, p)
    BY <1>6, <1>7, <1>9 DEF Leads
  <2> QED
    BY <1>4, <2>1 DEF q, n, d
<1> QED
  BY <1>1, <1>2, <1>8, <1>9

\* The fields of an element.
LEMMA FieldParts ==
  ASSUME NEW c \in Nat
  PROVE  /\ c \div Field \in Nat /\ c % Field \in 0..(Field - 1)
         /\ c = Field * (c \div Field) + (c % Field)
         /\ (c + Field) \div Field = (c \div Field) + 1
         /\ (c + Field) % Field = c % Field
<1> DEFINE q == c \div Field
           r == c % Field
<1>1. Field \in Nat /\ Field > 1
  BY TraverseAssumption
<1>2. q \in Nat /\ r \in 0..(Field - 1) /\ c = Field * q + r
  BY <1>1
<1> HIDE DEF q, r
<1>3. c + Field = Field * (q + 1) + r
  BY <1>1, <1>2
<1>4. (c + Field) \div Field = q + 1 /\ (c + Field) % Field = r
  BY <1>1, <1>2, <1>3
<1> QED
  BY <1>2, <1>4 DEF q, r

\* The length a list is put on the stack with, as its fields say it.
LEMMA EncodeIs ==
  ASSUME NEW n \in Nat \ {0}
  PROVE  /\ Encode(n) \in Nat /\ Encode(n) <= n
         /\ (Encode(n) \div Field) + 1 <= n
         /\ Encode(n) % Field <= n
         /\ n < Field => Encode(n) \div Field = 0 /\ Encode(n) % Field = n
<1> DEFINE c == Encode(n)
           q == c \div Field
           r == c % Field
           N == Field * Field
<1>1. Field \in Nat /\ Field > 1
  BY TraverseAssumption
<1>2. N \in Nat /\ N >= Field
  BY <1>1
<1>3. c \in Nat /\ c <= n /\ (n < Field => c = n)
  <2>1. c = n % N
    BY DEF Encode
  <2>2. N > 0
    BY <1>1, <1>2
  <2> HIDE DEF N, c
  <2>3. n % N \in Nat /\ n % N <= n /\ (n < N => n % N = n)
    BY <1>2, <2>2
  <2> QED
    BY <1>1, <1>2, <2>1, <2>3
<1> HIDE DEF c
<1>4. q \in Nat /\ r \in 0..(Field - 1) /\ c = Field * q + r
  BY <1>3, FieldParts
<1> HIDE DEF q, r
<1>5. q + 1 <= n
  <2>1. CASE q = 0
    BY <2>1
  <2>2. CASE q # 0
    <3>1. Field * q >= 2 * q
      BY <1>1, <1>4
    <3>2. q >= 1
      BY <1>4, <2>2
    <3> QED
      <4> DEFINE t == Field * q
      <4>1. t \in Nat /\ t >= 2 * q /\ c = t + r
        BY <1>1, <1>4, <3>1
      <4> HIDE DEF t
      <4> QED
        BY <1>3, <1>4, <3>2, <4>1
  <2> QED
    BY <2>1, <2>2
<1>6. r <= n
  BY <1>1, <1>3, <1>4
<1>7. ASSUME n < Field PROVE q = 0 /\ r = n
  <2>1. CASE q = 0
    BY <1>1, <1>3, <1>4, <1>7, <2>1
  <2>2. CASE q # 0
    <3>1. Field * q >= Field
      BY <1>1, <1>4, <2>2
    <3> QED
      BY <1>1, <1>3, <1>4, <1>7, <3>1
  <2> QED
    BY <2>1, <2>2
<1> QED
  BY <1>3, <1>5, <1>6, <1>7 DEF c, q, r

\* What is put on the stack below m: the list of its operands, or nothing when
\* there are none to be seen but the one of an address.
LEMMA PushedIs ==
  ASSUME NEW i \in Insns, NEW m \in DOMAIN i
  PROVE  /\ \/ Pushed(i, m) = <<>>
            \/ Pushed(i, m) = <<List(m, Length(i, m))>> /\ Length(i, m) \in Nat \ {0}
         /\ i[m].t = "a" => Length(i, m) = 1 /\ Pushed(i, m) = <<>>
         /\ i[m].t = "z" => Length(i, m) = 0 /\ Pushed(i, m) = <<>>
         /\ Pushed(i, m) = <<>> /\ i[m].t # "a" =>
              \A n \in 1..Length(i, m) : i[Append(m, n)].t = "z"
<1>1. Length(i, m) \in Nat
  BY PlaceIs
<1>2. CASE i[m].t \in {"insn", "d"}
  <2>1. Length(i, m) = 3
    BY <1>2 DEF Length
  <2>2. Pushed(i, m) = IF \A n \in 1..3 : i[Append(m, n)].t = "z" THEN <<>> ELSE <<List(m, 3)>>
    BY <1>2 DEF Pushed
  <2>3. i[m].t # "a" /\ i[m].t # "z"
    BY <1>2
  <2>4. <<List(m, 3)>> # <<>>
    OBVIOUS
  <2>5. 3 \in Nat \ {0}
    OBVIOUS
  <2> QED
    BY <2>1, <2>2, <2>3, <2>4, <2>5, Zenon
<1>3. CASE i[m].t = "p"
  <2>1. Length(i, m) = 2 /\ Pushed(i, m) = <<List(m, 2)>>
    BY <1>3 DEF Length, Pushed
  <2>2. <<List(m, 2)>> # <<>> /\ 2 \in Nat \ {0} /\ i[m].t # "a" /\ i[m].t # "z"
    BY <1>3
  <2> QED
    BY <2>1, <2>2, Zenon
<1>4. CASE i[m].t = "a"
  <2>1. Length(i, m) = 1 /\ Pushed(i, m) = <<>>
    BY <1>4 DEF Length, Pushed
  <2> QED
    BY <1>4, <2>1
<1>5. CASE i[m].t = "f"
  <2>1. Length(i, m) = i[m].args
    BY <1>5 DEF Length
  <2>2. Pushed(i, m) = IF i[m].args = 0 THEN <<>> ELSE <<List(m, i[m].args)>>
    BY <1>5 DEF Pushed
  <2>3. <<List(m, i[m].args)>> # <<>> /\ i[m].t # "a" /\ i[m].t # "z"
    BY <1>5
  <2>4. 1..0 = {}
    OBVIOUS
  <2>5. CASE i[m].args = 0
    <3>1. Length(i, m) = 0 /\ Pushed(i, m) = <<>>
      BY <2>1, <2>2, <2>5
    <3> QED
      BY <2>3, <2>4, <3>1
  <2>6. CASE i[m].args # 0
    BY <1>1, <2>1, <2>2, <2>3, <2>6
  <2> QED
    BY <2>5, <2>6
<1>6. CASE i[m].t \notin {"insn", "d", "p", "a", "f"}
  <2>1. Length(i, m) = 0 /\ Pushed(i, m) = <<>>
    BY <1>6 DEF Length, Pushed
  <2> QED
    BY <1>6, <2>1
<1> QED
  BY <1>2, <1>3, <1>4, <1>5, <1>6

-----------------------------------------------------------------------------
(* The stack.                                                                *)

\* The elements of the stack.
Elem == [list : Seq(Nat), ctx : Nat]

\* What the traversal is to find in i.
Seen(i) == {p \in DOMAIN i : p # <<>> /\ i[p].t # "z"}

\* Every list of i is as long as the fields can say.
Fit(i) == \A p \in DOMAIN i : Length(i, p) < Field

\* An element is a list of i, with a next position and a length within it.
Holds(i, e) ==
  /\ e \in Elem /\ e.list \in DOMAIN i
  /\ Position(e) + 1 <= Length(i, e.list) /\ LengthIn(e) <= Length(i, e.list)
  /\ Fit(i) => LengthIn(e) = Length(i, e.list)

\* Each element lies within what those below it have given out, so that the
\* stack is no higher than its lists are deep.
Nested(i, s) ==
  /\ s \in Seq(Elem)
  /\ \A k \in 1..Len(s) : Holds(i, s[k]) /\ k <= Len(s[k].list) + 1
  /\ \A j \in 1..Len(s) : \A k \in 1..Len(s) : j < k => Given(s[j], s[k].list)

\* p is m or within it.
Within(m, p) == p = m \/ Leads(m, p)

\* An element of the stack has still to lead to p.
Waits(s, p) == \E k \in 1..Len(s) : Due(s[k], p)

\* The stack once the operand m has been taken off it.
Taken(i, s, m) ==
  /\ Nested(i, s) /\ m \in DOMAIN i /\ m # <<>>
  /\ \A k \in 1..Len(s) : Given(s[k], m)
  /\ Len(s) + 1 <= Len(m) + 1

\* The types of what an element says.
LEMMA HoldsParts ==
  ASSUME NEW i \in Insns, NEW e, Holds(i, e)
  PROVE  /\ e.list \in Seq(Nat) /\ e.ctx \in Nat /\ Position(e) \in Nat /\ LengthIn(e) \in Nat
         /\ Position(e) + 1 \in 1..Length(i, e.list) /\ e.list \in DOMAIN i
<1>1. e.list \in Seq(Nat) /\ e.ctx \in Nat /\ e.list \in DOMAIN i
  BY DEF Holds, Elem
<1>2. Position(e) \in Nat /\ LengthIn(e) \in Nat
  <2> DEFINE c == e.ctx
  <2>1. c \in Nat
    BY <1>1
  <2> HIDE DEF c
  <2>2. c \div Field \in Nat /\ c % Field \in Nat
    <3>1. c \div Field \in Nat /\ c % Field \in 0..(Field - 1) /\ Field \in Nat
      BY <2>1, FieldParts, TraverseAssumption
    <3> QED
      BY <3>1
  <2> QED
    BY <2>2 DEF Position, LengthIn, c
<1>3. Length(i, e.list) \in Nat
  BY <1>1, PlaceIs
<1>4. Position(e) + 1 <= Length(i, e.list)
  BY DEF Holds
<1> QED
  BY <1>1, <1>2, <1>3, <1>4

\* A list as it is put on the stack.
LEMMA ListHolds ==
  ASSUME NEW i \in Insns, NEW m \in DOMAIN i, Length(i, m) \in Nat \ {0}
  PROVE  Holds(i, List(m, Length(i, m))) /\ List(m, Length(i, m)).list = m
         /\ (Fit(i) => Position(List(m, Length(i, m))) = 0)
<1> DEFINE n == Length(i, m)
           e == List(m, n)
<1>1. e = [list |-> m, ctx |-> Encode(n)]
  BY DEF List
<1> HIDE DEF n, e
<1>2. n \in Nat \ {0} /\ m \in Seq(Nat) /\ (Fit(i) => n < Field)
  BY PlaceIs DEF n, Fit
<1>3. /\ Encode(n) \in Nat
      /\ (Encode(n) \div Field) + 1 <= n
      /\ Encode(n) % Field <= n
      /\ n < Field => Encode(n) \div Field = 0 /\ Encode(n) % Field = n
  BY <1>2, EncodeIs
<1>4. e.list = m /\ e.ctx = Encode(n) /\ e \in Elem
  BY <1>1, <1>2, <1>3 DEF Elem
<1>5. Position(e) = Encode(n) \div Field /\ LengthIn(e) = Encode(n) % Field
  BY <1>4 DEF Position, LengthIn
<1>6. Holds(i, e)
  BY <1>2, <1>3, <1>4, <1>5 DEF Holds, n
<1> QED
  BY <1>2, <1>3, <1>4, <1>5, <1>6 DEF e, n

\* The stack without its last element.
LEMMA FrontIs ==
  ASSUME NEW X, NEW s \in Seq(X), s # <<>>
  PROVE  /\ Front(s) \in Seq(X) /\ Len(Front(s)) = Len(s) - 1 /\ Len(s) \in Nat \ {0}
         /\ \A k \in 1..(Len(s) - 1) : Front(s)[k] = s[k]
         /\ Last(s) = s[Len(s)] /\ Last(s) \in X
<1>1. Len(s) \in Nat \ {0} /\ s[Len(s)] \in X
  OBVIOUS
<1>2. Last(s) = s[Len(s)] /\ Front(s) = SubSeq(s, 1, Len(s) - 1)
  BY DEF Front, Last
<1> DEFINE n == Len(s) - 1
           f == SubSeq(s, 1, n)
<1>3. f \in Seq(X) /\ Len(f) = n /\ \A k \in 1..n : f[k] = s[k]
  <2>1. n \in 0..Len(s) /\ n \in Nat /\ 1 \in 1..(Len(s) + 1) /\ 1 <= n + 1 /\ (n - 1) + 1 = n
        /\ \A k \in 1..n : (1 + k) - 1 = k
    BY <1>1
  <2> HIDE DEF n
  <2>2. f \in Seq(X) /\ Len(f) = (n - 1) + 1 /\ \A k \in 1..((n - 1) + 1) : f[k] = s[(1 + k) - 1]
    BY <2>1, PartIs
  <2> QED
    BY <2>1, <2>2
<1> QED
  BY <1>1, <1>2, <1>3

\* A sequence with one more element.
LEMMA PushIs ==
  ASSUME NEW X, NEW s \in Seq(X), NEW e \in X
  PROVE  /\ Append(s, e) \in Seq(X) /\ Len(Append(s, e)) = Len(s) + 1
         /\ \A k \in 1..Len(s) : Append(s, e)[k] = s[k]
         /\ Append(s, e)[Len(s) + 1] = e /\ s \o <<e>> = Append(s, e)
         /\ Append(s, e) # <<>> /\ Last(Append(s, e)) = e
BY DEF Last

\* What an operand seen adds to those seen.
LEMMA SeenOneMore ==
  ASSUME NEW X, NEW v \in Seq(X), NEW m \in X
  PROVE  Range(Append(v, m)) = Range(v) \cup {m}
<1> DEFINE w == Append(v, m)
<1>1. w \in Seq(X) /\ Len(w) = Len(v) + 1 /\ (\A k \in 1..Len(v) : w[k] = v[k]) /\ w[Len(v) + 1] = m
      /\ DOMAIN w = 1..(Len(v) + 1) /\ DOMAIN v = 1..Len(v) /\ Len(v) \in Nat
  OBVIOUS
<1> HIDE DEF w
<1>2. ASSUME NEW p \in Range(w) PROVE p \in Range(v) \cup {m}
  <2>1. PICK k \in DOMAIN w : p = w[k]
    BY DEF Range
  <2>2. k \in 1..Len(v) \/ k = Len(v) + 1
    BY <1>1, <2>1
  <2> QED
    BY <1>1, <2>1, <2>2 DEF Range
<1>3. ASSUME NEW p \in Range(v) PROVE p \in Range(w)
  <2>1. PICK k \in DOMAIN v : p = v[k]
    BY DEF Range
  <2>2. k \in DOMAIN w /\ w[k] = p
    BY <1>1, <2>1
  <2> QED
    BY <2>2 DEF Range
<1>4. m \in Range(w)
  <2>1. Len(v) + 1 \in DOMAIN w
    BY <1>1
  <2> QED
    BY <1>1, <2>1 DEF Range
<1> QED
  BY <1>2, <1>3, <1>4 DEF w

\* The stack when the next operand has been acquired from its last element.
Advanced(s) ==
  LET ele == Last(s)
  IN IF Position(ele) + 1 < LengthIn(ele)
     THEN Append(Front(s), [ele EXCEPT !.ctx = @ + Field])
     ELSE Front(s)

\* The element that moves on to its next operand.
LEMMA MovesOn ==
  ASSUME NEW i \in Insns, NEW e, Holds(i, e), Position(e) + 1 < LengthIn(e)
  PROVE  /\ Holds(i, [e EXCEPT !.ctx = @ + Field])
         /\ [e EXCEPT !.ctx = @ + Field].list = e.list
         /\ Position([e EXCEPT !.ctx = @ + Field]) = Position(e) + 1
<1> DEFINE f == [e EXCEPT !.ctx = @ + Field]
           c == e.ctx
           n == Length(i, e.list)
<1>1. e \in Elem /\ c \in Nat /\ n \in Nat /\ Field \in Nat
  BY HoldsParts, PlaceIs, TraverseAssumption DEF Holds, Elem
<1>2. f \in Elem /\ f.list = e.list /\ f.ctx = c + Field
  BY <1>1 DEF Elem
<1> HIDE DEF f
<1>3. (c + Field) \div Field = (c \div Field) + 1 /\ (c + Field) % Field = c % Field
  <2> HIDE DEF c
  <2> QED
    BY <1>1, FieldParts
<1>4. Position(f) = Position(e) + 1 /\ LengthIn(f) = LengthIn(e)
  BY <1>2, <1>3 DEF Position, LengthIn
<1>5. Position(f) + 1 <= n
  <2>1. Position(e) \in Nat /\ LengthIn(e) \in Nat /\ LengthIn(e) <= n
    BY HoldsParts DEF Holds
  <2> DEFINE a == Position(e)
             b == LengthIn(e)
  <2>2. a \in Nat /\ b \in Nat /\ b <= n /\ a + 1 < b /\ Position(f) = a + 1
    BY <1>4, <2>1
  <2> HIDE DEF a, b, n
  <2> QED
    BY <1>1, <2>2
<1>6. Holds(i, f)
  BY <1>2, <1>4, <1>5 DEF Holds
<1> QED
  BY <1>2, <1>4, <1>6 DEF f

\* A stack without its last element.
LEMMA DroppedIs ==
  ASSUME NEW i \in Insns, NEW s, Nested(i, s), s # <<>>
  PROVE  /\ Nested(i, Front(s)) /\ Holds(i, Last(s))
         /\ \A k \in 1..Len(Front(s)) : Given(s[k], Last(s).list) /\ Front(s)[k] = s[k]
         /\ Len(Front(s)) + 1 = Len(s) /\ Len(s) <= Len(Last(s).list) + 1
<1> DEFINE f == Front(s)
           n == Len(s)
           d == n - 1
<1>1. s \in Seq(Elem) /\ f \in Seq(Elem) /\ Len(f) = d /\ n \in Nat \ {0} /\ (\A k \in 1..d : f[k] = s[k])
      /\ Last(s) = s[n]
  BY FrontIs DEF Nested
<1>2. \A k \in 1..n : Holds(i, s[k]) /\ k <= Len(s[k].list) + 1
  BY DEF Nested
<1>3. \A j \in 1..n : \A k \in 1..n : j < k => Given(s[j], s[k].list)
  BY DEF Nested
<1>4. d \in Nat /\ d + 1 = n /\ n \in 1..n /\ \A k \in 1..d : k \in 1..n /\ k < n
  BY <1>1
<1> HIDE DEF f, n, d
<1>5. Nested(i, f)
  <2>1. \A k \in 1..Len(f) : Holds(i, f[k]) /\ k <= Len(f[k].list) + 1
    BY <1>1, <1>2, <1>4
  <2>2. \A j \in 1..Len(f) : \A k \in 1..Len(f) : j < k => Given(f[j], f[k].list)
    BY <1>1, <1>3, <1>4
  <2> QED
    BY <1>1, <2>1, <2>2 DEF Nested
<1>6. Holds(i, Last(s)) /\ n <= Len(Last(s).list) + 1
  BY <1>1, <1>2, <1>4
<1>7. \A k \in 1..Len(f) : Given(s[k], Last(s).list) /\ f[k] = s[k]
  BY <1>1, <1>3, <1>4
<1> QED
  BY <1>1, <1>4, <1>5, <1>6, <1>7 DEF f, n

\* A list put on a stack all of which has given it out.
LEMMA PutOn ==
  ASSUME NEW i \in Insns, NEW s, Nested(i, s), NEW e, Holds(i, e), Len(s) <= Len(e.list),
         \A k \in 1..Len(s) : Given(s[k], e.list)
  PROVE  Nested(i, Append(s, e))
<1> DEFINE t == Append(s, e)
           n == Len(s)
<1>1. s \in Seq(Elem) /\ e \in Elem
  BY DEF Nested, Holds
<1>2. t \in Seq(Elem) /\ Len(t) = n + 1 /\ (\A k \in 1..n : t[k] = s[k]) /\ t[n + 1] = e /\ n \in Nat
  BY <1>1
<1>3. \A k \in 1..n : Holds(i, s[k]) /\ k <= Len(s[k].list) + 1
  BY DEF Nested
<1>4. \A j \in 1..n : \A k \in 1..n : j < k => Given(s[j], s[k].list)
  BY DEF Nested
<1>5. n <= Len(e.list) /\ (\A k \in 1..n : Given(s[k], e.list)) /\ Len(e.list) \in Nat
  BY HoldsParts
<1> HIDE DEF t, n
<1>6. \A k \in 1..(n + 1) : k \in 1..n \/ k = n + 1
  BY <1>2
<1>7. \A k \in 1..(n + 1) : Holds(i, t[k]) /\ k <= Len(t[k].list) + 1
  <2>1. n + 1 <= Len(e.list) + 1
    BY <1>2, <1>5
  <2> QED
    BY <1>2, <1>3, <1>6, <2>1
<1>8. ASSUME NEW j \in 1..(n + 1), NEW k \in 1..(n + 1), j < k PROVE Given(t[j], t[k].list)
  <2>1. j \in 1..n
    BY <1>2, <1>8
  <2>2. CASE k = n + 1
    BY <1>2, <1>5, <2>1, <2>2
  <2>3. CASE k # n + 1
    <3>1. k \in 1..n
      BY <1>6, <2>3
    <3> QED
      BY <1>2, <1>4, <1>8, <2>1, <3>1
  <2> QED
    BY <2>2, <2>3
<1> QED
  BY <1>2, <1>7, <1>8 DEF Nested, t

\* The operand acquired: all that is left of the stack has given it out, and
\* what waited waits on, is that operand or lies within it.
LEMMA AcquiredIs ==
  ASSUME NEW i \in Insns, NEW s, Nested(i, s), s # <<>>
  PROVE  LET e == Last(s)
             m == Append(e.list, Position(e) + 1)
         IN /\ Taken(i, Advanced(s), m)
            /\ Holds(i, e) /\ Due(e, m) /\ Leads(e.list, m)
            /\ Len(Advanced(s)) <= Len(s)
            /\ \A k \in 1..Len(Advanced(s)) :
                 /\ Advanced(s)[k].list = s[k].list /\ k \in 1..Len(s)
                 /\ \A q \in Seq(Nat) : Given(s[k], q) => Given(Advanced(s)[k], q)
            /\ Fit(i) => \A p \in DOMAIN i : Waits(s, p) => Within(m, p) \/ Waits(Advanced(s), p)
<1> DEFINE e == Last(s)
           l == e.list
           n == Position(e) + 1
           m == Append(l, n)
           f == Front(s)
           g == [e EXCEPT !.ctx = @ + Field]
           a == Advanced(s)
<1>1. /\ Nested(i, f) /\ Holds(i, e) /\ Len(f) + 1 = Len(s) /\ Len(s) <= Len(l) + 1
      /\ \A k \in 1..Len(f) : Given(s[k], l) /\ f[k] = s[k]
  BY DroppedIs
<1>2. /\ l \in Seq(Nat) /\ l \in DOMAIN i /\ Position(e) \in Nat /\ n \in Nat
      /\ n \in 1..Length(i, l) /\ LengthIn(e) \in Nat
  <2>1. Holds(i, e)
    BY <1>1
  <2> HIDE DEF e
  <2>2. /\ l \in Seq(Nat) /\ l \in DOMAIN i /\ Position(e) \in Nat
        /\ n \in 1..Length(i, l) /\ LengthIn(e) \in Nat
    BY <2>1, HoldsParts
  <2> QED
    BY <2>2
<1>3. s \in Seq(Elem) /\ Len(s) \in Nat \ {0} /\ e = s[Len(s)] /\ f \in Seq(Elem) /\ Len(f) \in Nat
  <2>1. s \in Seq(Elem)
    BY DEF Nested
  <2>2. Len(s) \in Nat \ {0} /\ e = s[Len(s)] /\ f \in Seq(Elem)
    BY <2>1, FrontIs
  <2> QED
    BY <2>2, <2>1
<1>4. m \in DOMAIN i
  <2> HIDE DEF l, n
  <2> QED
    BY <1>2, PlaceIs
<1>5. m \in Seq(Nat) /\ Len(m) = Len(l) + 1 /\ m[Len(l) + 1] = n /\ Leads(l, m) /\ Len(l) \in Nat /\ m # <<>>
  <2> HIDE DEF l, n
  <2>1. m \in Seq(Nat) /\ Len(m) = Len(l) + 1 /\ m[Len(l) + 1] = n /\ Leads(l, m)
    BY <1>2, OperandIs
  <2> QED
    BY <1>2, <2>1
<1>6. Due(e, m)
  <2>1. n > Position(e)
    BY <1>2
  <2> HIDE DEF m, n
  <2> QED
    BY <1>5, <2>1 DEF Due
<1>7. \A k \in 1..Len(f) : Given(f[k], m)
  <2> TAKE k \in 1..Len(f)
  <2>1. f[k].list \in Seq(Nat)
    <3>1. Holds(i, f[k])
      BY <1>1 DEF Nested
    <3> QED
      BY <3>1, HoldsParts
  <2>2. Given(f[k], l)
    BY <1>1
  <2> HIDE DEF l, n, f
  <2> QED
    BY <1>2, <2>1, <2>2, GivenWithin
<1>8. CASE n < LengthIn(e)
  <2>1. a = Append(f, g)
    BY <1>8 DEF Advanced
  <2>2. Holds(i, g) /\ g.list = l /\ Position(g) = n
    <3>1. Holds(i, e)
      BY <1>1
    <3> HIDE DEF e
    <3> QED
      BY <1>8, <3>1, MovesOn
  <2> HIDE DEF m, n, e, l, f, g, a
  <2>3. Given(g, m)
    <3>1. n <= n
      BY <1>2
    <3> QED
      BY <1>5, <2>2, <3>1 DEF Given
  <2>4. Nested(i, a)
    <3>1. Len(f) <= Len(g.list)
      BY <1>1, <1>3, <1>5, <2>2
    <3>2. \A k \in 1..Len(f) : Given(f[k], g.list)
      BY <1>1, <2>2
    <3> QED
      BY <1>1, <2>1, <2>2, <3>1, <3>2, PutOn
  <2>5. g \in Elem
    BY <2>2 DEF Holds
  <2>6. /\ Len(a) = Len(f) + 1 /\ (\A k \in 1..Len(f) : a[k] = f[k]) /\ a[Len(f) + 1] = g
        /\ \A k \in 1..Len(a) : k \in 1..Len(f) \/ k = Len(f) + 1
    BY <1>3, <2>1, <2>5
  <2>7. \A k \in 1..Len(a) : Given(a[k], m)
    BY <1>7, <2>3, <2>6
  <2>8. Len(a) = Len(s) /\ Len(a) + 1 <= Len(m) + 1
    BY <1>1, <1>3, <1>5, <2>6
  <2>9. Taken(i, a, m)
    BY <1>4, <1>5, <2>4, <2>7, <2>8 DEF Taken
  <2>10. ASSUME NEW k \in 1..Len(a)
         PROVE  a[k].list = s[k].list /\ k \in 1..Len(s) /\ \A q \in Seq(Nat) : Given(s[k], q) => Given(a[k], q)
    <3>1. CASE k \in 1..Len(f)
      BY <1>1, <2>6, <2>8, <3>1
    <3>2. CASE k = Len(f) + 1
      <4>1. a[k] = g /\ s[k] = e
        BY <1>1, <1>3, <2>6, <3>2
      <4>2. ASSUME NEW q \in Seq(Nat), Given(e, q) PROVE Given(g, q)
        <5>1. Leads(l, q) /\ q[Len(l) + 1] <= Position(e)
          BY <4>2 DEF Given, l
        <5>2. q[Len(l) + 1] \in Nat
          <6>1. Len(l) + 1 \in 1..Len(q)
            BY <1>5, <5>1 DEF Leads
          <6> QED
            BY <6>1
        <5>3. q[Len(l) + 1] <= n
          BY <1>2, <5>1, <5>2 DEF n
        <5> QED
          BY <2>2, <5>1, <5>3 DEF Given
      <4> QED
        BY <2>2, <2>8, <4>1, <4>2 DEF l
    <3> QED
      BY <2>6, <3>1, <3>2
  <2>11. ASSUME Fit(i), NEW p \in DOMAIN i, Waits(s, p) PROVE Within(m, p) \/ Waits(a, p)
    <3>1. PICK k \in 1..Len(s) : Due(s[k], p)
      BY <2>11 DEF Waits
    <3>2. CASE k = Len(s)
      <4>1. Leads(l, p) /\ p[Len(l) + 1] > Position(e)
        BY <1>3, <3>1, <3>2 DEF Due, l
      <4>0. p[Len(l) + 1] \in 1..Length(i, l)
            /\ (p = Append(l, p[Len(l) + 1]) \/ Leads(Append(l, p[Len(l) + 1]), p))
        BY <1>2, <4>1, WayDown
      <4>2. p[Len(l) + 1] \in Nat
            /\ (p = Append(l, p[Len(l) + 1]) \/ Leads(Append(l, p[Len(l) + 1]), p))
        <5>1. Length(i, l) \in Nat
          BY <1>2, PlaceIs
        <5> QED
          BY <4>0, <5>1
      <4>3. CASE p[Len(l) + 1] = n
        BY <4>2, <4>3 DEF Within, m
      <4>4. CASE p[Len(l) + 1] # n
        <5>1. p[Len(l) + 1] > n
          BY <1>2, <4>1, <4>2, <4>4 DEF n
        <5>2. Due(g, p)
          BY <2>2, <4>1, <5>1 DEF Due
        <5>3. Len(f) + 1 \in 1..Len(a)
          BY <1>3, <2>6
        <5> QED
          BY <2>6, <5>2, <5>3 DEF Waits
      <4> QED
        BY <4>3, <4>4
    <3>3. CASE k # Len(s)
      <4>1. k \in 1..Len(f) /\ k \in 1..Len(a)
        BY <1>1, <1>3, <2>6, <3>3
      <4>2. Due(a[k], p)
        BY <1>1, <2>6, <3>1, <4>1
      <4> QED
        BY <4>1, <4>2 DEF Waits
    <3> QED
      BY <3>2, <3>3
  <2> QED
    BY <1>1, <1>5, <1>6, <2>8, <2>9, <2>10, <2>11, <1>3 DEF m, n, e, l, a
<1>9. CASE ~(n < LengthIn(e))
  <2>1. a = f
    BY <1>9 DEF Advanced
  <2> HIDE DEF m, n, e, l, f, g, a
  <2>2. Taken(i, a, m)
    <3>1. Len(f) + 1 <= Len(m) + 1
      BY <1>1, <1>3, <1>5
    <3> QED
      BY <1>1, <1>4, <1>5, <1>7, <2>1, <3>1 DEF Taken
  <2>3. Len(a) <= Len(s) /\ \A k \in 1..Len(a) : k \in 1..Len(s) /\ a[k] = s[k]
    BY <1>1, <1>3, <2>1
  <2>4. ASSUME Fit(i), NEW p \in DOMAIN i, Waits(s, p) PROVE Within(m, p) \/ Waits(a, p)
    <3>1. PICK k \in 1..Len(s) : Due(s[k], p)
      BY <2>4 DEF Waits
    <3>2. CASE k = Len(s)
      <4>1. Leads(l, p) /\ p[Len(l) + 1] > Position(e)
        BY <1>3, <3>1, <3>2 DEF Due, l
      <4>2. p[Len(l) + 1] \in 1..Length(i, l)
            /\ (p = Append(l, p[Len(l) + 1]) \/ Leads(Append(l, p[Len(l) + 1]), p))
        BY <1>2, <4>1, WayDown
      <4>3. LengthIn(e) = Length(i, l)
        BY <1>1, <2>4 DEF Holds, l
      <4>4. p[Len(l) + 1] = n
        <5> DEFINE x == p[Len(l) + 1]
                   b == LengthIn(e)
                   c == Position(e)
        <5>1. x \in 1..b /\ b \in Nat /\ c \in Nat /\ n = c + 1 /\ x > c /\ ~(n < b)
          BY <1>2, <1>9, <4>1, <4>2, <4>3 DEF n
        <5> HIDE DEF x, b, c
        <5>2. x = n
          BY <5>1
        <5> QED
          BY <5>2 DEF x
      <4> QED
        BY <4>2, <4>4 DEF Within, m
    <3>3. CASE k # Len(s)
      <4>1. k \in 1..Len(a)
        BY <1>1, <1>3, <2>1, <3>3
      <4>2. Due(a[k], p)
        BY <2>3, <3>1, <4>1
      <4> QED
        BY <4>1, <4>2 DEF Waits
    <3> QED
      BY <3>2, <3>3
  <2> QED
    BY <1>1, <1>5, <1>6, <2>2, <2>3, <2>4 DEF m, n, e, l, a
<1> QED
  BY <1>8, <1>9

-----------------------------------------------------------------------------
(* The walk.                                                                 *)

\* The operand a turn of the loop is about, and the stack that is left.
Operand(s, a) == IF a # <<>> THEN a ELSE Append(Last(s).list, Position(Last(s)) + 1)
\* What the turn leaves of the stack.
Left(s, a) == IF a # <<>> THEN s ELSE Advanced(s)

\* What lies in the stack has given out the last operand seen, or is its list.
Reached(s, v) ==
  /\ v # <<>> => \A k \in 1..Len(s) : Given(s[k], Last(v)) \/ s[k].list = Last(v)
  /\ v = <<>> => Len(s) <= 1

\* The operand of an address is next when the address has just been seen.
Stepping(i, s, a, v) ==
  a # <<>> => /\ v # <<>> /\ a \in DOMAIN i /\ a = Append(Last(v), 1)
              /\ \A k \in 1..Len(s) : Given(s[k], Last(v))

\* Every operand has been seen, or is within the one that is next, or waits.
Covered(i, s, a, v) ==
  \A p \in Seen(i) : p \in Range(v) \/ (a # <<>> /\ Within(a, p)) \/ Waits(s, p)

\* No operand not seen yet has been passed over.
NonePassed(i, v) == v # <<>> => \A p \in Seen(i) : p \in Range(v) \/ Before(Last(v), p)

\* Operands are seen in the order of recursion.
InOrder(v) == \A n \in 1..(Len(v) - 1) : Before(v[n], v[n + 1])

\* The inductive invariant of a walk of i, at stage g.
Walk(i, s, a, v, g) ==
  /\ i \in Insns /\ Nested(i, s) /\ v \in Seq(DOMAIN i)
  /\ Reached(s, v) /\ Stepping(i, s, a, v) /\ InOrder(v)
  /\ Fit(i) => NonePassed(i, v) /\ (g # "raised" => Covered(i, s, a, v))
  /\ g = "done" => s = <<>> /\ a = <<>>
  /\ g = "raised" => \E place \in DOMAIN i : Len(place) >= StackSize

\* A turn takes an operand that comes after all that have been seen; what it
\* does not take waits on.
LEMMA TurnIs ==
  ASSUME NEW i, NEW s, NEW a, NEW v, Walk(i, s, a, v, "walk"), a # <<>> \/ s # <<>>
  PROVE  LET m == Operand(s, a)
             t == Left(s, a)
         IN /\ Taken(i, t, m) /\ Reached(t, v)
            /\ v # <<>> => Before(Last(v), m)
            /\ Fit(i) => \A p \in Seen(i) : p \in Range(v) \/ Within(m, p) \/ Waits(t, p)
<1> DEFINE m == Operand(s, a)
           t == Left(s, a)
           l == Last(v)
<1>1. /\ i \in Insns /\ Nested(i, s) /\ v \in Seq(DOMAIN i) /\ Reached(s, v)
      /\ Stepping(i, s, a, v) /\ (Fit(i) => Covered(i, s, a, v))
  BY Zenon DEF Walk
<1>2. ASSUME v # <<>> PROVE l \in DOMAIN i /\ l \in Seq(Nat)
  <2>1. l \in DOMAIN i
    BY <1>1, <1>2, FrontIs
  <2> QED
    BY <1>1, <2>1, PlaceIs
<1>3. CASE a # <<>>
  <2>1. m = a /\ t = s
    BY <1>3 DEF Operand, Left
  <2>2. v # <<>> /\ a \in DOMAIN i /\ a = Append(l, 1) /\ \A k \in 1..Len(s) : Given(s[k], l)
    BY <1>1, <1>3 DEF Stepping
  <2>3. l \in Seq(Nat) /\ l \in DOMAIN i
    BY <1>2, <2>2
  <2> HIDE DEF l, m, t
  <2>4. a \in Seq(Nat) /\ Len(a) = Len(l) + 1 /\ Leads(l, a) /\ Len(l) \in Nat /\ Len(s) \in Nat
    <3>1. a \in Seq(Nat) /\ Len(a) = Len(l) + 1 /\ Leads(l, a)
      BY <2>2, <2>3, OperandIs
    <3> QED
      BY <1>1, <2>3, <3>1 DEF Nested
  <2>5. \A k \in 1..Len(s) : Given(s[k], a)
    <3> TAKE k \in 1..Len(s)
    <3>1. s[k].list \in Seq(Nat)
      <4>1. Holds(i, s[k])
        BY <1>1 DEF Nested
      <4> QED
        BY <1>1, <4>1, HoldsParts
    <3> QED
      BY <2>2, <2>3, <3>1, GivenWithin
  <2>6. Len(s) <= Len(a)
    <3>1. CASE Len(s) = 0
      BY <2>4, <3>1
    <3>2. CASE Len(s) # 0
      <4>1. Len(s) \in 1..Len(s)
        BY <2>4, <3>2
      <4>2. Given(s[Len(s)], l) /\ Len(s) <= Len(s[Len(s)].list) + 1 /\ Holds(i, s[Len(s)])
        BY <1>1, <2>2, <4>1 DEF Nested
      <4>3. s[Len(s)].list \in Seq(Nat)
        BY <1>1, <4>2, HoldsParts
      <4>4. Len(s[Len(s)].list) < Len(l) /\ Len(s[Len(s)].list) \in Nat
        BY <4>2, <4>3 DEF Given, Leads
      <4> QED
        BY <2>4, <4>2, <4>4
    <3> QED
      BY <3>1, <3>2
  <2>7. Taken(i, s, a)
    <3>1. Len(s) + 1 <= Len(a) + 1
      BY <2>4, <2>6
    <3> QED
      BY <1>1, <1>3, <2>2, <2>5, <3>1 DEF Taken
  <2>8. Before(l, a)
    BY <2>3, <2>4, BeforeIs
  <2>9. Fit(i) => \A p \in Seen(i) : p \in Range(v) \/ Within(a, p) \/ Waits(s, p)
    BY <1>1 DEF Covered
  <2> QED
    BY <1>1, <2>1, <2>7, <2>8, <2>9 DEF m, t, l
<1>4. CASE a = <<>>
  <2> DEFINE e == Last(s)
  <2>1. m = Append(e.list, Position(e) + 1) /\ t = Advanced(s) /\ s # <<>>
    BY <1>4 DEF Operand, Left
  <2>2. /\ Taken(i, t, m)
        /\ Holds(i, e) /\ Due(e, m) /\ Leads(e.list, m)
        /\ Len(t) <= Len(s)
        /\ \A k \in 1..Len(t) :
             /\ t[k].list = s[k].list /\ k \in 1..Len(s)
             /\ \A q \in Seq(Nat) : Given(s[k], q) => Given(t[k], q)
        /\ Fit(i) => \A p \in DOMAIN i : Waits(s, p) => Within(m, p) \/ Waits(t, p)
    <3> HIDE DEF m, t
    <3> QED
      BY <1>1, <2>1, AcquiredIs
  <2>3. s \in Seq(Elem) /\ e = s[Len(s)] /\ Len(s) \in 1..Len(s) /\ Len(t) \in Nat
    <3>1. s \in Seq(Elem) /\ Len(s) \in Nat \ {0} /\ e = s[Len(s)]
      BY <1>1, <2>1, FrontIs DEF Nested
    <3>2. t \in Seq(Elem)
      BY <2>2 DEF Taken, Nested
    <3>3. Len(t) \in Nat
      BY <3>2
    <3> QED
      BY <3>1, <3>3
  <2>4. m \in DOMAIN i /\ m \in Seq(Nat)
    <3>1. m \in DOMAIN i
      BY <2>2 DEF Taken
    <3> QED
      BY <1>1, <3>1, PlaceIs
  <2>5. e.list \in Seq(Nat) /\ Position(e) \in Nat
    <3> HIDE DEF e
    <3> QED
      BY <1>1, <2>2, HoldsParts
  <2> HIDE DEF m, t, e, l
  <2>6. Reached(t, v)
    <3>1. ASSUME v # <<>>, NEW k \in 1..Len(t) PROVE Given(t[k], l) \/ t[k].list = l
      <4>1. Given(s[k], l) \/ s[k].list = l
        BY <1>1, <2>2, <3>1 DEF Reached, l
      <4>2. l \in Seq(Nat)
        BY <1>2, <3>1
      <4> QED
        BY <2>2, <4>1, <4>2
    <3>2. ASSUME v = <<>> PROVE Len(t) <= 1
      <4>1. Len(s) <= 1
        BY <1>1, <3>2 DEF Reached
      <4> QED
        BY <2>2, <2>3, <4>1
    <3> QED
      BY <3>1, <3>2 DEF Reached, l
  <2>7. ASSUME v # <<>> PROVE Before(l, m)
    <3>1. l \in Seq(Nat)
      BY <1>2, <2>7
    <3>2. Given(e, l) \/ e.list = l
      BY <1>1, <2>3, <2>7 DEF Reached, l
    <3>3. CASE Given(e, l)
      BY <2>2, <2>4, <2>5, <3>1, <3>3, GivenBefore
    <3>4. CASE e.list = l
      BY <2>2, <2>4, <3>1, <3>4, BeforeIs
    <3> QED
      BY <3>2, <3>3, <3>4
  <2>8. ASSUME Fit(i), NEW p \in Seen(i) PROVE p \in Range(v) \/ Within(m, p) \/ Waits(t, p)
    <3>1. p \in Range(v) \/ Waits(s, p)
      BY <1>1, <1>4, <2>8 DEF Covered
    <3>2. p \in DOMAIN i
      BY DEF Seen
    <3> QED
      BY <2>2, <2>8, <3>1, <3>2
  <2> QED
    BY <2>2, <2>6, <2>7, <2>8 DEF m, t, l
<1> QED
  BY <1>3, <1>4

\* An operand taken and seen comes after all seen, and passes none over.
LEMMA SeenNext ==
  ASSUME NEW i \in Insns, NEW t, NEW m, Taken(i, t, m), NEW v \in Seq(DOMAIN i), InOrder(v),
         v # <<>> => Before(Last(v), m),
         Fit(i) => \A p \in Seen(i) : p \in Range(v) \/ Within(m, p) \/ Waits(t, p)
  PROVE  /\ Append(v, m) \in Seq(DOMAIN i) /\ Append(v, m) # <<>> /\ Last(Append(v, m)) = m
         /\ Range(Append(v, m)) = Range(v) \cup {m}
         /\ InOrder(Append(v, m)) /\ (Fit(i) => NonePassed(i, Append(v, m)))
<1> DEFINE w == Append(v, m)
           n == Len(v)
<1>1. m \in DOMAIN i /\ m \in Seq(Nat) /\ \A k \in 1..Len(t) : Given(t[k], m)
  <2>1. m \in DOMAIN i /\ \A k \in 1..Len(t) : Given(t[k], m)
    BY DEF Taken
  <2> QED
    BY <2>1, PlaceIs
<1>2. /\ w \in Seq(DOMAIN i) /\ Len(w) = n + 1 /\ (\A k \in 1..n : w[k] = v[k]) /\ w[n + 1] = m
      /\ w # <<>> /\ Last(w) = m /\ n \in Nat
  BY <1>1, PushIs
<1>3. Range(w) = Range(v) \cup {m}
  BY <1>1, SeenOneMore
<1>4. InOrder(w)
  <2> SUFFICES ASSUME NEW k \in 1..(Len(w) - 1) PROVE Before(w[k], w[k + 1])
    BY DEF InOrder
  <2> HIDE DEF w
  <2>1. CASE k = n
    <3>1. n # 0 /\ Last(v) = v[n] /\ n \in 1..n
      BY <1>2, <2>1, FrontIs DEF n, Last
    <3>2. v # <<>>
      BY <3>1 DEF n
    <3> HIDE DEF n
    <3>3. Before(v[n], m)
      BY <3>1, <3>2
    <3> QED
      BY <1>2, <2>1, <3>1, <3>3
  <2>2. CASE k # n
    <3>0. Len(w) - 1 = n
      BY <1>2
    <3>1. k \in 1..(n - 1)
      <4>1. k \in 1..n /\ n \in Nat
        BY <1>2, <3>0
      <4> HIDE DEF n
      <4> QED
        BY <2>2, <4>1
    <3>2. k \in 1..n /\ k + 1 \in 1..n
      BY <1>2, <3>1
    <3>3. Before(v[k], v[k + 1])
      BY <3>1 DEF InOrder
    <3> HIDE DEF n
    <3> QED
      BY <1>2, <3>2, <3>3
  <2> QED
    BY <2>1, <2>2
<1> HIDE DEF w
<1>5. ASSUME Fit(i), NEW p \in Seen(i), p \notin Range(w) PROVE Before(m, p)
  <2>1. p \in DOMAIN i /\ p \in Seq(Nat)
    <3>1. p \in DOMAIN i
      BY DEF Seen
    <3> QED
      BY <3>1, PlaceIs
  <2>2. Within(m, p) \/ Waits(t, p)
    BY <1>3, <1>5
  <2>3. CASE Within(m, p)
    <3>1. Leads(m, p)
      BY <1>3, <1>5, <2>3 DEF Within
    <3> QED
      BY <1>1, <2>1, <3>1, BeforeIs
  <2>4. CASE Waits(t, p)
    <3>1. PICK k \in 1..Len(t) : Due(t[k], p)
      BY <2>4 DEF Waits
    <3>2. Holds(i, t[k])
      BY DEF Taken, Nested
    <3>3. t[k].list \in Seq(Nat) /\ Position(t[k]) \in Nat
      BY <3>2, HoldsParts
    <3> QED
      BY <1>1, <2>1, <3>1, <3>3, GivenBefore
  <2> QED
    BY <2>2, <2>3, <2>4
<1> QED
  BY <1>2, <1>3, <1>4, <1>5 DEF NonePassed, w

\* What lies within an operand that is seen is left to the list put on the
\* stack for it, if there is one.
LEMMA InsideWaits ==
  ASSUME NEW i \in Insns, NEW m \in DOMAIN i, NEW p \in Seen(i), Leads(m, p), i[m].t # "a"
  PROVE  /\ Pushed(i, m) # <<>>
         /\ Fit(i) => Due(List(m, Length(i, m)), p)
<1> DEFINE n == p[Len(m) + 1]
           q == Append(m, n)
<1>1. p \in DOMAIN i /\ i[p].t # "z"
  BY DEF Seen
<1>2. n \in 1..Length(i, m) /\ (p = q \/ Leads(q, p)) /\ Length(i, m) \in Nat
  BY <1>1, WayDown, PlaceIs
<1>3. q \in DOMAIN i /\ n \in Nat /\ n > 0
  BY <1>2, PlaceIs
<1> HIDE DEF q
<1>4. i[q].t # "z"
  <2>1. SUFFICES ASSUME i[q].t = "z" PROVE FALSE
    OBVIOUS
  <2>2. Length(i, q) = 0
    BY <1>3, <2>1, PushedIs
  <2>3. Leads(q, p)
    BY <1>1, <1>2, <2>1
  <2>4. p[Len(q) + 1] \in 1..0
    BY <1>1, <1>3, <2>2, <2>3, WayDown
  <2> QED
    BY <2>4
<1>5. Pushed(i, m) # <<>>
  BY <1>2, <1>4, PushedIs DEF q
<1>6. ASSUME Fit(i) PROVE Due(List(m, Length(i, m)), p)
  <2>1. Length(i, m) \in Nat \ {0}
    BY <1>2
  <2>2. List(m, Length(i, m)).list = m /\ Position(List(m, Length(i, m))) = 0
    BY <1>6, <2>1, ListHolds
  <2>3. n > 0
    BY <1>3
  <2> QED
    BY <2>2, <2>3 DEF Due
<1> QED
  BY <1>5, <1>6

\* An operand that is nothing is left out.
LEMMA SkipKeeps ==
  ASSUME NEW i, NEW s, NEW a, NEW v, Walk(i, s, a, v, "walk"), a # <<>> \/ s # <<>>,
         i[Operand(s, a)].t = "z"
  PROVE  Walk(i, Left(s, a), <<>>, v, "walk")
<1> DEFINE m == Operand(s, a)
           t == Left(s, a)
<1>1. /\ i \in Insns /\ v \in Seq(DOMAIN i) /\ InOrder(v) /\ (Fit(i) => NonePassed(i, v))
  BY Zenon DEF Walk
<1>2. /\ Taken(i, t, m) /\ Reached(t, v)
      /\ Fit(i) => \A p \in Seen(i) : p \in Range(v) \/ Within(m, p) \/ Waits(t, p)
  BY TurnIs
<1> HIDE DEF m, t
<1>3. Nested(i, t) /\ m \in DOMAIN i
  BY <1>2 DEF Taken
<1>4. Stepping(i, t, <<>>, v)
  BY DEF Stepping
<1>5. ASSUME Fit(i), NEW p \in Seen(i) PROVE ~Within(m, p)
  <2>1. SUFFICES ASSUME Within(m, p) PROVE FALSE
    OBVIOUS
  <2>2. i[p].t # "z" /\ p \in DOMAIN i /\ i[m].t = "z"
    BY DEF Seen, m
  <2>3. Leads(m, p) /\ i[m].t # "a"
    BY <2>1, <2>2 DEF Within
  <2>4. Pushed(i, m) # <<>>
    BY <1>1, <1>3, <2>3, InsideWaits
  <2> QED
    BY <1>1, <1>3, <2>2, <2>4, PushedIs
<1>6. Fit(i) => Covered(i, t, <<>>, v)
  BY <1>2, <1>5 DEF Covered
<1> QED
  BY <1>1, <1>2, <1>3, <1>4, <1>6 DEF Walk, t

\* An operand that does not go deeper, or an address, is seen.
LEMMA LeafKeeps ==
  ASSUME NEW i, NEW s, NEW a, NEW v, Walk(i, s, a, v, "walk"), a # <<>> \/ s # <<>>,
         i[Operand(s, a)].t # "z", Pushed(i, Operand(s, a)) = <<>>
  PROVE  Walk(i, Left(s, a),
              IF i[Operand(s, a)].t = "a" THEN Append(Operand(s, a), 1) ELSE <<>>,
              Append(v, Operand(s, a)), "walk")
<1> DEFINE m == Operand(s, a)
           t == Left(s, a)
           w == Append(v, m)
           b == IF i[m].t = "a" THEN Append(m, 1) ELSE <<>>
<1>1. /\ i \in Insns /\ v \in Seq(DOMAIN i) /\ InOrder(v)
  BY Zenon DEF Walk
<1>2. /\ Taken(i, t, m) /\ (v # <<>> => Before(Last(v), m))
      /\ Fit(i) => \A p \in Seen(i) : p \in Range(v) \/ Within(m, p) \/ Waits(t, p)
  BY TurnIs
<1>0. Pushed(i, m) = <<>>
  OBVIOUS
<1> HIDE DEF m, t
<1>3. Nested(i, t) /\ m \in DOMAIN i /\ \A k \in 1..Len(t) : Given(t[k], m)
  BY <1>2 DEF Taken
<1>4. /\ w \in Seq(DOMAIN i) /\ w # <<>> /\ Last(w) = m /\ Range(w) = Range(v) \cup {m}
      /\ InOrder(w) /\ (Fit(i) => NonePassed(i, w))
  BY <1>1, <1>2, SeenNext
<1> HIDE DEF w
<1>5. Reached(t, w)
  BY <1>3, <1>4 DEF Reached
<1>6. CASE i[m].t = "a"
  <2>1. b = Append(m, 1) /\ Length(i, m) = 1
    BY <1>1, <1>3, <1>6, PushedIs
  <2>2. Append(m, 1) \in DOMAIN i /\ m \in Seq(Nat)
    BY <1>1, <1>3, <2>1, PlaceIs
  <2>3. Append(m, 1) # <<>>
    BY <2>2
  <2> HIDE DEF b
  <2>4. Stepping(i, t, b, w)
    BY <1>3, <1>4, <2>1, <2>2 DEF Stepping
  <2>5. ASSUME Fit(i), NEW p \in Seen(i) PROVE p \in Range(w) \/ Within(b, p) \/ Waits(t, p)
    <3>1. p \in DOMAIN i
      BY DEF Seen
    <3>2. CASE Leads(m, p)
      <4>1. p[Len(m) + 1] \in 1..1
            /\ (p = Append(m, p[Len(m) + 1]) \/ Leads(Append(m, p[Len(m) + 1]), p))
        BY <1>1, <1>3, <2>1, <3>1, <3>2, WayDown
      <4>2. p[Len(m) + 1] = 1
        BY <4>1
      <4> QED
        BY <2>1, <4>1, <4>2 DEF Within
    <3>3. CASE ~Leads(m, p)
      BY <1>2, <1>4, <2>5, <3>3 DEF Within
    <3> QED
      BY <3>2, <3>3
  <2>6. Fit(i) => Covered(i, t, b, w)
    BY <2>1, <2>3, <2>5 DEF Covered
  <2> QED
    BY <1>1, <1>3, <1>4, <1>5, <2>4, <2>6 DEF Walk, m, t, w, b
<1>7. CASE i[m].t # "a"
  <2>1. b = <<>>
    BY <1>7
  <2>2. Stepping(i, t, <<>>, w)
    BY DEF Stepping
  <2>3. ASSUME Fit(i), NEW p \in Seen(i) PROVE p \in Range(w) \/ Waits(t, p)
    <3>1. ~Leads(m, p)
      BY <1>0, <1>1, <1>3, <1>7, InsideWaits
    <3> QED
      BY <1>2, <1>4, <2>3, <3>1 DEF Within
  <2>4. Fit(i) => Covered(i, t, <<>>, w)
    BY <2>3 DEF Covered
  <2>5. Walk(i, t, <<>>, w, "walk")
    BY <1>1, <1>3, <1>4, <1>5, <2>2, <2>4 DEF Walk
  <2> QED
    BY <2>1, <2>5 DEF m, t, w, b
<1> QED
  BY <1>6, <1>7

\* An operand is seen whose own operands go on the stack.
LEMMA PushKeeps ==
  ASSUME NEW i, NEW s, NEW a, NEW v, Walk(i, s, a, v, "walk"), a # <<>> \/ s # <<>>,
         Pushed(i, Operand(s, a)) # <<>>
  PROVE  Walk(i, Left(s, a) \o Pushed(i, Operand(s, a)), <<>>, Append(v, Operand(s, a)), "walk")
<1> DEFINE m == Operand(s, a)
           t == Left(s, a)
           w == Append(v, m)
           e == List(m, Length(i, m))
           u == Append(t, e)
<1>1. /\ i \in Insns /\ v \in Seq(DOMAIN i) /\ InOrder(v)
  BY Zenon DEF Walk
<1>2. /\ Taken(i, t, m) /\ (v # <<>> => Before(Last(v), m))
      /\ Fit(i) => \A p \in Seen(i) : p \in Range(v) \/ Within(m, p) \/ Waits(t, p)
  BY TurnIs
<1>0. Pushed(i, m) # <<>>
  OBVIOUS
<1> HIDE DEF m, t
<1>3. Nested(i, t) /\ m \in DOMAIN i /\ (\A k \in 1..Len(t) : Given(t[k], m)) /\ Len(t) + 1 <= Len(m) + 1
  BY <1>2 DEF Taken
<1>4. /\ w \in Seq(DOMAIN i) /\ w # <<>> /\ Last(w) = m /\ Range(w) = Range(v) \cup {m}
      /\ InOrder(w) /\ (Fit(i) => NonePassed(i, w))
  BY <1>1, <1>2, SeenNext
<1>5. Pushed(i, m) = <<e>> /\ Length(i, m) \in Nat \ {0} /\ i[m].t # "a"
  BY <1>0, <1>1, <1>3, PushedIs
<1>6. Holds(i, e) /\ e.list = m
  BY <1>1, <1>3, <1>5, ListHolds
<1>7. t \in Seq(Elem) /\ e \in Elem /\ Len(t) \in Nat /\ m \in Seq(Nat) /\ Len(m) \in Nat
  <2>1. t \in Seq(Elem) /\ e \in Elem /\ m \in Seq(Nat)
    BY <1>1, <1>3, <1>6, PlaceIs DEF Nested, Holds
  <2> QED
    BY <2>1
<1> HIDE DEF w, e
<1>8. Nested(i, u)
  <2>1. Len(t) <= Len(e.list)
    BY <1>3, <1>6, <1>7
  <2> QED
    BY <1>1, <1>3, <1>6, <2>1, PutOn
<1>9. /\ Len(u) = Len(t) + 1 /\ (\A k \in 1..Len(t) : u[k] = t[k]) /\ u[Len(t) + 1] = e
      /\ t \o <<e>> = u /\ \A k \in 1..Len(u) : k \in 1..Len(t) \/ k = Len(t) + 1
  BY <1>7
<1> HIDE DEF u
<1>10. Reached(u, w)
  BY <1>3, <1>4, <1>6, <1>9 DEF Reached
<1>11. Stepping(i, u, <<>>, w)
  BY DEF Stepping
<1>12. ASSUME Fit(i), NEW p \in Seen(i) PROVE p \in Range(w) \/ Waits(u, p)
  <2>1. CASE Leads(m, p)
    <3>1. Due(e, p)
      BY <1>1, <1>3, <1>5, <1>12, <2>1, InsideWaits DEF e
    <3>2. Len(t) + 1 \in 1..Len(u)
      BY <1>7, <1>9
    <3> QED
      BY <1>9, <3>1, <3>2 DEF Waits
  <2>2. CASE Waits(t, p)
    <3>1. PICK k \in 1..Len(t) : Due(t[k], p)
      BY <2>2 DEF Waits
    <3>2. k \in 1..Len(u)
      BY <1>7, <1>9
    <3> QED
      BY <1>9, <3>1, <3>2 DEF Waits
  <2> QED
    BY <1>2, <1>4, <1>12, <2>1, <2>2 DEF Within
<1>13. Fit(i) => Covered(i, u, <<>>, w)
  BY <1>12 DEF Covered
<1>14. Walk(i, u, <<>>, w, "walk")
  BY <1>1, <1>4, <1>8, <1>10, <1>11, <1>13 DEF Walk
<1> QED
  BY <1>5, <1>9, <1>14 DEF m, t, w

\* The walk gives up where the stack has no room, which is as deep as it is big.
LEMMA RaiseKeeps ==
  ASSUME NEW i, NEW s, NEW a, NEW v, Walk(i, s, a, v, "walk"), a # <<>> \/ s # <<>>,
         Pushed(i, Operand(s, a)) # <<>>, ~Fits(Left(s, a))
  PROVE  Walk(i, Left(s, a), <<>>, Append(v, Operand(s, a)), "raised")
<1> DEFINE m == Operand(s, a)
           t == Left(s, a)
           w == Append(v, m)
<1>1. /\ i \in Insns /\ v \in Seq(DOMAIN i) /\ InOrder(v)
  BY Zenon DEF Walk
<1>2. /\ Taken(i, t, m) /\ (v # <<>> => Before(Last(v), m))
      /\ Fit(i) => \A p \in Seen(i) : p \in Range(v) \/ Within(m, p) \/ Waits(t, p)
  BY TurnIs
<1>0. Pushed(i, m) # <<>> /\ ~Fits(t)
  OBVIOUS
<1> HIDE DEF m, t
<1>3. Nested(i, t) /\ m \in DOMAIN i /\ (\A k \in 1..Len(t) : Given(t[k], m)) /\ Len(t) + 1 <= Len(m) + 1
  BY <1>2 DEF Taken
<1>4. /\ w \in Seq(DOMAIN i) /\ w # <<>> /\ Last(w) = m /\ InOrder(w) /\ (Fit(i) => NonePassed(i, w))
  BY <1>1, <1>2, SeenNext
<1>5. Length(i, m) \in Nat \ {0} /\ m \in Seq(Nat)
  BY <1>0, <1>1, <1>3, PushedIs, PlaceIs
<1>6. Append(m, 1) \in DOMAIN i
  <2>1. 1 \in 1..Length(i, m)
    BY <1>5
  <2> QED
    BY <1>1, <1>3, <2>1, PlaceIs
<1>7. Len(Append(m, 1)) >= StackSize
  <2>1. t \in Seq(Elem)
    BY <1>3 DEF Nested
  <2>2. Len(t) \in Nat /\ Len(m) \in Nat /\ StackSize \in Nat /\ Len(Append(m, 1)) = Len(m) + 1
    BY <1>5, <2>1, TraverseAssumption
  <2>3. ~(Len(t) + 1 < StackSize)
    BY <1>0 DEF Fits
  <2> QED
    BY <1>3, <2>2, <2>3
<1>8. Reached(t, w) /\ Stepping(i, t, <<>>, w)
  BY <1>3, <1>4 DEF Reached, Stepping
<1> HIDE DEF w
<1>9. Walk(i, t, <<>>, w, "raised")
  BY <1>1, <1>3, <1>4, <1>6, <1>7, <1>8 DEF Walk
<1> QED
  BY <1>9 DEF m, t, w

-----------------------------------------------------------------------------
(* The steps.                                                                *)

\* The walk of an instruction starts with its operands.
LEMMA StartEstablishes ==
  ASSUME NEW i \in Insns
  PROVE  Walk(i, Pushed(i, <<>>), <<>>, <<>>, "walk")
<1> DEFINE m == <<>>
           v == <<>>
           t == <<>>
           e == List(m, Length(i, m))
           s == Pushed(i, m)
<1>1. m \in DOMAIN i /\ m \in Seq(Nat) /\ Len(m) = 0 /\ i[m].t # "a"
  <2>1. i[<<>>].t = "insn" /\ <<>> \in DOMAIN i
    BY InsnsAssumption
  <2>2. i[<<>>].t # "a"
    BY <2>1
  <2> QED
    BY <2>1, <2>2
<1>2. v \in Seq(DOMAIN i) /\ InOrder(v) /\ NonePassed(i, v) /\ Stepping(i, s, <<>>, v)
  BY DEF InOrder, NonePassed, Stepping
<1>3. ASSUME NEW p \in Seen(i) PROVE Leads(m, p)
  <2>1. p # <<>> /\ p \in Seq(Nat)
    <3>1. p # <<>> /\ p \in DOMAIN i
      BY DEF Seen
    <3> QED
      BY <3>1, PlaceIs
  <2>2. Len(p) > 0
    BY <2>1
  <2> QED
    BY <1>1, <2>2 DEF Leads
<1>4. t \in Seq(Elem) /\ Len(t) = 0
  OBVIOUS
<1>5. Nested(i, t)
  BY <1>4 DEF Nested
<1> HIDE DEF m, v, e
<1>6. CASE s = <<>>
  <2>1. Nested(i, s) /\ Reached(s, v)
    BY <1>4, <1>5, <1>6 DEF Reached, v
  <2>2. \A p \in Seen(i) : FALSE
    <3> TAKE p \in Seen(i)
    <3>1. Leads(m, p)
      BY <1>3
    <3> QED
      BY <1>1, <1>6, <3>1, InsideWaits
  <2>3. Covered(i, s, <<>>, v)
    BY <2>2 DEF Covered
  <2> HIDE DEF s
  <2>4. Walk(i, s, <<>>, v, "walk")
    BY <1>2, <2>1, <2>3 DEF Walk
  <2> QED
    BY <2>4 DEF s, m, v
<1>7. CASE s # <<>>
  <2>1. s = <<e>> /\ Length(i, m) \in Nat \ {0}
    BY <1>1, <1>7, PushedIs DEF e
  <2>2. Holds(i, e) /\ e.list = m /\ e \in Elem
    BY <1>1, <2>1, ListHolds DEF e, Holds
  <2> HIDE DEF s
  <2>3. s = Append(t, e) /\ Len(s) = 1 /\ s[1] = e /\ 1 \in 1..Len(s)
    BY <2>1
  <2>4. Nested(i, s)
    <3>1. Len(t) <= Len(e.list) /\ \A k \in 1..Len(t) : Given(t[k], e.list)
      BY <1>1, <1>4, <2>2
    <3> HIDE DEF t
    <3> QED
      BY <1>5, <2>2, <2>3, <3>1, PutOn
  <2>5. Reached(s, v)
    BY <2>3 DEF Reached, v
  <2>6. ASSUME Fit(i), NEW p \in Seen(i) PROVE Waits(s, p)
    <3>1. Due(e, p)
      BY <1>1, <1>3, <2>6, InsideWaits DEF e
    <3> QED
      BY <2>3, <3>1 DEF Waits
  <2>7. Fit(i) => Covered(i, s, <<>>, v)
    BY <2>6 DEF Covered
  <2>8. Walk(i, s, <<>>, v, "walk")
    BY <1>2, <2>4, <2>5, <2>7 DEF Walk
  <2> QED
    BY <2>8 DEF s, m, v
<1> QED
  BY <1>6, <1>7

\* The walk of the instruction at hand is as it should be, and those left are
\* instructions.
IInv == Walk(insn, stack, at, visited, stage) /\ rest \in Seq(Insns)

\* A turn of the loop keeps the walk as it should be ...
LEMMA StepKeeps ==
  ASSUME IInv, Step
  PROVE  Walk(insn, stack, at, visited, stage)'
<1> DEFINE m == Operand(stack, at)
           t == Left(stack, at)
<1>1. Walk(insn, stack, at, visited, "walk") /\ (at # <<>> \/ stack # <<>>) /\ insn' = insn
  BY DEF IInv, Step
<1>2. m = (IF at # <<>> THEN at ELSE Acquired) /\ t = (IF at # <<>> THEN stack ELSE Acquire)
  BY DEF Operand, Left, Acquired, Acquire, Advanced
<1>3. stage = "walk"
  BY DEF Step
<1>4. IF insn[m].t = "z"
      THEN stack' = t /\ at' = <<>> /\ UNCHANGED <<visited, stage>>
      ELSE /\ visited' = Append(visited, m)
           /\ at' = IF insn[m].t = "a" THEN Append(m, 1) ELSE <<>>
           /\ IF Pushed(insn, m) # <<>> /\ ~Fits(t)
              THEN stage' = "raised" /\ stack' = t
              ELSE stack' = t \o Pushed(insn, m) /\ UNCHANGED stage
  <2> HIDE DEF m, t
  <2> QED
    BY <1>2, Zenon DEF Step
<1>5. CASE insn[m].t = "z"
  <2>1. Walk(insn, t, <<>>, visited, "walk")
    BY <1>1, <1>5, SkipKeeps
  <2>2. insn' = insn /\ stack' = t /\ at' = <<>> /\ visited' = visited /\ stage' = "walk"
    BY <1>1, <1>3, <1>4, <1>5
  <2> HIDE DEF m, t
  <2> QED
    BY <2>1, <2>2, Zenon
<1>6. CASE insn[m].t # "z" /\ Pushed(insn, m) = <<>>
  <2> DEFINE b == IF insn[m].t = "a" THEN Append(m, 1) ELSE <<>>
  <2>1. Walk(insn, t, b, Append(visited, m), "walk")
    BY <1>1, <1>6, LeafKeeps
  <2>2. t \o <<>> = t
    <3>1. Taken(insn, t, m)
      BY <1>1, TurnIs
    <3> HIDE DEF m, t
    <3>2. t \in Seq(Elem)
      BY <3>1 DEF Taken, Nested
    <3> QED
      BY <3>2
  <2> HIDE DEF m, t
  <2>3. insn' = insn /\ stack' = t /\ at' = b /\ visited' = Append(visited, m) /\ stage' = "walk"
    BY <1>1, <1>3, <1>4, <1>6, <2>2, Zenon
  <2> HIDE DEF b
  <2> QED
    BY <2>1, <2>3, Zenon
<1>7. CASE insn[m].t # "z" /\ Pushed(insn, m) # <<>>
  <2>1. at' = <<>>
    <3>1. Taken(insn, t, m) /\ insn \in Insns
      BY <1>1, TurnIs DEF Walk
    <3> HIDE DEF m, t
    <3>2. m \in DOMAIN insn
      BY <3>1 DEF Taken
    <3>3. insn[m].t # "a"
      BY <1>7, <3>1, <3>2, PushedIs
    <3> QED
      BY <1>4, <1>7, <3>3
  <2>2. CASE Fits(t)
    <3>1. Walk(insn, t \o Pushed(insn, m), <<>>, Append(visited, m), "walk")
      BY <1>1, <1>7, PushKeeps
    <3> HIDE DEF m, t
    <3>2. insn' = insn /\ stack' = t \o Pushed(insn, m) /\ visited' = Append(visited, m) /\ stage' = "walk"
      BY <1>1, <1>3, <1>4, <1>7, <2>2, Zenon
    <3> QED
      BY <2>1, <3>1, <3>2, Zenon
  <2>3. CASE ~Fits(t)
    <3>1. Walk(insn, t, <<>>, Append(visited, m), "raised")
      BY <1>1, <1>7, <2>3, RaiseKeeps
    <3> HIDE DEF m, t
    <3>2. insn' = insn /\ stack' = t /\ visited' = Append(visited, m) /\ stage' = "raised"
      BY <1>1, <1>4, <1>7, <2>3, Zenon
    <3> QED
      BY <2>1, <3>1, <3>2, Zenon
  <2> QED
    BY <2>2, <2>3
<1> QED
  BY <1>5, <1>6, <1>7

\* ... and so does its end.
LEMMA ReturnKeeps ==
  ASSUME IInv, Return
  PROVE  Walk(insn, stack, at, visited, stage)'
<1>1. Walk(insn, stack, at, visited, "walk")
  BY DEF IInv, Return
<1>2. Walk(insn, <<>>, <<>>, visited, "done")
  <2>1. stack = <<>> /\ at = <<>>
    BY DEF Return
  <2> QED
    BY <1>1, <2>1 DEF Walk
<1>3. insn' = insn /\ stack' = <<>> /\ at' = <<>> /\ visited' = visited /\ stage' = "done"
  BY DEF Return
<1> QED
  BY <1>2, <1>3, Zenon

\* The walk of the first instruction begins as it should.
LEMMA InitIInv == Init => IInv
<1> SUFFICES ASSUME Init PROVE IInv
  OBVIOUS
<1>1. insn \in Insns /\ stack = Pushed(insn, <<>>) /\ at = <<>> /\ visited = <<>> /\ stage = "walk"
  BY DEF Init, InitWalk
<1>2. Walk(insn, stack, at, visited, stage)
  BY <1>1, StartEstablishes
<1>3. rest \in Seq(Insns)
  <2>1. PICK code \in Functions : rest = Tail(code)
    BY DEF Init
  <2>2. code \in Seq(Insns) /\ code # <<>>
    BY FunctionsAssumption
  <2> QED
    BY <2>1, <2>2
<1> QED
  BY <1>2, <1>3 DEF IInv

\* Every step keeps the invariant, the next instruction's start among them.
LEMMA NextIInv == IInv /\ [Next]_vars => IInv'
<1> SUFFICES ASSUME IInv, [Next]_vars PROVE IInv'
  OBVIOUS
<1>1. CASE TagStep
  <2>1. Step /\ rest' = rest
    BY <1>1 DEF TagStep
  <2> QED
    BY <2>1, StepKeeps DEF IInv
<1>2. CASE Return /\ UNCHANGED <<tableVars, role, own, rest>>
  <2>1. rest' = rest
    BY <1>2
  <2> QED
    BY <1>2, <2>1, ReturnKeeps DEF IInv
<1>3. CASE NextInsn
  <2>1. rest # <<>> /\ rest \in Seq(Insns)
    BY <1>3 DEF IInv, NextInsn
  <2>2. Head(rest) \in Insns /\ Tail(rest) \in Seq(Insns)
    BY <2>1
  <2>3. /\ insn' \in Insns /\ rest' \in Seq(Insns)
        /\ stack' = Pushed(insn', <<>>) /\ at' = <<>> /\ visited' = <<>> /\ stage' = "walk"
    BY <1>3, <2>2 DEF NextInsn
  <2>4. Walk(insn, stack, at, visited, stage)'
    BY <2>3, StartEstablishes
  <2> QED
    BY <2>3, <2>4 DEF IInv
<1>4. CASE UNCHANGED vars
  <2>1. insn' = insn /\ stack' = stack /\ at' = at /\ visited' = visited /\ stage' = stage
    BY <1>4 DEF vars, walkVars
  <2>2. rest' = rest
    BY <1>4 DEF vars
  <2> QED
    BY <2>1, <2>2, Zenon DEF IInv
<1> QED
  BY <1>1, <1>2, <1>3, <1>4 DEF Next

\* The invariant holds throughout.
LEMMA Invariant == Spec => []IInv
<1> QED
  BY InitIInv, NextIInv, PTL DEF Spec

-----------------------------------------------------------------------------
(* The walk.                                                                 *)

\* The order of the walk and what it has seen, of the invariant.
LEMMA OrderOfWalk == IInv => AsRecursion
<1> SUFFICES ASSUME IInv, FieldsFit PROVE
      /\ \A n \in 1..(Len(visited) - 1) : Before(visited[n], visited[n + 1])
      /\ visited # <<>> =>
           \A p \in Operands : p \in Range(visited) \/ Before(Last(visited), p)
      /\ stage = "done" => Operands \subseteq Range(visited)
  BY DEF AsRecursion
<1>1. Fit(insn) /\ Seen(insn) = Operands
  BY DEF FieldsFit, Fit, Seen, Operands
<1>2. /\ InOrder(visited) /\ NonePassed(insn, visited)
      /\ stage # "raised" => Covered(insn, stack, at, visited)
      /\ stage = "done" => stack = <<>> /\ at = <<>>
  BY <1>1, Zenon DEF IInv, Walk
<1>3. ASSUME stage = "done", NEW p \in Operands PROVE p \in Range(visited)
  <2>1. Covered(insn, <<>>, <<>>, visited)
    BY <1>2, <1>3
  <2>2. ~Waits(<<>>, p)
    BY DEF Waits
  <2> QED
    BY <1>1, <1>3, <2>1, <2>2 DEF Covered
<1> QED
  BY <1>1, <1>2, <1>3 DEF InOrder, NonePassed

\* The height of the stack, of the invariant.
LEMMA HeightOfStack == IInv => GivesUpOnDepth
<1> SUFFICES ASSUME IInv PROVE GivesUpOnDepth
  OBVIOUS
<1> DEFINE n == Len(stack)
           l == Last(visited)
<1>1. /\ insn \in Insns /\ Nested(insn, stack) /\ visited \in Seq(DOMAIN insn)
      /\ Reached(stack, visited)
      /\ stage = "raised" => \E place \in DOMAIN insn : Len(place) >= StackSize
  BY Zenon DEF IInv, Walk
<1>2. stack \in Seq(Elem) /\ n \in Nat
  <2>1. stack \in Seq(Elem)
    BY <1>1 DEF Nested
  <2> QED
    BY <2>1
<1>3. CASE visited = <<>>
  BY <1>1, <1>3 DEF Reached, GivesUpOnDepth
<1>4. CASE visited # <<>>
  <2>1. l \in DOMAIN insn /\ l \in Seq(Nat)
    <3>1. l \in DOMAIN insn
      BY <1>1, <1>4, FrontIs
    <3> QED
      BY <1>1, <3>1, PlaceIs
  <2>2. n <= Len(l) + 1
    <3>1. Len(l) \in Nat
      BY <2>1
    <3>2. CASE n = 0
      BY <3>1, <3>2
    <3>3. CASE n # 0
      <4>1. n \in 1..n
        BY <1>2, <3>3
      <4>2. Holds(insn, stack[n]) /\ n <= Len(stack[n].list) + 1
        BY <1>1, <4>1 DEF Nested
      <4>3. Given(stack[n], l) \/ stack[n].list = l
        BY <1>1, <1>4, <4>1 DEF Reached
      <4>4. stack[n].list \in Seq(Nat)
        BY <1>1, <4>2, HoldsParts
      <4>5. Len(stack[n].list) \in Nat /\ Len(stack[n].list) <= Len(l)
        BY <3>1, <4>3, <4>4 DEF Given, Leads
      <4> HIDE DEF l, n
      <4> QED
        BY <1>2, <3>1, <4>2, <4>5
    <3> QED
      BY <3>2, <3>3
  <2> QED
    BY <1>1, <1>4, <2>2 DEF GivesUpOnDepth
<1> QED
  BY <1>3, <1>4

-----------------------------------------------------------------------------
(* The order of names.                                                       *)

\* A name or an entry of the table says its length, hash and place for strcmp.
Numbered(x) == x.length \in Nat /\ x.hash \in Nat /\ x.text \in Nat

\* In the order of the hash, and of strcmp where the hash is the same.
Precedes(x, y) == x.hash < y.hash \/ (x.hash = y.hash /\ x.text < y.text)

\* Among what is in X, Less is that order.
Tame(X) == \A x \in X : Numbered(x) /\ \A y \in X : Less(x, y) <=> Precedes(x, y)

\* It is a total order of hashes and texts.
LEMMA OrderIs ==
  ASSUME NEW x, NEW y, NEW z, Numbered(x), Numbered(y), Numbered(z)
  PROVE  /\ ~Precedes(x, x)
         /\ Precedes(x, y) /\ Precedes(y, z) => Precedes(x, z)
         /\ ~Precedes(y, x) /\ Precedes(y, z) => Precedes(x, z)
         /\ ~Precedes(y, x) /\ ~Precedes(z, y) => ~Precedes(z, x)
         /\ ~Precedes(x, y) /\ ~Precedes(y, x) => x.text = y.text
<1> DEFINE a == x.hash
           b == y.hash
           c == z.hash
           d == x.text
           e == y.text
           f == z.text
<1>1. a \in Nat /\ b \in Nat /\ c \in Nat /\ d \in Nat /\ e \in Nat /\ f \in Nat
  BY DEF Numbered
<1>2. /\ Precedes(x, x) <=> a < a \/ (a = a /\ d < d)
      /\ Precedes(x, y) <=> a < b \/ (a = b /\ d < e)
      /\ Precedes(y, x) <=> b < a \/ (b = a /\ e < d)
      /\ Precedes(y, z) <=> b < c \/ (b = c /\ e < f)
      /\ Precedes(z, y) <=> c < b \/ (c = b /\ f < e)
      /\ Precedes(x, z) <=> a < c \/ (a = c /\ d < f)
      /\ Precedes(z, x) <=> c < a \/ (c = a /\ f < d)
  BY Zenon DEF Precedes
<1>3. x.text = d /\ y.text = e
  OBVIOUS
<1> HIDE DEF a, b, c, d, e, f
<1> QED
  BY <1>1, <1>2, <1>3

\* Where neither of two names of one hash is less than the other by length and
\* the other than it by text, Less is the order of texts.
LEMMA LessIs ==
  ASSUME NEW x, NEW y, Numbered(x), Numbered(y), ~(Less(x, y) /\ Less(y, x)),
         x.text = y.text => x.length = y.length
  PROVE  Less(x, y) <=> Precedes(x, y)
<1> DEFINE a == x.hash
           b == y.hash
           d == x.text
           e == y.text
           k == x.length
           l == y.length
<1>1. a \in Nat /\ b \in Nat /\ d \in Nat /\ e \in Nat /\ k \in Nat /\ l \in Nat
  BY DEF Numbered
<1>2. /\ Precedes(x, y) <=> a < b \/ (a = b /\ d < e)
      /\ Less(x, y) <=> IF a # b THEN a < b ELSE k < l \/ d < e
      /\ Less(y, x) <=> IF b # a THEN b < a ELSE l < k \/ e < d
      /\ d = e => k = l
  BY Zenon DEF Precedes, Less
<1> HIDE DEF a, b, d, e, k, l
<1> QED
  BY <1>1, <1>2

-----------------------------------------------------------------------------
(* The table is sorted.                                                      *)

\* The scan finds a place whose element none of the rest precedes.
LEMMA LeastIs ==
  ASSUME NEW X, Tame(X), NEW arr \in Seq(X), NEW i \in 1..Len(arr)
  PROVE  /\ LeastFrom(arr, i) \in i..Len(arr)
         /\ \A j \in i..Len(arr) : ~Precedes(arr[j], arr[LeastFrom(arr, i)])
<1> DEFINE l == Len(arr) - i
           least[n \in 0..(Len(arr) - i)] == IF n = 0 THEN i ELSE Lesser(arr, i + n, least[n - 1])
           S == {p \in (0..l) \X Nat : /\ p[2] \in i..(i + p[1])
                                       /\ \A j \in i..(i + p[1]) : ~Precedes(arr[j], arr[p[2]])}
           F == [p \in S |-> Lesser(arr, (i + p[1]) + 1, p[2])]
<1>0. l \in Nat /\ Len(arr) \in Nat /\ i \in Nat /\ i + l = Len(arr) /\ i # 0 /\ i \in i..i
  OBVIOUS
<1>1. ASSUME NEW n \in 0..l PROVE \A j \in i..(i + n) : j \in 1..Len(arr) /\ arr[j] \in X
  <2>1. \A j \in i..(i + n) : j \in 1..Len(arr)
    BY <1>0
  <2> QED
    BY <2>1
<1>x. \A x \in X : Numbered(x) /\ \A y \in X : Less(x, y) <=> Precedes(x, y)
  BY DEF Tame
<1>2. <<0, i>> \in S
  <2>1. 0 \in 0..l /\ i..(i + 0) = {i}
    BY <1>0
  <2>2. i \in i..(i + 0)
    BY <2>1
  <2>3. arr[i] \in X
    BY <2>2, <2>1, <1>1
  <2>4. Numbered(arr[i])
    BY <1>x, <2>3
  <2>5. ~Precedes(arr[i], arr[i])
    BY <2>4, OrderIs
  <2>6. \A j \in i..(i + 0) : ~Precedes(arr[j], arr[i])
    BY <2>1, <2>5
  <2> QED
    BY <1>0, <2>1, <2>2, <2>6
<1>3. ASSUME NEW n \in 0..(l - 1), NEW k, <<n, k>> \in S
      PROVE  <<n + 1, Lesser(arr, (i + n) + 1, k)>> \in S
  <2> DEFINE t == (i + n) + 1
  <2>1. n \in 0..l /\ n + 1 \in 0..l /\ t \in i..(i + (n + 1)) /\ t \in Nat
        /\ i..(i + (n + 1)) = (i..(i + n)) \cup {t}
    BY <1>0
  <2>2. k \in i..(i + n) /\ k \in Nat /\ \A j \in i..(i + n) : ~Precedes(arr[j], arr[k])
    BY <1>3
  <2> HIDE DEF t, S
  <2>3. k \in i..(i + (n + 1))
    BY <2>1, <2>2
  <2>4. arr[t] \in X /\ arr[k] \in X
    BY <1>1, <2>1, <2>3
  <2>5. Numbered(arr[t]) /\ Numbered(arr[k]) /\ (Less(arr[t], arr[k]) <=> Precedes(arr[t], arr[k]))
    BY <1>x, <2>4
  <2>6. CASE Less(arr[t], arr[k])
    <3>1. Lesser(arr, t, k) = t
      BY <2>6 DEF Lesser
    <3>2. ASSUME NEW j \in i..(i + (n + 1)) PROVE ~Precedes(arr[j], arr[t])
      <4>1. arr[j] \in X
        BY <1>1, <2>1
      <4>2. Numbered(arr[j])
        BY <1>x, <4>1
      <4>3. CASE j = t
        BY <2>5, <4>3, OrderIs
      <4>4. CASE j # t
        <5>1. ~Precedes(arr[j], arr[k])
          BY <2>1, <2>2, <4>4
        <5>2. Precedes(arr[t], arr[k])
          BY <2>5, <2>6
        <5> DEFINE x == arr[j]
                   y == arr[t]
                   z == arr[k]
        <5>3. Precedes(x, y) /\ Precedes(y, z) => Precedes(x, z)
          <6>1. Numbered(x) /\ Numbered(y) /\ Numbered(z)
            BY <2>5, <4>2
          <6> HIDE DEF x, y, z
          <6> QED
            BY <6>1, OrderIs
        <5> QED
          BY <5>1, <5>2, <5>3
      <4> QED
        BY <4>3, <4>4
    <3> QED
      BY <2>1, <3>1, <3>2 DEF S, t
  <2>7. CASE ~Less(arr[t], arr[k])
    <3>1. Lesser(arr, t, k) = k
      BY <2>7 DEF Lesser
    <3>2. \A j \in i..(i + (n + 1)) : ~Precedes(arr[j], arr[k])
      BY <2>1, <2>2, <2>5, <2>7
    <3> QED
      BY <2>1, <2>2, <2>3, <3>1, <3>2 DEF S, t
  <2> QED
    BY <2>6, <2>7
<1>4. ASSUME NEW n \in 0..(l - 1), NEW k, <<n, k>> \in S
      PROVE  F[<<n, k>>] = Lesser(arr, (i + n) + 1, k)
  <2> HIDE DEF S
  <2> QED
    BY <1>4
<1> HIDE DEF S, F
<1>e. PICK f : FoldsTo(f, l, i, F, S)
  <2>1. \A n \in 0..(l - 1) : \A x : <<n, x>> \in S => <<n + 1, F[<<n, x>>]>> \in S
    BY <1>3, <1>4
  <2> HIDE DEF l
  <2> QED
    BY <1>0, <1>2, <2>1, Folded, Zenon
<1>5. /\ f = [n \in 0..l |-> IF n = 0 THEN i ELSE F[<<n - 1, f[n - 1]>>]]
      /\ \A n \in 0..l : <<n, f[n]>> \in S
  <2> HIDE DEF l
  <2> QED
    BY <1>e, Zenon DEF FoldsTo
<1>6. f = [n \in 0..l |-> IF n = 0 THEN i ELSE Lesser(arr, i + n, f[n - 1])]
  <2>1. ASSUME NEW n \in 0..l
        PROVE  (IF n = 0 THEN i ELSE F[<<n - 1, f[n - 1]>>])
                 = (IF n = 0 THEN i ELSE Lesser(arr, i + n, f[n - 1]))
    <3>1. CASE n = 0
      BY <3>1
    <3>2. CASE n # 0
      <4> DEFINE k == n - 1
      <4>1. k \in 0..(l - 1) /\ k \in 0..l /\ (i + k) + 1 = i + n
        BY <1>0, <3>2
      <4> HIDE DEF k
      <4>2. F[<<k, f[k]>>] = Lesser(arr, (i + k) + 1, f[k])
        BY <1>4, <1>5, <4>1
      <4> QED
        BY <3>2, <4>1, <4>2 DEF k
    <3> QED
      BY <3>1, <3>2
  <2> HIDE DEF l
  <2> QED
    BY <1>5, <2>1
<1>7. least = [n \in 0..l |-> IF n = 0 THEN i ELSE Lesser(arr, i + n, least[n - 1])]
  BY <1>6, Zenon
<1> HIDE DEF least
<1>8. 0..l \subseteq {n \in 0..l : <<n, least[n]>> \in S}
  <2> DEFINE T == {n \in 0..l : <<n, least[n]>> \in S}
  <2>1. 0 \in T
    <3>1. 0 \in 0..l
      BY <1>0
    <3> QED
      BY <1>2, <1>7, <3>1
  <2>2. ASSUME NEW n \in 0..(l - 1), n \in T PROVE n + 1 \in T
    <3>1. n + 1 \in 0..l /\ n + 1 # 0 /\ (n + 1) - 1 = n /\ i + (n + 1) = (i + n) + 1
      BY <1>0
    <3>2. least[n + 1] = Lesser(arr, (i + n) + 1, least[n])
      BY <1>7, <3>1
    <3> QED
      BY <1>3, <2>2, <3>1, <3>2
  <2> HIDE DEF T, l
  <2>3. 0..l \subseteq T
    BY <1>0, <2>1, <2>2, IntervalInduction
  <2> QED
    BY <2>3 DEF T
<1>9. <<l, least[l]>> \in S
  <2>1. l \in 0..l
    BY <1>0
  <2> QED
    BY <1>8, <2>1
<1>10. LeastFrom(arr, i) = least[l]
  BY DEF LeastFrom, least
<1> QED
  BY <1>0, <1>9, <1>10 DEF S

\* arr holds what list does, and none that comes later precedes the first n.
SortedTo(list, X, n, arr) ==
  /\ arr \in Seq(X) /\ Len(arr) = Len(list) /\ Range(arr) = Range(list)
  /\ \A a \in 1..n : \A b \in 1..Len(arr) : a < b => ~Precedes(arr[b], arr[a])

\* An exchange puts one more in its place.
LEMMA ExchangedIs ==
  ASSUME NEW X, Tame(X), NEW list \in Seq(X), NEW n \in 0..(Len(list) - 1), NEW arr,
         SortedTo(list, X, n, arr)
  PROVE  SortedTo(list, X, n + 1, Exchanged(arr, n + 1))
<1> DEFINE i == n + 1
           k == LeastFrom(arr, i)
           l == Len(list)
           new == [arr EXCEPT ![i] = arr[k], ![k] = arr[i]]
<1>1. /\ arr \in Seq(X) /\ Len(arr) = l /\ Range(arr) = Range(list)
      /\ \A a \in 1..n : \A b \in 1..l : a < b => ~Precedes(arr[b], arr[a])
  BY Zenon DEF SortedTo
<1>2. l \in Nat /\ i \in 1..l /\ n \in Nat /\ i = n + 1
  OBVIOUS
<1>3. k \in i..l /\ \A j \in i..l : ~Precedes(arr[j], arr[k])
  <2>1. i \in 1..Len(arr)
    BY <1>1, <1>2
  <2> HIDE DEF i, l
  <2> QED
    BY <1>1, <2>1, LeastIs
<1>4. Exchanged(arr, n + 1) = new
  BY DEF Exchanged
<1> HIDE DEF i, k, l
<1>5. k \in 1..l /\ DOMAIN arr = 1..l /\ \A j \in 1..l : arr[j] \in X
  BY <1>1, <1>2, <1>3
<1>6. /\ new \in Seq(X) /\ Len(new) = l /\ DOMAIN new = 1..l
      /\ new[i] = arr[k] /\ new[k] = arr[i]
      /\ \A j \in 1..l : j # i /\ j # k => new[j] = arr[j]
  <2>1. /\ DOMAIN new = 1..l /\ new[i] = arr[k] /\ new[k] = arr[i]
        /\ \A j \in 1..l : j # i /\ j # k => new[j] = arr[j]
    BY <1>2, <1>5
  <2>2. new \in [1..l -> X]
    BY <1>2, <1>5
  <2>3. new \in Seq(X) /\ Len(new) = l
    <3> HIDE DEF new
    <3> QED
      BY <1>2, <2>2
  <2> QED
    BY <2>1, <2>3
<1> HIDE DEF new
<1>7. Range(new) = Range(arr)
  <2>1. ASSUME NEW j \in 1..l PROVE \E h \in 1..l : new[j] = arr[h]
    <3>1. CASE j = i
      BY <1>5, <1>6, <3>1
    <3>2. CASE j = k
      BY <1>2, <1>6, <3>2
    <3>3. CASE j # i /\ j # k
      BY <1>6, <3>3
    <3> QED
      BY <3>1, <3>2, <3>3
  <2>2. ASSUME NEW j \in 1..l PROVE \E h \in 1..l : arr[j] = new[h]
    <3>1. CASE j = i
      BY <1>5, <1>6, <3>1
    <3>2. CASE j = k
      BY <1>2, <1>6, <3>2
    <3>3. CASE j # i /\ j # k
      BY <1>6, <3>3
    <3> QED
      BY <3>1, <3>2, <3>3
  <2>3. Range(new) = {new[j] : j \in 1..l} /\ Range(arr) = {arr[j] : j \in 1..l}
    BY <1>5, <1>6, Zenon DEF Range
  <2> QED
    BY <2>1, <2>2, <2>3
<1>8. ASSUME NEW a \in 1..i, NEW b \in 1..l, a < b PROVE ~Precedes(new[b], new[a])
  <2>1. CASE a = i
    <3>1. new[a] = arr[k]
      BY <1>6, <2>1
    <3>2. b # i /\ b \in i..l
      BY <1>2, <1>8, <2>1
    <3>3. \E h \in i..l : new[b] = arr[h]
      <4>1. i \in i..l
        BY <1>2
      <4>2. CASE b = k
        BY <1>6, <4>1, <4>2
      <4>3. CASE b # k
        BY <1>6, <3>2, <4>3
      <4> QED
        BY <4>2, <4>3
    <3> QED
      BY <1>3, <3>1, <3>3
  <2>2. CASE a # i
    <3>1. a \in 1..n /\ a \in 1..l /\ a # k /\ a < i /\ a < k
      BY <1>2, <1>3, <2>2
    <3>2. new[a] = arr[a]
      BY <1>6, <2>2, <3>1
    <3>3. \E h \in 1..l : a < h /\ new[b] = arr[h]
      <4>1. CASE b = i
        BY <1>5, <1>6, <3>1, <4>1
      <4>2. CASE b = k
        BY <1>2, <1>6, <3>1, <4>2
      <4>3. CASE b # i /\ b # k
        BY <1>6, <1>8, <4>3
      <4> QED
        BY <4>1, <4>2, <4>3
    <3> QED
      BY <1>1, <3>1, <3>2, <3>3
  <2> QED
    BY <2>1, <2>2
<1>9. SortedTo(list, X, i, new)
  BY <1>1, <1>6, <1>7, <1>8 DEF SortedTo, l
<1> QED
  BY <1>4, <1>9 DEF i

\* The sort sorts.
LEMMA SortedIs ==
  ASSUME NEW X, Tame(X), NEW list \in Seq(X)
  PROVE  SortedTo(list, X, Len(list), SortedTable(list))
<1> DEFINE l == Len(list)
           sorted[n \in 0..Len(list)] == IF n = 0 THEN list ELSE Exchanged(sorted[n - 1], n)
           S == {p \in (0..l) \X Seq(X) : SortedTo(list, X, p[1], p[2])}
           F == [p \in S |-> Exchanged(p[2], p[1] + 1)]
<1>0. l \in Nat
  OBVIOUS
<1>2. <<0, list>> \in S
  <2>1. SortedTo(list, X, 0, list)
    BY DEF SortedTo
  <2> QED
    BY <1>0, <2>1
<1>3. ASSUME NEW n \in 0..(l - 1), NEW x, <<n, x>> \in S
      PROVE  <<n + 1, Exchanged(x, n + 1)>> \in S
  <2>1. n + 1 \in 0..l
    BY <1>0
  <2>2. SortedTo(list, X, n, x)
    BY <1>3
  <2>3. SortedTo(list, X, n + 1, Exchanged(x, n + 1))
    BY <2>2, ExchangedIs
  <2>4. Exchanged(x, n + 1) \in Seq(X)
    BY <2>3, Zenon DEF SortedTo
  <2> QED
    BY <2>1, <2>3, <2>4
<1>4. ASSUME NEW n \in 0..(l - 1), NEW x, <<n, x>> \in S
      PROVE  F[<<n, x>>] = Exchanged(x, n + 1)
  <2> HIDE DEF S
  <2> QED
    BY <1>4
<1> HIDE DEF S, F
<1>e. PICK f : FoldsTo(f, l, list, F, S)
  <2>1. \A n \in 0..(l - 1) : \A x : <<n, x>> \in S => <<n + 1, F[<<n, x>>]>> \in S
    BY <1>3, <1>4
  <2> HIDE DEF l
  <2> QED
    BY <1>0, <1>2, <2>1, Folded, Zenon
<1>5. /\ f = [n \in 0..l |-> IF n = 0 THEN list ELSE F[<<n - 1, f[n - 1]>>]]
      /\ \A n \in 0..l : <<n, f[n]>> \in S
  <2> HIDE DEF l
  <2> QED
    BY <1>e, Zenon DEF FoldsTo
<1>6. f = [n \in 0..l |-> IF n = 0 THEN list ELSE Exchanged(f[n - 1], n)]
  <2>1. ASSUME NEW n \in 0..l
        PROVE  (IF n = 0 THEN list ELSE F[<<n - 1, f[n - 1]>>])
                 = (IF n = 0 THEN list ELSE Exchanged(f[n - 1], n))
    <3>1. CASE n = 0
      BY <3>1
    <3>2. CASE n # 0
      <4> DEFINE k == n - 1
      <4>1. k \in 0..(l - 1) /\ k \in 0..l /\ k + 1 = n
        BY <1>0, <3>2
      <4> HIDE DEF k
      <4>2. F[<<k, f[k]>>] = Exchanged(f[k], k + 1)
        BY <1>4, <1>5, <4>1
      <4> QED
        BY <3>2, <4>1, <4>2 DEF k
    <3> QED
      BY <3>1, <3>2
  <2> HIDE DEF l
  <2> QED
    BY <1>5, <2>1
<1>7. sorted = [n \in 0..l |-> IF n = 0 THEN list ELSE Exchanged(sorted[n - 1], n)]
  BY <1>6, Zenon
<1> HIDE DEF sorted
<1>8. 0..l \subseteq {n \in 0..l : <<n, sorted[n]>> \in S}
  <2> DEFINE T == {n \in 0..l : <<n, sorted[n]>> \in S}
  <2>1. 0 \in T
    <3>1. 0 \in 0..l
      BY <1>0
    <3> QED
      BY <1>2, <1>7, <3>1
  <2>2. ASSUME NEW n \in 0..(l - 1), n \in T PROVE n + 1 \in T
    <3>1. n + 1 \in 0..l /\ n + 1 # 0 /\ (n + 1) - 1 = n
      BY <1>0
    <3>2. sorted[n + 1] = Exchanged(sorted[n], n + 1)
      BY <1>7, <3>1
    <3> QED
      BY <1>3, <2>2, <3>1, <3>2
  <2> HIDE DEF T, l
  <2>3. 0..l \subseteq T
    BY <1>0, <2>1, <2>2, IntervalInduction
  <2> QED
    BY <2>3 DEF T
<1>9. <<l, sorted[l]>> \in S
  <2>1. l \in 0..l
    BY <1>0
  <2> QED
    BY <1>8, <2>1
<1>10. SortedTable(list) = sorted[l]
  BY DEF SortedTable, sorted
<1> QED
  BY <1>9, <1>10 DEF S

-----------------------------------------------------------------------------
(* The search finds.                                                         *)

\* What is less than x comes first in the table.
Cut(x) == \A a \in 1..Len(table) : \A b \in 1..Len(table) :
            a < b /\ Less(table[b], x) => Less(table[a], x)

\* After n turns the place where x belongs is in what is left of the table.
Narrowed(x, n, left) ==
  /\ left[1] \in 1..(Len(table) + 1) /\ left[2] \in 0..(Len(table) - n)
  /\ left[1] + left[2] <= Len(table) + 1
  /\ Cut(x) => /\ \A j \in 1..(left[1] - 1) : Less(table[j], x)
               /\ \A j \in (left[1] + left[2])..Len(table) : ~Less(table[j], x)

\* Half of a number is less than it.
LEMMA HalfIs == ASSUME NEW n \in Nat \ {0} PROVE n \div 2 \in 0..(n - 1)
<1> DEFINE h == n \div 2
<1>1. h \in Nat /\ 2 * h <= n
  OBVIOUS
<1> HIDE DEF h
<1>2. h \in 0..(n - 1)
  BY <1>1
<1> QED
  BY <1>2 DEF h

\* A turn of the search halves what is left.
LEMMA HalvedIs ==
  ASSUME Len(table) \in Nat, NEW x, NEW n \in 0..(Len(table) - 1), NEW left \in Nat \X Nat,
         Narrowed(x, n, left)
  PROVE  Halved(left, x) \in Nat \X Nat /\ Narrowed(x, n + 1, Halved(left, x))
<1> DEFINE l == Len(table)
           first == left[1]
           size == left[2]
           half == size \div 2
           m == first + half
           new == Halved(left, x)
<1>1. /\ l \in Nat /\ n \in 0..(l - 1) /\ first \in 1..(l + 1) /\ size \in 0..(l - n)
      /\ first + size <= l + 1
      /\ Cut(x) => (\A j \in 1..(first - 1) : Less(table[j], x))
                   /\ \A j \in (first + size)..l : ~Less(table[j], x)
  BY Zenon DEF Narrowed
<1>2. new = IF size = 0 THEN left
            ELSE IF Less(table[m], x) THEN <<m + 1, size - half - 1>> ELSE <<first, half>>
  BY DEF Halved
<1>3. size # 0 => half \in 0..(size - 1)
  <2>1. size \in Nat
    BY <1>1
  <2> HIDE DEF size
  <2> QED
    BY <2>1, HalfIs
<1>4. Cut(x) <=> \A a \in 1..l : \A b \in 1..l : a < b /\ Less(table[b], x) => Less(table[a], x)
  BY DEF Cut
<1>5. left = <<first, size>>
  OBVIOUS
<1> HIDE DEF l, first, size, half, m, new
<1>6. ASSUME NEW f \in 1..(l + 1), NEW s \in 0..(l - (n + 1)), f + s <= l + 1, new = <<f, s>>,
             Cut(x) => (\A j \in 1..(f - 1) : Less(table[j], x))
                       /\ \A j \in (f + s)..l : ~Less(table[j], x)
      PROVE  new \in Nat \X Nat /\ Narrowed(x, n + 1, new)
  <2>1. f \in Nat /\ s \in Nat /\ new[1] = f /\ new[2] = s
    BY <1>1, <1>6
  <2>2. new \in Nat \X Nat
    BY <1>6, <2>1
  <2>3. Narrowed(x, n + 1, new)
    BY <1>6, <2>1, Zenon DEF Narrowed, l
  <2> QED
    BY <2>2, <2>3
<1>7. CASE size = 0
  <2>1. new = <<first, size>> /\ size \in 0..(l - (n + 1))
    BY <1>1, <1>2, <1>5, <1>7
  <2> QED
    BY <1>1, <1>6, <2>1 DEF new
<1>8. CASE size # 0 /\ Less(table[m], x)
  <2> DEFINE f == m + 1
             s == size - half - 1
  <2>1. new = <<f, s>>
    BY <1>2, <1>8
  <2>2. m = first + half /\ m \in 1..l /\ half \in 0..(size - 1)
    BY <1>1, <1>3, <1>8 DEF m
  <2>3. /\ f = m + 1 /\ s = (size - half) - 1
        /\ f \in 1..(l + 1) /\ s \in 0..(l - (n + 1)) /\ f + s = first + size
    BY <1>1, <2>2
  <2> HIDE DEF f, s
  <2>4. ASSUME Cut(x), NEW j \in 1..(f - 1) PROVE Less(table[j], x)
    <3>1. j \in 1..l /\ (j < m \/ j = m)
      BY <1>1, <2>2, <2>3
    <3> QED
      BY <1>4, <1>8, <2>2, <2>4, <3>1
  <2>5. f + s <= l + 1
    BY <1>1, <2>3
  <2>6. Cut(x) => (\A j \in 1..(f - 1) : Less(table[j], x))
                  /\ \A j \in (f + s)..l : ~Less(table[j], x)
    BY <1>1, <2>3, <2>4
  <2> QED
    BY <1>6, <2>1, <2>3, <2>5, <2>6 DEF new
<1>9. CASE size # 0 /\ ~Less(table[m], x)
  <2>1. new = <<first, half>>
    BY <1>2, <1>9
  <2>2. m = first + half /\ m \in 1..l /\ half \in 0..(l - (n + 1)) /\ first + half <= l + 1
    <3>1. half \in 0..(size - 1)
      BY <1>3, <1>9
    <3> QED
      BY <1>1, <3>1 DEF m
  <2>3. ASSUME Cut(x), NEW j \in (first + half)..l PROVE ~Less(table[j], x)
    <3>1. j \in 1..l /\ (m < j \/ j = m)
      BY <1>1, <2>2
    <3> QED
      BY <1>4, <1>9, <2>2, <2>3, <3>1
  <2>4. Cut(x) => (\A j \in 1..(first - 1) : Less(table[j], x))
                  /\ \A j \in (first + half)..l : ~Less(table[j], x)
    BY <1>1, <2>3
  <2> QED
    BY <1>1, <1>6, <2>1, <2>2, <2>4 DEF new
<1> QED
  BY <1>7, <1>8, <1>9 DEF new

\* The search ends at the first element that is not less than x.
LEMMA BoundIs ==
  ASSUME Len(table) \in Nat, NEW x
  PROVE  /\ LowerBound(x) \in 1..(Len(table) + 1)
         /\ Cut(x) => /\ \A j \in 1..(LowerBound(x) - 1) : Less(table[j], x)
                      /\ \A j \in LowerBound(x)..Len(table) : ~Less(table[j], x)
<1> DEFINE l == Len(table)
           x0 == <<1, Len(table)>>
           left[n \in 0..Len(table)] == IF n = 0 THEN <<1, Len(table)>> ELSE Halved(left[n - 1], x)
           S == {p \in (0..l) \X (Nat \X Nat) : Narrowed(x, p[1], p[2])}
           F == [p \in S |-> Halved(p[2], x)]
<1>0. l \in Nat
  OBVIOUS
<1>2. <<0, x0>> \in S
  <2>1. x0[1] = 1 /\ x0[2] = l /\ x0 \in Nat \X Nat
    BY <1>0
  <2> HIDE DEF x0
  <2>2. /\ x0[1] \in 1..(Len(table) + 1) /\ x0[2] \in 0..(Len(table) - 0)
        /\ x0[1] + x0[2] <= Len(table) + 1
    BY <1>0, <2>1
  <2>3. /\ \A j \in 1..(x0[1] - 1) : Less(table[j], x)
        /\ \A j \in (x0[1] + x0[2])..Len(table) : ~Less(table[j], x)
    <3>1. 1..(x0[1] - 1) = {} /\ (x0[1] + x0[2])..Len(table) = {}
      BY <1>0, <2>1
    <3> QED
      BY <3>1
  <2>4. Narrowed(x, 0, x0)
    BY <2>2, <2>3, Zenon DEF Narrowed
  <2> QED
    BY <1>0, <2>1, <2>4
<1>3. ASSUME NEW n \in 0..(l - 1), NEW w, <<n, w>> \in S
      PROVE  <<n + 1, Halved(w, x)>> \in S
  <2>1. n + 1 \in 0..l
    BY <1>0
  <2>2. w \in Nat \X Nat /\ Narrowed(x, n, w)
    BY <1>3
  <2>3. Halved(w, x) \in Nat \X Nat /\ Narrowed(x, n + 1, Halved(w, x))
    BY <2>2, HalvedIs
  <2> QED
    BY <2>1, <2>3
<1>4. ASSUME NEW n \in 0..(l - 1), NEW w, <<n, w>> \in S
      PROVE  F[<<n, w>>] = Halved(w, x)
  <2> HIDE DEF S
  <2> QED
    BY <1>4
<1> HIDE DEF S, F
<1>e. PICK f : FoldsTo(f, l, x0, F, S)
  <2>1. \A n \in 0..(l - 1) : \A w : <<n, w>> \in S => <<n + 1, F[<<n, w>>]>> \in S
    BY <1>3, <1>4
  <2> HIDE DEF l, x0
  <2> QED
    BY <1>0, <1>2, <2>1, Folded, Zenon
<1>5. /\ f = [n \in 0..l |-> IF n = 0 THEN x0 ELSE F[<<n - 1, f[n - 1]>>]]
      /\ \A n \in 0..l : <<n, f[n]>> \in S
  <2> HIDE DEF l, x0
  <2> QED
    BY <1>e, Zenon DEF FoldsTo
<1>6. f = [n \in 0..l |-> IF n = 0 THEN x0 ELSE Halved(f[n - 1], x)]
  <2>1. ASSUME NEW n \in 0..l
        PROVE  (IF n = 0 THEN x0 ELSE F[<<n - 1, f[n - 1]>>])
                 = (IF n = 0 THEN x0 ELSE Halved(f[n - 1], x))
    <3>1. CASE n = 0
      BY <3>1
    <3>2. CASE n # 0
      <4> DEFINE k == n - 1
      <4>1. k \in 0..(l - 1) /\ k \in 0..l
        BY <1>0, <3>2
      <4> HIDE DEF k
      <4>2. F[<<k, f[k]>>] = Halved(f[k], x)
        BY <1>4, <1>5, <4>1
      <4> QED
        BY <3>2, <4>1, <4>2 DEF k
    <3> QED
      BY <3>1, <3>2
  <2> HIDE DEF l, x0
  <2> QED
    BY <1>5, <2>1
<1>7. left = [n \in 0..l |-> IF n = 0 THEN x0 ELSE Halved(left[n - 1], x)]
  BY <1>6, Zenon
<1> HIDE DEF left, x0
<1>8. 0..l \subseteq {n \in 0..l : <<n, left[n]>> \in S}
  <2> DEFINE T == {n \in 0..l : <<n, left[n]>> \in S}
  <2>1. 0 \in T
    <3>1. 0 \in 0..l
      BY <1>0
    <3> QED
      BY <1>2, <1>7, <3>1
  <2>2. ASSUME NEW n \in 0..(l - 1), n \in T PROVE n + 1 \in T
    <3>1. n + 1 \in 0..l /\ n + 1 # 0 /\ (n + 1) - 1 = n
      BY <1>0
    <3>2. left[n + 1] = Halved(left[n], x)
      BY <1>7, <3>1
    <3> QED
      BY <1>3, <2>2, <3>1, <3>2
  <2> HIDE DEF T, l
  <2>3. 0..l \subseteq T
    BY <1>0, <2>1, <2>2, IntervalInduction
  <2> QED
    BY <2>3 DEF T
<1>9. left[l] \in Nat \X Nat /\ Narrowed(x, l, left[l])
  <2>1. l \in 0..l
    BY <1>0
  <2>2. <<l, left[l]>> \in S
    BY <1>8, <2>1
  <2> QED
    BY <2>2 DEF S
<1> DEFINE r == left[l]
<1>10. LowerBound(x) = r[1]
  BY DEF LowerBound, left
<1>11. r[1] \in 1..(l + 1) /\ r[2] = 0 /\ r[1] + r[2] = r[1]
  <2>1. r[1] \in 1..(l + 1) /\ r[2] \in 0..(l - l)
    BY <1>9, Zenon DEF Narrowed
  <2> HIDE DEF r, l
  <2> QED
    BY <1>0, <2>1
<1>12. Cut(x) => /\ \A j \in 1..(r[1] - 1) : Less(table[j], x)
                 /\ \A j \in (r[1] + r[2])..l : ~Less(table[j], x)
  BY <1>9, Zenon DEF Narrowed
<1> HIDE DEF r
<1> QED
  BY <1>10, <1>11, <1>12, Zenon DEF l

-----------------------------------------------------------------------------
(* Names and roles.                                                          *)

\* The table is the one made of what is listed.
TableInv ==
  /\ listed \in Listings /\ named \in Namings
  /\ table = SortedTable(Submitted(listed, named))

\* e says of its name what x does.
SameName(e, x) == e.length = x.length /\ e.hash = x.hash /\ e.text = x.text

\* What the table holds.
Entries == Range(Submitted(listed, named))

\* The names listed, as they are looked up.
Keys == {named[l.name] : l \in Range(listed)}

\* Every entry is of a name listed, and has its role, and the other way round.
LEMMA EntriesAre ==
  ASSUME TableInv
  PROVE  /\ Submitted(listed, named) \in Seq(Entries)
         /\ \A x \in Names : Numbered(named[x])
         /\ \A l \in Range(listed) : l.name \in Names /\ l.role \in Nat \ {0}
         /\ \A e \in Entries : \E l \in Range(listed) : SameName(e, named[l.name]) /\ e.role = l.role
         /\ \A l \in Range(listed) : \E e \in Entries : SameName(e, named[l.name])
<1> DEFINE s == Submitted(listed, named)
           d == 1..Len(listed)
           E(n) == [length |-> named[listed[n].name].length, hash |-> named[listed[n].name].hash,
                    text |-> named[listed[n].name].text, role |-> listed[n].role]
<1>1. listed \in Seq([name : Names, role : Nat \ {0}]) /\ named \in [Names -> [length : Nat, hash : Nat, text : Nat]]
  BY NamesAssumption DEF TableInv
<1>2. Len(listed) \in Nat /\ DOMAIN listed = d
      /\ \A n \in d : listed[n] \in [name : Names, role : Nat \ {0}]
  <2> DEFINE L == [name : Names, role : Nat \ {0}]
  <2>1. listed \in Seq(L)
    BY <1>1
  <2> HIDE DEF L
  <2>2. Len(listed) \in Nat /\ DOMAIN listed = d /\ \A n \in d : listed[n] \in L
    BY <2>1
  <2> QED
    BY <2>2 DEF L
<1>3. s = [n \in d |-> E(n)]
  BY <1>2 DEF Submitted
<1>4. DOMAIN s = d /\ (\A n \in d : s[n] = E(n)) /\ Entries = {s[n] : n \in d}
  <2>1. DOMAIN s = d /\ \A n \in d : s[n] = E(n)
    BY <1>3
  <2>2. Entries = {s[n] : n \in DOMAIN s}
    BY DEF Entries, Range
  <2> QED
    BY <2>1, <2>2
<1>5. Range(listed) = {listed[n] : n \in d}
  BY <1>2 DEF Range
<1>6. s \in Seq(Entries)
  <2>1. s \in [d -> Entries]
    <3>1. \A n \in d : s[n] \in Entries
      BY <1>4
    <3>2. s = [n \in d |-> s[n]]
      BY <1>3, <1>4
    <3> HIDE DEF s, d
    <3> QED
      BY <3>1, <3>2
  <2> HIDE DEF s
  <2> QED
    BY <1>2, <2>1
<1>7. \A n \in d : SameName(s[n], named[listed[n].name]) /\ s[n].role = listed[n].role
  <2> TAKE n \in d
  <2>1. s[n] = E(n)
    BY <1>4
  <2>2. /\ E(n).length = named[listed[n].name].length /\ E(n).hash = named[listed[n].name].hash
        /\ E(n).text = named[listed[n].name].text /\ E(n).role = listed[n].role
    OBVIOUS
  <2> HIDE DEF E
  <2> QED
    BY <2>1, <2>2 DEF SameName
<1>8. \A x \in Names : Numbered(named[x])
  BY <1>1 DEF Numbered
<1> HIDE DEF s, d
<1>9. \A l \in Range(listed) : l.name \in Names /\ l.role \in Nat \ {0}
  BY <1>2, <1>5
<1>10. /\ \A e \in Entries : \E l \in Range(listed) : SameName(e, named[l.name]) /\ e.role = l.role
       /\ \A l \in Range(listed) : \E e \in Entries : SameName(e, named[l.name])
  BY <1>4, <1>5, <1>7
<1> QED
  BY <1>6, <1>8, <1>9, <1>10 DEF s

\* Different names differ in their texts.
LEMMA TextsDiffer ==
  ASSUME TableInv, NEW x \in Names, NEW y \in Names, named[x].text = named[y].text
  PROVE  x = y
BY NamesAssumption DEF TableInv

\* Less is an order of what is in the table and looked up, when it is one of the
\* names listed.
LEMMA OrderedTame ==
  ASSUME TableInv, Ordered
  PROVE  Tame(Entries \cup Keys)
<1> DEFINE X == Entries \cup Keys
<1>1. ASSUME NEW x \in X PROVE \E l \in Range(listed) : SameName(x, named[l.name])
  <2>1. CASE x \in Entries
    BY <2>1, EntriesAre
  <2>2. CASE x \in Keys
    BY <2>2 DEF Keys, SameName
  <2> QED
    BY <2>1, <2>2
<1>2. \A x \in X : Numbered(x)
  <2> TAKE x \in X
  <2>1. PICK l \in Range(listed) : SameName(x, named[l.name])
    BY <1>1
  <2>2. Numbered(named[l.name])
    BY EntriesAre
  <2> QED
    BY <2>1, <2>2 DEF Numbered, SameName
<1>3. ASSUME NEW x \in X, NEW y \in X PROVE Less(x, y) <=> Precedes(x, y)
  <2>1. PICK k \in Range(listed) : SameName(x, named[k.name])
    BY <1>1
  <2>2. PICK l \in Range(listed) : SameName(y, named[l.name])
    BY <1>1
  <2> DEFINE a == named[k.name]
             b == named[l.name]
  <2>3. ~(Less(a, b) /\ Less(b, a))
    BY DEF Ordered
  <2>4. k.name \in Names /\ l.name \in Names
    BY EntriesAre
  <2>5. a.text = b.text => a = b
    BY <2>4, TextsDiffer
  <2> HIDE DEF a, b
  <2>6. SameName(x, a) /\ SameName(y, b)
    BY <2>1, <2>2 DEF a, b
  <2>7. (Less(x, y) <=> Less(a, b)) /\ (Less(y, x) <=> Less(b, a))
    BY <2>6, Zenon DEF Less, SameName
  <2>8. x.text = y.text => x.length = y.length
    BY <2>5, <2>6 DEF SameName
  <2> HIDE DEF X
  <2> QED
    BY <1>2, <2>3, <2>7, <2>8, LessIs
<1> QED
  BY <1>2, <1>3 DEF Tame

\* The search gives a role its name is listed with, and none to a name that is
\* not listed.
LEMMA FindIs ==
  ASSUME TableInv, Ordered, NEW name \in Names
  PROVE  /\ RolesListed(name) \subseteq Nat \ {0}
         /\ RolesListed(name) = {} => FindExrole(named[name]) = NoRole
         /\ RolesListed(name) # {} => FindExrole(named[name]) \in RolesListed(name)
<1> DEFINE X == Entries \cup Keys
           s == Submitted(listed, named)
           x == named[name]
           r == LowerBound(x)
           l == Len(table)
<1>1. /\ s \in Seq(Entries)
      /\ \A n \in Names : Numbered(named[n])
      /\ \A e \in Range(listed) : e.name \in Names /\ e.role \in Nat \ {0}
      /\ \A e \in Entries : \E i \in Range(listed) : SameName(e, named[i.name]) /\ e.role = i.role
      /\ \A i \in Range(listed) : \E e \in Entries : SameName(e, named[i.name])
  BY EntriesAre
<1>2. Tame(X)
  BY OrderedTame
<1>3. \A y \in X : Numbered(y) /\ \A z \in X : Less(y, z) <=> Precedes(y, z)
  BY <1>2, Zenon DEF Tame
<1> HIDE DEF X
<1>4. Tame(Entries)
  BY <1>3 DEF Tame, X
<1> HIDE DEF s
<1>5. SortedTo(s, Entries, Len(s), table)
  <2>1. table = SortedTable(s)
    BY DEF TableInv, s
  <2> QED
    BY <1>1, <1>4, <2>1, SortedIs
<1>6. /\ table \in Seq(Entries) /\ Range(table) = Entries
      /\ \A a \in 1..l : \A b \in 1..l : a < b => ~Precedes(table[b], table[a])
  <2>1. Range(s) = Entries
    BY DEF Entries, s
  <2> QED
    BY <1>5, <2>1, Zenon DEF SortedTo
<1>7. l \in Nat /\ \A j \in 1..l : table[j] \in Entries /\ table[j] \in X
  BY <1>6 DEF X
<1>8. Range(table) = {table[j] : j \in 1..l}
  <2>1. DOMAIN table = 1..l
    BY <1>6
  <2> QED
    BY <2>1, Zenon DEF Range
<1>9. /\ r \in 1..(l + 1)
      /\ Cut(x) => /\ \A j \in 1..(r - 1) : Less(table[j], x)
                   /\ \A j \in r..l : ~Less(table[j], x)
  <2> HIDE DEF x
  <2> QED
    BY <1>7, BoundIs
<1>10. FindExrole(x) = IF r > l \/ table[r].text # x.text THEN NoRole ELSE table[r].role
  BY DEF FindExrole
<1>11. RolesListed(name) = {e.role : e \in {i \in Range(listed) : i.name = name}}
  BY DEF RolesListed
<1> HIDE DEF x, r, l
<1>s. RolesListed(name) \subseteq Nat \ {0}
  BY <1>1, <1>11
<1>12. CASE r > l \/ table[r].text # x.text
  <2>1. FindExrole(x) = NoRole
    BY <1>10, <1>12
  <2>2. SUFFICES ASSUME NEW i \in Range(listed), i.name = name PROVE FALSE
    BY <1>11, <2>1 DEF x
  <2>3. x \in X
    BY <2>2 DEF x, X, Keys
  <2>4. PICK e \in Entries : SameName(e, x)
    BY <1>1, <2>2 DEF x
  <2>5. PICK j \in 1..l : table[j] = e
    BY <1>6, <1>8
  <2>6. Cut(x)
    <3>1. ASSUME NEW a \in 1..l, NEW b \in 1..l, a < b, Less(table[b], x)
          PROVE  Less(table[a], x)
      <4> DEFINE u == table[a]
                 v == table[b]
      <4>1. u \in X /\ v \in X /\ Numbered(u) /\ Numbered(v) /\ Numbered(x)
        BY <1>3, <1>7, <2>3
      <4>2. ~Precedes(v, u)
        BY <1>6, <3>1
      <4>3. Precedes(v, x)
        BY <1>3, <2>3, <3>1, <4>1
      <4> HIDE DEF u, v
      <4>4. Precedes(u, x)
        BY <4>1, <4>2, <4>3, OrderIs
      <4>5. Less(u, x)
        BY <1>3, <2>3, <4>1, <4>4
      <4> QED
        BY <4>5 DEF u
    <3> QED
      BY <3>1 DEF Cut, l
  <2>7. ~Precedes(e, x) /\ ~Precedes(x, e) /\ Numbered(x) /\ Numbered(e) /\ e \in X
    <3>1. Numbered(x) /\ Numbered(e) /\ e \in X
      BY <1>3, <2>3 DEF X
    <3>2. ~Precedes(x, x)
      BY <3>1, OrderIs
    <3> QED
      BY <2>4, <3>1, <3>2 DEF Precedes, SameName
  <2>8. ~(j \in 1..(r - 1))
    <3>1. ~Less(table[j], x)
      BY <1>3, <2>3, <2>5, <2>7
    <3> QED
      BY <1>9, <2>6, <3>1
  <2>9. r \in 1..l /\ r \in r..l /\ (r < j \/ r = j)
    BY <1>7, <1>9, <2>8
  <2>10. ~Precedes(table[r], x)
    <3>1. ~Less(table[r], x)
      BY <1>9, <2>6, <2>9
    <3> QED
      BY <1>3, <1>7, <2>3, <2>9, <3>1
  <2>11. ~Precedes(x, table[r])
    <3> DEFINE t == table[r]
    <3>1. Numbered(t)
      BY <1>3, <1>7, <2>9
    <3>2. ~Precedes(e, t)
      <4>1. CASE r < j
        BY <1>6, <2>5, <2>9, <4>1
      <4>2. CASE r = j
        BY <2>5, <2>7, <4>2, OrderIs
      <4> QED
        BY <2>9, <4>1, <4>2
    <3> HIDE DEF t
    <3>3. ~Precedes(x, t)
      BY <2>4, <3>2 DEF Precedes, SameName
    <3> QED
      BY <3>3 DEF t
  <2>12. table[r].text = x.text
    <3> DEFINE t == table[r]
    <3>1. Numbered(t)
      BY <1>3, <1>7, <2>9
    <3>2. ~Precedes(x, t) /\ ~Precedes(t, x)
      BY <2>10, <2>11
    <3> HIDE DEF t
    <3>3. t.text = x.text
      BY <2>7, <3>1, <3>2, OrderIs
    <3> QED
      BY <3>3 DEF t
  <2>13. r <= l
    BY <1>7, <2>9
  <2> QED
    BY <1>7, <1>9, <1>12, <2>12, <2>13
<1>13. CASE ~(r > l \/ table[r].text # x.text)
  <2>1. r \in 1..l
    BY <1>7, <1>9, <1>13
  <2>2. FindExrole(x) = table[r].role /\ table[r].text = x.text
    BY <1>10, <1>13
  <2>3. PICK i \in Range(listed) : SameName(table[r], named[i.name]) /\ table[r].role = i.role
    BY <1>1, <1>7, <2>1
  <2>4. i.name = name
    <3>1. named[i.name].text = named[name].text
      BY <2>2, <2>3 DEF SameName, x
    <3> QED
      BY <1>1, <3>1, TextsDiffer
  <2>5. i.role \in RolesListed(name)
    BY <1>11, <2>4
  <2> QED
    BY <1>s, <2>2, <2>3, <2>5 DEF x
<1> QED
  BY <1>12, <1>13

-----------------------------------------------------------------------------
(* Tagging.                                                                  *)

\* The roles a call may get.
RolesFor(i, place) ==
  IF IsHelperCall(i, place) THEN RolesListed(HelperIn(i, place).name) ELSE {}

\* A call that has been seen and whose helper is listed has a role of it; every
\* other has what the decompiler wrote.
TaggedIs(c, has) ==
  IF c \in Range(visited) /\ RolesFor(insn, c) # {}
  THEN \E r \in RolesFor(insn, c) : has = EncodeExrole(r)
  ELSE has = own

\* The calls of the instruction have the roles of those seen, or the decompiler's.
RoleInv ==
  /\ own \in 0..1 /\ <<>> \notin Range(visited)
  /\ DOMAIN role = Calls(insn)
  /\ Ordered => \A c \in Calls(insn) : TaggedIs(c, role[c])

\* The role of a call is one its helper is listed with, if it is listed.
LEMMA RoleOfIs ==
  ASSUME TableInv, Ordered, NEW i \in Insns, NEW c \in Calls(i)
  PROVE  /\ RolesFor(i, c) \subseteq Nat \ {0}
         /\ RolesFor(i, c) = {} => RoleOf(i, c) = NoRole
         /\ RolesFor(i, c) # {} => RoleOf(i, c) \in RolesFor(i, c) /\ RoleOf(i, c) # NoRole
<1>1. CASE IsHelperCall(i, c)
  <2> DEFINE name == HelperIn(i, c).name
  <2>1. name \in Names
    BY <1>1, HelpersAssumption DEF IsHelperCall
  <2>2. RolesFor(i, c) = RolesListed(name) /\ RoleOf(i, c) = FindExrole(named[name])
    BY <1>1, Zenon DEF RolesFor, RoleOf
  <2> HIDE DEF name
  <2>3. /\ RolesListed(name) \subseteq Nat \ {0}
        /\ RolesListed(name) = {} => FindExrole(named[name]) = NoRole
        /\ RolesListed(name) # {} => FindExrole(named[name]) \in RolesListed(name)
    BY <2>1, FindIs
  <2> QED
    BY <2>2, <2>3 DEF NoRole
<1>2. CASE ~IsHelperCall(i, c)
  BY <1>2 DEF RolesFor, RoleOf
<1> QED
  BY <1>1, <1>2

\* A turn of the walk sees one operand of the instruction, or none.
LEMMA SeesOne ==
  ASSUME IInv, Step
  PROVE  /\ insn' = insn /\ visited \in Seq(DOMAIN insn)
         /\ visited' = visited
            \/ \E m \in DOMAIN insn : m # <<>> /\ visited' = Append(visited, m)
<1> DEFINE m == Operand(stack, at)
           t == Left(stack, at)
<1>1. Walk(insn, stack, at, visited, "walk") /\ (at # <<>> \/ stack # <<>>) /\ insn' = insn
  BY DEF IInv, Step
<1>2. m = (IF at # <<>> THEN at ELSE Acquired) /\ t = (IF at # <<>> THEN stack ELSE Acquire)
  BY DEF Operand, Left, Acquired, Acquire, Advanced
<1>3. IF insn[m].t = "z" THEN UNCHANGED visited ELSE visited' = Append(visited, m)
  BY <1>2, Zenon DEF Step
<1>4. m \in DOMAIN insn /\ m # <<>>
  <2>1. Taken(insn, t, m)
    BY <1>1, TurnIs
  <2> QED
    BY <2>1 DEF Taken
<1>5. visited \in Seq(DOMAIN insn)
  BY <1>1 DEF Walk
<1> HIDE DEF m, t
<1> QED
  BY <1>1, <1>3, <1>4, <1>5

\* A step that leaves the table alone leaves the roles listed alone.
LEMMA ListedStays ==
  ASSUME UNCHANGED <<tableVars, own>>
  PROVE  /\ TableInv => TableInv'
         /\ Ordered' <=> Ordered
         /\ own' = own
         /\ \A x : RolesListed(x)' = RolesListed(x)
<1>1. listed' = listed /\ named' = named /\ table' = table /\ own' = own
  BY DEF tableVars
<1>2. TableInv => TableInv'
  BY <1>1, Zenon DEF TableInv
<1>3. Ordered' <=> Ordered
  BY <1>1, ZenonT(30) DEF Ordered
<1>4. \A x : RolesListed(x)' = RolesListed(x)
  BY <1>1, Zenon DEF RolesListed
<1> QED
  BY <1>1, <1>2, <1>3, <1>4

\* ... and one that leaves the instruction and what has been seen of it alone too
\* leaves the calls as they are.
LEMMA TagStays ==
  ASSUME UNCHANGED <<tableVars, own>>, insn' = insn, NEW c, NEW has,
         c \in Range(visited') <=> c \in Range(visited)
  PROVE  TaggedIs(c, has)' <=> TaggedIs(c, has)
<1>1. own' = own /\ \A x : RolesListed(x)' = RolesListed(x)
  BY ListedStays
<1>2. RolesFor(insn, c)' = RolesFor(insn, c)
  BY <1>1 DEF RolesFor, IsHelperCall, HelperIn, Calls
<1> QED
  BY <1>1, <1>2 DEF TaggedIs, EncodeExrole

\* A sequence of one element.
LEMMA OnlyOne == ASSUME NEW X, NEW s \in Seq(X), NEW e, Len(s) = 1, s[1] = e PROVE s = <<e>>
OBVIOUS

\* Writing the role of a call when it is seen is all that tagging takes.
LEMMA TagStepKeeps ==
  ASSUME IInv, TableInv, RoleInv, TagStep
  PROVE  RoleInv'
<1> DEFINE v == visited
           w == visited'
           seen == SubSeq(w, Len(v) + 1, Len(w))
<1>1. Step /\ UNCHANGED <<tableVars, own, rest>>
  BY DEF TagStep
<1>2. role' = IF seen # <<>> /\ Head(seen) \in DOMAIN role THEN Tagged(insn, Head(seen)) ELSE role
  BY DEF TagStep
<1>3. /\ insn' = insn /\ v \in Seq(DOMAIN insn)
      /\ w = v \/ \E m \in DOMAIN insn : m # <<>> /\ w = Append(v, m)
  BY <1>1, SeesOne
<1>4. /\ own \in 0..1 /\ <<>> \notin Range(v) /\ DOMAIN role = Calls(insn)
      /\ Ordered => \A c \in Calls(insn) : TaggedIs(c, role[c])
  BY Zenon DEF RoleInv
<1>5. UNCHANGED <<tableVars, own>>
  BY <1>1
<1>6. own' = own /\ (Ordered' <=> Ordered)
  BY <1>5, ListedStays
<1>7. Calls(insn)' = Calls(insn)
  BY <1>3, Zenon DEF Calls
<1>8. insn \in Insns
  BY DEF IInv, Walk
<1>9. CASE w = v
  <2>1. seen = <<>>
    <3>1. Len(v) \in Nat
      BY <1>3
    <3> DEFINE n == Len(v) + 1
               k == Len(v)
    <3>2. n \in Nat /\ k \in Nat /\ n > k
      BY <3>1
    <3>3. seen = SubSeq(v, n, k)
      BY <1>9
    <3> HIDE DEF n, k, v
    <3>4. SubSeq(v, n, k) = <<>>
      BY <1>3, <3>2
    <3> QED
      BY <3>3, <3>4
  <2>2. role' = role
    BY <1>2, <2>1
  <2>3. Range(visited') = Range(visited)
    BY <1>9
  <2>4. ASSUME Ordered', NEW c \in Calls(insn)' PROVE TaggedIs(c, role[c])'
    <3>1. TaggedIs(c, role[c])
      BY <1>4, <1>6, <1>7, <2>4
    <3> DEFINE has == role[c]
    <3>2. has' = has
      BY <2>2
    <3> QED
      BY <1>3, <1>5, <2>2, <2>3, <3>1, TagStays DEF TaggedIs
  <2> QED
    BY <1>3, <1>4, <1>6, <1>7, <2>2, <2>3, <2>4 DEF RoleInv
<1>10. CASE w # v
  <2>1. PICK m \in DOMAIN insn : m # <<>> /\ w = Append(v, m)
    BY <1>3, <1>10
  <2>2. Range(w) = Range(v) \cup {m}
    BY <1>3, <2>1, SeenOneMore
  <2>3. seen = <<m>>
    <3> DEFINE k == Len(v)
               a == k + 1
               s == SubSeq(w, a, a)
    <3>1. k \in Nat /\ w \in Seq(DOMAIN insn) /\ Len(w) = a /\ w[a] = m /\ a \in 1..Len(w)
      BY <1>3, <2>1
    <3>2. a \in Nat /\ a \in 1..(Len(w) + 1) /\ a \in 0..Len(w) /\ a <= a + 1
          /\ (a - a) + 1 = 1 /\ (a + 1) - 1 = a
      BY <3>1
    <3>3. seen = s
      BY <3>1
    <3> HIDE DEF k, a, v, w
    <3>4. s \in Seq(DOMAIN insn) /\ Len(s) = (a - a) + 1
          /\ \A i \in 1..((a - a) + 1) : s[i] = w[(a + i) - 1]
      BY <3>1, <3>2, PartIs
    <3> HIDE DEF s
    <3>5. Len(s) = 1 /\ s[1] = m
      BY <3>1, <3>2, <3>4
    <3>6. s = <<m>>
      BY <3>4, <3>5, OnlyOne
    <3> QED
      BY <3>3, <3>6
  <2> HIDE DEF seen
  <2>4. role' = IF m \in DOMAIN role THEN Tagged(insn, m) ELSE role
    BY <1>2, <2>3
  <2>5. /\ DOMAIN role' = Calls(insn)
        /\ \A c \in Calls(insn) \ {m} : role'[c] = role[c]
        /\ m \in Calls(insn) =>
             role'[m] = IF RoleOf(insn, m) = NoRole THEN role[m] ELSE EncodeExrole(RoleOf(insn, m))
    BY <1>4, <2>4 DEF Tagged
  <2>6. ASSUME Ordered', NEW c \in Calls(insn)' PROVE TaggedIs(c, role[c])'
    <3>1. Ordered /\ c \in Calls(insn) /\ TaggedIs(c, role[c])
      BY <1>4, <1>6, <1>7, <2>6
    <3>2. CASE c # m
      <4>1. role'[c] = role[c] /\ (c \in Range(visited') <=> c \in Range(visited))
        BY <2>2, <2>5, <3>1, <3>2
      <4>2. TaggedIs(c, role'[c])
        BY <3>1, <4>1
      <4> DEFINE has == role'[c]
      <4> QED
        BY <1>3, <1>5, <3>1, <4>1, TagStays DEF TaggedIs
    <3>3. CASE c = m
      <4>1. own' = own /\ \A x : RolesListed(x)' = RolesListed(x)
        BY <1>5, ListedStays
      <4>2. RolesFor(insn, c)' = RolesFor(insn, c)
        BY <1>3, <4>1 DEF RolesFor, IsHelperCall, HelperIn, Calls
      <4>3. /\ RolesFor(insn, c) = {} => RoleOf(insn, c) = NoRole
            /\ RolesFor(insn, c) # {} => RoleOf(insn, c) \in RolesFor(insn, c) /\ RoleOf(insn, c) # NoRole
        BY <1>8, <3>1, RoleOfIs
      <4>4. CASE RolesFor(insn, c) = {}
        <5>1. role'[c] = role[c] /\ role[c] = own
          BY <2>5, <3>1, <3>3, <4>3, <4>4 DEF TaggedIs
        <5> QED
          BY <4>1, <4>2, <4>4, <5>1 DEF TaggedIs
      <4>5. CASE RolesFor(insn, c) # {}
        <5>1. role'[c] = EncodeExrole(RoleOf(insn, c)) /\ RoleOf(insn, c) \in RolesFor(insn, c)
          BY <2>5, <3>1, <3>3, <4>3, <4>5
        <5>2. c \in Range(visited')
          BY <2>2, <3>3
        <5> QED
          BY <4>2, <4>5, <5>1, <5>2 DEF TaggedIs, EncodeExrole
      <4> QED
        BY <4>4, <4>5
    <3> QED
      BY <3>2, <3>3
  <2>7. <<>> \notin Range(visited')
    BY <1>4, <2>1, <2>2
  <2> QED
    BY <1>4, <1>6, <1>7, <2>5, <2>6, <2>7 DEF RoleInv
<1> QED
  BY <1>9, <1>10

\* The invariant of tagging.
RInv == IInv /\ TableInv /\ RoleInv

\* It holds before the first step ...
LEMMA InitRInv == Init => RInv
<1> SUFFICES ASSUME Init PROVE RInv
  OBVIOUS
<1>1. /\ listed \in Listings /\ named \in Namings /\ table = SortedTable(Submitted(listed, named))
      /\ own \in 0..1 /\ visited = <<>> /\ role = [place \in Calls(insn) |-> own]
  BY DEF Init, InitWalk
<1>2. Range(visited) = {}
  BY <1>1 DEF Range
<1>3. DOMAIN role = Calls(insn) /\ \A c \in Calls(insn) : role[c] = own
  BY <1>1
<1>4. \A c \in Calls(insn) : TaggedIs(c, role[c])
  BY <1>2, <1>3 DEF TaggedIs
<1>5. RoleInv
  BY <1>1, <1>2, <1>3, <1>4 DEF RoleInv
<1> QED
  BY <1>1, <1>5, InitIInv DEF RInv, TableInv

\* ... and a step of the walk, its end and the start of the next all keep it.
LEMMA NextRInv == RInv /\ [Next]_vars => RInv'
<1> SUFFICES ASSUME RInv, [Next]_vars PROVE RInv'
  OBVIOUS
<1>1. IInv'
  BY NextIInv DEF RInv
<1>2. UNCHANGED <<tableVars, own>>
  BY DEF Next, TagStep, NextInsn, vars
<1>3. TableInv'
  BY <1>2, ListedStays DEF RInv
<1>4. CASE TagStep
  BY <1>4, TagStepKeeps, <1>1, <1>3 DEF RInv
<1>5. CASE NextInsn
  <2>1. own' \in 0..1 /\ visited' = <<>> /\ role' = [place \in Calls(insn') |-> own']
    <3>1. own' = own /\ own \in 0..1
      BY <1>2 DEF RInv, RoleInv
    <3>2. visited' = <<>> /\ role' = [place \in Calls(insn') |-> own]
      BY <1>5 DEF NextInsn
    <3> QED
      BY <3>1, <3>2
  <2>2. Range(visited') = {}
    BY <2>1 DEF Range
  <2>3. DOMAIN role' = Calls(insn') /\ \A c \in Calls(insn') : role'[c] = own'
    BY <2>1
  <2>4. \A c \in Calls(insn') : TaggedIs(c, role[c])'
    BY <2>2, <2>3 DEF TaggedIs
  <2>5. RoleInv'
    BY <2>1, <2>2, <2>3, <2>4 DEF RoleInv
  <2> QED
    BY <1>1, <1>3, <2>5 DEF RInv
<1>6. CASE UNCHANGED <<insn, visited, role>>
  <2>1. own' = own /\ (Ordered' <=> Ordered)
    BY <1>2, ListedStays
  <2>2. ASSUME Ordered', NEW c \in Calls(insn)' PROVE TaggedIs(c, role[c])'
    <3>1. TaggedIs(c, role[c])
      BY <1>6, <2>1, <2>2 DEF RInv, RoleInv, Calls
    <3>2. c \in Range(visited') <=> c \in Range(visited)
      BY <1>6
    <3> QED
      BY <1>2, <1>6, <3>1, <3>2, TagStays DEF TaggedIs
  <2>3. /\ own' \in 0..1 /\ <<>> \notin Range(visited') /\ DOMAIN role' = Calls(insn')
    BY <1>6, <2>1 DEF RInv, RoleInv
  <2>4. RoleInv'
    BY <2>2, <2>3 DEF RoleInv
  <2> QED
    BY <1>1, <1>3, <2>4 DEF RInv
<1>7. CASE Return /\ UNCHANGED <<tableVars, role, own, rest>>
  <2>1. UNCHANGED <<insn, visited, role>>
    BY <1>7 DEF Return
  <2> QED
    BY <1>6, <2>1
<1>8. CASE UNCHANGED vars
  <2>1. UNCHANGED <<insn, visited, role>>
    BY <1>8 DEF vars, walkVars
  <2> QED
    BY <1>6, <2>1
<1> QED
  BY <1>4, <1>5, <1>7, <1>8 DEF Next

\* What the rules read, of the invariant.
LEMMA ReadsOfRoles == RInv => RolesRead
<1> SUFFICES ASSUME RInv, stage = "done", FieldsFit, Ordered
             PROVE  /\ \A c \in Calls(insn) \ {<<>>} :
                         LET roles == IF IsHelperCall(insn, c) THEN RolesListed(HelperIn(insn, c).name)
                                      ELSE {}
                         IN IF roles = {} THEN GetExrole(insn, c) = NoRole /\ role[c] = own
                            ELSE GetExrole(insn, c) \in roles
                    /\ <<>> \in Calls(insn) => role[<<>>] = own
  BY DEF RolesRead
<1>1. /\ own \in 0..1 /\ <<>> \notin Range(visited)
      /\ \A c \in Calls(insn) : TaggedIs(c, role[c])
  BY DEF RInv, RoleInv
<1>2. insn \in Insns /\ TableInv
  BY DEF RInv, IInv, Walk
<1>3. Operands \subseteq Range(visited)
  <2>1. AsRecursion
    BY OrderOfWalk DEF RInv
  <2> QED
    BY <2>1, Zenon DEF AsRecursion
<1>4. ASSUME NEW c \in Calls(insn), c # <<>>
      PROVE  IF RolesFor(insn, c) = {} THEN GetExrole(insn, c) = NoRole /\ role[c] = own
             ELSE GetExrole(insn, c) \in RolesFor(insn, c)
  <2>1. c \in Range(visited)
    <3>1. c \in DOMAIN insn /\ insn[c].t # "z"
      BY DEF Calls
    <3> QED
      BY <1>3, <1>4, <3>1 DEF Operands
  <2>2. TaggedIs(c, role[c])
    BY <1>1
  <2>3. RolesFor(insn, c) \subseteq Nat \ {0}
    BY <1>2, RoleOfIs
  <2>4. Mask \in Nat \ {0}
    BY MaskAssumption
  <2> DEFINE has == role[c]
  <2>5. GetExrole(insn, c) = IF IsHelperCall(insn, c) THEN DecodeExrole(has) ELSE NoRole
    BY Zenon DEF GetExrole
  <2> HIDE DEF has
  <2>6. CASE RolesFor(insn, c) = {}
    <3>1. has = own
      BY <2>2, <2>6 DEF TaggedIs, has
    <3>2. DecodeExrole(has) = NoRole
      BY <1>1, <2>4, <3>1 DEF DecodeExrole, NoRole
    <3> QED
      BY <2>5, <2>6, <3>1, <3>2 DEF has
  <2>7. CASE RolesFor(insn, c) # {}
    <3>1. PICK r \in RolesFor(insn, c) : has = EncodeExrole(r)
      BY <2>1, <2>2, <2>7 DEF TaggedIs, has
    <3>2. IsHelperCall(insn, c)
      BY <2>7 DEF RolesFor
    <3>3. DecodeExrole(has) = r
      <4>1. r \in Nat
        BY <2>3
      <4> QED
        BY <2>4, <3>1, <4>1 DEF DecodeExrole, EncodeExrole
    <3> QED
      BY <2>5, <2>7, <3>2, <3>3
  <2> QED
    BY <2>6, <2>7
<1>5. ASSUME <<>> \in Calls(insn) PROVE role[<<>>] = own
  BY <1>1, <1>5 DEF TaggedIs
<1>6. \A c : RolesFor(insn, c) = IF IsHelperCall(insn, c) THEN RolesListed(HelperIn(insn, c).name) ELSE {}
  BY DEF RolesFor
<1> QED
  BY <1>4, <1>5, <1>6, Zenon

-----------------------------------------------------------------------------
(* The theorems.                                                             *)

\* A walk with an explicit stack sees the operands of every instruction whose
\* lists are as long as the fields can say as a recursive walk would: each once,
\* before those within it and after those to its left, and none is left out.
THEOREM VisitsAsRecursion == Spec => []AsRecursion
<1> QED
  BY Invariant, OrderOfWalk, PTL

\* Of every instruction, even one whose lists the fields cannot say, a walk holds
\* at most one list for each level its operands are nested by, and fails the
\* assertion only when they are nested as deep as the stack is big.
THEOREM HeightIsDepth == Spec => []GivesUpOnDepth
<1> QED
  BY Invariant, HeightOfStack, PTL

\* Every call of a helper in the table that an instruction holds as an operand
\* has, once the instruction has been walked, a role its name is listed with, and
\* every other call has what the decompiler wrote, whatever the table lists as
\* long as its order is one.
THEOREM ReadsRoles == Spec => []RolesRead
<1>1. Spec => []RInv
  BY InitRInv, NextRInv, PTL DEF Spec
<1> QED
  BY <1>1, ReadsOfRoles, PTL
=============================================================================
