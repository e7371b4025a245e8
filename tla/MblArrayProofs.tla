--------------------------- MODULE MblArrayProofs ---------------------------
(***************************************************************************)
(* Proofs about the lists of instructions and of blocks (MblArray.tla).      *)
(* In this order: memories and the sequences their links hold; what the      *)
(* operations of InsnList.tla do to them, one by one and in folds (a block   *)
(* copied, a function duplicated, blocks emptied); objects and the order of  *)
(* blocks; the inductive invariant; one lemma for each step; the theorems.   *)
(***************************************************************************)
EXTENDS MblArray, IndFacts, FiniteSetTheorems

-----------------------------------------------------------------------------
(* Memories, and the sequences that the links of one hold.                   *)

\* A pointer to an instruction, or null.
Pointers == Insns \cup {Null}

\* The memories of the type the code gives them.
Memories ==
  [head : [Objs -> Pointers], tail : [Objs -> Pointers],
   flags : [Objs -> SUBSET {"push", "changed"}],
   next : [Insns -> Pointers], prev : [Insns -> Pointers],
   op : [Insns -> Opcodes], ea : [Insns -> Eas \cup {NoEa}],
   cases : [Insns -> Seq(Nat)]]

\* The element at place k, null outside.
Nth(s, k) == IF k \in 1..Len(s) THEN s[k] ELSE Null

\* The links of block b are those of the sequence s.
Chained(m, b, s) ==
  /\ m.head[b] = Nth(s, 1) /\ m.tail[b] = Nth(s, Len(s))
  /\ \A k \in 1..Len(s) : m.next[s[k]] = Nth(s, k + 1) /\ m.prev[s[k]] = Nth(s, k - 1)

\* No instruction is in two places.
Apart(L) ==
  \A b, c \in Objs : \A j \in 1..Len(L[b]), k \in 1..Len(L[c]) : L[b][j] = L[c][k] => b = c /\ j = k

\* The instructions in some list.
InAny(L) == {i \in Insns : \E b \in Objs : \E k \in 1..Len(L[b]) : L[b][k] = i}

\* The blocks of m have the lists L, and what is in none has no links.
Holds(m, L) ==
  /\ L \in [Objs -> Seq(Insns)] /\ Apart(L)
  /\ \A b \in Objs : Chained(m, b, L[b])
  /\ \A i \in Insns \ InAny(L) : m.next[i] = Null /\ m.prev[i] = Null

\* Null is no instruction.
LEMMA NullIs == Null \notin Insns /\ Null \in Pointers /\ Insns \subseteq Pointers
BY InsnsAssumption DEF Pointers

\* The fields of a memory (InsnList.tla's record) are what they are.
LEMMA MemoryIs ==
  ASSUME NEW m \in Memories
  PROVE  /\ m.head \in [Objs -> Pointers] /\ m.tail \in [Objs -> Pointers]
         /\ m.flags \in [Objs -> SUBSET {"push", "changed"}]
         /\ m.next \in [Insns -> Pointers] /\ m.prev \in [Insns -> Pointers]
         /\ m.op \in [Insns -> Opcodes] /\ m.ea \in [Insns -> Eas \cup {NoEa}]
         /\ m.cases \in [Insns -> Seq(Nat)]
BY DEF Memories

\* Sequence r is s with x put in as its k-th element.
IsInsertAt(s, k, x, r) ==
  /\ Len(r) = Len(s) + 1
  /\ \A j \in 1..(Len(s) + 1) : r[j] = IF j < k THEN s[j] ELSE IF j = k THEN x ELSE s[j - 1]

\* Sequence r is s without its k-th element.
IsRemoveAt(s, k, r) ==
  /\ Len(r) = Len(s) - 1
  /\ \A j \in 1..(Len(s) - 1) : r[j] = IF j < k THEN s[j] ELSE s[j + 1]

\* The elements of a sequence that something was put into (InsertAt).
LEMMA InsertAtIs ==
  ASSUME NEW X, NEW s \in Seq(X), NEW k \in 1..(Len(s) + 1), NEW x \in X
  PROVE  InsertAt(s, k, x) \in Seq(X) /\ IsInsertAt(s, k, x, InsertAt(s, k, x))
<1> DEFINE u == SubSeq(s, 1, k - 1)
           v == SubSeq(s, k, Len(s))
<1>1. /\ u \in Seq(X) /\ Len(u) = k - 1
      /\ \A j \in 1..(k - 1) : u[j] = s[j]
  OBVIOUS
<1>2. /\ v \in Seq(X) /\ Len(v) = (Len(s) - k) + 1
      /\ \A j \in 1..((Len(s) - k) + 1) : v[j] = s[(j + k) - 1]
  OBVIOUS
<1> HIDE DEF u, v
<1> DEFINE w == u \o <<x>>
<1>3. /\ w \in Seq(X) /\ Len(w) = k
      /\ \A j \in 1..k : w[j] = IF j < k THEN s[j] ELSE x
  <2>1. <<x>> \in Seq(X) /\ Len(<<x>>) = 1 /\ <<x>>[1] = x
    OBVIOUS
  <2> QED
    BY <1>1, <2>1
<1> HIDE DEF w
<1>4. /\ w \o v \in Seq(X) /\ Len(w \o v) = Len(s) + 1
      /\ \A j \in 1..(Len(s) + 1) : (w \o v)[j] = IF j <= k THEN w[j] ELSE v[j - k]
  BY <1>2, <1>3
<1>5. InsertAt(s, k, x) = w \o v
  BY DEF InsertAt, w, u, v
<1> QED
  BY <1>2, <1>3, <1>4, <1>5 DEF IsInsertAt

\* The elements of a sequence that something was taken from (RemoveAt).
LEMMA RemoveAtIs ==
  ASSUME NEW X, NEW s \in Seq(X), NEW k \in 1..Len(s)
  PROVE  RemoveAt(s, k) \in Seq(X) /\ IsRemoveAt(s, k, RemoveAt(s, k))
<1> DEFINE u == SubSeq(s, 1, k - 1)
           v == SubSeq(s, k + 1, Len(s))
           n == Len(s)
<1>0. n \in Nat /\ k \in 1..n
  OBVIOUS
<1>1. /\ u \in Seq(X) /\ Len(u) = k - 1
      /\ \A j \in 1..(k - 1) : u[j] = s[j]
  OBVIOUS
<1>2. /\ v \in Seq(X) /\ Len(v) = n - k
      /\ \A j \in 1..(n - k) : v[j] = s[j + k]
  <2>1. k + 1 \in 1..(Len(s) + 1) /\ Len(s) \in 0..Len(s) /\ k + 1 <= Len(s) + 1
    OBVIOUS
  <2>2. /\ v \in Seq(X) /\ Len(v) = (n - (k + 1)) + 1
        /\ \A j \in 1..((n - (k + 1)) + 1) : v[j] = s[((k + 1) + j) - 1]
    BY <2>1, PartIs
  <2> HIDE DEF v, n
  <2>3. (n - (k + 1)) + 1 = n - k
    BY <1>0
  <2>4. ASSUME NEW j \in 1..(n - k) PROVE v[j] = s[j + k]
    <3>1. ((k + 1) + j) - 1 = j + k
      BY <1>0
    <3> QED
      BY <2>2, <2>3, <3>1
  <2> QED
    BY <2>2, <2>3, <2>4
<1>3. RemoveAt(s, k) = u \o v
  BY DEF RemoveAt
<1> HIDE DEF u, v, n
<1>4. /\ u \o v \in Seq(X) /\ Len(u \o v) = (k - 1) + (n - k)
      /\ \A j \in 1..((k - 1) + (n - k)) : (u \o v)[j] = IF j <= k - 1 THEN u[j] ELSE v[j - (k - 1)]
  BY <1>1, <1>2, JoinedIs
<1>5. (k - 1) + (n - k) = n - 1
  BY <1>0
<1>6. ASSUME NEW j \in 1..(n - 1) PROVE (u \o v)[j] = IF j < k THEN s[j] ELSE s[j + 1]
  <2>1. CASE j < k
    <3>1. j <= k - 1 /\ j \in 1..(k - 1)
      BY <1>0, <2>1
    <3> QED
      BY <1>1, <1>4, <1>5, <2>1, <3>1
  <2>2. CASE ~(j < k)
    <3>1. ~(j <= k - 1) /\ j - (k - 1) \in 1..(n - k) /\ (j - (k - 1)) + k = j + 1
      BY <1>0, <2>2
    <3>2. (u \o v)[j] = v[j - (k - 1)]
      BY <1>4, <1>5, <3>1
    <3>3. v[j - (k - 1)] = s[(j - (k - 1)) + k]
      BY <1>2, <3>1
    <3> QED
      BY <2>2, <3>1, <3>2, <3>3
  <2> QED
    BY <2>1, <2>2
<1> QED
  BY <1>3, <1>4, <1>5, <1>6 DEF n, IsRemoveAt

-----------------------------------------------------------------------------
(* One instruction in, one out.                                              *)

\* Memory r is m with nm inserted.
IsInserted(m, r, b, nm, om) ==
  LET t == IF m.tail[b] = om THEN Null ELSE Follows(m, b, om) IN
  /\ r.head = [m.head EXCEPT ![b] = IF om = Null THEN nm ELSE m.head[b]]
  /\ r.tail = [m.tail EXCEPT ![b] = IF m.tail[b] = om THEN nm ELSE m.tail[b]]
  /\ r.flags = [m.flags EXCEPT ![b] = IF m.op[nm] = "push" THEN m.flags[b] \cup {"push"}
                                      ELSE m.flags[b]]
  /\ r.op = m.op /\ r.cases = m.cases
  /\ r.ea = [m.ea EXCEPT ![nm] = Stamped(m, b, nm, om)]
  /\ \A i \in Insns : r.next[i] = IF i = om THEN nm
                                  ELSE IF i = nm THEN Follows(m, b, om) ELSE m.next[i]
  /\ \A i \in Insns : r.prev[i] = IF i = t THEN nm ELSE IF i = nm THEN om ELSE m.prev[i]

\* Memory r is m with i removed.
IsRemoved(m, r, b, i) ==
  LET p == IF m.head[b] = i THEN Null ELSE m.prev[i]
      n == IF m.tail[b] = i THEN Null ELSE m.next[i] IN
  /\ r.head = [m.head EXCEPT ![b] = IF m.head[b] = i THEN m.next[i] ELSE m.head[b]]
  /\ r.tail = [m.tail EXCEPT ![b] = IF m.tail[b] = i THEN m.prev[i] ELSE m.tail[b]]
  /\ r.flags = [m.flags EXCEPT ![b] = m.flags[b] \cup {"changed"}]
  /\ r.op = m.op /\ r.cases = m.cases /\ r.ea = m.ea
  /\ \A j \in Insns : r.next[j] = IF j = i THEN Null ELSE IF j = p THEN m.next[i] ELSE m.next[j]
  /\ \A j \in Insns : r.prev[j] = IF j = i THEN Null ELSE IF j = n THEN m.prev[i] ELSE m.prev[j]

\* The parts of a memory in which lists are kept.
SameLists(m, r) == r.head = m.head /\ r.tail = m.tail /\ r.next = m.next /\ r.prev = m.prev

\* Memory r is m with what c is, where it comes from and where it leads written.
IsWritten(m, r, c, o, e, t) ==
  /\ SameLists(m, r) /\ r.flags = m.flags
  /\ r.op = [m.op EXCEPT ![c] = o] /\ r.ea = [m.ea EXCEPT ![c] = e]
  /\ r.cases = [m.cases EXCEPT ![c] = t]

\* insert_into_block, field by field.
LEMMA InsertedFields ==
  ASSUME NEW m \in Memories, NEW b \in Objs, NEW nm \in Insns, NEW om \in Pointers, om # nm
  PROVE  /\ Inserted(m, b, nm, om) \in Memories
         /\ IsInserted(m, Inserted(m, b, nm, om), b, nm, om)
<1> DEFINE r == Inserted(m, b, nm, om)
           t == IF m.tail[b] = om THEN Null ELSE Follows(m, b, om)
           fl == IF m.op[nm] = "push" THEN m.flags[b] \cup {"push"} ELSE m.flags[b]
           ea == Stamped(m, b, nm, om)
           pr == Set([m.prev EXCEPT ![nm] = om], t, nm)
           nx == Set([m.next EXCEPT ![nm] = Follows(m, b, om)], om, nm)
           hd == IF om = Null THEN nm ELSE m.head[b]
           tl == IF m.tail[b] = om THEN nm ELSE m.tail[b]
<1>1. r = [m EXCEPT !.flags[b] = fl, !.ea[nm] = ea, !.prev = pr, !.next = nx,
                    !.head[b] = hd, !.tail[b] = tl]
  BY Zenon DEF Inserted
<1>2. fl \in SUBSET {"push", "changed"}
  BY MemoryIs, Zenon
<1>3. ea \in Eas \cup {NoEa}
  <2>1. m.ea \in [Insns -> Eas \cup {NoEa}] /\ m.head[b] \in Insns \cup {Null} /\ om \in Insns \cup {Null}
    BY MemoryIs, Zenon DEF Pointers
  <2>2. /\ m.ea[nm] \in Eas \cup {NoEa} /\ NoEa \in Eas \cup {NoEa}
        /\ om # Null => m.ea[om] \in Eas \cup {NoEa}
        /\ m.head[b] # Null => m.ea[m.head[b]] \in Eas \cup {NoEa}
    BY <2>1
  <2> QED
    BY <2>2, Zenon DEF Stamped
<1>4. hd \in Pointers /\ tl \in Pointers /\ Follows(m, b, om) \in Pointers /\ t \in Pointers
  BY MemoryIs, NullIs, Zenon DEF Follows, Pointers
<1>5. nx \in [Insns -> Pointers] /\ pr \in [Insns -> Pointers]
  <2> HIDE DEF t
  <2>1. m.next \in [Insns -> Pointers] /\ m.prev \in [Insns -> Pointers] /\ nm \in Pointers
    BY MemoryIs, NullIs, Zenon
  <2> QED
    BY <1>4, <2>1, Zenon DEF Set
<1>6. /\ \A i \in Insns : nx[i] = IF i = om THEN nm ELSE IF i = nm THEN Follows(m, b, om) ELSE m.next[i]
      /\ \A i \in Insns : pr[i] = IF i = t THEN nm ELSE IF i = nm THEN om ELSE m.prev[i]
  <2> HIDE DEF t
  <2>1. m.next \in [Insns -> Pointers] /\ m.prev \in [Insns -> Pointers]
    BY MemoryIs, Zenon
  <2> QED
    BY <2>1 DEF Set
<1> HIDE DEF fl, ea, pr, nx, hd, tl
<1>7. /\ r.head = [m.head EXCEPT ![b] = hd] /\ r.tail = [m.tail EXCEPT ![b] = tl]
      /\ r.flags = [m.flags EXCEPT ![b] = fl] /\ r.next = nx /\ r.prev = pr
      /\ r.op = m.op /\ r.cases = m.cases /\ r.ea = [m.ea EXCEPT ![nm] = ea]
  <2> HIDE DEF r
  <2> QED
    BY <1>1 DEF Memories
<1>8. r \in Memories
  <2> HIDE DEF r
  <2>1. r = [head |-> r.head, tail |-> r.tail, flags |-> r.flags, next |-> r.next, prev |-> r.prev,
             op |-> r.op, ea |-> r.ea, cases |-> r.cases]
    BY <1>1 DEF Memories
  <2>2. /\ r.head \in [Objs -> Pointers] /\ r.tail \in [Objs -> Pointers]
        /\ r.flags \in [Objs -> SUBSET {"push", "changed"}] /\ r.op \in [Insns -> Opcodes]
        /\ r.ea \in [Insns -> Eas \cup {NoEa}] /\ r.cases \in [Insns -> Seq(Nat)]
    BY <1>2, <1>3, <1>4, <1>7, MemoryIs
  <2> QED
    BY <1>5, <1>7, <2>1, <2>2 DEF Memories
<1> QED
  BY <1>6, <1>7, <1>8, Zenon DEF fl, ea, hd, tl, IsInserted

\* remove_from_block, field by field.
LEMMA RemovedFields ==
  ASSUME NEW m \in Memories, NEW b \in Objs, NEW i \in Insns
  PROVE  Removed(m, b, i) \in Memories /\ IsRemoved(m, Removed(m, b, i), b, i)
<1> DEFINE r == Removed(m, b, i)
           p == IF m.head[b] = i THEN Null ELSE m.prev[i]
           n == IF m.tail[b] = i THEN Null ELSE m.next[i]
           fl == m.flags[b] \cup {"changed"}
           pr == [Set(m.prev, n, m.prev[i]) EXCEPT ![i] = Null]
           nx == [Set(m.next, p, m.next[i]) EXCEPT ![i] = Null]
           hd == IF m.head[b] = i THEN m.next[i] ELSE m.head[b]
           tl == IF m.tail[b] = i THEN m.prev[i] ELSE m.tail[b]
<1>1. r = [m EXCEPT !.flags[b] = fl, !.head[b] = hd, !.tail[b] = tl, !.next = nx, !.prev = pr]
  BY Zenon DEF Removed
<1>2. fl \in SUBSET {"push", "changed"}
  BY MemoryIs, Zenon
<1>4. /\ hd \in Pointers /\ tl \in Pointers /\ Null \in Pointers
      /\ m.next[i] \in Pointers /\ m.prev[i] \in Pointers
      /\ m.next \in [Insns -> Pointers] /\ m.prev \in [Insns -> Pointers]
  BY MemoryIs, NullIs, Zenon
<1>5. nx \in [Insns -> Pointers] /\ pr \in [Insns -> Pointers]
  <2> HIDE DEF p, n
  <2>1. Set(m.next, p, m.next[i]) \in [Insns -> Pointers] /\ Set(m.prev, n, m.prev[i]) \in [Insns -> Pointers]
    BY <1>4, Zenon DEF Set
  <2> QED
    BY <1>4, <2>1, Zenon
<1>6. /\ \A j \in Insns : nx[j] = IF j = i THEN Null ELSE IF j = p THEN m.next[i] ELSE m.next[j]
      /\ \A j \in Insns : pr[j] = IF j = i THEN Null ELSE IF j = n THEN m.prev[i] ELSE m.prev[j]
  <2> HIDE DEF p, n
  <2> QED
    BY <1>4 DEF Set
<1> HIDE DEF fl, pr, nx, hd, tl
<1>7. /\ r.head = [m.head EXCEPT ![b] = hd] /\ r.tail = [m.tail EXCEPT ![b] = tl]
      /\ r.flags = [m.flags EXCEPT ![b] = fl] /\ r.next = nx /\ r.prev = pr
      /\ r.op = m.op /\ r.cases = m.cases /\ r.ea = m.ea
  <2> HIDE DEF r
  <2> QED
    BY <1>1 DEF Memories
<1>8. r \in Memories
  <2> HIDE DEF r
  <2>1. r = [head |-> r.head, tail |-> r.tail, flags |-> r.flags, next |-> r.next, prev |-> r.prev,
             op |-> r.op, ea |-> r.ea, cases |-> r.cases]
    BY <1>1 DEF Memories
  <2>2. /\ r.head \in [Objs -> Pointers] /\ r.tail \in [Objs -> Pointers]
        /\ r.flags \in [Objs -> SUBSET {"push", "changed"}] /\ r.op \in [Insns -> Opcodes]
        /\ r.ea \in [Insns -> Eas \cup {NoEa}] /\ r.cases \in [Insns -> Seq(Nat)]
    BY <1>2, <1>4, <1>7, MemoryIs
  <2> QED
    BY <1>5, <1>7, <2>1, <2>2 DEF Memories
<1> QED
  BY <1>6, <1>7, <1>8, Zenon DEF fl, hd, tl, IsRemoved

\* An instruction is given what it is, where it comes from and where it leads.
Written(m, c, o, e, t) == [m EXCEPT !.op[c] = o, !.ea[c] = e, !.cases[c] = t]

\* What Copy, delete and a rule that makes an instruction write, field by field.
LEMMA WrittenFields ==
  ASSUME NEW m \in Memories, NEW c \in Insns, NEW o \in Opcodes, NEW e \in Eas \cup {NoEa},
         NEW t \in Seq(Nat)
  PROVE  Written(m, c, o, e, t) \in Memories /\ IsWritten(m, Written(m, c, o, e, t), c, o, e, t)
<1> DEFINE r == Written(m, c, o, e, t)
<1>1. r = [m EXCEPT !.op[c] = o, !.ea[c] = e, !.cases[c] = t]
  BY DEF Written
<1> HIDE DEF r
<1>2. /\ r.head = m.head /\ r.tail = m.tail /\ r.flags = m.flags
      /\ r.next = m.next /\ r.prev = m.prev
      /\ r.op = [m.op EXCEPT ![c] = o] /\ r.ea = [m.ea EXCEPT ![c] = e]
      /\ r.cases = [m.cases EXCEPT ![c] = t]
  BY <1>1 DEF Memories
<1>3. r \in Memories
  <2>1. r = [head |-> r.head, tail |-> r.tail, flags |-> r.flags, next |-> r.next, prev |-> r.prev,
             op |-> r.op, ea |-> r.ea, cases |-> r.cases]
    BY <1>1 DEF Memories
  <2>0. m.op \in [Insns -> Opcodes] /\ m.ea \in [Insns -> Eas \cup {NoEa}] /\ m.cases \in [Insns -> Seq(Nat)]
    BY MemoryIs, Zenon
  <2>2. r.op \in [Insns -> Opcodes] /\ r.ea \in [Insns -> Eas \cup {NoEa}] /\ r.cases \in [Insns -> Seq(Nat)]
    BY <1>2, <2>0
  <2> QED
    BY <1>2, <2>1, <2>2, MemoryIs DEF Memories
<1> QED
  BY <1>2, <1>3, Zenon DEF r, IsWritten, SameLists

\* delete, field by field.
LEMMA DeletedFields ==
  ASSUME NEW m \in Memories, NEW i \in Insns
  PROVE  Deleted(m, i) \in Memories /\ IsWritten(m, Deleted(m, i), i, "free", NoEa, <<>>)
<1> DEFINE o == "free"
           t == <<>>
<1>1. o \in Opcodes /\ NoEa \in Eas \cup {NoEa} /\ t \in Seq(Nat)
  BY DEF Opcodes
<1>2. Deleted(m, i) = Written(m, i, o, NoEa, t)
  BY DEF Deleted, Written
<1> HIDE DEF o, t
<1>3. Written(m, i, o, NoEa, t) \in Memories /\ IsWritten(m, Written(m, i, o, NoEa, t), i, o, NoEa, t)
  BY <1>1, WrittenFields, Zenon
<1> QED
  BY <1>2, <1>3, Zenon DEF o, t

-----------------------------------------------------------------------------
(* Lists as sequences.                                                       *)

\* What does not touch a link does not touch a list.
LEMMA HeldStill ==
  ASSUME NEW m, NEW r, NEW L, Holds(m, L), SameLists(m, r)
  PROVE  Holds(r, L)
BY Zenon DEF Holds, SameLists, Chained

\* The elements of a list, and who has them.
LEMMA HeldIn ==
  ASSUME NEW m, NEW L, Holds(m, L), NEW b \in Objs
  PROVE  /\ L[b] \in Seq(Insns) /\ Len(L[b]) \in Nat /\ Chained(m, b, L[b])
         /\ \A k \in 1..Len(L[b]) : L[b][k] \in Insns /\ L[b][k] \in InAny(L)
         /\ \A j, k \in 1..Len(L[b]) : L[b][j] = L[b][k] => j = k
         /\ \A c \in Objs \ {b} : \A j \in 1..Len(L[b]), k \in 1..Len(L[c]) : L[b][j] # L[c][k]
<1>1. L[b] \in Seq(Insns) /\ Len(L[b]) \in Nat
  BY DEF Holds
<1>2. \A k \in 1..Len(L[b]) : L[b][k] \in Insns
  BY <1>1
<1> QED
  BY <1>1, <1>2, ZenonT(30) DEF Holds, Apart, InAny

\* The neighbours of an element are elements or Null, and the same only at
\* the same place.
LEMMA NthIs ==
  ASSUME NEW s \in Seq(Insns), \A j, k \in 1..Len(s) : s[j] = s[k] => j = k
  PROVE  /\ Nth(s, 0) = Null /\ Nth(s, Len(s) + 1) = Null
         /\ \A k \in 1..Len(s) : Nth(s, k) = s[k] /\ Nth(s, k) # Null /\ Nth(s, k) \in Insns
         /\ \A j, k \in 0..(Len(s) + 1) : Nth(s, j) = Nth(s, k) =>
              j = k \/ (j \notin 1..Len(s) /\ k \notin 1..Len(s))
         /\ \A j : Nth(s, j) \in Pointers
<1> DEFINE n == Len(s)
<1>1. n \in Nat /\ \A k \in 1..n : s[k] \in Insns /\ s[k] # Null
  BY NullIs
<1> HIDE DEF n
<1>2. 0 \notin 1..n /\ n + 1 \notin 1..n
  BY <1>1
<1>3. \A k \in 1..n : Nth(s, k) = s[k]
  BY Zenon DEF Nth, n
<1>4. \A k : k \notin 1..n => Nth(s, k) = Null
  BY Zenon DEF Nth, n
<1> QED
  BY <1>1, <1>2, <1>3, <1>4, NullIs, Zenon DEF n

\* What insert_into_block writes to links.
InsertLinks(m, L, b, k, nm) ==
  LET om == Nth(L[b], k) IN
  /\ Chained(Inserted(m, b, nm, om), b, InsertAt(L[b], k + 1, nm)) /\ om # nm
  /\ Nth(L[b], k + 1) = IF m.tail[b] = om THEN Null ELSE Follows(m, b, om)
  /\ Nth(L[b], k + 1) = Follows(m, b, om)

\* insert_into_block links a sequence with one more.
LEMMA InsertedChain ==
  ASSUME NEW m \in Memories, NEW L, Holds(m, L), NEW b \in Objs, NEW k \in 0..Len(L[b]),
         NEW nm \in Insns \ InAny(L)
  PROVE  InsertLinks(m, L, b, k, nm)
<1> DEFINE s == L[b]
           n == Len(s)
           om == Nth(s, k)
           r == Inserted(m, b, nm, om)
           s2 == InsertAt(s, k + 1, nm)
           t == Nth(s, k + 1)
<1>1. /\ s \in Seq(Insns) /\ n \in Nat /\ Chained(m, b, s)
      /\ \A j \in 1..n : s[j] \in Insns /\ s[j] # nm
      /\ \A i, j \in 1..n : s[i] = s[j] => i = j
  BY HeldIn
<1>2. /\ Nth(s, 0) = Null /\ Nth(s, n + 1) = Null
      /\ \A j \in 1..n : Nth(s, j) = s[j] /\ Nth(s, j) # Null /\ Nth(s, j) \in Insns
      /\ \A i, j \in 0..(n + 1) : Nth(s, i) = Nth(s, j) =>
              i = j \/ (i \notin 1..n /\ j \notin 1..n)
      /\ \A j : Nth(s, j) \in Pointers
  BY <1>1, NthIs
<1>3. /\ s2 \in Seq(Insns) /\ Len(s2) = n + 1
      /\ \A j \in 1..(n + 1) : s2[j] = IF j < k + 1 THEN s[j] ELSE IF j = k + 1 THEN nm ELSE s[j - 1]
  <2> DEFINE p == k + 1
  <2>1. p \in 1..(Len(s) + 1) /\ nm \in Insns
    BY <1>1
  <2> HIDE DEF p
  <2>2. InsertAt(s, p, nm) \in Seq(Insns) /\ IsInsertAt(s, p, nm, InsertAt(s, p, nm))
    <3> HIDE DEF s
    <3>1. s \in Seq(Insns)
      BY <1>1
    <3> QED
      BY <2>1, <3>1, InsertAtIs
  <2> QED
    BY <2>2 DEF p, IsInsertAt
<1>4. m.head[b] = Nth(s, 1) /\ m.tail[b] = Nth(s, n)
  BY <1>1 DEF Chained
<1>5. \A j \in 1..n : m.next[s[j]] = Nth(s, j + 1) /\ m.prev[s[j]] = Nth(s, j - 1)
  BY <1>1 DEF Chained
<1>6. k \in 0..n /\ nm \in Insns /\ nm # Null
  BY NullIs
<1> HIDE DEF s, n
<1>7. om # nm /\ t # nm
  <2>1. \A j \in 0..(n + 1) : Nth(s, j) # nm
    <3> TAKE j \in 0..(n + 1)
    <3>1. CASE j \in 1..n
      BY <1>1, <1>2, <3>1
    <3>2. CASE j \notin 1..n
      BY <1>6, <3>2 DEF Nth, n
    <3> QED
      BY <3>1, <3>2
  <2> QED
    BY <1>1, <1>6, <2>1
<1>8. Follows(m, b, om) = t
  <2>1. CASE k = 0
    BY <1>2, <1>4, <2>1 DEF Follows
  <2>2. CASE k # 0
    <3>1. k \in 1..n
      BY <1>1, <1>6, <2>2
    <3>2. Nth(s, k) = s[k] /\ Nth(s, k) # Null /\ m.next[s[k]] = Nth(s, k + 1)
      BY <1>2, <1>5, <3>1
    <3> QED
      BY <3>2 DEF Follows
  <2> QED
    BY <2>1, <2>2
<1>9. t = IF m.tail[b] = om THEN Null ELSE Follows(m, b, om)
  <2>1. CASE m.tail[b] = om
    <3>1. n = k \/ (n \notin 1..n /\ k \notin 1..n)
      <4>1. n \in 0..(n + 1) /\ k \in 0..(n + 1)
        BY <1>1, <1>6
      <4>2. Nth(s, n) = Nth(s, k)
        BY <1>4, <2>1
      <4> QED
        BY <1>2, <4>1, <4>2
    <3>2. n = k
      BY <1>1, <1>6, <3>1
    <3> QED
      BY <1>2, <2>1, <3>2
  <2>2. CASE m.tail[b] # om
    BY <1>8, <2>2
  <2> QED
    BY <2>1, <2>2
<1>10. /\ r.head[b] = IF om = Null THEN nm ELSE m.head[b]
       /\ r.tail[b] = IF m.tail[b] = om THEN nm ELSE m.tail[b]
       /\ \A i \in Insns : r.next[i] = IF i = om THEN nm ELSE IF i = nm THEN t ELSE m.next[i]
       /\ \A i \in Insns : r.prev[i] = IF i = t THEN nm ELSE IF i = nm THEN om ELSE m.prev[i]
  <2>1. om \in Pointers
    BY <1>2
  <2> HIDE DEF om, t
  <2>2. /\ r.head = [m.head EXCEPT ![b] = IF om = Null THEN nm ELSE m.head[b]]
        /\ r.tail = [m.tail EXCEPT ![b] = IF m.tail[b] = om THEN nm ELSE m.tail[b]]
        /\ \A i \in Insns : r.next[i] = IF i = om THEN nm ELSE IF i = nm THEN t ELSE m.next[i]
        /\ \A i \in Insns : r.prev[i] = IF i = t THEN nm ELSE IF i = nm THEN om ELSE m.prev[i]
    <3>1. IsInserted(m, r, b, nm, om)
      BY <1>6, <1>7, <2>1, InsertedFields, Zenon
    <3> HIDE DEF r
    <3> QED
      BY <1>8, <1>9, <3>1, Zenon DEF IsInserted
  <2>3. m.head \in [Objs -> Pointers] /\ m.tail \in [Objs -> Pointers]
    BY MemoryIs
  <2> QED
    BY <2>2, <2>3
<1> HIDE DEF r, s2, om, t
<1>11. om = Nth(s, k) /\ t = Nth(s, k + 1)
  BY DEF om, t
<1>12. /\ \A j \in 1..(n + 1) : Nth(s2, j) = IF j < k + 1 THEN s[j] ELSE IF j = k + 1 THEN nm ELSE s[j - 1]
       /\ Nth(s2, 0) = Null /\ Nth(s2, n + 2) = Null
  BY <1>1, <1>3 DEF Nth
<1>13. r.head[b] = Nth(s2, 1)
  <2>1. CASE k = 0
    BY <1>1, <1>2, <1>6, <1>10, <1>11, <1>12, <2>1
  <2>2. CASE k # 0
    BY <1>1, <1>2, <1>4, <1>6, <1>10, <1>11, <1>12, <2>2
  <2> QED
    BY <2>1, <2>2
<1>14. r.tail[b] = Nth(s2, n + 1)
  <2>1. CASE k = n
    BY <1>1, <1>4, <1>6, <1>10, <1>11, <1>12, <2>1
  <2>2. CASE k # n
    <3>1. n \in 1..n /\ k \in 0..(n + 1) /\ n \in 0..(n + 1) /\ n + 1 \in 1..(n + 1) /\ ~(n + 1 < k + 1) /\ n + 1 # k + 1
          /\ (n + 1) - 1 = n
      BY <1>1, <1>6, <2>2
    <3>2. Nth(s, n) # om
      BY <1>2, <1>11, <2>2, <3>1
    <3>3. r.tail[b] = s[n]
      BY <1>2, <1>4, <1>10, <3>1, <3>2
    <3> QED
      BY <1>12, <3>1, <3>3
  <2> QED
    BY <2>1, <2>2
<1>15. ASSUME NEW j \in 1..(n + 1)
       PROVE  r.next[s2[j]] = Nth(s2, j + 1) /\ r.prev[s2[j]] = Nth(s2, j - 1)
  <2>1. CASE j < k
    <3>1. j \in 1..n /\ j + 1 \in 1..n /\ s2[j] = s[j] /\ Nth(s2, j + 1) = s[j + 1]
      BY <1>1, <1>3, <1>6, <1>12, <2>1
    <3>2. s[j] # om /\ s[j] # t /\ s[j] # nm /\ s[j] \in Insns
      BY <1>1, <1>2, <1>6, <1>11, <2>1, <3>1
    <3>3. r.next[s[j]] = s[j + 1] /\ r.prev[s[j]] = Nth(s, j - 1)
      BY <1>2, <1>5, <1>10, <3>1, <3>2
    <3>4. Nth(s2, j - 1) = Nth(s, j - 1)
      BY <1>1, <1>2, <1>6, <1>12, <2>1, <3>1
    <3> QED
      BY <3>1, <3>3, <3>4
  <2>2. CASE j = k
    <3>1. j \in 1..n /\ s2[j] = s[j] /\ Nth(s2, j + 1) = nm /\ s[j] = om
      BY <1>1, <1>2, <1>3, <1>6, <1>11, <1>12, <2>2
    <3>2. s[j] # t /\ s[j] # nm /\ s[j] \in Insns
      BY <1>1, <1>2, <1>6, <1>11, <2>2, <3>1
    <3>3. r.next[s[j]] = nm /\ r.prev[s[j]] = Nth(s, j - 1)
      BY <1>5, <1>10, <3>1, <3>2
    <3>4. Nth(s2, j - 1) = Nth(s, j - 1)
      BY <1>1, <1>2, <1>6, <1>12, <2>2, <3>1
    <3> QED
      BY <3>1, <3>3, <3>4
  <2>3. CASE j = k + 1
    <3>1. s2[j] = nm
      BY <1>1, <1>3, <1>6, <2>3
    <3>2. r.next[nm] = t /\ r.prev[nm] = om
      BY <1>6, <1>7, <1>10
    <3>3. Nth(s2, j - 1) = om
      BY <1>1, <1>2, <1>6, <1>11, <1>12, <2>3
    <3>4. Nth(s2, j + 1) = t
      BY <1>1, <1>2, <1>6, <1>11, <1>12, <2>3
    <3> QED
      BY <3>1, <3>2, <3>3, <3>4
  <2>4. CASE j > k + 1
    <3> DEFINE i == j - 1
    <3>1. i \in 1..n /\ i > k /\ j = i + 1 /\ s2[j] = s[i]
      BY <1>1, <1>3, <1>6, <2>4
    <3> HIDE DEF i
    <3>2. s[i] # om /\ s[i] # nm /\ s[i] \in Insns
      BY <1>1, <1>2, <1>6, <1>11, <3>1
    <3>3. r.next[s[i]] = Nth(s, i + 1)
      BY <1>5, <1>10, <3>1, <3>2
    <3>4. Nth(s2, j + 1) = Nth(s, i + 1)
      <4>1. CASE i = n
        <5>1. j + 1 = n + 2
          BY <1>1, <3>1, <4>1
        <5> QED
          BY <1>2, <1>12, <4>1, <5>1
      <4>2. CASE i # n
        <5>1. /\ i + 1 \in 1..n /\ j + 1 \in 1..(n + 1) /\ ~(j + 1 < k + 1) /\ j + 1 # k + 1
              /\ (j + 1) - 1 = i + 1
          BY <1>1, <1>6, <3>1, <4>2
        <5> QED
          BY <1>2, <1>12, <5>1
      <4> QED
        BY <4>1, <4>2
    <3>5. r.prev[s[i]] = Nth(s2, j - 1)
      <4>1. CASE i = k + 1
        <5>1. s[i] = t
          BY <1>2, <1>11, <3>1, <4>1
        <5>2. Nth(s2, j - 1) = nm
          BY <1>1, <1>6, <1>12, <3>1, <4>1
        <5> QED
          BY <1>10, <3>2, <5>1, <5>2
      <4>2. CASE i # k + 1
        <5>1. s[i] # t
          BY <1>1, <1>2, <1>6, <1>11, <3>1, <4>2
        <5>2. r.prev[s[i]] = Nth(s, i - 1)
          BY <1>5, <1>10, <3>1, <3>2, <5>1
        <5>3. i - 1 \in 1..n /\ (j - 1) - 1 = i - 1 /\ j - 1 \in 1..(n + 1) /\ ~(j - 1 < k + 1) /\ j - 1 # k + 1
          BY <1>1, <1>6, <3>1, <4>2
        <5>4. Nth(s2, j - 1) = s[i - 1] /\ Nth(s, i - 1) = s[i - 1]
          BY <1>2, <1>12, <5>3
        <5> QED
          BY <5>2, <5>4
      <4> QED
        BY <4>1, <4>2
    <3> QED
      BY <3>1, <3>3, <3>4, <3>5
  <2> QED
    BY <1>6, <2>1, <2>2, <2>3, <2>4
<1>16. Chained(r, b, s2)
  BY <1>3, <1>13, <1>14, <1>15 DEF Chained
<1> QED
  BY <1>7, <1>8, <1>9, <1>16 DEF r, s2, om, t, s, n, InsertLinks

\* The elements of a sequence.
LEMMA ToSetIs ==
  ASSUME NEW X, NEW s \in Seq(X)
  PROVE  /\ \A x : x \in ToSet(s) <=> \E k \in 1..Len(s) : s[k] = x
         /\ ToSet(s) \subseteq X
<1>1. DOMAIN s = 1..Len(s) /\ \A k \in 1..Len(s) : s[k] \in X
  OBVIOUS
<1> QED
  BY <1>1 DEF ToSet

\* What is in any list.
LEMMA InAnyIs ==
  ASSUME NEW L \in [Objs -> Seq(Insns)]
  PROVE  \A i : i \in InAny(L) <=> \E b \in Objs : i \in ToSet(L[b])
<1>1. ASSUME NEW b \in Objs, NEW i PROVE i \in ToSet(L[b]) <=> i \in Insns /\ \E k \in 1..Len(L[b]) : L[b][k] = i
  <2>1. L[b] \in Seq(Insns)
    OBVIOUS
  <2> QED
    BY <2>1, ToSetIs, Zenon
<1> QED
  BY <1>1, Zenon DEF InAny

\* In r the list of b in m is replaced by s, with elements of its own and new
\* ones, and nothing else is touched.
Replaces(m, r, L, b, s) ==
  /\ Chained(r, b, s) /\ \A j, k \in 1..Len(s) : s[j] = s[k] => j = k
  /\ \A i \in ToSet(s) : i \in ToSet(L[b]) \/ i \notin InAny(L)
  /\ \A c \in Objs \ {b} : r.head[c] = m.head[c] /\ r.tail[c] = m.tail[c]
  /\ \A i \in Insns : i \notin ToSet(L[b]) /\ i \notin ToSet(s) =>
       r.next[i] = m.next[i] /\ r.prev[i] = m.prev[i]
  /\ \A i \in ToSet(L[b]) \ ToSet(s) : r.next[i] = Null /\ r.prev[i] = Null

\* The lists of r are L but for that of b, which is s.
HoldsWith(r, L, b, s) ==
  /\ Holds(r, [L EXCEPT ![b] = s])
  /\ InAny([L EXCEPT ![b] = s]) = (InAny(L) \ ToSet(L[b])) \cup ToSet(s)

\* Then all lists hold.
LEMMA Replaced ==
  ASSUME NEW m, NEW r, NEW L, Holds(m, L), NEW b \in Objs, NEW s \in Seq(Insns), Replaces(m, r, L, b, s)
  PROVE  HoldsWith(r, L, b, s)
<1>0. /\ Chained(r, b, s) /\ \A j, k \in 1..Len(s) : s[j] = s[k] => j = k
      /\ \A i \in ToSet(s) : i \in ToSet(L[b]) \/ i \notin InAny(L)
      /\ \A c \in Objs \ {b} : r.head[c] = m.head[c] /\ r.tail[c] = m.tail[c]
      /\ \A i \in Insns : i \notin ToSet(L[b]) /\ i \notin ToSet(s) =>
           r.next[i] = m.next[i] /\ r.prev[i] = m.prev[i]
      /\ \A i \in ToSet(L[b]) \ ToSet(s) : r.next[i] = Null /\ r.prev[i] = Null
  BY Zenon DEF Replaces
<1> DEFINE N == [L EXCEPT ![b] = s]
<1>1. L \in [Objs -> Seq(Insns)] /\ N \in [Objs -> Seq(Insns)]
  BY DEF Holds
<1>2. N[b] = s /\ \A c \in Objs \ {b} : N[c] = L[c]
  BY <1>1
<1> HIDE DEF N
<1>3. \A c \in Objs : \A x : x \in ToSet(L[c]) <=> \E k \in 1..Len(L[c]) : L[c][k] = x
  BY <1>1, ToSetIs
<1>4. \A x : x \in ToSet(s) <=> \E k \in 1..Len(s) : s[k] = x
  BY ToSetIs
<1>5. \A i : i \in InAny(L) <=> \E c \in Objs : i \in ToSet(L[c])
  BY <1>1, InAnyIs
<1>6. \A i : i \in InAny(N) <=> \E c \in Objs : i \in ToSet(N[c])
  BY <1>1, InAnyIs
<1>7. \A c \in Objs \ {b} : \A i : ~(i \in ToSet(L[c]) /\ i \in ToSet(L[b]))
  <2> SUFFICES ASSUME NEW c \in Objs \ {b}, NEW i, i \in ToSet(L[c]), i \in ToSet(L[b]) PROVE FALSE
    OBVIOUS
  <2>1. PICK j \in 1..Len(L[c]) : L[c][j] = i
    BY <1>3
  <2>2. PICK k \in 1..Len(L[b]) : L[b][k] = i
    BY <1>3
  <2>3. Apart(L)
    BY DEF Holds
  <2>4. c = b
    BY <2>1, <2>2, <2>3, Zenon DEF Apart
  <2> QED
    BY <2>4
<1>8. \A c \in Objs \ {b} : \A i : ~(i \in ToSet(L[c]) /\ i \in ToSet(s))
  BY <1>0, <1>5, <1>7, Zenon
<1>9. InAny(N) = (InAny(L) \ ToSet(L[b])) \cup ToSet(s)
  <2>1. ASSUME NEW i PROVE i \in InAny(N) <=> (i \in InAny(L) /\ i \notin ToSet(L[b])) \/ i \in ToSet(s)
    <3>1. ASSUME i \in InAny(N) PROVE (i \in InAny(L) /\ i \notin ToSet(L[b])) \/ i \in ToSet(s)
      <4>1. PICK c \in Objs : i \in ToSet(N[c])
        BY <1>6, <3>1, Zenon
      <4>2. CASE c = b
        BY <1>2, <4>1, <4>2, Zenon
      <4>3. CASE c # b
        <5>1. i \in ToSet(L[c]) /\ c \in Objs \ {b}
          BY <1>2, <4>1, <4>3
        <5> QED
          BY <1>5, <1>7, <5>1, Zenon
      <4> QED
        BY <4>2, <4>3
    <3>2. ASSUME i \in InAny(L), i \notin ToSet(L[b]) PROVE i \in InAny(N)
      <4>1. PICK c \in Objs : i \in ToSet(L[c])
        BY <1>5, <3>2, Zenon
      <4>2. N[c] = L[c]
        BY <1>2, <3>2, <4>1
      <4> QED
        BY <1>6, <4>1, <4>2, Zenon
    <3>3. ASSUME i \in ToSet(s) PROVE i \in InAny(N)
      BY <1>2, <1>6, <3>3, Zenon
    <3> QED
      BY <3>1, <3>2, <3>3, Zenon
  <2> QED
    BY <2>1, Zenon
<1>10. Apart(N)
  <2> SUFFICES ASSUME NEW c \in Objs, NEW d \in Objs, NEW j \in 1..Len(N[c]), NEW k \in 1..Len(N[d]),
                      N[c][j] = N[d][k]
               PROVE  c = d /\ j = k
    BY Zenon DEF Apart
  <2>1. CASE c = b /\ d = b
    <3>1. N[c] = s /\ N[d] = s
      BY <1>2, <2>1, Zenon
    <3>2. j \in 1..Len(s) /\ k \in 1..Len(s) /\ s[j] = s[k]
      BY <3>1
    <3> QED
      BY <1>0, <2>1, <3>2, Zenon
  <2>2. CASE c # b /\ d # b
    <3>1. N[c] = L[c] /\ N[d] = L[d]
      BY <1>2, <2>2
    <3>2. j \in 1..Len(L[c]) /\ k \in 1..Len(L[d]) /\ L[c][j] = L[d][k]
      BY <3>1
    <3>3. Apart(L)
      BY DEF Holds
    <3> QED
      BY <3>2, <3>3, ZenonT(30) DEF Apart
  <2>3. CASE c = b /\ d # b
    <3>1. N[c][j] \in ToSet(s) /\ N[d][k] \in ToSet(L[d])
      BY <1>2, <1>3, <1>4, <2>3, Zenon
    <3> QED
      BY <1>8, <2>3, <3>1, Zenon
  <2>4. CASE c # b /\ d = b
    <3>1. N[d][k] \in ToSet(s) /\ N[c][j] \in ToSet(L[c])
      BY <1>2, <1>3, <1>4, <2>4, Zenon
    <3> QED
      BY <1>8, <2>4, <3>1, Zenon
  <2> QED
    BY <2>1, <2>2, <2>3, <2>4, Zenon
<1>11. ASSUME NEW c \in Objs PROVE Chained(r, c, N[c])
  <2>1. CASE c = b
    BY <1>0, <1>2, <2>1, Zenon
  <2>2. CASE c # b
    <3>1. Chained(m, c, L[c]) /\ N[c] = L[c] /\ r.head[c] = m.head[c] /\ r.tail[c] = m.tail[c]
      BY <1>0, <1>2, <2>2, Zenon DEF Holds
    <3>2. ASSUME NEW k \in 1..Len(L[c])
          PROVE  r.next[L[c][k]] = m.next[L[c][k]] /\ r.prev[L[c][k]] = m.prev[L[c][k]]
      <4>1. L[c][k] \in ToSet(L[c]) /\ L[c][k] \in Insns
        BY <1>1, <1>3
      <4> QED
        BY <1>0, <1>7, <1>8, <2>2, <4>1, Zenon
    <3>3. Chained(r, c, L[c])
      BY <3>1, <3>2, Zenon DEF Chained
    <3> QED
      BY <3>1, <3>3, Zenon
  <2> QED
    BY <2>1, <2>2
<1>12. ASSUME NEW i \in Insns \ InAny(N) PROVE r.next[i] = Null /\ r.prev[i] = Null
  <2>1. i \notin ToSet(s) /\ (i \notin InAny(L) \/ i \in ToSet(L[b]))
    BY <1>9, <1>12, Zenon
  <2>2. CASE i \in ToSet(L[b])
    BY <1>0, <2>1, <2>2, Zenon
  <2>3. CASE i \notin ToSet(L[b])
    <3>1. m.next[i] = Null /\ m.prev[i] = Null
      BY <2>1, <2>3, Zenon DEF Holds
    <3> QED
      BY <1>0, <2>1, <2>3, <3>1, Zenon
  <2> QED
    BY <2>2, <2>3
<1>13. Holds(r, N)
  BY <1>1, <1>10, <1>11, <1>12, Zenon DEF Holds
<1> QED
  BY <1>9, <1>13 DEF N, HoldsWith

\* insert_into_block makes a memory whose lists are L but for nm.
InsertKeeps(m, L, b, k, nm) ==
  LET r == Inserted(m, b, nm, Nth(L[b], k))
      N == [L EXCEPT ![b] = InsertAt(L[b], k + 1, nm)]
  IN /\ r \in Memories /\ IsInserted(m, r, b, nm, Nth(L[b], k))
     /\ Holds(r, N) /\ InAny(N) = InAny(L) \cup {nm}

\* insert_into_block is InsertAt on the list of the block.
LEMMA InsertedIs ==
  ASSUME NEW m \in Memories, NEW L, Holds(m, L), NEW b \in Objs, NEW k \in 0..Len(L[b]),
         NEW nm \in Insns \ InAny(L)
  PROVE  InsertKeeps(m, L, b, k, nm)
<1> DEFINE om == Nth(L[b], k)
           r == Inserted(m, b, nm, om)
           s == L[b]
           s2 == InsertAt(s, k + 1, nm)
<1>1. /\ s \in Seq(Insns) /\ Len(s) \in Nat
      /\ \A j \in 1..Len(s) : s[j] \in Insns /\ s[j] # nm
      /\ \A i, j \in 1..Len(s) : s[i] = s[j] => i = j
  BY HeldIn
<1>2. /\ Chained(r, b, s2) /\ om # nm
      /\ Nth(s, k + 1) = IF m.tail[b] = om THEN Null ELSE Follows(m, b, om)
      /\ Nth(s, k + 1) = Follows(m, b, om)
  <2>1. InsertLinks(m, L, b, k, nm)
    BY InsertedChain, Zenon
  <2> QED
    BY <2>1, Zenon DEF InsertLinks
<1>3. \A j : Nth(s, j) = Null \/ \E i \in 1..Len(s) : Nth(s, j) = s[i]
  BY Zenon DEF Nth
<1>4. om \in Pointers
  BY <1>1, NthIs
<1>5. r \in Memories /\ IsInserted(m, r, b, nm, om)
  BY <1>2, <1>4, InsertedFields, Zenon
<1>6. /\ s2 \in Seq(Insns) /\ Len(s2) = Len(s) + 1
      /\ \A j \in 1..(Len(s) + 1) : s2[j] = IF j < k + 1 THEN s[j] ELSE IF j = k + 1 THEN nm ELSE s[j - 1]
  <2> DEFINE p == k + 1
  <2>1. p \in 1..(Len(s) + 1) /\ nm \in Insns
    BY <1>1
  <2> HIDE DEF p, s
  <2>2. InsertAt(s, p, nm) \in Seq(Insns) /\ IsInsertAt(s, p, nm, InsertAt(s, p, nm))
    BY <1>1, <2>1, InsertAtIs
  <2> QED
    BY <2>2 DEF p, IsInsertAt
<1>7. k \in 0..Len(s) /\ nm \in Insns /\ nm \notin InAny(L)
  OBVIOUS
<1>8. \A x : x \in ToSet(s) <=> \E j \in 1..Len(s) : s[j] = x
  BY <1>1, ToSetIs
<1>9. \A x : x \in ToSet(s2) <=> \E j \in 1..Len(s2) : s2[j] = x
  BY <1>6, ToSetIs
<1>n. \A i : i \in InAny(L) <=> \E c \in Objs : i \in ToSet(L[c])
  BY InAnyIs, Zenon DEF Holds
<1> HIDE DEF om, r, s, s2
<1>10. \A i, j \in 1..Len(s2) : s2[i] = s2[j] => i = j
  <2> DEFINE n == Len(s)
  <2>1. n \in Nat /\ k \in 0..n /\ Len(s2) = n + 1
    BY <1>1, <1>6, <1>7
  <2>2. \A j \in 1..(n + 1) : s2[j] = IF j < k + 1 THEN s[j] ELSE IF j = k + 1 THEN nm ELSE s[j - 1]
    BY <1>6
  <2>3. /\ \A j \in 1..n : s[j] # nm
        /\ \A i, j \in 1..n : s[i] = s[j] => i = j
    BY <1>1
  <2> HIDE DEF n
  <2> SUFFICES ASSUME NEW i \in 1..(n + 1), NEW j \in 1..(n + 1), s2[i] = s2[j], i < j PROVE FALSE
    BY <2>1
  <2>4. CASE j < k + 1
    BY <2>1, <2>2, <2>3, <2>4
  <2>5. CASE j = k + 1
    BY <2>1, <2>2, <2>3, <2>5
  <2>6. CASE j > k + 1
    <3>1. j - 1 \in 1..n /\ s2[j] = s[j - 1]
      BY <2>1, <2>2, <2>6
    <3>2. CASE i = k + 1
      BY <2>1, <2>2, <2>3, <3>1, <3>2
    <3>3. CASE i < k + 1
      BY <2>1, <2>2, <2>3, <2>6, <3>1, <3>3
    <3>4. CASE i > k + 1
      <4>1. i - 1 \in 1..n /\ s2[i] = s[i - 1] /\ i - 1 # j - 1
        BY <2>1, <2>2, <3>4
      <4> QED
        BY <2>3, <3>1, <4>1
    <3> QED
      BY <2>1, <3>2, <3>3, <3>4
  <2> QED
    BY <2>1, <2>4, <2>5, <2>6
<1>11. ToSet(s2) = ToSet(s) \cup {nm}
  <2>1. ASSUME NEW x \in ToSet(s2) PROVE x \in ToSet(s) \cup {nm}
    BY <1>1, <1>6, <1>7, <1>8, <1>9
  <2>2. nm \in ToSet(s2)
    <3>1. k + 1 \in 1..Len(s2) /\ s2[k + 1] = nm
      BY <1>1, <1>6, <1>7
    <3> QED
      BY <1>9, <3>1
  <2>3. ASSUME NEW x \in ToSet(s) PROVE x \in ToSet(s2)
    <3>1. PICK j \in 1..Len(s) : s[j] = x
      BY <1>8
    <3>2. CASE j < k + 1
      <4>1. j \in 1..Len(s2) /\ s2[j] = x
        BY <1>1, <1>6, <1>7, <3>1, <3>2, SMTT(30)
      <4> QED
        BY <1>9, <4>1
    <3>3. CASE ~(j < k + 1)
      <4>1. j + 1 \in 1..Len(s2) /\ ~(j + 1 < k + 1) /\ j + 1 # k + 1 /\ (j + 1) - 1 = j
        BY <1>1, <1>6, <1>7, <3>3
      <4>2. s2[j + 1] = x
        BY <1>6, <3>1, <4>1
      <4> QED
        BY <1>9, <4>1, <4>2
    <3> QED
      BY <3>2, <3>3
  <2> QED
    BY <2>1, <2>2, <2>3
<1>12. \A i \in ToSet(s2) : i \in ToSet(s) \/ i \notin InAny(L)
  BY <1>7, <1>11
<1>13. \A c \in Objs \ {b} : r.head[c] = m.head[c] /\ r.tail[c] = m.tail[c]
  BY <1>5, MemoryIs DEF IsInserted
<1>14. ASSUME NEW i \in Insns, i \notin ToSet(s), i \notin ToSet(s2)
       PROVE  r.next[i] = m.next[i] /\ r.prev[i] = m.prev[i]
  <2>1. i # nm /\ i # Null /\ \A j \in 1..Len(s) : s[j] # i
    BY <1>8, <1>11, <1>14, NullIs
  <2>2. i # om /\ i # Nth(s, k + 1)
    BY <1>3, <2>1 DEF om, s
  <2> QED
    BY <1>2, <1>5, <2>1, <2>2, Zenon DEF IsInserted
<1>15. ToSet(s) \ ToSet(s2) = {}
  BY <1>11
<1>16. s = L[b] /\ \A i \in ToSet(s) : i \in InAny(L)
  BY <1>n, Zenon DEF s
<1>17. /\ Holds(r, [L EXCEPT ![b] = s2])
       /\ InAny([L EXCEPT ![b] = s2]) = (InAny(L) \ ToSet(s)) \cup ToSet(s2)
  <2>1. Replaces(m, r, L, b, s2)
    BY <1>2, <1>10, <1>12, <1>13, <1>14, <1>15, <1>16, Zenon DEF Replaces
  <2>2. HoldsWith(r, L, b, s2)
    BY <1>6, <2>1, Replaced, Zenon
  <2> QED
    BY <1>16, <2>2, Zenon DEF HoldsWith
<1>18. InAny([L EXCEPT ![b] = s2]) = InAny(L) \cup {nm}
  BY <1>11, <1>16, <1>17
<1> QED
  BY <1>5, <1>17, <1>18 DEF om, r, s, s2, InsertKeeps

\* remove_from_block makes a memory whose lists are L but for the k-th of b.
RemoveKeeps(m, L, b, k) ==
  LET r == Removed(m, b, L[b][k])
      N == [L EXCEPT ![b] = RemoveAt(L[b], k)]
  IN /\ r \in Memories /\ IsRemoved(m, r, b, L[b][k])
     /\ Holds(r, N) /\ InAny(N) = InAny(L) \ {L[b][k]}

\* remove_from_block is RemoveAt on the list of the block.
LEMMA RemovedIs ==
  ASSUME NEW m \in Memories, NEW L, Holds(m, L), NEW b \in Objs, NEW k \in 1..Len(L[b])
  PROVE  RemoveKeeps(m, L, b, k)
<1> DEFINE s == L[b]
           n == Len(s)
           i == s[k]
           r == Removed(m, b, i)
           s2 == RemoveAt(s, k)
           p == Nth(s, k - 1)
           q == Nth(s, k + 1)
<1>1. /\ s \in Seq(Insns) /\ n \in Nat /\ Chained(m, b, s)
      /\ \A j \in 1..n : s[j] \in Insns
      /\ \A h, j \in 1..n : s[h] = s[j] => h = j
  BY HeldIn
<1>2. /\ Nth(s, 0) = Null /\ Nth(s, n + 1) = Null
      /\ \A j \in 1..n : Nth(s, j) = s[j] /\ Nth(s, j) # Null /\ Nth(s, j) \in Insns
  BY <1>1, NthIs
<1>3. s2 \in Seq(Insns) /\ IsRemoveAt(s, k, s2)
  <2> HIDE DEF s
  <2>1. k \in 1..Len(s)
    BY DEF s
  <2> QED
    BY <1>1, <2>1, RemoveAtIs
<1>4. Len(s2) = n - 1 /\ \A j \in 1..(n - 1) : s2[j] = IF j < k THEN s[j] ELSE s[j + 1]
  BY <1>3 DEF IsRemoveAt
<1>5. m.head[b] = Nth(s, 1) /\ m.tail[b] = Nth(s, n)
  BY <1>1 DEF Chained
<1>6. \A j \in 1..n : m.next[s[j]] = Nth(s, j + 1) /\ m.prev[s[j]] = Nth(s, j - 1)
  BY <1>1 DEF Chained
<1>7. k \in 1..n /\ i \in Insns /\ i # Null
  BY <1>1, NullIs
<1>8. r \in Memories /\ IsRemoved(m, r, b, i)
  BY <1>7, RemovedFields, Zenon
<1>9. \A x : x \in ToSet(s) <=> \E j \in 1..n : s[j] = x
  BY <1>1, ToSetIs
<1>10. \A x : x \in ToSet(s2) <=> \E j \in 1..(n - 1) : s2[j] = x
  BY <1>3, <1>4, ToSetIs
<1>11. m.next[i] = q /\ m.prev[i] = p
  BY <1>6, <1>7
<1>12. s = L[b]
  OBVIOUS
<1> HIDE DEF s, n
<1>13. (IF m.head[b] = i THEN Null ELSE m.prev[i]) = p
  <2>1. CASE k = 1
    BY <1>2, <1>5, <1>7, <2>1
  <2>2. CASE k # 1
    <3>1. 1 \in 1..n /\ s[1] # i
      BY <1>1, <1>7, <2>2
    <3> QED
      BY <1>2, <1>5, <1>11, <3>1
  <2> QED
    BY <2>1, <2>2
<1>14. (IF m.tail[b] = i THEN Null ELSE m.next[i]) = q
  <2>1. CASE k = n
    BY <1>2, <1>5, <1>7, <2>1
  <2>2. CASE k # n
    <3>1. n \in 1..n /\ s[n] # i
      BY <1>1, <1>7, <2>2
    <3> QED
      BY <1>2, <1>5, <1>11, <3>1
  <2> QED
    BY <2>1, <2>2
<1> HIDE DEF i, r, s2, p, q
<1>15. /\ r.head[b] = IF m.head[b] = i THEN q ELSE m.head[b]
       /\ r.tail[b] = IF m.tail[b] = i THEN p ELSE m.tail[b]
       /\ \A j \in Insns : r.next[j] = IF j = i THEN Null ELSE IF j = p THEN q ELSE m.next[j]
       /\ \A j \in Insns : r.prev[j] = IF j = i THEN Null ELSE IF j = q THEN p ELSE m.prev[j]
       /\ \A c \in Objs \ {b} : r.head[c] = m.head[c] /\ r.tail[c] = m.tail[c]
  <2>1. m.head \in [Objs -> Pointers] /\ m.tail \in [Objs -> Pointers]
    BY MemoryIs
  <2>2. /\ r.head = [m.head EXCEPT ![b] = IF m.head[b] = i THEN q ELSE m.head[b]]
        /\ r.tail = [m.tail EXCEPT ![b] = IF m.tail[b] = i THEN p ELSE m.tail[b]]
        /\ \A j \in Insns : r.next[j] = IF j = i THEN Null ELSE IF j = p THEN q ELSE m.next[j]
        /\ \A j \in Insns : r.prev[j] = IF j = i THEN Null ELSE IF j = q THEN p ELSE m.prev[j]
    BY <1>8, <1>11, <1>13, <1>14, Zenon DEF IsRemoved
  <2> QED
    BY <2>1, <2>2
<1>16. i = s[k] /\ p = Nth(s, k - 1) /\ q = Nth(s, k + 1)
  BY DEF i, p, q
<1>17. \A j : j \notin 1..(n - 1) => Nth(s2, j) = Null
  BY <1>4 DEF Nth
<1>18. \A j \in 1..(n - 1) : Nth(s2, j) = s2[j]
  BY <1>4 DEF Nth
<1>19. r.head[b] = Nth(s2, 1)
  <2>1. CASE k = 1
    <3>1. r.head[b] = q
      BY <1>2, <1>5, <1>7, <1>15, <1>16, <2>1
    <3>2. CASE n = 1
      BY <1>2, <1>16, <1>17, <2>1, <3>1, <3>2
    <3>3. CASE n # 1
      BY <1>1, <1>2, <1>4, <1>7, <1>16, <1>18, <2>1, <3>1, <3>3
    <3> QED
      BY <3>2, <3>3
  <2>2. CASE k # 1
    <3>1. 1 \in 1..(n - 1) /\ 1 \in 1..n /\ 1 < k
      BY <1>1, <1>7, <2>2
    <3>2. m.head[b] # i
      BY <1>1, <1>2, <1>5, <1>7, <1>16, <2>2, <3>1
    <3> QED
      BY <1>2, <1>4, <1>5, <1>15, <1>18, <3>1, <3>2
  <2> QED
    BY <2>1, <2>2
<1>20. r.tail[b] = Nth(s2, n - 1)
  <2>1. CASE k = n
    <3>1. r.tail[b] = p
      BY <1>2, <1>5, <1>7, <1>15, <1>16, <2>1
    <3>2. CASE n = 1
      BY <1>2, <1>16, <1>17, <2>1, <3>1, <3>2
    <3>3. CASE n # 1
      <4>1. n - 1 \in 1..(n - 1) /\ n - 1 \in 1..n /\ n - 1 < k
        BY <1>1, <1>7, <2>1, <3>3
      <4> QED
        BY <1>2, <1>4, <1>16, <1>18, <2>1, <3>1, <4>1
    <3> QED
      BY <3>2, <3>3
  <2>2. CASE k # n
    <3>1. n - 1 \in 1..(n - 1) /\ n \in 1..n /\ ~(n - 1 < k) /\ (n - 1) + 1 = n
      BY <1>1, <1>7, <2>2
    <3>2. m.tail[b] # i
      BY <1>1, <1>2, <1>5, <1>7, <1>16, <2>2, <3>1
    <3> QED
      BY <1>2, <1>4, <1>5, <1>15, <1>18, <3>1, <3>2
  <2> QED
    BY <2>1, <2>2
<1>21. ASSUME NEW j \in 1..n, j # k
       PROVE  /\ s[j] # i /\ s[j] \in Insns
              /\ r.next[s[j]] = IF j + 1 = k THEN q ELSE Nth(s, j + 1)
              /\ r.prev[s[j]] = IF j = k + 1 THEN p ELSE Nth(s, j - 1)
  <2>1. s[j] # i /\ s[j] \in Insns /\ s[j] # Null
    BY <1>1, <1>2, <1>7, <1>16, <1>21
  <2>2. s[j] = p <=> j + 1 = k
    <3>1. CASE k = 1
      BY <1>2, <1>16, <2>1, <3>1
    <3>2. CASE k # 1
      <4>1. k - 1 \in 1..n /\ p = s[k - 1]
        BY <1>1, <1>2, <1>7, <1>16, <3>2
      <4>2. s[j] = p <=> j = k - 1
        BY <1>1, <4>1
      <4> QED
        BY <1>7, <4>2
    <3> QED
      BY <3>1, <3>2
  <2>3. s[j] = q <=> j = k + 1
    <3>1. CASE k = n
      BY <1>1, <1>2, <1>16, <2>1, <3>1
    <3>2. CASE k # n
      <4>1. k + 1 \in 1..n /\ q = s[k + 1]
        BY <1>1, <1>2, <1>7, <1>16, <3>2
      <4> QED
        BY <1>1, <4>1
    <3> QED
      BY <3>1, <3>2
  <2> QED
    BY <1>6, <1>15, <2>1, <2>2, <2>3
<1>22. \A j \in 0..n : Nth(s2, j) = IF j < k THEN Nth(s, j) ELSE Nth(s, j + 1)
  <2> TAKE j \in 0..n
  <2>1. CASE j = 0
    BY <1>1, <1>2, <1>7, <1>17, <2>1
  <2>2. CASE j = n
    BY <1>1, <1>2, <1>7, <1>17, <2>2
  <2>3. CASE j \in 1..(n - 1)
    BY <1>1, <1>2, <1>4, <1>7, <1>18, <2>3
  <2> QED
    BY <1>1, <2>1, <2>2, <2>3
<1>23. ASSUME NEW j \in 1..(n - 1)
       PROVE  r.next[s2[j]] = Nth(s2, j + 1) /\ r.prev[s2[j]] = Nth(s2, j - 1)
  <2>1. CASE j < k
    <3>1. s2[j] = s[j] /\ j \in 1..n /\ j # k /\ j # k + 1 /\ j - 1 < k /\ j - 1 \in 0..n /\ j + 1 \in 0..n
      BY <1>1, <1>4, <1>7, <2>1
    <3>2. r.prev[s2[j]] = Nth(s2, j - 1)
      BY <1>21, <1>22, <3>1
    <3>3. CASE j + 1 = k
      <4>1. ~(j + 1 < k) /\ (j + 1) + 1 = k + 1
        BY <1>7, <3>3
      <4> QED
        BY <1>16, <1>21, <1>22, <3>1, <3>2, <3>3, <4>1
    <3>4. CASE j + 1 # k
      <4>1. j + 1 < k
        BY <1>7, <2>1, <3>4
      <4> QED
        BY <1>21, <1>22, <3>1, <3>2, <3>4, <4>1
    <3> QED
      BY <3>3, <3>4
  <2>2. CASE ~(j < k)
    <3> DEFINE h == j + 1
    <3>1. /\ s2[j] = s[h] /\ h \in 1..n /\ h # k /\ h + 1 # k /\ j = h - 1 /\ j - 1 \in 0..n /\ j + 1 \in 0..n
          /\ ~(j + 1 < k) /\ (j + 1) + 1 = h + 1
      BY <1>1, <1>4, <1>7, <2>2
    <3> HIDE DEF h
    <3>2. r.next[s2[j]] = Nth(s2, j + 1)
      BY <1>21, <1>22, <3>1
    <3>3. CASE h = k + 1
      <4>1. j - 1 < k /\ j - 1 = k - 1
        BY <1>7, <3>1, <3>3
      <4> QED
        BY <1>16, <1>21, <1>22, <3>1, <3>2, <3>3, <4>1
    <3>4. CASE h # k + 1
      <4>1. ~(j - 1 < k) /\ (j - 1) + 1 = h - 1
        BY <1>7, <2>2, <3>1, <3>4
      <4> QED
        BY <1>21, <1>22, <3>1, <3>2, <3>4, <4>1
    <3> QED
      BY <3>3, <3>4
  <2> QED
    BY <1>7, <2>1, <2>2
<1>24. Chained(r, b, s2)
  BY <1>4, <1>19, <1>20, <1>23 DEF Chained
<1>25. \A h, j \in 1..Len(s2) : s2[h] = s2[j] => h = j
  <2> SUFFICES ASSUME NEW h \in 1..(n - 1), NEW j \in 1..(n - 1), s2[h] = s2[j], h < j PROVE FALSE
    BY <1>1, <1>4
  <2>1. CASE j < k
    BY <1>1, <1>4, <1>7, <2>1
  <2>2. CASE ~(j < k)
    <3>1. s2[j] = s[j + 1] /\ j + 1 \in 1..n
      <4>1. s2[j] = s[j + 1]
        BY <1>4, <2>2, Zenon
      <4> QED
        BY <1>1, <4>1
    <3>2. s2[h] = s[h] \/ s2[h] = s[h + 1]
      BY <1>4
    <3>3. h \in 1..n /\ h + 1 \in 1..n /\ h # j + 1 /\ h + 1 # j + 1
      BY <1>1
    <3> QED
      BY <1>1, <3>1, <3>2, <3>3
  <2> QED
    BY <1>7, <2>1, <2>2
<1>26. ToSet(s2) = ToSet(s) \ {i}
  <2>1. ASSUME NEW x \in ToSet(s2) PROVE x \in ToSet(s) \ {i}
    <3>1. PICK j \in 1..(n - 1) : s2[j] = x
      BY <1>10
    <3>2. CASE j < k
      <4>1. j \in 1..n /\ s2[j] = s[j] /\ j # k
        BY <1>1, <1>4, <1>7, <3>2
      <4> QED
        BY <1>1, <1>7, <1>9, <1>16, <3>1, <4>1
    <3>3. CASE ~(j < k)
      <4>1. j + 1 \in 1..n /\ s2[j] = s[j + 1] /\ j + 1 # k
        BY <1>1, <1>4, <1>7, <3>3
      <4> QED
        BY <1>1, <1>7, <1>9, <1>16, <3>1, <4>1
    <3> QED
      BY <3>2, <3>3
  <2>2. ASSUME NEW x \in ToSet(s) \ {i} PROVE x \in ToSet(s2)
    <3>1. PICK j \in 1..n : s[j] = x
      BY <1>9
    <3>2. CASE j < k
      <4>1. j \in 1..(n - 1) /\ s2[j] = x
        BY <1>1, <1>4, <1>7, <3>1, <3>2
      <4> QED
        BY <1>10, <4>1
    <3>3. CASE ~(j < k)
      <4>0. j # k
        BY <1>16, <2>2, <3>1
      <4>1. j - 1 \in 1..(n - 1) /\ ~(j - 1 < k) /\ (j - 1) + 1 = j
        BY <1>1, <1>7, <3>3, <4>0
      <4>2. s2[j - 1] = x
        BY <1>4, <3>1, <4>1
      <4> QED
        BY <1>10, <4>1, <4>2
    <3> QED
      BY <3>2, <3>3
  <2> QED
    BY <2>1, <2>2
<1>27. ASSUME NEW x \in Insns, x \notin ToSet(s), x \notin ToSet(s2)
       PROVE  r.next[x] = m.next[x] /\ r.prev[x] = m.prev[x]
  <2>1. x # i /\ x # p /\ x # q
    <3>1. \A j \in 1..n : s[j] # x
      BY <1>9, <1>27
    <3>2. x # Null
      BY NullIs
    <3>3. \A j : Nth(s, j) # x
      BY <3>1, <3>2, Zenon DEF Nth, n
    <3> QED
      BY <1>7, <1>16, <3>1, <3>3
  <2> QED
    BY <1>15, <2>1
<1>28. \A x \in ToSet(s) \ ToSet(s2) : r.next[x] = Null /\ r.prev[x] = Null
  BY <1>7, <1>15, <1>26
<1>29. Replaces(m, r, L, b, s2)
  BY <1>12, <1>15, <1>24, <1>25, <1>26, <1>27, <1>28, Zenon DEF Replaces
<1>30. /\ Holds(r, [L EXCEPT ![b] = s2])
       /\ InAny([L EXCEPT ![b] = s2]) = (InAny(L) \ ToSet(L[b])) \cup ToSet(s2)
  <2>1. HoldsWith(r, L, b, s2)
    BY <1>3, <1>29, Replaced, Zenon
  <2> QED
    BY <2>1, Zenon DEF HoldsWith
<1>31. InAny([L EXCEPT ![b] = s2]) = InAny(L) \ {i}
  <2>1. \A x : x \in InAny(L) <=> \E c \in Objs : x \in ToSet(L[c])
    BY InAnyIs, Zenon DEF Holds
  <2>2. ToSet(L[b]) = ToSet(s) /\ ToSet(s) \subseteq InAny(L)
    BY <1>12, <2>1
  <2>3. i \in ToSet(s)
    BY <1>7, <1>9, <1>16
  <2> QED
    BY <1>26, <1>30, <2>2, <2>3
<1> QED
  BY <1>8, <1>30, <1>31, Zenon DEF i, r, s, s2, RemoveKeeps

-----------------------------------------------------------------------------
(* The walk along the links finds the lists.                                 *)

\* The rest of a sequence from its k-th element on.
Rest(s, k) == SubSeq(s, k, Len(s))

\* The rest is an element and the rest behind it.
LEMMA RestIs ==
  ASSUME NEW s \in Seq(Insns)
  PROVE  /\ Rest(s, Len(s) + 1) = <<>> /\ Rest(s, 1) = s
         /\ \A k \in 1..Len(s) : Rest(s, k) = <<s[k]>> \o Rest(s, k + 1)
<1> DEFINE n == Len(s)
<1>1. n \in Nat
  OBVIOUS
<1>2. Rest(s, n + 1) = <<>> /\ Rest(s, 1) = s
  BY DEF Rest
<1>3. ASSUME NEW k \in 1..n PROVE Rest(s, k) = <<s[k]>> \o Rest(s, k + 1)
  <2> DEFINE k1 == k + 1
             t == Rest(s, k1)
             u == <<s[k]>>
  <2>1. k1 \in 1..(Len(s) + 1) /\ k \in 1..(Len(s) + 1) /\ Len(s) \in 0..Len(s) /\ k <= Len(s) + 1 /\ k1 <= Len(s) + 1
    OBVIOUS
  <2>2. /\ Rest(s, k) \in Seq(Insns) /\ Len(Rest(s, k)) = (n - k) + 1
        /\ \A i \in 1..((n - k) + 1) : Rest(s, k)[i] = s[(k + i) - 1]
    BY <2>1, PartIs DEF Rest
  <2>3. /\ t \in Seq(Insns) /\ Len(t) = (n - k1) + 1
        /\ \A i \in 1..((n - k1) + 1) : t[i] = s[(k1 + i) - 1]
    <3> HIDE DEF k1
    <3> QED
      BY <2>1, PartIs DEF Rest
  <2>4. u \in Seq(Insns) /\ Len(u) = 1 /\ u[1] = s[k]
    OBVIOUS
  <2> HIDE DEF t, u, n
  <2>5. /\ u \o t \in Seq(Insns) /\ Len(u \o t) = 1 + ((n - k1) + 1)
        /\ \A i \in 1..(1 + ((n - k1) + 1)) : (u \o t)[i] = IF i <= 1 THEN u[i] ELSE t[i - 1]
    <3> DEFINE z == (n - k1) + 1
    <3>1. t \in Seq(Insns) /\ Len(t) = z
      BY <2>3
    <3> HIDE DEF z
    <3>2. /\ u \o t \in Seq(Insns) /\ Len(u \o t) = 1 + z
          /\ \A i \in 1..(1 + z) : (u \o t)[i] = IF i <= 1 THEN u[i] ELSE t[i - 1]
      <4>1. /\ u \o t \in Seq(Insns) /\ Len(u \o t) = Len(u) + Len(t)
            /\ \A i \in 1..(Len(u) + Len(t)) : (u \o t)[i] = IF i <= Len(u) THEN u[i] ELSE t[i - Len(u)]
        BY <2>4, <3>1, JoinedIs
      <4> QED
        BY <2>4, <3>1, <4>1
    <3> QED
      BY <3>2 DEF z
  <2>6. 1 + ((n - k1) + 1) = (n - k) + 1
    BY <1>1
  <2>7. ASSUME NEW i \in 1..((n - k) + 1) PROVE (u \o t)[i] = Rest(s, k)[i]
    <3>1. CASE i = 1
      <4>1. (k + i) - 1 = k /\ i <= 1
        BY <3>1
      <4> QED
        BY <2>2, <2>4, <2>5, <2>6, <3>1, <4>1
    <3>2. CASE i # 1
      <4>1. ~(i <= 1) /\ i - 1 \in 1..((n - k1) + 1) /\ (k1 + (i - 1)) - 1 = (k + i) - 1
        BY <1>1, <3>2
      <4>2. (u \o t)[i] = t[i - 1]
        BY <2>5, <2>6, <4>1
      <4>3. t[i - 1] = s[(k1 + (i - 1)) - 1]
        BY <2>3, <4>1
      <4> QED
        BY <2>2, <4>1, <4>2, <4>3
    <3> QED
      BY <3>1, <3>2
  <2>8. Rest(s, k) = u \o t
    <3> DEFINE v == Rest(s, k)
               w == u \o t
    <3>1. v \in Seq(Insns) /\ w \in Seq(Insns) /\ Len(v) = Len(w) /\ \A i \in 1..Len(w) : v[i] = w[i]
      BY <2>2, <2>5, <2>6, <2>7
    <3> HIDE DEF v, w
    <3>2. v = w
      BY <3>1, SameSeq
    <3> QED
      BY <3>2 DEF v, w
  <2> QED
    BY <2>8 DEF t, u
<1> QED
  BY <1>2, <1>3

\* The elements of a sequence are as many as it is long, if it has none twice.
LEMMA ToSetCard ==
  ASSUME NEW X, NEW s \in Seq(X)
  PROVE  /\ IsFiniteSet(ToSet(s)) /\ Cardinality(ToSet(s)) \in Nat /\ Cardinality(ToSet(s)) <= Len(s)
         /\ (\A j, k \in 1..Len(s) : s[j] = s[k] => j = k) => Cardinality(ToSet(s)) = Len(s)
<1> DEFINE n == Len(s)
<1>1. n \in Nat /\ IsFiniteSet(1..n) /\ Cardinality(1..n) = n
  <2>1. n \in Nat
    OBVIOUS
  <2> HIDE DEF n
  <2>2. IsFiniteSet(1..n) /\ Cardinality(1..n) = IF 1 > n THEN 0 ELSE (n - 1) + 1
    BY <2>1, FS_Interval
  <2> QED
    BY <2>1, <2>2
<1>2. s \in Surjection(1..n, ToSet(s))
  <2>1. DOMAIN s = 1..n /\ s \in [1..n -> X]
    OBVIOUS
  <2>2. s \in [1..n -> ToSet(s)] /\ \A x \in ToSet(s) : \E k \in 1..n : s[k] = x
    BY <2>1 DEF ToSet
  <2> QED
    BY <2>2, Zenon DEF Surjection
<1>3. /\ IsFiniteSet(ToSet(s)) /\ Cardinality(ToSet(s)) <= Cardinality(1..n)
      /\ Cardinality(ToSet(s)) = Cardinality(1..n) <=> s \in Injection(1..n, ToSet(s))
  <2> HIDE DEF n
  <2> QED
    BY <1>1, <1>2, FS_Surjection
<1>4. Cardinality(ToSet(s)) \in Nat
  BY <1>3, FS_CardinalityType
<1>5. ASSUME \A j, k \in 1..n : s[j] = s[k] => j = k PROVE s \in Injection(1..n, ToSet(s))
  <2>1. DOMAIN s = 1..n /\ s \in [1..n -> ToSet(s)]
    BY <1>2 DEF Surjection
  <2> QED
    BY <1>5, <2>1, Zenon DEF Injection, IsInjective
<1> QED
  BY <1>1, <1>3, <1>4, <1>5

\* Links that hold a sequence lead along it.
LEMMA AlongIs ==
  ASSUME NEW link \in [Insns -> Pointers], NEW s \in Seq(Insns),
         \A j, k \in 1..Len(s) : s[j] = s[k] => j = k,
         \A k \in 1..Len(s) : link[s[k]] = Nth(s, k + 1)
  PROVE  Along(Nth(s, 1), link) = s
<1> DEFINE N == Cardinality(Insns)
           D == Pointers \X (0..N)
           walk[p \in D] ==
             IF p[1] = Null THEN <<>>
             ELSE IF p[2] = 0 THEN <<p[1]>> ELSE <<p[1]>> \o walk[<<link[p[1]], p[2] - 1>>]
           X == [Pointers -> Seq(Insns)]
           x0 == [i \in Pointers |-> IF i = Null THEN <<>> ELSE <<i>>]
           F == [q \in Nat \X X |-> [i \in Pointers |-> IF i = Null THEN <<>> ELSE <<i>> \o q[2][link[i]]]]
<1>1. N \in Nat /\ Len(s) \in Nat /\ Len(s) <= N
  <2>1. N \in Nat
    BY InsnsAssumption, FS_CardinalityType
  <2>2. ToSet(s) \subseteq Insns
    BY ToSetIs
  <2>3. Cardinality(ToSet(s)) = Len(s)
    BY ToSetCard
  <2>4. Cardinality(ToSet(s)) <= N
    BY <2>2, InsnsAssumption, FS_Subset
  <2> QED
    BY <2>1, <2>3, <2>4
<1>2. \A i \in Pointers : i # Null => i \in Insns /\ link[i] \in Pointers
  BY DEF Pointers
<1>3. x0 \in X
  <2>1. ASSUME NEW i \in Pointers PROVE (IF i = Null THEN <<>> ELSE <<i>>) \in Seq(Insns)
    BY <1>2
  <2> QED
    BY <2>1, Zenon
<1> HIDE DEF N
<1>4. F \in [Nat \X X -> X]
  <2>1. ASSUME NEW q \in Nat \X X, NEW i \in Pointers
        PROVE  (IF i = Null THEN <<>> ELSE <<i>> \o q[2][link[i]]) \in Seq(Insns)
    <3>1. CASE i = Null
      BY <3>1
    <3>2. CASE i # Null
      <4> DEFINE u == q[2][link[i]]
      <4>1. u \in Seq(Insns) /\ i \in Insns
        BY <1>2, <3>2
      <4> HIDE DEF u
      <4>2. <<i>> \o u \in Seq(Insns)
        BY <4>1
      <4> QED
        BY <3>2, <4>2 DEF u
    <3> QED
      BY <3>1, <3>2
  <2>2. ASSUME NEW q \in Nat \X X
        PROVE  [i \in Pointers |-> IF i = Null THEN <<>> ELSE <<i>> \o q[2][link[i]]] \in X
    BY <2>1, Zenon
  <2> QED
    BY <2>2, Zenon
<1>5. \E f : Unrolls(f, X, x0, F, N)
  <2> HIDE DEF X, x0, F
  <2> QED
    BY <1>1, <1>3, <1>4, Recursion
<1>6. PICK f : Unrolls(f, X, x0, F, N)
  BY <1>5
<1> DEFINE g == [p \in D |-> f[p[2]][p[1]]]
<1>7. /\ f \in [0..N -> X] /\ f[0] = x0 /\ \A n \in 0..(N - 1) : f[n + 1] = F[<<n, f[n]>>]
  BY <1>6 DEF Unrolls
<1>8. ASSUME NEW p \in D
      PROVE  g[p] = IF p[1] = Null THEN <<>>
                    ELSE IF p[2] = 0 THEN <<p[1]>> ELSE <<p[1]>> \o g[<<link[p[1]], p[2] - 1>>]
  <2>1. p[1] \in Pointers /\ p[2] \in 0..N /\ g[p] = f[p[2]][p[1]]
    OBVIOUS
  <2>2. CASE p[2] = 0
    BY <1>7, <2>1, <2>2
  <2>3. CASE p[2] # 0
    <3> DEFINE n == p[2] - 1
               h == f[n]
    <3>1. n \in 0..(N - 1) /\ n \in 0..N /\ n \in Nat /\ n + 1 = p[2]
      BY <1>1, <2>1, <2>3
    <3>2. h \in X
      BY <1>7, <3>1
    <3>3. f[p[2]] = F[<<n, h>>]
      BY <1>7, <3>1
    <3>4. F[<<n, h>>] = [i \in Pointers |-> IF i = Null THEN <<>> ELSE <<i>> \o h[link[i]]]
      <4> HIDE DEF n, h, X
      <4> QED
        BY <3>1, <3>2
    <3>5. g[p] = IF p[1] = Null THEN <<>> ELSE <<p[1]>> \o h[link[p[1]]]
      BY <2>1, <3>3, <3>4, ZenonT(30)
    <3>6. p[1] # Null => g[<<link[p[1]], n>>] = h[link[p[1]]]
      <4>1. p[1] # Null => <<link[p[1]], n>> \in D
        BY <1>2, <2>1, <3>1
      <4> HIDE DEF n
      <4> QED
        BY <4>1
    <3> QED
      BY <2>3, <3>5, <3>6, Zenon
  <2> QED
    BY <2>2, <2>3
<1>9. g = [p \in D |-> IF p[1] = Null THEN <<>>
                       ELSE IF p[2] = 0 THEN <<p[1]>> ELSE <<p[1]>> \o g[<<link[p[1]], p[2] - 1>>]]
  <2>1. g = [p \in D |-> g[p]]
    OBVIOUS
  <2> HIDE DEF g, D
  <2> QED
    BY <1>8, <2>1, Zenon
<1>10. walk = [p \in D |-> IF p[1] = Null THEN <<>>
                       ELSE IF p[2] = 0 THEN <<p[1]>> ELSE <<p[1]>> \o walk[<<link[p[1]], p[2] - 1>>]]
  <2> HIDE DEF g, D
  <2> QED
    BY <1>9, Zenon
<1> HIDE DEF walk, g, F, X, x0
<1>11. \A i \in Pointers, n \in 0..N :
         walk[<<i, n>>] = IF i = Null THEN <<>>
                          ELSE IF n = 0 THEN <<i>> ELSE <<i>> \o walk[<<link[i], n - 1>>]
  <2> TAKE i \in Pointers, n \in 0..N
  <2> DEFINE p == <<i, n>>
  <2>1. p \in D /\ p[1] = i /\ p[2] = n
    OBVIOUS
  <2> HIDE DEF p
  <2>2. walk[p] = IF p[1] = Null THEN <<>>
                       ELSE IF p[2] = 0 THEN <<p[1]>> ELSE <<p[1]>> \o walk[<<link[p[1]], p[2] - 1>>]
    <3> HIDE DEF D
    <3> QED
      BY <1>10, <2>1, Zenon
  <2> QED
    BY <2>1, <2>2, Zenon DEF p
<1> DEFINE l == Len(s)
           T == {d \in 0..l : \A n \in 0..N : n + 1 >= d => walk[<<Nth(s, (l + 1) - d), n>>] = Rest(s, (l + 1) - d)}
<1>12. /\ Nth(s, l + 1) = Null
       /\ \A k \in 1..l : Nth(s, k) = s[k] /\ Nth(s, k) # Null /\ Nth(s, k) \in Insns
       /\ \A j : Nth(s, j) \in Pointers
  BY NthIs
<1>13. /\ Rest(s, l + 1) = <<>> /\ Rest(s, 1) = s
       /\ \A k \in 1..l : Rest(s, k) = <<s[k]>> \o Rest(s, k + 1)
  BY RestIs
<1>14. l \in Nat /\ l <= N /\ \A k \in 1..l : link[s[k]] = Nth(s, k + 1)
  BY <1>1
<1> HIDE DEF l
<1>15. 0 \in T
  <2>1. (l + 1) - 0 = l + 1 /\ 0 \in 0..l
    BY <1>14
  <2> QED
    BY <1>11, <1>12, <1>13, <2>1, ZenonT(30)
<1>16. ASSUME NEW d \in 0..(l - 1), d \in T PROVE d + 1 \in T
  <2> DEFINE k == l - d
  <2>1. k \in 1..l /\ (l + 1) - (d + 1) = k /\ (l + 1) - d = k + 1 /\ d + 1 \in 0..l
    BY <1>14
  <2> HIDE DEF k
  <2>2. ASSUME NEW n \in 0..N, n + 1 >= d + 1 PROVE walk[<<Nth(s, k), n>>] = Rest(s, k)
    <3>1. Nth(s, k) = s[k] /\ Nth(s, k) # Null /\ Nth(s, k) \in Pointers /\ link[s[k]] = Nth(s, k + 1)
      BY <1>12, <1>14, <2>1
    <3>2. walk[<<Nth(s, k), n>>] = IF n = 0 THEN <<s[k]>> ELSE <<s[k]>> \o walk[<<Nth(s, k + 1), n - 1>>]
      <4> DEFINE i == Nth(s, k)
      <4>1. i \in Pointers /\ i # Null /\ i = s[k] /\ link[i] = Nth(s, k + 1)
        BY <3>1
      <4> HIDE DEF i
      <4>2. walk[<<i, n>>] = IF n = 0 THEN <<i>> ELSE <<i>> \o walk[<<link[i], n - 1>>]
        BY <1>11, <4>1, Zenon
      <4>3. walk[<<i, n>>] = IF n = 0 THEN <<s[k]>> ELSE <<s[k]>> \o walk[<<Nth(s, k + 1), n - 1>>]
        BY <4>1, <4>2
      <4> QED
        BY <4>3 DEF i
    <3>3. CASE n = 0
      <4>1. k = l
        BY <1>14, <2>1, <2>2, <3>3 DEF k
      <4>2. Rest(s, k + 1) = <<>>
        BY <1>13, <4>1
      <4>3. <<s[k]>> \o <<>> = <<s[k]>>
        OBVIOUS
      <4> QED
        BY <1>13, <2>1, <3>2, <3>3, <4>2, <4>3, Zenon
    <3>4. CASE n # 0
      <4>1. n - 1 \in 0..N /\ (n - 1) + 1 >= d
        BY <1>1, <2>2, <3>4
      <4>2. walk[<<Nth(s, k + 1), n - 1>>] = Rest(s, k + 1)
        BY <1>16, <2>1, <4>1
      <4> QED
        BY <1>13, <2>1, <3>2, <3>4, <4>2, Zenon
    <3> QED
      BY <3>3, <3>4
  <2> QED
    BY <2>1, <2>2
<1>17. l \in T
  <2> HIDE DEF T
  <2>1. 0..l \subseteq T
    BY <1>14, <1>15, <1>16, IntervalInduction
  <2> QED
    BY <1>14, <2>1
<1>18. walk[<<Nth(s, 1), N>>] = s
  <2>1. N \in 0..N /\ N + 1 >= l /\ (l + 1) - l = 1
    BY <1>1, <1>14
  <2> QED
    BY <1>13, <1>17, <2>1
<1>19. Along(Nth(s, 1), link) = walk[<<Nth(s, 1), N>>]
  BY DEF Along, walk, N, Pointers
<1> QED
  BY <1>18, <1>19

\* What a sequence holds from its end on.
LEMMA ReverseIs ==
  ASSUME NEW s \in Seq(Insns), \A j, k \in 1..Len(s) : s[j] = s[k] => j = k
  PROVE  /\ Reverse(s) \in Seq(Insns) /\ Len(Reverse(s)) = Len(s)
         /\ \A k \in 1..Len(s) : Reverse(s)[k] = s[(Len(s) - k) + 1]
         /\ \A j, k \in 1..Len(s) : Reverse(s)[j] = Reverse(s)[k] => j = k
<1> DEFINE n == Len(s)
           t == Reverse(s)
<1>1. n \in Nat /\ \A k \in 1..n : s[k] \in Insns
  OBVIOUS
<1>2. t = [k \in 1..n |-> s[(n - k) + 1]]
  BY DEF Reverse
<1> HIDE DEF n, t
<1>3. \A k \in 1..n : (n - k) + 1 \in 1..n
  BY <1>1
<1>4. t \in [1..n -> Insns] /\ \A k \in 1..n : t[k] = s[(n - k) + 1]
  BY <1>1, <1>2, <1>3
<1>5. t \in Seq(Insns) /\ Len(t) = n
  BY <1>1, <1>4
<1>6. ASSUME NEW j \in 1..n, NEW k \in 1..n, t[j] = t[k] PROVE j = k
  <2>1. s[(n - j) + 1] = s[(n - k) + 1]
    BY <1>4, <1>6
  <2>2. (n - j) + 1 = (n - k) + 1
    BY <1>3, <2>1 DEF n
  <2> QED
    BY <1>1, <2>2
<1> QED
  BY <1>4, <1>5, <1>6 DEF n, t

\* From the head and from the tail the walk of a block finds its list.
LEMMA WalksAre ==
  ASSUME NEW m \in Memories, NEW L, Holds(m, L), NEW b \in Objs
  PROVE  Forwards(m, b) = L[b] /\ Backwards(m, b) = Reverse(L[b])
<1> DEFINE s == L[b]
           n == Len(s)
           t == Reverse(s)
<1>1. s \in Seq(Insns) /\ n \in Nat /\ Chained(m, b, s) /\ \A j, k \in 1..n : s[j] = s[k] => j = k
  BY HeldIn
<1>2. m.next \in [Insns -> Pointers] /\ m.prev \in [Insns -> Pointers]
  BY MemoryIs
<1>3. /\ m.head[b] = Nth(s, 1) /\ m.tail[b] = Nth(s, n)
      /\ \A k \in 1..n : m.next[s[k]] = Nth(s, k + 1)
      /\ \A k \in 1..n : m.prev[s[k]] = Nth(s, k - 1)
  BY <1>1, Zenon DEF Chained
<1>4. /\ t \in Seq(Insns) /\ Len(t) = n
      /\ \A k \in 1..n : t[k] = s[(n - k) + 1]
      /\ \A j, k \in 1..n : t[j] = t[k] => j = k
  <2> HIDE DEF s
  <2> QED
    BY <1>1, ReverseIs
<1> HIDE DEF s, t
<1>5. Forwards(m, b) = s
  <2>1. Along(Nth(s, 1), m.next) = s
    BY <1>1, <1>2, <1>3, AlongIs DEF n
  <2> QED
    BY <1>3, <2>1 DEF Forwards
<1>6. Nth(t, 1) = Nth(s, n)
  BY <1>1, <1>4 DEF Nth, n
<1>7. ASSUME NEW k \in 1..n PROVE m.prev[t[k]] = Nth(t, k + 1)
  <2>1. (n - k) + 1 \in 1..n /\ ((n - k) + 1) - 1 = n - k
    BY <1>1
  <2>2. m.prev[t[k]] = Nth(s, n - k)
    BY <1>3, <1>4, <2>1
  <2>3. Nth(t, k + 1) = Nth(s, n - k)
    <3>1. CASE k = n
      <4>1. n - k \notin 1..n /\ k + 1 \notin 1..n
        BY <1>1, <3>1
      <4> QED
        BY <1>4, <4>1 DEF Nth, n
    <3>2. CASE k # n
      <4>1. k + 1 \in 1..n /\ (n - (k + 1)) + 1 = n - k /\ n - k \in 1..n
        BY <1>1, <3>2
      <4>2. t[k + 1] = s[n - k]
        BY <1>4, <4>1
      <4> QED
        BY <1>4, <4>1, <4>2 DEF Nth, n
    <3> QED
      BY <3>1, <3>2
  <2> QED
    BY <2>2, <2>3
<1>8. Backwards(m, b) = t
  <2> HIDE DEF n
  <2>1. Along(Nth(t, 1), m.prev) = t
    <3>1. /\ t \in Seq(Insns) /\ \A j, k \in 1..Len(t) : t[j] = t[k] => j = k
          /\ \A k \in 1..Len(t) : m.prev[t[k]] = Nth(t, k + 1)
      BY <1>4, <1>7
    <3> QED
      BY <1>2, <3>1, AlongIs
  <2> QED
    BY <1>3, <1>6, <2>1 DEF Backwards
<1> QED
  BY <1>5, <1>8 DEF s, t

-----------------------------------------------------------------------------
(* An instruction for the asking.                                            *)

\* Of some numbers one is the least.
LEMMA LeastIs ==
  ASSUME NEW S \in SUBSET Nat, S # {}
  PROVE  Least(S) \in S
BY FirstOf, Zenon DEF Least

\* While not all memory is taken there is an instruction to be had.
LEMMA SpareInsn ==
  ASSUME NEW m \in Memories, Cardinality(Live(m)) < Cardinality(Insns)
  PROVE  Least(Insns \ Live(m)) \in Insns \ Live(m)
<1>1. Insns \ Live(m) # {}
  <2>1. SUFFICES ASSUME Insns \ Live(m) = {} PROVE FALSE
    OBVIOUS
  <2>2. Live(m) = Insns
    BY <2>1 DEF Live
  <2>3. Cardinality(Insns) \in Nat
    BY InsnsAssumption, FS_CardinalityType
  <2> QED
    BY <2>2, <2>3
<1>2. Insns \ Live(m) \in SUBSET Nat
  BY InsnsAssumption
<1> QED
  BY <1>1, <1>2, LeastIs

\* What lives is some of the instructions.
LEMMA LiveIs ==
  ASSUME NEW m
  PROVE  /\ Live(m) \subseteq Insns /\ IsFiniteSet(Live(m)) /\ Cardinality(Live(m)) \in Nat
         /\ Cardinality(Live(m)) <= Cardinality(Insns)
<1>1. Live(m) \in SUBSET Insns
  BY DEF Live
<1>2. IsFiniteSet(Live(m)) /\ Cardinality(Live(m)) <= Cardinality(Insns)
  BY <1>1, InsnsAssumption, FS_Subset
<1> QED
  BY <1>1, <1>2, FS_CardinalityType

\* One instruction more.
LEMMA OneMoreLives ==
  ASSUME NEW m \in Memories, NEW r, NEW c \in Insns \ Live(m), NEW o \in Opcodes \ {"free"},
         r.op = [m.op EXCEPT ![c] = o]
  PROVE  Live(r) = Live(m) \cup {c} /\ Cardinality(Live(r)) = Cardinality(Live(m)) + 1
<1>1. m.op \in [Insns -> Opcodes]
  BY MemoryIs
<1>2. \A i \in Insns : r.op[i] = IF i = c THEN o ELSE m.op[i]
  BY <1>1
<1>3. Live(r) = Live(m) \cup {c}
  BY <1>2 DEF Live
<1> QED
  BY <1>3, LiveIs, FS_AddElement

-----------------------------------------------------------------------------
(* dup_mblock, instruction by instruction.                                   *)

\* Memory r is m with the copy c of i at the end of block to.
IsCopy(m, r, to, i, c) ==
  /\ r.op = [m.op EXCEPT ![c] = m.op[i]] /\ r.cases = [m.cases EXCEPT ![c] = m.cases[i]]
  /\ \A j \in Insns \ {c} : r.ea[j] = m.ea[j]
  /\ m.ea[i] \in {NoEa, r.ea[c]}
  /\ \A b \in Objs \ {to} : r.flags[b] = m.flags[b]
  /\ m.flags[to] \subseteq r.flags[to]

\* Block to has one instruction more in r than in m.
HasOneMore(m, r, L, to, c) ==
  /\ r \in Memories /\ Holds(r, [L EXCEPT ![to] = Append(L[to], c)])
  /\ InAny([L EXCEPT ![to] = Append(L[to], c)]) = InAny(L) \cup {c}
  /\ Live(r) = Live(m) \cup {c} /\ Cardinality(Live(r)) = Cardinality(Live(m)) + 1

\* To put something in at the end is to append it.
LEMMA InsertAtEnd ==
  ASSUME NEW s \in Seq(Insns), NEW c \in Insns
  PROVE  InsertAt(s, Len(s) + 1, c) = Append(s, c)
<1> DEFINE n == Len(s)
           k == n + 1
           t == InsertAt(s, k, c)
           u == Append(s, c)
<1>1. n \in Nat /\ k \in 1..(Len(s) + 1)
  OBVIOUS
<1>2. t \in Seq(Insns) /\ IsInsertAt(s, k, c, t)
  <2> HIDE DEF k
  <2> QED
    BY <1>1, InsertAtIs
<1>3. Len(t) = n + 1 /\ \A j \in 1..(n + 1) : t[j] = IF j < k THEN s[j] ELSE IF j = k THEN c ELSE s[j - 1]
  BY <1>2, Zenon DEF IsInsertAt
<1>4. u \in Seq(Insns) /\ Len(u) = n + 1 /\ \A j \in 1..(n + 1) : u[j] = IF j = n + 1 THEN c ELSE s[j]
  OBVIOUS
<1> HIDE DEF t, u, n
<1>5. \A j \in 1..Len(u) : t[j] = u[j]
  BY <1>1, <1>3, <1>4
<1>6. t = u
  BY <1>2, <1>3, <1>4, <1>5, SameSeq
<1> QED
  BY <1>6 DEF t, u, n

\* dup_minsn and the insertion at the tail: one more instruction, the same code.
LEMMA CopiedInsnIs ==
  ASSUME NEW m \in Memories, NEW L, Holds(m, L), InAny(L) \subseteq Live(m), NEW to \in Objs,
         NEW i \in Live(m), Cardinality(Live(m)) < Cardinality(Insns)
  PROVE  \E c \in Insns \ Live(m) : /\ HasOneMore(m, CopiedInsn(m, to, i), L, to, c)
                                   /\ IsCopy(m, CopiedInsn(m, to, i), to, i, c)
<1> DEFINE c == Least(Insns \ Live(m))
           x == Copy(m, i, c)
           r == CopiedInsn(m, to, i)
           s == L[to]
           k == Len(s)
           om == Nth(s, k)
<1>1. c \in Insns \ Live(m)
  BY SpareInsn
<1>2. i \in Insns /\ i # c /\ m.op[i] \in Opcodes \ {"free"} /\ m.ea[i] \in Eas \cup {NoEa} /\ m.cases[i] \in Seq(Nat)
  <2>1. i \in Insns /\ m.op[i] # "free"
    BY DEF Live
  <2>2. m.op \in [Insns -> Opcodes] /\ m.ea \in [Insns -> Eas \cup {NoEa}] /\ m.cases \in [Insns -> Seq(Nat)]
    BY MemoryIs
  <2> QED
    BY <1>1, <2>1, <2>2
<1>3. r = Inserted(x, to, c, m.tail[to])
  BY DEF CopiedInsn
<1> HIDE DEF c, r
<1>4. x \in Memories /\ IsWritten(m, x, c, m.op[i], m.ea[i], m.cases[i])
  <2> DEFINE o == m.op[i]
             e == m.ea[i]
             t == m.cases[i]
  <2>1. x = Written(m, c, o, e, t)
    BY DEF Copy, Written
  <2>2. o \in Opcodes /\ e \in Eas \cup {NoEa} /\ t \in Seq(Nat) /\ c \in Insns
    BY <1>1, <1>2
  <2> HIDE DEF o, e, t, x
  <2>3. Written(m, c, o, e, t) \in Memories /\ IsWritten(m, Written(m, c, o, e, t), c, o, e, t)
    BY <2>2, WrittenFields, Zenon
  <2> QED
    BY <2>1, <2>3 DEF o, e, t
<1> HIDE DEF x
<1>5. Holds(x, L)
  BY <1>4, HeldStill, Zenon DEF IsWritten
<1>6. s \in Seq(Insns) /\ k \in Nat /\ m.tail[to] = om
  <2>1. s \in Seq(Insns) /\ k \in Nat /\ Chained(m, to, s)
    BY HeldIn
  <2> QED
    BY <2>1, Zenon DEF Chained
<1>7. c \in Insns \ InAny(L)
  BY <1>1
<1> DEFINE r2 == Inserted(x, to, c, Nth(L[to], k))
           N == [L EXCEPT ![to] = InsertAt(L[to], k + 1, c)]
<1>8. r2 \in Memories /\ IsInserted(x, r2, to, c, om) /\ Holds(r2, N) /\ InAny(N) = InAny(L) \cup {c}
  <2>1. k \in 0..Len(L[to])
    BY <1>6
  <2> HIDE DEF k
  <2> QED
    <3>1. InsertKeeps(x, L, to, k, c)
      BY <1>4, <1>5, <1>7, <2>1, InsertedIs, Zenon
    <3> QED
      BY <3>1, Zenon DEF InsertKeeps
<1>9. r2 = r
  BY <1>3, <1>6
<1>10. N = [L EXCEPT ![to] = Append(L[to], c)]
  BY <1>1, <1>6, InsertAtEnd
<1> HIDE DEF r2, N, om
<1>11. /\ x.op = [m.op EXCEPT ![c] = m.op[i]] /\ x.cases = [m.cases EXCEPT ![c] = m.cases[i]]
       /\ x.ea = [m.ea EXCEPT ![c] = m.ea[i]] /\ x.flags = m.flags
  BY <1>4, Zenon DEF IsWritten
<1>12. /\ r.op = x.op /\ r.cases = x.cases /\ r.ea = [x.ea EXCEPT ![c] = Stamped(x, to, c, om)]
       /\ r.flags = [x.flags EXCEPT ![to] = IF x.op[c] = "push" THEN x.flags[to] \cup {"push"}
                                            ELSE x.flags[to]]
  BY <1>8, <1>9, Zenon DEF IsInserted
<1>13. r.op = [m.op EXCEPT ![c] = m.op[i]] /\ r.cases = [m.cases EXCEPT ![c] = m.cases[i]]
  BY <1>11, <1>12
<1>14. (\A j \in Insns \ {c} : r.ea[j] = m.ea[j]) /\ m.ea[i] \in {NoEa, r.ea[c]}
  <2>1. m.ea \in [Insns -> Eas \cup {NoEa}]
    BY MemoryIs
  <2>2. x.ea[c] = m.ea[i] /\ \A j \in Insns \ {c} : x.ea[j] = m.ea[j]
    BY <1>1, <1>11, <2>1
  <2>3. x.ea \in [Insns -> Eas \cup {NoEa}]
    BY <1>4, MemoryIs
  <2>4. r.ea[c] = Stamped(x, to, c, om) /\ \A j \in Insns \ {c} : r.ea[j] = x.ea[j]
    BY <1>1, <1>12, <2>3
  <2>5. m.ea[i] # NoEa => Stamped(x, to, c, om) = m.ea[i]
    BY <2>2, Zenon DEF Stamped
  <2> QED
    BY <2>2, <2>4, <2>5
<1>15. (\A b \in Objs \ {to} : r.flags[b] = m.flags[b]) /\ m.flags[to] \subseteq r.flags[to]
  <2>1. m.flags \in [Objs -> SUBSET {"push", "changed"}]
    BY MemoryIs
  <2>2. r.flags = [m.flags EXCEPT ![to] = IF x.op[c] = "push" THEN m.flags[to] \cup {"push"} ELSE m.flags[to]]
    BY <1>11, <1>12
  <2> QED
    BY <2>1, <2>2
<1>16. IsCopy(m, r, to, i, c)
  BY <1>13, <1>14, <1>15, Zenon DEF IsCopy
<1>17. Live(r) = Live(m) \cup {c} /\ Cardinality(Live(r)) = Cardinality(Live(m)) + 1
  BY <1>1, <1>2, <1>13, OneMoreLives
<1>18. HasOneMore(m, r, L, to, c)
  BY <1>8, <1>9, <1>10, <1>17, Zenon DEF HasOneMore
<1> QED
  BY <1>1, <1>16, <1>18, Zenon DEF r

\* Instruction c of memory x is what i is of m.
CopyOf(m, x, i, c) ==
  /\ x.op[c] = m.op[i] /\ x.cases[c] = m.cases[i] /\ m.ea[i] \in {NoEa, x.ea[c]}

\* What lives in m is in x what it was.
SameLive(m, x) == \A i \in Live(m) : x.op[i] = m.op[i] /\ x.cases[i] = m.cases[i] /\ x.ea[i] = m.ea[i]

\* Memory x is m with the first n instructions of block from copied to block
\* to, which was empty, as s.
Copying(m, L, from, to, n, x, s) ==
  /\ s \in Seq(Insns) /\ Len(s) = n /\ x \in Memories
  /\ Holds(x, [L EXCEPT ![to] = s]) /\ InAny([L EXCEPT ![to] = s]) = InAny(L) \cup ToSet(s)
  /\ Live(x) = Live(m) \cup ToSet(s) /\ Cardinality(Live(x)) = Cardinality(Live(m)) + n
  /\ ToSet(s) \cap Live(m) = {}
  /\ SameLive(m, x) /\ \A k \in 1..n : CopyOf(m, x, L[from][k], s[k])
  /\ (\A b \in Objs \ {to} : x.flags[b] = m.flags[b]) /\ m.flags[from] \subseteq x.flags[to]

\* A sequence with one more.
LEMMA AppendIs ==
  ASSUME NEW X, NEW s \in Seq(X), NEW c \in X
  PROVE  /\ Append(s, c) \in Seq(X) /\ Len(Append(s, c)) = Len(s) + 1
         /\ Append(s, c)[Len(s) + 1] = c /\ \A k \in 1..Len(s) : Append(s, c)[k] = s[k]
         /\ ToSet(Append(s, c)) = ToSet(s) \cup {c}
<1> DEFINE t == Append(s, c)
<1>1. /\ t \in Seq(X) /\ Len(t) = Len(s) + 1 /\ Len(s) \in Nat
      /\ t[Len(s) + 1] = c /\ \A k \in 1..Len(s) : t[k] = s[k]
  OBVIOUS
<1> HIDE DEF t
<1>2. \A x : x \in ToSet(t) <=> \E k \in 1..Len(t) : t[k] = x
  BY <1>1, ToSetIs
<1>3. \A x : x \in ToSet(s) <=> \E k \in 1..Len(s) : s[k] = x
  BY ToSetIs
<1>4. ASSUME NEW x PROVE x \in ToSet(t) <=> x \in ToSet(s) \/ x = c
  <2>1. ASSUME x \in ToSet(t) PROVE x \in ToSet(s) \/ x = c
    <3>1. PICK k \in 1..Len(t) : t[k] = x
      BY <1>2, <2>1
    <3>2. k = Len(s) + 1 \/ k \in 1..Len(s)
      BY <1>1
    <3> QED
      BY <1>1, <1>3, <3>1, <3>2
  <2>2. ASSUME x \in ToSet(s) PROVE x \in ToSet(t)
    <3>1. PICK k \in 1..Len(s) : s[k] = x
      BY <1>3, <2>2
    <3>2. k \in 1..Len(t) /\ t[k] = x
      BY <1>1, <3>1
    <3> QED
      BY <1>2, <3>2
  <2>3. c \in ToSet(t)
    <3>1. Len(s) + 1 \in 1..Len(t)
      BY <1>1
    <3> QED
      BY <1>1, <1>2, <3>1
  <2> QED
    BY <2>1, <2>2, <2>3
<1> QED
  BY <1>1, <1>4 DEF t

\* One instruction of the block after the other.
LEMMA CopyingOn ==
  ASSUME NEW m \in Memories, NEW L, Holds(m, L), InAny(L) \subseteq Live(m),
         NEW from \in Objs, NEW to \in Objs, L[to] = <<>>,
         Cardinality(Live(m)) + Len(L[from]) <= Cardinality(Insns),
         NEW n \in 0..(Len(L[from]) - 1), NEW x, NEW s, Copying(m, L, from, to, n, x, s)
  PROVE  \E t : Copying(m, L, from, to, n + 1, CopiedInsn(x, to, L[from][n + 1]), t)
<1> DEFINE i == L[from][n + 1]
           r == CopiedInsn(x, to, i)
           N == [L EXCEPT ![to] = s]
<1>1. /\ s \in Seq(Insns) /\ Len(s) = n /\ x \in Memories
      /\ Holds(x, N) /\ InAny(N) = InAny(L) \cup ToSet(s)
      /\ Live(x) = Live(m) \cup ToSet(s) /\ Cardinality(Live(x)) = Cardinality(Live(m)) + n
      /\ ToSet(s) \cap Live(m) = {}
  BY Zenon DEF Copying
<1>2. /\ SameLive(m, x) /\ \A k \in 1..n : CopyOf(m, x, L[from][k], s[k])
      /\ (\A b \in Objs \ {to} : x.flags[b] = m.flags[b]) /\ m.flags[from] \subseteq x.flags[to]
  BY Zenon DEF Copying
<1>3. /\ L \in [Objs -> Seq(Insns)] /\ Len(L[from]) \in Nat
      /\ \A k \in 1..Len(L[from]) : L[from][k] \in InAny(L)
  BY HeldIn DEF Holds
<1>4. n + 1 \in 1..Len(L[from]) /\ i \in Live(m) /\ n \in Nat
  BY <1>3
<1>5. Cardinality(Live(m)) \in Nat /\ Cardinality(Insns) \in Nat
  BY LiveIs, InsnsAssumption, FS_CardinalityType
<1>6. Cardinality(Live(x)) < Cardinality(Insns)
  BY <1>1, <1>3, <1>4, <1>5
<1>7. InAny(N) \subseteq Live(x) /\ i \in Live(x)
  BY <1>1, <1>4
<1> HIDE DEF i
<1>8. PICK c \in Insns \ Live(x) : HasOneMore(x, r, N, to, c) /\ IsCopy(x, r, to, i, c)
  <2> HIDE DEF N
  <2> QED
    BY <1>1, <1>6, <1>7, CopiedInsnIs, Zenon
<1> HIDE DEF r
<1> DEFINE t == Append(s, c)
<1>9. /\ t \in Seq(Insns) /\ Len(t) = n + 1
      /\ t[n + 1] = c /\ \A k \in 1..n : t[k] = s[k]
      /\ ToSet(t) = ToSet(s) \cup {c}
  BY <1>1, AppendIs
<1>10. N[to] = s /\ [N EXCEPT ![to] = t] = [L EXCEPT ![to] = t]
  BY <1>3
<1> HIDE DEF N, t
<1>11. /\ r \in Memories /\ Holds(r, [L EXCEPT ![to] = t])
       /\ InAny([L EXCEPT ![to] = t]) = InAny(N) \cup {c}
       /\ Live(r) = Live(x) \cup {c} /\ Cardinality(Live(r)) = Cardinality(Live(x)) + 1
  BY <1>8, <1>10, Zenon DEF HasOneMore, t
<1>12. InAny([L EXCEPT ![to] = t]) = InAny(L) \cup ToSet(t)
  BY <1>1, <1>9, <1>11
<1>13. /\ Live(r) = Live(m) \cup ToSet(t) /\ ToSet(t) \cap Live(m) = {}
       /\ Cardinality(Live(r)) = Cardinality(Live(m)) + (n + 1)
  <2>1. Live(r) = Live(m) \cup ToSet(t)
    BY <1>1, <1>9, <1>11
  <2>2. c \notin Live(m)
    BY <1>1, <1>8
  <2>3. ToSet(t) \cap Live(m) = {}
    BY <1>1, <1>9, <2>2
  <2> DEFINE u == Cardinality(Live(r))
             v == Cardinality(Live(x))
             w == Cardinality(Live(m))
  <2>4. u = v + 1 /\ v = w + n /\ w \in Nat /\ n \in Nat
    BY <1>1, <1>4, <1>5, <1>11, Zenon
  <2> HIDE DEF u, v, w
  <2>5. u = w + (n + 1)
    BY <2>4
  <2> QED
    BY <2>1, <2>3, <2>5 DEF u, w
<1>14. /\ r.op[c] = x.op[i] /\ r.cases[c] = x.cases[i] /\ x.ea[i] \in {NoEa, r.ea[c]}
       /\ \A j \in Insns \ {c} : r.op[j] = x.op[j] /\ r.cases[j] = x.cases[j] /\ r.ea[j] = x.ea[j]
  <2>1. x.op \in [Insns -> Opcodes] /\ x.cases \in [Insns -> Seq(Nat)]
    BY <1>1, MemoryIs
  <2>2. /\ r.op = [x.op EXCEPT ![c] = x.op[i]] /\ r.cases = [x.cases EXCEPT ![c] = x.cases[i]]
        /\ (\A j \in Insns \ {c} : r.ea[j] = x.ea[j]) /\ x.ea[i] \in {NoEa, r.ea[c]}
    BY <1>8, Zenon DEF IsCopy
  <2> QED
    BY <1>8, <2>1, <2>2
<1>15. SameLive(m, r)
  <2> SUFFICES ASSUME NEW j \in Live(m) PROVE r.op[j] = m.op[j] /\ r.cases[j] = m.cases[j] /\ r.ea[j] = m.ea[j]
    BY DEF SameLive
  <2>1. j \in Insns \ {c}
    BY <1>1, <1>8, LiveIs
  <2> QED
    BY <1>2, <1>14, <2>1, Zenon DEF SameLive
<1>16. ASSUME NEW k \in 1..(n + 1) PROVE CopyOf(m, r, L[from][k], t[k])
  <2>1. CASE k = n + 1
    <3>1. x.op[i] = m.op[i] /\ x.cases[i] = m.cases[i] /\ x.ea[i] = m.ea[i]
      BY <1>2, <1>4, Zenon DEF SameLive
    <3>2. CopyOf(m, r, i, c)
      BY <1>14, <3>1, Zenon DEF CopyOf
    <3> QED
      BY <1>9, <2>1, <3>2 DEF i
  <2>2. CASE k # n + 1
    <3>1. k \in 1..n /\ t[k] = s[k]
      BY <1>4, <1>9, <2>2
    <3>2. s[k] \in Insns \ {c}
      <4>1. s[k] \in ToSet(s)
        BY <1>1, <3>1, ToSetIs
      <4> QED
        BY <1>1, <1>8, <3>1, <4>1
    <3>3. CopyOf(m, r, L[from][k], s[k])
      BY <1>2, <1>14, <3>1, <3>2, Zenon DEF CopyOf
    <3> QED
      BY <3>1, <3>3
  <2> QED
    BY <2>1, <2>2
<1>17. (\A b \in Objs \ {to} : r.flags[b] = m.flags[b]) /\ m.flags[from] \subseteq r.flags[to]
  BY <1>2, <1>8 DEF IsCopy
<1>18. Copying(m, L, from, to, n + 1, r, t)
  BY <1>9, <1>11, <1>12, <1>13, <1>15, <1>16, <1>17, Zenon DEF Copying
<1> QED
  BY <1>18 DEF r, i

\* Memory x is m with the flags of b assigned.
IsFlagged(m, x, b, f) ==
  /\ x \in Memories /\ SameLists(m, x) /\ x.op = m.op /\ x.ea = m.ea /\ x.cases = m.cases
  /\ x.flags[b] = f /\ \A c \in Objs \ {b} : x.flags[c] = m.flags[c]

\* The flags of a block, assigned.
LEMMA FlagsSet ==
  ASSUME NEW m \in Memories, NEW b \in Objs, NEW f \in SUBSET {"push", "changed"}, NEW x,
         x = [m EXCEPT !.flags[b] = f]
  PROVE  IsFlagged(m, x, b, f)
<1>1. /\ m.head \in [Objs -> Pointers] /\ m.tail \in [Objs -> Pointers]
      /\ m.flags \in [Objs -> SUBSET {"push", "changed"}]
      /\ m.next \in [Insns -> Pointers] /\ m.prev \in [Insns -> Pointers]
      /\ m.op \in [Insns -> Opcodes] /\ m.ea \in [Insns -> Eas \cup {NoEa}]
      /\ m.cases \in [Insns -> Seq(Nat)]
  BY MemoryIs
<1>2. /\ x.head = m.head /\ x.tail = m.tail /\ x.next = m.next /\ x.prev = m.prev
      /\ x.op = m.op /\ x.ea = m.ea /\ x.cases = m.cases
      /\ x.flags = [m.flags EXCEPT ![b] = f]
  BY DEF Memories
<1>3. x = [head |-> x.head, tail |-> x.tail, flags |-> x.flags, next |-> x.next, prev |-> x.prev,
             op |-> x.op, ea |-> x.ea, cases |-> x.cases]
  BY DEF Memories
<1>4. x.flags \in [Objs -> SUBSET {"push", "changed"}]
  BY <1>1, <1>2
<1>5. x \in Memories
  BY <1>1, <1>2, <1>3, <1>4 DEF Memories
<1>6. x.flags[b] = f /\ \A c \in Objs \ {b} : x.flags[c] = m.flags[c]
  BY <1>1, <1>2
<1> QED
  BY <1>2, <1>5, <1>6, Zenon DEF SameLists, IsFlagged

\* dup_mblock copies a whole block.
LEMMA CopiedBlockIs ==
  ASSUME NEW m \in Memories, NEW L, Holds(m, L), InAny(L) \subseteq Live(m),
         NEW from \in Objs, NEW to \in Objs, L[to] = <<>>, from # to,
         Cardinality(Live(m)) + Len(L[from]) <= Cardinality(Insns)
  PROVE  \E s : Copying(m, L, from, to, Len(L[from]), CopiedBlock(m, from, to), s)
<1> DEFINE list == Forwards(m, from)
           x0 == [m EXCEPT !.flags[to] = m.flags[from]]
           copied[n \in 0..Len(list)] ==
             IF n = 0 THEN x0 ELSE CopiedInsn(copied[n - 1], to, list[n])
           l == Len(list)
           S == {p \in (0..l) \X Memories : \E s : Copying(m, L, from, to, p[1], p[2], s)}
           F == [p \in S |-> CopiedInsn(p[2], to, list[p[1] + 1])]
<1>0. list = L[from]
  BY WalksAre
<1> HIDE DEF list
<1>1. l \in Nat /\ Len(L[from]) = l /\ L \in [Objs -> Seq(Insns)]
  BY <1>0, HeldIn DEF Holds
<1>2. <<0, x0>> \in S
  <2> DEFINE s == <<>>
  <2>1. m.flags[from] \in SUBSET {"push", "changed"}
    BY MemoryIs
  <2>2. /\ x0 \in Memories /\ SameLists(m, x0) /\ x0.op = m.op /\ x0.ea = m.ea /\ x0.cases = m.cases
        /\ x0.flags[to] = m.flags[from] /\ \A c \in Objs \ {to} : x0.flags[c] = m.flags[c]
    <3> DEFINE fl == m.flags[from]
               x == [m EXCEPT !.flags[to] = fl]
    <3>1. fl \in SUBSET {"push", "changed"} /\ x = [m EXCEPT !.flags[to] = fl]
      BY <2>1
    <3> HIDE DEF fl, x
    <3>2. IsFlagged(m, x, to, fl)
      BY <3>1, FlagsSet, Zenon
    <3>3. x = x0
      BY DEF x, fl
    <3> QED
      BY <3>2, <3>3, Zenon DEF IsFlagged, fl
  <2>3. [L EXCEPT ![to] = s] = L
    BY <1>1
  <2>4. s \in Seq(Insns) /\ Len(s) = 0 /\ ToSet(s) = {}
    BY DEF ToSet
  <2> HIDE DEF x0, s
  <2>5. Holds(x0, L)
    BY <2>2, HeldStill, Zenon
  <2>6. Live(x0) = Live(m) /\ SameLive(m, x0)
    BY <2>2 DEF Live, SameLive
  <2>7. Cardinality(Live(x0)) = Cardinality(Live(m)) + 0
    BY <2>6, LiveIs
  <2>8. \A k \in 1..0 : CopyOf(m, x0, L[from][k], s[k])
    OBVIOUS
  <2>9. InAny([L EXCEPT ![to] = s]) = InAny(L) \cup ToSet(s) /\ Live(x0) = Live(m) \cup ToSet(s)
        /\ ToSet(s) \cap Live(m) = {} /\ Holds(x0, [L EXCEPT ![to] = s])
    BY <2>3, <2>4, <2>5, <2>6
  <2>10. m.flags[from] \subseteq x0.flags[to]
    BY <2>2
  <2>11. Copying(m, L, from, to, 0, x0, s)
    BY <2>2, <2>4, <2>6, <2>7, <2>8, <2>9, <2>10, Zenon DEF Copying
  <2>12. 0 \in 0..l
    BY <1>1
  <2> QED
    BY <2>2, <2>11, <2>12
<1>3. ASSUME NEW n \in 0..(l - 1), NEW x, <<n, x>> \in S
      PROVE  <<n + 1, CopiedInsn(x, to, list[n + 1])>> \in S
  <2>1. n + 1 \in 0..l
    BY <1>1
  <2>2. PICK s : Copying(m, L, from, to, n, x, s)
    BY <1>3
  <2>3. PICK t : Copying(m, L, from, to, n + 1, CopiedInsn(x, to, L[from][n + 1]), t)
    BY <1>1, <2>2, CopyingOn
  <2>4. CopiedInsn(x, to, list[n + 1]) \in Memories
    BY <1>0, <2>3, Zenon DEF Copying
  <2> QED
    BY <1>0, <2>1, <2>3, <2>4
<1>4. ASSUME NEW n \in 0..(l - 1), NEW x, <<n, x>> \in S
      PROVE  F[<<n, x>>] = CopiedInsn(x, to, list[n + 1])
  <2> HIDE DEF S
  <2> QED
    BY <1>4
<1> HIDE DEF S, F
<1>e. PICK f : FoldsTo(f, l, x0, F, S)
  <2>1. \A n \in 0..(l - 1) : \A x : <<n, x>> \in S => <<n + 1, F[<<n, x>>]>> \in S
    BY <1>3, <1>4
  <2> HIDE DEF l, x0
  <2> QED
    BY <1>1, <1>2, <2>1, Folded, Zenon
<1>5. /\ f = [n \in 0..l |-> IF n = 0 THEN x0 ELSE F[<<n - 1, f[n - 1]>>]]
      /\ \A n \in 0..l : <<n, f[n]>> \in S
  <2> HIDE DEF l, x0
  <2> QED
    BY <1>e, Zenon DEF FoldsTo
<1>6. f = [n \in 0..l |-> IF n = 0 THEN x0 ELSE CopiedInsn(f[n - 1], to, list[n])]
  <2>1. ASSUME NEW n \in 0..l
        PROVE  (IF n = 0 THEN x0 ELSE F[<<n - 1, f[n - 1]>>])
                 = (IF n = 0 THEN x0 ELSE CopiedInsn(f[n - 1], to, list[n]))
    <3>1. CASE n = 0
      BY <3>1
    <3>2. CASE n # 0
      <4> DEFINE k == n - 1
      <4>1. k \in 0..(l - 1) /\ k \in 0..l /\ k + 1 = n
        BY <1>1, <3>2
      <4> HIDE DEF k
      <4>2. F[<<k, f[k]>>] = CopiedInsn(f[k], to, list[k + 1])
        BY <1>4, <1>5, <4>1
      <4> QED
        BY <3>2, <4>1, <4>2 DEF k
    <3> QED
      BY <3>1, <3>2
  <2> HIDE DEF x0, l
  <2> QED
    BY <1>5, <2>1
<1>7. copied = [n \in 0..l |-> IF n = 0 THEN x0 ELSE CopiedInsn(copied[n - 1], to, list[n])]
  <2> HIDE DEF x0
  <2> QED
    BY <1>6, Zenon
<1> HIDE DEF copied
<1>8. 0..l \subseteq {n \in 0..l : <<n, copied[n]>> \in S}
  <2> DEFINE T == {n \in 0..l : <<n, copied[n]>> \in S}
  <2>1. 0 \in T
    <3>1. 0 \in 0..l
      BY <1>1
    <3> QED
      BY <1>2, <1>7, <3>1
  <2>2. ASSUME NEW n \in 0..(l - 1), n \in T PROVE n + 1 \in T
    <3>1. n + 1 \in 0..l /\ n + 1 # 0 /\ (n + 1) - 1 = n
      BY <1>1
    <3>2. copied[n + 1] = CopiedInsn(copied[n], to, list[n + 1])
      BY <1>7, <3>1
    <3> QED
      BY <1>3, <2>2, <3>1, <3>2
  <2> HIDE DEF T, l
  <2>3. 0..l \subseteq T
    BY <1>1, <2>1, <2>2, IntervalInduction
  <2> QED
    BY <2>3 DEF T
<1>9. <<l, copied[l]>> \in S
  <2>1. l \in 0..l
    BY <1>1
  <2> QED
    BY <1>8, <2>1
<1>10. CopiedBlock(m, from, to) = copied[l]
  BY DEF CopiedBlock, copied, list
<1> QED
  BY <1>1, <1>9, <1>10 DEF S

-----------------------------------------------------------------------------
(* dup_mba, block by block.                                                  *)

\* The instructions of the first n blocks of from.
UpTo(L, from, n) == {i \in Insns : \E k \in 1..n : i \in ToSet(L[from[k]])}

\* In x the new instructions t in block to are what s in block from are in m.
CopiedTo(m, x, s, from, t, to) ==
  /\ Len(t) = Len(s) /\ m.flags[from] \subseteq x.flags[to]
  /\ \A j \in 1..Len(s) : t[j] \notin Live(m) /\ CopyOf(m, x, s[j], t[j])

\* The blocks of from have room for a copy each in those of to.
CanDuplicate(m, L, from, to) ==
  /\ m \in Memories /\ Holds(m, L) /\ InAny(L) \subseteq Live(m)
  /\ 2 * Cardinality(Live(m)) <= Cardinality(Insns)
  /\ from \in Seq(Objs) /\ to \in Seq(Objs) /\ Len(from) = Len(to)
  /\ \A j, k \in 1..Len(from) : from[j] = from[k] => j = k
  /\ \A j, k \in 1..Len(to) : to[j] = to[k] => j = k
  /\ \A j, k \in 1..Len(from) : from[j] # to[k]
  /\ \A k \in 1..Len(to) : L[to[k]] = <<>>

\* Memory x is m with the first n blocks of from copied to those of to, and
\* has the lists M.
Duplicating(m, L, from, to, n, x, M) ==
  /\ x \in Memories /\ Holds(x, M) /\ SameLive(m, x)
  /\ Live(x) = Live(m) \cup InAny(M) /\ InAny(L) \subseteq InAny(M)
  /\ Cardinality(Live(x)) = Cardinality(Live(m)) + Cardinality(UpTo(L, from, n))
  /\ \A b \in Objs : (\A k \in 1..n : b # to[k]) => M[b] = L[b] /\ x.flags[b] = m.flags[b]
  /\ \A k \in 1..n : CopiedTo(m, x, L[from[k]], from[k], M[to[k]], to[k])

\* One block more, and how many instructions that are.
LEMMA UpToIs ==
  ASSUME NEW m, NEW L, NEW from, NEW to, CanDuplicate(m, L, from, to), NEW n \in 0..(Len(from) - 1)
  PROVE  /\ Cardinality(UpTo(L, from, n)) \in Nat
         /\ Cardinality(UpTo(L, from, n + 1)) = Cardinality(UpTo(L, from, n)) + Len(L[from[n + 1]])
         /\ Cardinality(UpTo(L, from, n + 1)) <= Cardinality(Live(m))
<1> DEFINE f == from[n + 1]
           A == UpTo(L, from, n)
           B == UpTo(L, from, n + 1)
           C == ToSet(L[f])
<1>1. /\ Holds(m, L) /\ InAny(L) \subseteq Live(m) /\ from \in Seq(Objs)
      /\ \A j, k \in 1..Len(from) : from[j] = from[k] => j = k
  BY Zenon DEF CanDuplicate
<1>2. /\ n \in Nat /\ n + 1 \in 1..Len(from) /\ \A k \in 1..(n + 1) : k \in 1..Len(from) /\ from[k] \in Objs
      /\ \A k \in 1..(n + 1) : k \in 1..n \/ k = n + 1
      /\ \A k \in 1..n : k \in 1..(n + 1) /\ k # n + 1
  BY <1>1
<1>3. f \in Objs /\ \A k \in 1..n : from[k] \in Objs /\ from[k] # f
  BY <1>1, <1>2
<1>4. L \in [Objs -> Seq(Insns)]
  BY <1>1, Zenon DEF Holds
<1>5. \A b \in Objs : \A x : x \in ToSet(L[b]) <=> \E k \in 1..Len(L[b]) : L[b][k] = x
  BY <1>4, ToSetIs
<1>6. \A b, c \in Objs : b # c => ToSet(L[b]) \cap ToSet(L[c]) = {}
  <2> SUFFICES ASSUME NEW b \in Objs, NEW c \in Objs, b # c, NEW x, x \in ToSet(L[b]), x \in ToSet(L[c])
               PROVE  FALSE
    OBVIOUS
  <2>1. PICK j \in 1..Len(L[b]) : L[b][j] = x
    BY <1>5
  <2>2. PICK k \in 1..Len(L[c]) : L[c][k] = x
    BY <1>5
  <2>3. Apart(L)
    BY <1>1, Zenon DEF Holds
  <2> QED
    BY <2>1, <2>2, <2>3, Zenon DEF Apart
<1>7. \A b \in Objs : ToSet(L[b]) \subseteq InAny(L)
  BY <1>4, InAnyIs, Zenon
<1>8. C \subseteq Insns
  BY <1>3, <1>4, ToSetIs
<1> HIDE DEF f
<1>9. f = from[n + 1]
  BY DEF f
<1>10. B = A \cup C
  BY <1>2, <1>8, <1>9 DEF UpTo
<1>11. A \cap C = {}
  BY <1>3, <1>6 DEF UpTo
<1>12. B \subseteq Live(m)
  BY <1>1, <1>2, <1>7 DEF UpTo
<1>13. IsFiniteSet(B) /\ Cardinality(B) <= Cardinality(Live(m))
  BY <1>12, LiveIs, FS_Subset
<1>14. A \in SUBSET B /\ C \in SUBSET B
  BY <1>10
<1> HIDE DEF A, B, C
<1>15. IsFiniteSet(A) /\ IsFiniteSet(C)
  BY <1>13, <1>14, FS_Subset
<1>16. Cardinality(C) = Len(L[f])
  <2>1. L[f] \in Seq(Insns) /\ \A j, k \in 1..Len(L[f]) : L[f][j] = L[f][k] => j = k
    BY <1>1, <1>3, HeldIn
  <2> QED
    BY <2>1, ToSetCard DEF C
<1>17. Cardinality(A \cup C) = Cardinality(A) + Cardinality(C)
  <2>1. Cardinality(A \cup C) = Cardinality(A) + Cardinality(C) - Cardinality(A \cap C)
    BY <1>15, FS_Union
  <2>2. Cardinality(A \cap C) = 0
    BY <1>11, FS_EmptySet
  <2>3. Cardinality(A) \in Nat /\ Cardinality(C) \in Nat
    BY <1>15, FS_CardinalityType
  <2> QED
    BY <2>1, <2>2, <2>3
<1>18. Cardinality(A) \in Nat
  BY <1>15, FS_CardinalityType
<1> QED
  BY <1>10, <1>13, <1>16, <1>17, <1>18 DEF A, B, f

\* One block of the function after the other.
LEMMA DuplicatingOn ==
  ASSUME NEW m, NEW L, NEW from, NEW to, CanDuplicate(m, L, from, to), NEW n \in 0..(Len(from) - 1),
         NEW x, NEW M, Duplicating(m, L, from, to, n, x, M)
  PROVE  \E N : Duplicating(m, L, from, to, n + 1, CopiedBlock(x, from[n + 1], to[n + 1]), N)
<1> DEFINE f == from[n + 1]
           o == to[n + 1]
           l == Len(L[f])
           r == CopiedBlock(x, f, o)
           u == UpTo(L, from, n)
           v == UpTo(L, from, n + 1)
<1>1. /\ m \in Memories /\ Holds(m, L) /\ InAny(L) \subseteq Live(m)
      /\ 2 * Cardinality(Live(m)) <= Cardinality(Insns)
      /\ from \in Seq(Objs) /\ to \in Seq(Objs) /\ Len(from) = Len(to)
      /\ \A j, k \in 1..Len(to) : to[j] = to[k] => j = k
      /\ \A j, k \in 1..Len(from) : from[j] # to[k]
      /\ \A k \in 1..Len(to) : L[to[k]] = <<>>
  BY Zenon DEF CanDuplicate
<1>2. /\ x \in Memories /\ Holds(x, M) /\ SameLive(m, x)
      /\ Live(x) = Live(m) \cup InAny(M) /\ InAny(L) \subseteq InAny(M)
      /\ Cardinality(Live(x)) = Cardinality(Live(m)) + Cardinality(u)
      /\ \A b \in Objs : (\A k \in 1..n : b # to[k]) => M[b] = L[b] /\ x.flags[b] = m.flags[b]
      /\ \A k \in 1..n : CopiedTo(m, x, L[from[k]], from[k], M[to[k]], to[k])
  BY Zenon DEF Duplicating
<1>3. /\ n \in Nat /\ n + 1 \in 1..Len(from)
      /\ \A k \in 1..(n + 1) : k \in 1..Len(from) /\ from[k] \in Objs /\ to[k] \in Objs
      /\ \A k \in 1..(n + 1) : k \in 1..n \/ k = n + 1
      /\ \A k \in 1..n : k \in 1..(n + 1) /\ k # n + 1
  BY <1>1
<1>4. /\ f \in Objs /\ o \in Objs /\ f # o
      /\ \A k \in 1..n : to[k] \in Objs /\ to[k] # f /\ to[k] # o
  BY <1>1, <1>3
<1>5. L[o] = <<>>
  BY <1>1, <1>3
<1>6. /\ Cardinality(u) \in Nat /\ Cardinality(v) = Cardinality(u) + l
      /\ Cardinality(v) <= Cardinality(Live(m))
  BY UpToIs
<1>f. f = from[n + 1] /\ o = to[n + 1]
  OBVIOUS
<1> HIDE DEF f, o
<1>7. M[f] = L[f] /\ M[o] = <<>> /\ x.flags[f] = m.flags[f]
  BY <1>2, <1>4, <1>5, Zenon
<1>8. L \in [Objs -> Seq(Insns)] /\ M \in [Objs -> Seq(Insns)] /\ l \in Nat
  <2>1. L \in [Objs -> Seq(Insns)] /\ M \in [Objs -> Seq(Insns)]
    BY <1>1, <1>2, Zenon DEF Holds
  <2> QED
    BY <1>4, <2>1
<1>9. \A k \in 1..l : L[f][k] \in Live(m)
  <2>1. \A k \in 1..Len(L[f]) : L[f][k] \in InAny(L)
    BY <1>1, <1>4, HeldIn
  <2> QED
    BY <1>1, <2>1
<1>10. Cardinality(Live(x)) + Len(M[f]) <= Cardinality(Insns)
  <2>1. Cardinality(Live(m)) \in Nat /\ Cardinality(Insns) \in Nat
    BY LiveIs, InsnsAssumption, FS_CardinalityType
  <2> HIDE DEF u, v, l
  <2>2. Len(M[f]) = l
    BY <1>7 DEF l
  <2> QED
    BY <1>1, <1>2, <1>6, <1>8, <2>1, <2>2
<1>11. InAny(M) \subseteq Live(x)
  BY <1>2
<1>12. PICK s : Copying(x, M, f, o, Len(M[f]), r, s)
  <2> HIDE DEF r
  <2>1. \E s : Copying(x, M, f, o, Len(M[f]), CopiedBlock(x, f, o), s)
    BY <1>2, <1>4, <1>7, <1>10, <1>11, CopiedBlockIs, Zenon
  <2> QED
    BY <2>1 DEF r
<1> HIDE DEF r, u, v
<1> DEFINE N == [M EXCEPT ![o] = s]
<1>13. Len(M[f]) = l
  BY <1>7
<1> HIDE DEF l
<1>14. /\ s \in Seq(Insns) /\ Len(s) = l /\ r \in Memories
       /\ Holds(r, N) /\ InAny(N) = InAny(M) \cup ToSet(s)
       /\ Live(r) = Live(x) \cup ToSet(s) /\ Cardinality(Live(r)) = Cardinality(Live(x)) + l
       /\ ToSet(s) \cap Live(x) = {}
  BY <1>12, <1>13, Zenon DEF Copying
<1>15. /\ SameLive(x, r) /\ \A k \in 1..l : CopyOf(x, r, M[f][k], s[k])
       /\ (\A b \in Objs \ {o} : r.flags[b] = x.flags[b]) /\ x.flags[f] \subseteq r.flags[o]
  BY <1>12, <1>13, Zenon DEF Copying
<1>16. N[o] = s /\ \A b \in Objs \ {o} : N[b] = M[b]
  BY <1>4, <1>8
<1> HIDE DEF N
<1>17. SameLive(m, r)
  <2>1. Live(m) \subseteq Live(x)
    BY <1>2
  <2> QED
    BY <1>2, <1>15, <2>1, Zenon DEF SameLive
<1>18. /\ Live(r) = Live(m) \cup InAny(N) /\ InAny(L) \subseteq InAny(N)
       /\ Cardinality(Live(r)) = Cardinality(Live(m)) + Cardinality(v)
  <2>1. Live(r) = Live(m) \cup InAny(N) /\ InAny(L) \subseteq InAny(N)
    BY <1>2, <1>14
  <2> DEFINE a == Cardinality(Live(r))
             b == Cardinality(Live(x))
             c == Cardinality(Live(m))
             d == Cardinality(u)
             e == Cardinality(v)
  <2>2. a = b + l /\ b = c + d /\ e = d + l /\ c \in Nat /\ d \in Nat
    BY <1>2, <1>6, <1>14, LiveIs DEF l
  <2> HIDE DEF a, b, c, d, e
  <2>3. a = c + e
    BY <1>8, <2>2
  <2> QED
    BY <2>1, <2>3 DEF a, c, e
<1>19. ASSUME NEW b \in Objs, \A k \in 1..(n + 1) : b # to[k]
       PROVE  N[b] = L[b] /\ r.flags[b] = m.flags[b]
  <2>1. b # o /\ \A k \in 1..n : b # to[k]
    BY <1>3, <1>19, <1>f
  <2> QED
    BY <1>2, <1>15, <1>16, <2>1, Zenon
<1>20. ASSUME NEW k \in 1..(n + 1)
       PROVE  CopiedTo(m, r, L[from[k]], from[k], N[to[k]], to[k])
  <2>1. CASE k = n + 1
    <3>1. Len(s) = l /\ m.flags[f] \subseteq r.flags[o]
      BY <1>7, <1>14, <1>15, Zenon
    <3>2. ASSUME NEW j \in 1..l PROVE s[j] \notin Live(m) /\ CopyOf(m, r, L[f][j], s[j])
      <4>1. s[j] \in ToSet(s)
        BY <1>14, ToSetIs
      <4>2. s[j] \notin Live(m)
        BY <1>2, <1>14, <4>1
      <4>3. CopyOf(x, r, L[f][j], s[j])
        BY <1>7, <1>15, Zenon
      <4>4. L[f][j] \in Live(m)
        BY <1>9
      <4>5. CopyOf(m, r, L[f][j], s[j])
        BY <1>2, <4>3, <4>4, Zenon DEF CopyOf, SameLive
      <4> QED
        BY <4>2, <4>5
    <3>3. CopiedTo(m, r, L[f], f, s, o)
      BY <3>1, <3>2, Zenon DEF CopiedTo, l
    <3> QED
      BY <1>16, <1>f, <2>1, <3>3, Zenon
  <2>2. CASE k # n + 1
    <3>1. k \in 1..n /\ to[k] \in Objs \ {o} /\ from[k] \in Objs
      BY <1>3, <1>4, <2>2
    <3> DEFINE i == from[k]
               t == to[k]
               w == Len(L[from[k]])
    <3>2. CopiedTo(m, x, L[i], i, M[t], t)
      BY <1>2, <3>1, Zenon
    <3>t. t \in Objs \ {o}
      BY <3>1
    <3> HIDE DEF t, i
    <3>3. N[t] = M[t] /\ r.flags[t] = x.flags[t]
      BY <1>15, <1>16, <3>t, Zenon
    <3>4. Len(M[t]) = Len(L[i]) /\ m.flags[i] \subseteq r.flags[t]
      BY <3>2, <3>3, Zenon DEF CopiedTo
    <3>5. ASSUME NEW j \in 1..Len(L[i]) PROVE M[t][j] \notin Live(m) /\ CopyOf(m, r, L[i][j], M[t][j])
      <4>1. M[t][j] \notin Live(m) /\ CopyOf(m, x, L[i][j], M[t][j])
        BY <3>2, Zenon DEF CopiedTo
      <4>2. M[t][j] \in Live(x)
        <5>1. \A h \in 1..Len(M[t]) : M[t][h] \in InAny(M)
          BY <1>2, <3>t, HeldIn
        <5> QED
          BY <1>11, <3>4, <5>1
      <4>3. CopyOf(m, r, L[i][j], M[t][j])
        BY <1>15, <4>1, <4>2, Zenon DEF CopyOf, SameLive
      <4> QED
        BY <4>1, <4>3
    <3>6. CopiedTo(m, r, L[i], i, M[t], t)
      BY <3>4, <3>5, Zenon DEF CopiedTo
    <3> QED
      BY <3>3, <3>6 DEF t, i
  <2> QED
    BY <2>1, <2>2
<1>21. Duplicating(m, L, from, to, n + 1, r, N)
  BY <1>14, <1>17, <1>18, <1>19, <1>20, Zenon DEF Duplicating, v
<1>22. r = CopiedBlock(x, from[n + 1], to[n + 1])
  BY DEF r, f, o
<1> QED
  BY <1>21, <1>22

\* dup_mba copies all blocks.
LEMMA DuplicatedIs ==
  ASSUME NEW m, NEW L, NEW from, NEW to, CanDuplicate(m, L, from, to)
  PROVE  \E M : Duplicating(m, L, from, to, Len(from), Duplicated(m, from, to), M)
<1> DEFINE copied[n \in 0..Len(from)] ==
             IF n = 0 THEN m ELSE CopiedBlock(copied[n - 1], from[n], to[n])
           l == Len(from)
           S == {p \in (0..l) \X Memories : \E M : Duplicating(m, L, from, to, p[1], p[2], M)}
           F == [p \in S |-> CopiedBlock(p[2], from[p[1] + 1], to[p[1] + 1])]
<1>1. /\ m \in Memories /\ Holds(m, L) /\ InAny(L) \subseteq Live(m) /\ l \in Nat
  <2>1. m \in Memories /\ Holds(m, L) /\ InAny(L) \subseteq Live(m) /\ from \in Seq(Objs)
    BY Zenon DEF CanDuplicate
  <2> QED
    BY <2>1
<1>2. <<0, m>> \in S
  <2>1. UpTo(L, from, 0) = {}
    BY DEF UpTo
  <2>2. Cardinality(UpTo(L, from, 0)) = 0
    BY <2>1, FS_EmptySet
  <2>3. Cardinality(Live(m)) = Cardinality(Live(m)) + Cardinality(UpTo(L, from, 0))
    BY <2>2, LiveIs
  <2>4. Live(m) = Live(m) \cup InAny(L) /\ InAny(L) \subseteq InAny(L) /\ SameLive(m, m)
    BY <1>1 DEF SameLive
  <2>5. \A k \in 1..0 : CopiedTo(m, m, L[from[k]], from[k], L[to[k]], to[k])
    OBVIOUS
  <2>6. \A b \in Objs : (\A k \in 1..0 : b # to[k]) => L[b] = L[b] /\ m.flags[b] = m.flags[b]
    OBVIOUS
  <2>7. Duplicating(m, L, from, to, 0, m, L)
    BY <1>1, <2>3, <2>4, <2>5, <2>6, Zenon DEF Duplicating
  <2>8. 0 \in 0..l
    BY <1>1
  <2> QED
    BY <1>1, <2>7, <2>8
<1>3. ASSUME NEW n \in 0..(l - 1), NEW x, <<n, x>> \in S
      PROVE  <<n + 1, CopiedBlock(x, from[n + 1], to[n + 1])>> \in S
  <2>1. n + 1 \in 0..l
    BY <1>1
  <2>2. PICK M : Duplicating(m, L, from, to, n, x, M)
    BY <1>3
  <2>3. PICK N : Duplicating(m, L, from, to, n + 1, CopiedBlock(x, from[n + 1], to[n + 1]), N)
    BY <2>2, DuplicatingOn
  <2>4. CopiedBlock(x, from[n + 1], to[n + 1]) \in Memories
    BY <2>3, Zenon DEF Duplicating
  <2> QED
    BY <2>1, <2>3, <2>4
<1>4. ASSUME NEW n \in 0..(l - 1), NEW x, <<n, x>> \in S
      PROVE  F[<<n, x>>] = CopiedBlock(x, from[n + 1], to[n + 1])
  <2> HIDE DEF S
  <2> QED
    BY <1>4
<1> HIDE DEF S, F
<1>e. PICK f : FoldsTo(f, l, m, F, S)
  <2>1. \A n \in 0..(l - 1) : \A x : <<n, x>> \in S => <<n + 1, F[<<n, x>>]>> \in S
    BY <1>3, <1>4
  <2> HIDE DEF l
  <2> QED
    BY <1>1, <1>2, <2>1, Folded, Zenon
<1>5. /\ f = [n \in 0..l |-> IF n = 0 THEN m ELSE F[<<n - 1, f[n - 1]>>]]
      /\ \A n \in 0..l : <<n, f[n]>> \in S
  <2> HIDE DEF l
  <2> QED
    BY <1>e, Zenon DEF FoldsTo
<1>6. f = [n \in 0..l |-> IF n = 0 THEN m ELSE CopiedBlock(f[n - 1], from[n], to[n])]
  <2>1. ASSUME NEW n \in 0..l
        PROVE  (IF n = 0 THEN m ELSE F[<<n - 1, f[n - 1]>>])
                 = (IF n = 0 THEN m ELSE CopiedBlock(f[n - 1], from[n], to[n]))
    <3>1. CASE n = 0
      BY <3>1
    <3>2. CASE n # 0
      <4> DEFINE k == n - 1
      <4>1. k \in 0..(l - 1) /\ k \in 0..l /\ k + 1 = n
        BY <1>1, <3>2
      <4> HIDE DEF k
      <4>2. F[<<k, f[k]>>] = CopiedBlock(f[k], from[k + 1], to[k + 1])
        BY <1>4, <1>5, <4>1
      <4> QED
        BY <3>2, <4>1, <4>2 DEF k
    <3> QED
      BY <3>1, <3>2
  <2> HIDE DEF l
  <2> QED
    BY <1>5, <2>1
<1>7. copied = [n \in 0..l |-> IF n = 0 THEN m ELSE CopiedBlock(copied[n - 1], from[n], to[n])]
  BY <1>6, Zenon
<1> HIDE DEF copied
<1>8. 0..l \subseteq {n \in 0..l : <<n, copied[n]>> \in S}
  <2> DEFINE T == {n \in 0..l : <<n, copied[n]>> \in S}
  <2>1. 0 \in T
    <3>1. 0 \in 0..l
      BY <1>1
    <3> QED
      BY <1>2, <1>7, <3>1
  <2>2. ASSUME NEW n \in 0..(l - 1), n \in T PROVE n + 1 \in T
    <3>1. n + 1 \in 0..l /\ n + 1 # 0 /\ (n + 1) - 1 = n
      BY <1>1
    <3>2. copied[n + 1] = CopiedBlock(copied[n], from[n + 1], to[n + 1])
      BY <1>7, <3>1
    <3> QED
      BY <1>3, <2>2, <3>1, <3>2
  <2> HIDE DEF T, l
  <2>3. 0..l \subseteq T
    BY <1>1, <2>1, <2>2, IntervalInduction
  <2> QED
    BY <2>3 DEF T
<1>9. <<l, copied[l]>> \in S
  <2>1. l \in 0..l
    BY <1>1
  <2> QED
    BY <1>8, <2>1
<1>10. Duplicated(m, from, to) = copied[l]
  BY DEF Duplicated, copied
<1> QED
  BY <1>9, <1>10 DEF S

-----------------------------------------------------------------------------
(* release_dup_mblock, instruction by instruction, and freeing a function.   *)

\* Without its first element the rest is the rest behind it.
LEMMA RestOn ==
  ASSUME NEW s \in Seq(Insns), NEW k \in 1..Len(s)
  PROVE  /\ Rest(s, k) \in Seq(Insns) /\ 1 \in 1..Len(Rest(s, k)) /\ Rest(s, k)[1] = s[k]
         /\ RemoveAt(Rest(s, k), 1) = Rest(s, k + 1)
<1> DEFINE n == Len(s)
           h == k + 1
           t == Rest(s, k)
           u == Rest(s, h)
           v == RemoveAt(t, 1)
<1>1. n \in Nat /\ k \in 1..(n + 1) /\ h \in 1..(n + 1) /\ n \in 0..n /\ k <= n + 1 /\ h <= n + 1 /\ k \in 1..n
  OBVIOUS
<1>2. /\ t \in Seq(Insns) /\ Len(t) = (n - k) + 1
      /\ \A i \in 1..((n - k) + 1) : t[i] = s[(k + i) - 1]
  BY <1>1, PartIs DEF Rest
<1>3. /\ u \in Seq(Insns) /\ Len(u) = (n - h) + 1
      /\ \A i \in 1..((n - h) + 1) : u[i] = s[(h + i) - 1]
  <2> HIDE DEF h
  <2> QED
    BY <1>1, PartIs DEF Rest
<1>h. h = k + 1
  OBVIOUS
<1> HIDE DEF t, u, h, n
<1>4. 1 \in 1..Len(t)
  BY <1>1, <1>2
<1>5. v \in Seq(Insns) /\ IsRemoveAt(t, 1, v)
  BY <1>2, <1>4, RemoveAtIs
<1> HIDE DEF v
<1>6. Len(v) = Len(t) - 1 /\ \A j \in 1..(Len(t) - 1) : v[j] = IF j < 1 THEN t[j] ELSE t[j + 1]
  BY <1>5, Zenon DEF IsRemoveAt
<1>7. Len(v) = Len(u)
  BY <1>1, <1>2, <1>3, <1>6, <1>h
<1>8. ASSUME NEW j \in 1..Len(u) PROVE v[j] = u[j]
  <2>1. /\ j \in 1..(Len(t) - 1) /\ ~(j < 1) /\ j + 1 \in 1..((n - k) + 1) /\ j \in 1..((n - h) + 1)
        /\ (k + (j + 1)) - 1 = (h + j) - 1
    BY <1>1, <1>2, <1>3, <1>h
  <2>2. v[j] = t[j + 1]
    BY <1>6, <2>1
  <2>3. t[j + 1] = s[(k + (j + 1)) - 1]
    BY <1>2, <2>1
  <2>4. u[j] = s[(h + j) - 1]
    BY <1>3, <2>1
  <2> QED
    BY <2>1, <2>2, <2>3, <2>4
<1>9. v = u
  BY <1>3, <1>5, <1>7, <1>8, SameSeq
<1>10. t[1] = s[k]
  <2>1. 1 \in 1..((n - k) + 1) /\ (k + 1) - 1 = k
    BY <1>1
  <2> QED
    BY <1>2, <2>1
<1> QED
  BY <1>2, <1>4, <1>9, <1>10 DEF t, u, v, h

\* Memory x is m without the instructions G.
IsGone(m, x, G) ==
  /\ \A i \in Insns \ G : x.op[i] = m.op[i] /\ x.ea[i] = m.ea[i] /\ x.cases[i] = m.cases[i]
  /\ \A i \in G : x.op[i] = "free" /\ x.cases[i] = <<>>

\* The first n elements.
Gone(s, n) == {i \in Insns : \E k \in 1..n : s[k] = i}

\* Memory x is m without the first n instructions of b.
Emptying(m, L, b, n, x) ==
  /\ x \in Memories /\ Holds(x, [L EXCEPT ![b] = Rest(L[b], n + 1)])
  /\ InAny([L EXCEPT ![b] = Rest(L[b], n + 1)]) = InAny(L) \ Gone(L[b], n)
  /\ IsGone(m, x, Gone(L[b], n))
  /\ \A c \in Objs \ {b} : x.flags[c] = m.flags[c]

\* One instruction of the block after the other.
LEMMA EmptyingOn ==
  ASSUME NEW m \in Memories, NEW L, Holds(m, L), NEW b \in Objs, NEW n \in 0..(Len(L[b]) - 1),
         NEW x, Emptying(m, L, b, n, x)
  PROVE  Emptying(m, L, b, n + 1, Deleted(Removed(x, b, L[b][n + 1]), L[b][n + 1]))
<1> DEFINE s == L[b]
           k == n + 1
           i == s[k]
           t == Rest(s, k)
           u == Rest(s, k + 1)
           N == [L EXCEPT ![b] = t]
           r == Removed(x, b, i)
           y == Deleted(r, i)
           G == Gone(s, n)
           H == Gone(s, k)
<1>1. /\ L \in [Objs -> Seq(Insns)] /\ s \in Seq(Insns) /\ Len(s) \in Nat
      /\ \A j \in 1..Len(s) : s[j] \in Insns
      /\ \A h, j \in 1..Len(s) : s[h] = s[j] => h = j
  BY HeldIn DEF Holds
<1>2. k \in 1..Len(s) /\ n \in Nat /\ k = n + 1
  BY <1>1
<1> HIDE DEF k
<1>3. /\ t \in Seq(Insns) /\ 1 \in 1..Len(t) /\ t[1] = s[k]
      /\ RemoveAt(t, 1) = u
  <2> HIDE DEF s
  <2> QED
    BY <1>1, <1>2, RestOn
<1>4. /\ x \in Memories /\ Holds(x, N) /\ InAny(N) = InAny(L) \ G
      /\ IsGone(m, x, G) /\ \A c \in Objs \ {b} : x.flags[c] = m.flags[c]
  <2>1. /\ x \in Memories /\ Holds(x, [L EXCEPT ![b] = Rest(L[b], n + 1)])
        /\ InAny([L EXCEPT ![b] = Rest(L[b], n + 1)]) = InAny(L) \ Gone(L[b], n)
        /\ IsGone(m, x, Gone(L[b], n))
        /\ \A c \in Objs \ {b} : x.flags[c] = m.flags[c]
    BY Zenon DEF Emptying
  <2> QED
    BY <2>1, Zenon DEF k
<1>5. i \in Insns
  BY <1>1, <1>2
<1>6. N[b] = t /\ [N EXCEPT ![b] = u] = [L EXCEPT ![b] = u]
  BY <1>1
<1> HIDE DEF t, u, N, s
<1>7. RemoveKeeps(x, N, b, 1)
  <2>1. 1 \in 1..Len(N[b])
    BY <1>3, <1>6
  <2> QED
    BY <1>4, <2>1, RemovedIs
<1>8. N[b][1] = i
  BY <1>3, <1>6
<1> HIDE DEF i
<1>9. /\ r \in Memories /\ IsRemoved(x, r, b, i)
      /\ Holds(r, [L EXCEPT ![b] = u]) /\ InAny([L EXCEPT ![b] = u]) = InAny(N) \ {i}
  BY <1>3, <1>6, <1>7, <1>8, Zenon DEF RemoveKeeps
<1> HIDE DEF r
<1>10. y \in Memories /\ IsWritten(r, y, i, "free", NoEa, <<>>)
  BY <1>5, <1>9, DeletedFields, Zenon
<1> HIDE DEF y
<1>11. Holds(y, [L EXCEPT ![b] = u])
  BY <1>9, <1>10, HeldStill, Zenon DEF IsWritten
<1>12. H = G \cup {i} /\ i \in H
  BY <1>2, <1>5 DEF Gone, i
<1>13. InAny([L EXCEPT ![b] = u]) = InAny(L) \ H
  BY <1>4, <1>9, <1>12
<1>14. /\ y.op = [x.op EXCEPT ![i] = "free"] /\ y.cases = [x.cases EXCEPT ![i] = <<>>]
       /\ y.ea = [x.ea EXCEPT ![i] = NoEa]
       /\ y.flags = [x.flags EXCEPT ![b] = x.flags[b] \cup {"changed"}]
  BY <1>9, <1>10, Zenon DEF IsWritten, IsRemoved
<1>15. /\ y.op[i] = "free" /\ y.cases[i] = <<>>
       /\ \A j \in Insns \ {i} : y.op[j] = x.op[j] /\ y.cases[j] = x.cases[j] /\ y.ea[j] = x.ea[j]
  <2>1. /\ x.op \in [Insns -> Opcodes] /\ x.ea \in [Insns -> Eas \cup {NoEa}]
        /\ x.cases \in [Insns -> Seq(Nat)]
    BY <1>4, MemoryIs
  <2> DEFINE e == <<>>
             o == "free"
  <2>2. y.op = [x.op EXCEPT ![i] = o] /\ y.cases = [x.cases EXCEPT ![i] = e]
    BY <1>14
  <2> HIDE DEF e, o
  <2>3. /\ y.op[i] = o /\ y.cases[i] = e
        /\ \A j \in Insns \ {i} : y.op[j] = x.op[j] /\ y.cases[j] = x.cases[j] /\ y.ea[j] = x.ea[j]
    BY <1>5, <1>14, <2>1, <2>2
  <2> QED
    BY <2>3 DEF e, o
<1>16. IsGone(m, y, H)
  <2>1. ASSUME NEW j \in Insns \ H PROVE y.op[j] = m.op[j] /\ y.ea[j] = m.ea[j] /\ y.cases[j] = m.cases[j]
    <3>1. j \in Insns \ G /\ j \in Insns \ {i}
      BY <1>12
    <3> QED
      BY <1>4, <1>15, <3>1, Zenon DEF IsGone
  <2>2. ASSUME NEW j \in H PROVE y.op[j] = "free" /\ y.cases[j] = <<>>
    <3>1. CASE j = i
      BY <1>15, <3>1, Zenon
    <3>2. CASE j # i
      <4>1. j \in G /\ j \in Insns \ {i}
        BY <1>12, <3>2 DEF Gone
      <4> QED
        BY <1>4, <1>15, <4>1, Zenon DEF IsGone
    <3> QED
      BY <3>1, <3>2
  <2> QED
    BY <2>1, <2>2, Zenon DEF IsGone
<1>17. \A c \in Objs \ {b} : y.flags[c] = m.flags[c]
  <2>1. x.flags \in [Objs -> SUBSET {"push", "changed"}]
    BY <1>4, MemoryIs
  <2> QED
    BY <1>4, <1>14, <2>1
<1>18. Emptying(m, L, b, k, y)
  BY <1>10, <1>11, <1>13, <1>16, <1>17, Zenon DEF Emptying, s, u
<1> QED
  BY <1>2, <1>18 DEF y, r, i, s

\* Memory x is m with block b emptied and its instructions deleted.
HasEmptied(m, L, b, x) ==
  /\ x \in Memories /\ Holds(x, [L EXCEPT ![b] = <<>>])
  /\ InAny([L EXCEPT ![b] = <<>>]) = InAny(L) \ ToSet(L[b])
  /\ IsGone(m, x, ToSet(L[b]))
  /\ \A c \in Objs \ {b} : x.flags[c] = m.flags[c]

\* release_dup_mblock empties a whole block.
LEMMA EmptiedIs ==
  ASSUME NEW m \in Memories, NEW L, Holds(m, L), NEW b \in Objs
  PROVE  HasEmptied(m, L, b, Emptied(m, b))
<1> DEFINE list == Forwards(m, b)
           left[n \in 0..Len(list)] ==
             IF n = 0 THEN m ELSE Deleted(Removed(left[n - 1], b, list[n]), list[n])
           l == Len(list)
           S == {p \in (0..l) \X Memories : Emptying(m, L, b, p[1], p[2])}
           F == [p \in S |-> Deleted(Removed(p[2], b, list[p[1] + 1]), list[p[1] + 1])]
<1>0. list = L[b]
  BY WalksAre
<1> HIDE DEF list
<1>1. /\ l \in Nat /\ Len(L[b]) = l /\ L \in [Objs -> Seq(Insns)] /\ L[b] \in Seq(Insns)
  BY <1>0, HeldIn DEF Holds
<1>2. <<0, m>> \in S
  <2>1. Gone(L[b], 0) = {} /\ Rest(L[b], 0 + 1) = L[b] /\ [L EXCEPT ![b] = L[b]] = L
    BY <1>1, RestIs DEF Gone
  <2>2. IsGone(m, m, Gone(L[b], 0))
    BY <2>1 DEF IsGone
  <2>3. InAny(L) = InAny(L) \ Gone(L[b], 0)
    BY <2>1
  <2>4. Holds(m, [L EXCEPT ![b] = Rest(L[b], 0 + 1)])
    BY <2>1
  <2>5. InAny([L EXCEPT ![b] = Rest(L[b], 0 + 1)]) = InAny(L) \ Gone(L[b], 0)
    BY <2>1, <2>3
  <2>6. Emptying(m, L, b, 0, m)
    BY <2>2, <2>4, <2>5, Zenon DEF Emptying
  <2>7. 0 \in 0..l
    BY <1>1
  <2> QED
    BY <2>6, <2>7
<1>3. ASSUME NEW n \in 0..(l - 1), NEW x, <<n, x>> \in S
      PROVE  <<n + 1, Deleted(Removed(x, b, list[n + 1]), list[n + 1])>> \in S
  <2>1. n + 1 \in 0..l
    BY <1>1
  <2>2. Emptying(m, L, b, n, x)
    BY <1>3
  <2>3. Emptying(m, L, b, n + 1, Deleted(Removed(x, b, L[b][n + 1]), L[b][n + 1]))
    BY <1>1, <2>2, EmptyingOn
  <2>4. Deleted(Removed(x, b, list[n + 1]), list[n + 1]) \in Memories
    BY <1>0, <2>3, Zenon DEF Emptying
  <2> QED
    BY <1>0, <2>1, <2>3, <2>4
<1>4. ASSUME NEW n \in 0..(l - 1), NEW x, <<n, x>> \in S
      PROVE  F[<<n, x>>] = Deleted(Removed(x, b, list[n + 1]), list[n + 1])
  <2> HIDE DEF S
  <2> QED
    BY <1>4
<1> HIDE DEF S, F
<1>e. PICK f : FoldsTo(f, l, m, F, S)
  <2>1. \A n \in 0..(l - 1) : \A x : <<n, x>> \in S => <<n + 1, F[<<n, x>>]>> \in S
    BY <1>3, <1>4
  <2> HIDE DEF l
  <2> QED
    BY <1>1, <1>2, <2>1, Folded, Zenon
<1>5. /\ f = [n \in 0..l |-> IF n = 0 THEN m ELSE F[<<n - 1, f[n - 1]>>]]
      /\ \A n \in 0..l : <<n, f[n]>> \in S
  <2> HIDE DEF l
  <2> QED
    BY <1>e, Zenon DEF FoldsTo
<1>6. f = [n \in 0..l |-> IF n = 0 THEN m ELSE Deleted(Removed(f[n - 1], b, list[n]), list[n])]
  <2>1. ASSUME NEW n \in 0..l
        PROVE  (IF n = 0 THEN m ELSE F[<<n - 1, f[n - 1]>>])
                 = (IF n = 0 THEN m ELSE Deleted(Removed(f[n - 1], b, list[n]), list[n]))
    <3>1. CASE n = 0
      BY <3>1
    <3>2. CASE n # 0
      <4> DEFINE k == n - 1
      <4>1. k \in 0..(l - 1) /\ k \in 0..l /\ k + 1 = n
        BY <1>1, <3>2
      <4> HIDE DEF k
      <4>2. F[<<k, f[k]>>] = Deleted(Removed(f[k], b, list[k + 1]), list[k + 1])
        BY <1>4, <1>5, <4>1
      <4> QED
        BY <3>2, <4>1, <4>2 DEF k
    <3> QED
      BY <3>1, <3>2
  <2> HIDE DEF l
  <2> QED
    BY <1>5, <2>1
<1>7. left = [n \in 0..l |-> IF n = 0 THEN m ELSE Deleted(Removed(left[n - 1], b, list[n]), list[n])]
  BY <1>6, Zenon
<1> HIDE DEF left
<1>8. 0..l \subseteq {n \in 0..l : <<n, left[n]>> \in S}
  <2> DEFINE T == {n \in 0..l : <<n, left[n]>> \in S}
  <2>1. 0 \in T
    <3>1. 0 \in 0..l
      BY <1>1
    <3> QED
      BY <1>2, <1>7, <3>1
  <2>2. ASSUME NEW n \in 0..(l - 1), n \in T PROVE n + 1 \in T
    <3>1. n + 1 \in 0..l /\ n + 1 # 0 /\ (n + 1) - 1 = n
      BY <1>1
    <3>2. left[n + 1] = Deleted(Removed(left[n], b, list[n + 1]), list[n + 1])
      BY <1>7, <3>1
    <3> QED
      BY <1>3, <2>2, <3>1, <3>2
  <2> HIDE DEF T, l
  <2>3. 0..l \subseteq T
    BY <1>1, <2>1, <2>2, IntervalInduction
  <2> QED
    BY <2>3 DEF T
<1>9. Emptying(m, L, b, l, left[l])
  <2>1. l \in 0..l
    BY <1>1
  <2>2. <<l, left[l]>> \in S
    BY <1>8, <2>1
  <2> QED
    BY <2>2 DEF S
<1> DEFINE y == left[l]
           x == [y EXCEPT !.flags[b] = {}]
<1>10. Emptied(m, b) = x
  BY DEF Emptied, left, list
<1>11. Rest(L[b], l + 1) = <<>> /\ Gone(L[b], l) = ToSet(L[b])
  <2>1. Rest(L[b], l + 1) = <<>>
    BY <1>1, RestIs
  <2>2. \A i : i \in ToSet(L[b]) <=> \E k \in 1..Len(L[b]) : L[b][k] = i
    BY <1>1, ToSetIs
  <2>3. ToSet(L[b]) \subseteq Insns
    BY <1>1, ToSetIs
  <2> HIDE DEF l
  <2> QED
    BY <1>1, <2>1, <2>2, <2>3 DEF Gone
<1> HIDE DEF y, l
<1>12. /\ y \in Memories /\ Holds(y, [L EXCEPT ![b] = <<>>])
       /\ InAny([L EXCEPT ![b] = <<>>]) = InAny(L) \ ToSet(L[b])
       /\ IsGone(m, y, ToSet(L[b]))
       /\ \A c \in Objs \ {b} : y.flags[c] = m.flags[c]
  <2>1. Emptying(m, L, b, l, y)
    BY <1>9, Zenon DEF y
  <2> QED
    BY <1>11, <2>1, Zenon DEF Emptying
<1>13. IsFlagged(y, x, b, {})
  <2> DEFINE e == {}
  <2>1. e \in SUBSET {"push", "changed"} /\ x = [y EXCEPT !.flags[b] = e]
    OBVIOUS
  <2> HIDE DEF e, x
  <2>2. IsFlagged(y, x, b, e)
    BY <1>12, <2>1, FlagsSet, Zenon
  <2> QED
    BY <2>2 DEF e
<1> HIDE DEF x
<1>14. /\ x \in Memories /\ SameLists(y, x) /\ x.op = y.op /\ x.ea = y.ea /\ x.cases = y.cases
       /\ \A c \in Objs \ {b} : x.flags[c] = y.flags[c]
  BY <1>13, Zenon DEF IsFlagged
<1>15. Holds(x, [L EXCEPT ![b] = <<>>])
  BY <1>12, <1>14, HeldStill, Zenon
<1>16. IsGone(m, x, ToSet(L[b]))
  BY <1>12, <1>14, Zenon DEF IsGone
<1>17. HasEmptied(m, L, b, x)
  BY <1>12, <1>14, <1>15, <1>16, Zenon DEF HasEmptied
<1> QED
  BY <1>10, <1>17

\* The lists L with those of the first n blocks of s empty.
Without(L, s, n) == [b \in Objs |-> IF \E k \in 1..n : s[k] = b THEN <<>> ELSE L[b]]

\* Memory x is m with the first n blocks of s emptied.
Clearing(m, L, s, n, x) ==
  /\ x \in Memories /\ Holds(x, Without(L, s, n))
  /\ InAny(Without(L, s, n)) = InAny(L) \ UpTo(L, s, n)
  /\ IsGone(m, x, UpTo(L, s, n))
  /\ \A c \in Objs : (\A k \in 1..n : s[k] # c) => x.flags[c] = m.flags[c]

\* One block after the other.
LEMMA ClearingOn ==
  ASSUME NEW m \in Memories, NEW L, Holds(m, L), NEW s \in Seq(Objs),
         \A j, k \in 1..Len(s) : s[j] = s[k] => j = k, NEW n \in 0..(Len(s) - 1),
         NEW x, Clearing(m, L, s, n, x)
  PROVE  Clearing(m, L, s, n + 1, Emptied(x, s[n + 1]))
<1> DEFINE b == s[n + 1]
           M == Without(L, s, n)
           N == Without(L, s, n + 1)
           y == Emptied(x, b)
           G == UpTo(L, s, n)
           H == UpTo(L, s, n + 1)
<1>1. /\ n \in Nat /\ n + 1 \in 1..Len(s) /\ b \in Objs
      /\ \A k \in 1..(n + 1) : k \in 1..Len(s) /\ s[k] \in Objs /\ (k \in 1..n \/ k = n + 1)
      /\ \A k \in 1..n : k \in 1..(n + 1) /\ k # n + 1
  OBVIOUS
<1>2. \A k \in 1..n : s[k] # b /\ s[k] \in Objs
  BY <1>1
<1>3. /\ x \in Memories /\ Holds(x, M) /\ InAny(M) = InAny(L) \ G /\ IsGone(m, x, G)
      /\ \A c \in Objs : (\A k \in 1..n : s[k] # c) => x.flags[c] = m.flags[c]
  BY Zenon DEF Clearing
<1>4. L \in [Objs -> Seq(Insns)] /\ M \in [Objs -> Seq(Insns)]
  BY <1>3, Zenon DEF Holds
<1>5. M[b] = L[b]
  BY <1>1, <1>2 DEF Without
<1>6. N = [M EXCEPT ![b] = <<>>]
  <2>1. ASSUME NEW c \in Objs PROVE N[c] = IF c = b THEN <<>> ELSE M[c]
    BY <1>1, <1>2 DEF Without
  <2>2. N = [c \in Objs |-> N[c]] /\ M = [c \in Objs |-> M[c]]
    BY DEF Without
  <2> HIDE DEF N, M, b
  <2>3. [M EXCEPT ![b] = <<>>] = [c \in Objs |-> IF c = b THEN <<>> ELSE M[c]]
    BY <1>4
  <2>4. N = [c \in Objs |-> IF c = b THEN <<>> ELSE M[c]]
    BY <2>1, <2>2, Zenon
  <2> QED
    BY <2>3, <2>4
<1>b. b = s[n + 1]
  OBVIOUS
<1>7. HasEmptied(x, M, b, y)
  <2> HIDE DEF b, M
  <2> QED
    BY <1>1, <1>3, EmptiedIs
<1> HIDE DEF b, M, N, y
<1>8. /\ y \in Memories /\ Holds(y, N) /\ InAny(N) = InAny(M) \ ToSet(L[b])
      /\ IsGone(x, y, ToSet(L[b]))
      /\ \A c \in Objs \ {b} : y.flags[c] = x.flags[c]
  BY <1>5, <1>6, <1>7, Zenon DEF HasEmptied
<1>9. H = G \cup ToSet(L[b])
  <2>1. ToSet(L[b]) \subseteq Insns
    BY <1>1, <1>4, ToSetIs
  <2> QED
    BY <1>1, <2>1, <1>b DEF UpTo
<1>g. G \subseteq Insns
  BY DEF UpTo
<1> HIDE DEF G, H
<1>10. InAny(N) = InAny(L) \ H
  BY <1>3, <1>8, <1>9
<1>11. IsGone(m, y, H)
  <2>1. ASSUME NEW j \in Insns \ H PROVE y.op[j] = m.op[j] /\ y.ea[j] = m.ea[j] /\ y.cases[j] = m.cases[j]
    <3>1. j \in Insns \ G /\ j \in Insns \ ToSet(L[b])
      BY <1>9
    <3> QED
      BY <1>3, <1>8, <3>1, Zenon DEF IsGone
  <2>2. ASSUME NEW j \in H PROVE y.op[j] = "free" /\ y.cases[j] = <<>>
    <3>1. CASE j \in ToSet(L[b])
      BY <1>8, <3>1, Zenon DEF IsGone
    <3>2. CASE j \notin ToSet(L[b])
      <4>1. j \in G /\ j \in Insns \ ToSet(L[b])
        BY <1>9, <1>g, <3>2
      <4> QED
        BY <1>3, <1>8, <4>1, Zenon DEF IsGone
    <3> QED
      BY <3>1, <3>2
  <2> QED
    BY <2>1, <2>2, Zenon DEF IsGone
<1>12. ASSUME NEW c \in Objs, \A k \in 1..(n + 1) : s[k] # c PROVE y.flags[c] = m.flags[c]
  <2>1. c # b /\ \A k \in 1..n : s[k] # c
    BY <1>1, <1>12, <1>b
  <2> QED
    BY <1>3, <1>8, <2>1, Zenon
<1>13. Clearing(m, L, s, n + 1, y)
  BY <1>8, <1>10, <1>11, <1>12, Zenon DEF Clearing, N, H
<1> QED
  BY <1>13 DEF y, b

\* Memory x is m with the blocks of s emptied and their instructions deleted.
HasCleared(m, L, s, x) ==
  /\ x \in Memories /\ Holds(x, Without(L, s, Len(s)))
  /\ InAny(Without(L, s, Len(s))) = InAny(L) \ UpTo(L, s, Len(s))
  /\ IsGone(m, x, UpTo(L, s, Len(s)))
  /\ \A c \in Objs : (\A k \in 1..Len(s) : s[k] # c) => x.flags[c] = m.flags[c]

\* release_dup_mba, and the decompiler, empty all blocks of a function.
LEMMA AllEmptiedIs ==
  ASSUME NEW m \in Memories, NEW L, Holds(m, L), NEW s \in Seq(Objs),
         \A j, k \in 1..Len(s) : s[j] = s[k] => j = k
  PROVE  HasCleared(m, L, s, AllEmptied(m, s))
<1> DEFINE left[n \in 0..Len(s)] == IF n = 0 THEN m ELSE Emptied(left[n - 1], s[n])
           l == Len(s)
           S == {p \in (0..l) \X Memories : Clearing(m, L, s, p[1], p[2])}
           F == [p \in S |-> Emptied(p[2], s[p[1] + 1])]
<1>1. l \in Nat /\ L \in [Objs -> Seq(Insns)]
  BY DEF Holds
<1>2. <<0, m>> \in S
  <2>1. UpTo(L, s, 0) = {} /\ Without(L, s, 0) = L
    <3>1. UpTo(L, s, 0) = {}
      BY DEF UpTo
    <3>2. \A k \in 1..0 : FALSE
      OBVIOUS
    <3>3. Without(L, s, 0) = [b \in Objs |-> L[b]]
      BY <3>2, Zenon DEF Without
    <3> QED
      BY <1>1, <3>1, <3>3
  <2>2. IsGone(m, m, UpTo(L, s, 0))
    BY <2>1 DEF IsGone
  <2>3. InAny(L) = InAny(L) \ UpTo(L, s, 0)
    BY <2>1
  <2>4. Clearing(m, L, s, 0, m)
    BY <2>1, <2>2, <2>3, Zenon DEF Clearing
  <2>5. 0 \in 0..l
    BY <1>1
  <2> QED
    BY <2>4, <2>5
<1>3. ASSUME NEW n \in 0..(l - 1), NEW x, <<n, x>> \in S
      PROVE  <<n + 1, Emptied(x, s[n + 1])>> \in S
  <2>1. n + 1 \in 0..l
    BY <1>1
  <2>2. Clearing(m, L, s, n, x)
    BY <1>3
  <2>3. Clearing(m, L, s, n + 1, Emptied(x, s[n + 1]))
    BY <2>2, ClearingOn
  <2>4. Emptied(x, s[n + 1]) \in Memories
    BY <2>3, Zenon DEF Clearing
  <2> QED
    BY <2>1, <2>3, <2>4
<1>4. ASSUME NEW n \in 0..(l - 1), NEW x, <<n, x>> \in S
      PROVE  F[<<n, x>>] = Emptied(x, s[n + 1])
  <2> HIDE DEF S
  <2> QED
    BY <1>4
<1> HIDE DEF S, F
<1>e. PICK f : FoldsTo(f, l, m, F, S)
  <2>1. \A n \in 0..(l - 1) : \A x : <<n, x>> \in S => <<n + 1, F[<<n, x>>]>> \in S
    BY <1>3, <1>4
  <2> HIDE DEF l
  <2> QED
    BY <1>1, <1>2, <2>1, Folded, Zenon
<1>5. /\ f = [n \in 0..l |-> IF n = 0 THEN m ELSE F[<<n - 1, f[n - 1]>>]]
      /\ \A n \in 0..l : <<n, f[n]>> \in S
  <2> HIDE DEF l
  <2> QED
    BY <1>e, Zenon DEF FoldsTo
<1>6. f = [n \in 0..l |-> IF n = 0 THEN m ELSE Emptied(f[n - 1], s[n])]
  <2>1. ASSUME NEW n \in 0..l
        PROVE  (IF n = 0 THEN m ELSE F[<<n - 1, f[n - 1]>>]) = (IF n = 0 THEN m ELSE Emptied(f[n - 1], s[n]))
    <3>1. CASE n = 0
      BY <3>1
    <3>2. CASE n # 0
      <4> DEFINE k == n - 1
      <4>1. k \in 0..(l - 1) /\ k \in 0..l /\ k + 1 = n
        BY <1>1, <3>2
      <4> HIDE DEF k
      <4>2. F[<<k, f[k]>>] = Emptied(f[k], s[k + 1])
        BY <1>4, <1>5, <4>1
      <4> QED
        BY <3>2, <4>1, <4>2 DEF k
    <3> QED
      BY <3>1, <3>2
  <2> HIDE DEF l
  <2> QED
    BY <1>5, <2>1
<1>7. left = [n \in 0..l |-> IF n = 0 THEN m ELSE Emptied(left[n - 1], s[n])]
  BY <1>6, Zenon
<1> HIDE DEF left
<1>8. 0..l \subseteq {n \in 0..l : <<n, left[n]>> \in S}
  <2> DEFINE T == {n \in 0..l : <<n, left[n]>> \in S}
  <2>1. 0 \in T
    <3>1. 0 \in 0..l
      BY <1>1
    <3> QED
      BY <1>2, <1>7, <3>1
  <2>2. ASSUME NEW n \in 0..(l - 1), n \in T PROVE n + 1 \in T
    <3>1. n + 1 \in 0..l /\ n + 1 # 0 /\ (n + 1) - 1 = n
      BY <1>1
    <3>2. left[n + 1] = Emptied(left[n], s[n + 1])
      BY <1>7, <3>1
    <3> QED
      BY <1>3, <2>2, <3>1, <3>2
  <2> HIDE DEF T, l
  <2>3. 0..l \subseteq T
    BY <1>1, <2>1, <2>2, IntervalInduction
  <2> QED
    BY <2>3 DEF T
<1>9. Clearing(m, L, s, l, left[l])
  <2>1. l \in 0..l
    BY <1>1
  <2>2. <<l, left[l]>> \in S
    BY <1>8, <2>1
  <2> QED
    BY <2>2 DEF S
<1>10. AllEmptied(m, s) = left[l]
  BY DEF AllEmptied, left
<1> QED
  BY <1>9, <1>10, Zenon DEF Clearing, HasCleared, l

-----------------------------------------------------------------------------
(* Blocks: objects for new ones, and the order of links and numbers.         *)

\* No block stands in s twice.
Injects(s) == \A j, k \in 1..Len(s) : s[j] = s[k] => j = k

\* g has n blocks that the function has not.
IsFresh(n, g) ==
  /\ g \in Seq(Objs) /\ Len(g) = n /\ Injects(g) /\ \A k \in 1..n : g[k] \notin ToSet(natural)

\* While not all objects are taken there is one to be had.
LEMMA SpareObj ==
  ASSUME NEW A, NEW B, IsFiniteSet(A), IsFiniteSet(B), Cardinality(A) + Cardinality(B) < Cardinality(Objs)
  PROVE  Least(Objs \ (A \cup B)) \in Objs \ (A \cup B)
<1>1. Objs \ (A \cup B) # {}
  <2>1. SUFFICES ASSUME Objs \subseteq A \cup B PROVE FALSE
    OBVIOUS
  <2>2. IsFiniteSet(A \cup B) /\ Cardinality(A \cup B) = Cardinality(A) + Cardinality(B) - Cardinality(A \cap B)
    BY FS_Union
  <2>3. Cardinality(Objs) <= Cardinality(A \cup B)
    BY <2>1, <2>2, FS_Subset
  <2>4. IsFiniteSet(A \cap B)
    BY FS_Intersection
  <2>5. /\ Cardinality(A) \in Nat /\ Cardinality(B) \in Nat /\ Cardinality(A \cap B) \in Nat
        /\ Cardinality(Objs) \in Nat
    BY <2>4, ObjsAssumption, FS_CardinalityType
  <2> QED
    BY <2>2, <2>3, <2>5
<1>2. Objs \ (A \cup B) \in SUBSET Nat
  BY ObjsAssumption
<1> QED
  BY <1>1, <1>2, LeastIs

\* One object more for a duplicate.
LEMMA FreshOn ==
  ASSUME natural \in Seq(Objs), NEW n \in Nat, Len(natural) + n < Cardinality(Objs),
         NEW g, IsFresh(n, g)
  PROVE  IsFresh(n + 1, Append(g, Least(Objs \ (ToSet(natural) \cup ToSet(g)))))
<1> DEFINE A == ToSet(natural)
           B == ToSet(g)
           c == Least(Objs \ (A \cup B))
           h == Append(g, c)
<1>1. g \in Seq(Objs) /\ Len(g) = n /\ Injects(g) /\ \A k \in 1..n : g[k] \notin A
  BY Zenon DEF IsFresh
<1>2. /\ IsFiniteSet(A) /\ Cardinality(A) \in Nat /\ Cardinality(A) <= Len(natural)
      /\ IsFiniteSet(B) /\ Cardinality(B) \in Nat /\ Cardinality(B) <= n
  BY <1>1, ToSetCard
<1>3. Cardinality(A) + Cardinality(B) < Cardinality(Objs)
  <2>1. Cardinality(Objs) \in Nat /\ Len(natural) \in Nat
    BY ObjsAssumption, FS_CardinalityType
  <2> QED
    BY <1>2, <2>1
<1>4. \A x : x \in B <=> \E k \in 1..Len(g) : g[k] = x
  BY <1>1, ToSetIs
<1> HIDE DEF A, B
<1>5. c \in Objs /\ c \notin A /\ c \notin B
  BY <1>2, <1>3, SpareObj
<1> HIDE DEF c
<1>6. /\ h \in Seq(Objs) /\ Len(h) = n + 1 /\ h[n + 1] = c /\ \A k \in 1..n : h[k] = g[k]
  BY <1>1, <1>5
<1> HIDE DEF h
<1>7. \A k \in 1..(n + 1) : k \in 1..n \/ k = n + 1
  OBVIOUS
<1>8. \A k \in 1..n : g[k] # c
  BY <1>1, <1>4, <1>5
<1>9. Injects(h)
  BY <1>1, <1>6, <1>7, <1>8 DEF Injects
<1>10. \A k \in 1..(n + 1) : h[k] \notin A
  BY <1>1, <1>5, <1>6, <1>7
<1> QED
  BY <1>6, <1>9, <1>10 DEF IsFresh, A, B, c, h

\* dup_mba finds an object for every block.
LEMMA FreshIs ==
  ASSUME natural \in Seq(Objs), NEW q \in Nat, Len(natural) + q <= Cardinality(Objs)
  PROVE  IsFresh(q, Fresh(q))
<1> DEFINE Next1(g) == Append(g, Least(Objs \ (ToSet(natural) \cup ToSet(g))))
           got[n \in 0..q] == IF n = 0 THEN <<>> ELSE Next1(got[n - 1])
           S == {p \in (0..q) \X Seq(Objs) : IsFresh(p[1], p[2])}
           F == [p \in S |-> Next1(p[2])]
           e == <<>>
<1>1. <<0, e>> \in S
  <2>1. e \in Seq(Objs) /\ Len(e) = 0 /\ Injects(e)
    BY DEF Injects
  <2>2. IsFresh(0, e)
    BY <2>1 DEF IsFresh
  <2> HIDE DEF e
  <2> DEFINE p == <<0, e>>
             X == Seq(Objs)
             Y == 0..q
  <2>0. 0 \in Y /\ e \in X
    BY <2>1
  <2> HIDE DEF X, Y
  <2>3. p \in Y \X X /\ p[1] = 0 /\ p[2] = e
    BY <2>0
  <2> HIDE DEF p
  <2>4. p \in S
    BY <2>2, <2>3 DEF X, Y
  <2> QED
    BY <2>4 DEF p
<1>2. ASSUME NEW n \in 0..(q - 1), NEW x, <<n, x>> \in S PROVE <<n + 1, Next1(x)>> \in S
  <2>1. Len(natural) + n < Cardinality(Objs) /\ n \in Nat /\ n + 1 \in 0..q
    <3>1. Len(natural) \in Nat /\ Cardinality(Objs) \in Nat
      BY ObjsAssumption, FS_CardinalityType
    <3> QED
      BY <3>1
  <2>2. IsFresh(n + 1, Next1(x))
    BY <1>2, <2>1, FreshOn
  <2>3. Next1(x) \in Seq(Objs)
    BY <2>2, Zenon DEF IsFresh
  <2> HIDE DEF Next1
  <2> QED
    BY <2>1, <2>2, <2>3
<1>3. ASSUME NEW n \in 0..(q - 1), NEW x, <<n, x>> \in S PROVE F[<<n, x>>] = Next1(x)
  <2> HIDE DEF S, Next1
  <2> QED
    BY <1>3
<1> HIDE DEF S, F, e
<1>e. PICK f : FoldsTo(f, q, e, F, S)
  <2> HIDE DEF Next1
  <2>1. \A n \in 0..(q - 1) : \A x : <<n, x>> \in S => <<n + 1, F[<<n, x>>]>> \in S
    BY <1>2, <1>3
  <2> QED
    BY <1>1, <2>1, Folded, Zenon
<1>5. /\ f = [n \in 0..q |-> IF n = 0 THEN e ELSE F[<<n - 1, f[n - 1]>>]]
      /\ \A n \in 0..q : <<n, f[n]>> \in S
  BY <1>e, Zenon DEF FoldsTo
<1>6. f = [n \in 0..q |-> IF n = 0 THEN e ELSE Next1(f[n - 1])]
  <2> HIDE DEF Next1
  <2>1. ASSUME NEW n \in 0..q
        PROVE  (IF n = 0 THEN e ELSE F[<<n - 1, f[n - 1]>>]) = (IF n = 0 THEN e ELSE Next1(f[n - 1]))
    <3>1. CASE n = 0
      BY <3>1
    <3>2. CASE n # 0
      <4> DEFINE k == n - 1
      <4>1. k \in 0..(q - 1) /\ k \in 0..q /\ k + 1 = n
        BY <3>2
      <4> HIDE DEF k
      <4>2. F[<<k, f[k]>>] = Next1(f[k])
        BY <1>3, <1>5, <4>1
      <4> QED
        BY <3>2, <4>1, <4>2 DEF k
    <3> QED
      BY <3>1, <3>2
  <2> QED
    BY <1>5, <2>1
<1>7. got = [n \in 0..q |-> IF n = 0 THEN e ELSE Next1(got[n - 1])]
  BY <1>6, Zenon DEF e
<1>g. Fresh(q) = got[q]
  BY DEF Fresh, got
<1> HIDE DEF got, Next1
<1>8. 0..q \subseteq {n \in 0..q : <<n, got[n]>> \in S}
  <2> DEFINE T == {n \in 0..q : <<n, got[n]>> \in S}
  <2>1. 0 \in T
    BY <1>1, <1>7
  <2>2. ASSUME NEW n \in 0..(q - 1), n \in T PROVE n + 1 \in T
    <3>1. n + 1 \in 0..q /\ n + 1 # 0 /\ (n + 1) - 1 = n
      OBVIOUS
    <3>2. got[n + 1] = Next1(got[n])
      BY <1>7, <3>1
    <3> QED
      BY <1>2, <2>2, <3>1, <3>2
  <2> HIDE DEF T
  <2>3. 0..q \subseteq T
    BY <2>1, <2>2, IntervalInduction
  <2> QED
    BY <2>3 DEF T
<1>9. IsFresh(q, got[q])
  <2>1. <<q, got[q]>> \in S
    BY <1>8
  <2> QED
    BY <2>1 DEF S
<1> QED
  BY <1>g, <1>9

\* The links and numbers are those of the order s.
Ordered(s, nx, pv, nr) ==
  \A n \in 1..Len(s) :
    /\ nr[s[n]] = n - 1
    /\ nx[s[n]] = IF n = Len(s) THEN NoObj ELSE s[n + 1]
    /\ pv[s[n]] = IF n = 1 THEN NoObj ELSE s[n - 1]

\* Links between blocks.
Links == [Objs -> Objs \cup {NoObj}]

\* No block is null.
LEMMA NoObjIs == NoObj \notin Objs
BY ObjsAssumption

\* A block has one place in an order.
LEMMA IndexIs ==
  ASSUME NEW s, Injects(s), NEW k \in 1..Len(s)
  PROVE  Index(s, s[k]) = k
<1>1. \E n \in 1..Len(s) : s[n] = s[k]
  OBVIOUS
<1>2. Index(s, s[k]) \in 1..Len(s) /\ s[Index(s, s[k])] = s[k]
  BY <1>1, Zenon DEF Index
<1> QED
  BY <1>2, Zenon DEF Injects

\* What LinkedNext, LinkedPrev and Numbered make of old links and numbers.
Relinked(s, f, g, h) ==
  /\ LinkedNext(s, f) \in Links /\ LinkedPrev(s, g) \in Links /\ Numbered(s, h) \in [Objs -> Nat]
  /\ Ordered(s, LinkedNext(s, f), LinkedPrev(s, g), Numbered(s, h))
  /\ \A b \in Objs : b \notin ToSet(s) =>
       LinkedNext(s, f)[b] = f[b] /\ LinkedPrev(s, g)[b] = g[b] /\ Numbered(s, h)[b] = h[b]

\* They are in order, and what is not of the order keeps its own.
LEMMA RelinkedIs ==
  ASSUME NEW s \in Seq(Objs), Injects(s), NEW f \in Links, NEW g \in Links, NEW h \in [Objs -> Nat]
  PROVE  Relinked(s, f, g, h)
<1> DEFINE n == Len(s)
           nx == LinkedNext(s, f)
           pv == LinkedPrev(s, g)
           nr == Numbered(s, h)
<1>1. n \in Nat /\ \A k \in 1..n : s[k] \in Objs
  OBVIOUS
<1>2. \A b : b \in ToSet(s) <=> \E k \in 1..n : s[k] = b
  BY ToSetIs
<1>3. \A k \in 1..n : s[k] \in ToSet(s)
  BY <1>2
<1>4. \A k \in 1..n : Index(s, s[k]) = k
  BY IndexIs
<1>5. ASSUME NEW b \in ToSet(s) PROVE b \in Objs /\ Index(s, b) \in 1..n
  BY <1>1, <1>2, <1>4
<1> HIDE DEF n
<1>6. /\ \A b \in Objs : nx[b] = IF b \notin ToSet(s) THEN f[b]
                                 ELSE IF Index(s, b) = n THEN NoObj ELSE s[Index(s, b) + 1]
      /\ \A b \in Objs : pv[b] = IF b \notin ToSet(s) THEN g[b]
                                 ELSE IF Index(s, b) = 1 THEN NoObj ELSE s[Index(s, b) - 1]
      /\ \A b \in Objs : nr[b] = IF b \in ToSet(s) THEN Index(s, b) - 1 ELSE h[b]
  BY Zenon DEF LinkedNext, LinkedPrev, Numbered, n
<1>7. nx \in Links
  <2>1. ASSUME NEW b \in Objs PROVE nx[b] \in Objs \cup {NoObj}
    <3>1. CASE b \notin ToSet(s)
      BY <1>6, <3>1 DEF Links
    <3>2. CASE b \in ToSet(s)
      <4> DEFINE k == Index(s, b)
      <4>1. k \in 1..n
        BY <1>5, <3>2
      <4>2. nx[b] = IF k = n THEN NoObj ELSE s[k + 1]
        BY <1>6, <3>2, Zenon
      <4> HIDE DEF k
      <4>3. k # n => k + 1 \in 1..n
        BY <1>1, <4>1
      <4> QED
        BY <1>1, <4>2, <4>3
    <3> QED
      BY <3>1, <3>2
  <2>2. nx = [b \in Objs |-> nx[b]]
    BY DEF LinkedNext
  <2> HIDE DEF nx
  <2> QED
    BY <2>1, <2>2, Zenon DEF Links
<1>8. pv \in Links
  <2>1. ASSUME NEW b \in Objs PROVE pv[b] \in Objs \cup {NoObj}
    <3>1. CASE b \notin ToSet(s)
      BY <1>6, <3>1 DEF Links
    <3>2. CASE b \in ToSet(s)
      <4> DEFINE k == Index(s, b)
      <4>1. k \in 1..n
        BY <1>5, <3>2
      <4>2. pv[b] = IF k = 1 THEN NoObj ELSE s[k - 1]
        BY <1>6, <3>2, Zenon
      <4> HIDE DEF k
      <4>3. k # 1 => k - 1 \in 1..n
        BY <1>1, <4>1
      <4> QED
        BY <1>1, <4>2, <4>3
    <3> QED
      BY <3>1, <3>2
  <2>2. pv = [b \in Objs |-> pv[b]]
    BY DEF LinkedPrev
  <2> HIDE DEF pv
  <2> QED
    BY <2>1, <2>2, Zenon DEF Links
<1>9. nr \in [Objs -> Nat]
  <2>1. ASSUME NEW b \in Objs PROVE nr[b] \in Nat
    <3>1. CASE b \notin ToSet(s)
      BY <1>6, <3>1
    <3>2. CASE b \in ToSet(s)
      <4>1. Index(s, b) \in 1..n
        BY <1>5, <3>2
      <4> QED
        BY <1>1, <1>6, <3>2, <4>1
    <3> QED
      BY <3>1, <3>2
  <2>2. nr = [b \in Objs |-> nr[b]]
    BY DEF Numbered
  <2> HIDE DEF nr
  <2> QED
    BY <2>1, <2>2, Zenon
<1>10. Ordered(s, nx, pv, nr)
  <2>1. ASSUME NEW k \in 1..Len(s)
        PROVE  /\ nr[s[k]] = k - 1 /\ nx[s[k]] = IF k = Len(s) THEN NoObj ELSE s[k + 1]
               /\ pv[s[k]] = IF k = 1 THEN NoObj ELSE s[k - 1]
    <3>1. k \in 1..n /\ s[k] \in Objs /\ s[k] \in ToSet(s) /\ Index(s, s[k]) = k
      BY <1>1, <1>3, <1>4 DEF n
    <3> QED
      BY <1>6, <3>1, ZenonT(30) DEF n
  <2> HIDE DEF nx, pv, nr
  <2> QED
    BY <2>1, Zenon DEF Ordered
<1>11. \A b \in Objs : b \notin ToSet(s) => nx[b] = f[b] /\ pv[b] = g[b] /\ nr[b] = h[b]
  BY <1>6, Zenon
<1> QED
  BY <1>7, <1>8, <1>9, <1>10, <1>11, Zenon DEF Relinked

\* regenerate_natural finds the order the links are in.
LEMMA RegeneratedIs ==
  ASSUME NEW s \in Seq(Objs), Len(s) > 0, NEW links, \A k \in 1..(Len(s) - 1) : links[s[k]] = s[k + 1]
  PROVE  Regenerated(s[1], links, Len(s)) = s
<1> DEFINE q == Len(s)
           first == s[1]
           at[n \in 1..q] == IF n = 1 THEN <<first>> ELSE Append(at[n - 1], links[at[n - 1][n - 1]])
           f == [n \in 1..q |-> SubSeq(s, 1, n)]
<1>1. q \in Nat /\ q > 0
  OBVIOUS
<1>2. ASSUME NEW n \in 1..q
      PROVE  SubSeq(s, 1, n) = IF n = 1 THEN <<first>>
                               ELSE Append(SubSeq(s, 1, n - 1), links[SubSeq(s, 1, n - 1)[n - 1]])
  <2>1. CASE n = 1
    <3> DEFINE t == SubSeq(s, 1, 1)
               u == <<first>>
    <3>1. /\ t \in Seq(Objs) /\ Len(t) = 1 /\ t[1] = s[1]
          /\ u \in Seq(Objs) /\ Len(u) = 1 /\ u[1] = s[1]
      BY <1>1
    <3> HIDE DEF t, u
    <3>2. \A i \in 1..Len(u) : t[i] = u[i]
      BY <3>1
    <3>3. t = u
      BY <3>1, <3>2, SameSeq
    <3> QED
      BY <2>1, <3>3 DEF t, u
  <2>2. CASE n # 1
    <3> DEFINE k == n - 1
               u == SubSeq(s, 1, k)
               t == SubSeq(s, 1, n)
               c == links[u[k]]
    <3>1. k \in 1..(q - 1) /\ n = k + 1
      BY <1>1, <2>2
    <3>2. u \in Seq(Objs) /\ Len(u) = k /\ \A i \in 1..k : u[i] = s[i]
      BY <3>1
    <3>3. t \in Seq(Objs) /\ Len(t) = n /\ \A i \in 1..n : t[i] = s[i]
      BY <1>1
    <3> HIDE DEF k, u, t
    <3>4. c = s[n] /\ c \in Objs
      BY <3>1, <3>2
    <3> HIDE DEF c
    <3> DEFINE v == Append(u, c)
    <3>5. v \in Seq(Objs) /\ Len(v) = k + 1 /\ v[k + 1] = c /\ \A i \in 1..k : v[i] = u[i]
      BY <3>2, <3>4
    <3> HIDE DEF v
    <3>6. ASSUME NEW i \in 1..Len(v) PROVE t[i] = v[i]
      BY <3>1, <3>2, <3>3, <3>4, <3>5
    <3>7. t = v
      BY <3>1, <3>3, <3>5, <3>6, SameSeq
    <3> QED
      BY <2>2, <3>7 DEF t, v, c, u, k
  <2> QED
    BY <2>1, <2>2
<1>3. ASSUME NEW n \in 1..q
      PROVE  f[n] = IF n = 1 THEN <<first>> ELSE Append(f[n - 1], links[f[n - 1][n - 1]])
  <2>1. n # 1 => n - 1 \in 1..q
    BY <1>1
  <2>2. f[n] = SubSeq(s, 1, n) /\ (n # 1 => f[n - 1] = SubSeq(s, 1, n - 1))
    BY <2>1, Zenon
  <2> QED
    BY <1>2, <2>2, Zenon
<1>4. f = [n \in 1..q |-> f[n]]
  OBVIOUS
<1> HIDE DEF f, first
<1>5. f = [n \in 1..q |-> IF n = 1 THEN <<first>> ELSE Append(f[n - 1], links[f[n - 1][n - 1]])]
  <2> HIDE DEF q
  <2> QED
    BY <1>3, <1>4, Zenon
<1>6. at = [n \in 1..q |-> IF n = 1 THEN <<first>> ELSE Append(at[n - 1], links[at[n - 1][n - 1]])]
  <2> HIDE DEF q
  <2> QED
    BY <1>5, Zenon
<1>7. Regenerated(first, links, q) = at[q]
  BY DEF Regenerated, at
<1> HIDE DEF at
<1> DEFINE T == {d \in 0..(q - 1) : at[d + 1] = SubSeq(s, 1, d + 1)}
<1>8. 0 \in T
  <2>1. 1 \in 1..q /\ 0 \in 0..(q - 1) /\ 0 + 1 = 1
    BY <1>1
  <2>2. at[1] = <<first>>
    BY <1>6, <2>1
  <2> QED
    BY <1>2, <2>1, <2>2
<1>9. ASSUME NEW d \in 0..((q - 1) - 1), d \in T PROVE d + 1 \in T
  <2> DEFINE n == (d + 1) + 1
  <2>1. n \in 1..q /\ n # 1 /\ n - 1 = d + 1 /\ d + 1 \in 0..(q - 1)
    BY <1>1
  <2>2. at[d + 1] = SubSeq(s, 1, d + 1)
    BY <1>9
  <2>n. n = (d + 1) + 1
    OBVIOUS
  <2> HIDE DEF n
  <2>3. at[n] = Append(at[n - 1], links[at[n - 1][n - 1]])
    BY <1>6, <2>1
  <2>4. at[n] = SubSeq(s, 1, n)
    BY <1>2, <2>1, <2>2, <2>3
  <2> QED
    BY <2>1, <2>4, <2>n
<1>10. q - 1 \in T
  <2>1. q - 1 \in Nat /\ q - 1 \in 0..(q - 1)
    BY <1>1
  <2> DEFINE p == q - 1
  <2>2. p \in Nat /\ \A d \in 0..(p - 1) : d \in T => d + 1 \in T
    BY <1>9, <2>1
  <2> HIDE DEF T, p
  <2>3. 0..p \subseteq T
    BY <1>8, <2>2, IntervalInduction
  <2> QED
    BY <2>1, <2>3 DEF p
<1>11. at[q] = SubSeq(s, 1, q)
  <2>1. (q - 1) + 1 = q
    BY <1>1
  <2> QED
    BY <1>10, <2>1
<1>12. SubSeq(s, 1, Len(s)) = s
  OBVIOUS
<1> QED
  BY <1>7, <1>11, <1>12 DEF first

\* Order t is s with block b put in behind the a-th, linked and numbered.
HasCreated(s, nx, pv, nr, a, b) ==
  LET t == InsertAt(s, a + 1, b)
      links == [nx EXCEPT ![b] = nx[s[a]], ![s[a]] = b]
      back == Set([pv EXCEPT ![b] = s[a]], nx[s[a]], b)
      numbers == Numbered(t, nr)
  IN /\ t \in Seq(Objs) /\ Len(t) = Len(s) + 1 /\ Injects(t)
     /\ links \in Links /\ back \in Links /\ numbers \in [Objs -> Nat]
     /\ Ordered(t, links, back, numbers) /\ Regenerated(s[1], links, Len(s) + 1) = t
     /\ ToSet(t) = ToSet(s) \cup {b}
     /\ \A k \in 1..Len(s) : numbers[s[k]] \in 0..Len(s) /\ t[numbers[s[k]] + 1] = s[k]

\* Where the new block and the old ones are.
LEMMA InsertedOrder ==
  ASSUME NEW s \in Seq(Objs), Injects(s), NEW a \in 1..Len(s), NEW b \in Objs \ ToSet(s)
  PROVE  LET t == InsertAt(s, a + 1, b)
         IN /\ t \in Seq(Objs) /\ Len(t) = Len(s) + 1 /\ Injects(t)
            /\ \A j \in 1..(Len(s) + 1) : t[j] = IF j < a + 1 THEN s[j] ELSE IF j = a + 1 THEN b ELSE s[j - 1]
            /\ ToSet(t) = ToSet(s) \cup {b}
<1> DEFINE n == Len(s)
           k == a + 1
           t == InsertAt(s, k, b)
<1>1. n \in Nat /\ a \in 1..n /\ k \in 1..(Len(s) + 1) /\ k = a + 1 /\ b \in Objs
  OBVIOUS
<1> HIDE DEF k
<1>2. t \in Seq(Objs) /\ IsInsertAt(s, k, b, t)
  BY <1>1, InsertAtIs
<1> HIDE DEF t
<1>3. /\ Len(t) = n + 1
      /\ \A j \in 1..(n + 1) : t[j] = IF j < k THEN s[j] ELSE IF j = k THEN b ELSE s[j - 1]
  BY <1>2, Zenon DEF IsInsertAt
<1>4. \A x : x \in ToSet(s) <=> \E j \in 1..n : s[j] = x
  BY ToSetIs
<1>5. \A x : x \in ToSet(t) <=> \E j \in 1..(n + 1) : t[j] = x
  BY <1>2, <1>3, ToSetIs
<1>6. /\ \A j \in 1..n : s[j] # b
      /\ \A i, j \in 1..n : s[i] = s[j] => i = j
  BY <1>4 DEF Injects
<1> HIDE DEF n
<1>7. Injects(t)
  <2> SUFFICES ASSUME NEW i \in 1..(n + 1), NEW j \in 1..(n + 1), t[i] = t[j], i < j PROVE FALSE
    BY <1>1, <1>3 DEF Injects
  <2>4. CASE j < k
    <3>1. i \in 1..n /\ j \in 1..n /\ t[i] = s[i] /\ t[j] = s[j] /\ i # j
      BY <1>1, <1>3, <2>4
    <3> QED
      BY <1>6, <3>1
  <2>5. CASE j = k
    BY <1>1, <1>3, <1>6, <2>5
  <2>6. CASE j > k
    <3>1. j - 1 \in 1..n /\ t[j] = s[j - 1]
      BY <1>1, <1>3, <2>6
    <3>2. CASE i = k
      BY <1>1, <1>3, <1>6, <3>1, <3>2
    <3>3. CASE i < k
      <4>1. i \in 1..n /\ t[i] = s[i] /\ i # j - 1
        BY <1>1, <1>3, <2>6, <3>3
      <4> QED
        BY <1>6, <3>1, <4>1
    <3>4. CASE i > k
      <4>1. i - 1 \in 1..n /\ t[i] = s[i - 1] /\ i - 1 # j - 1
        BY <1>1, <1>3, <3>4
      <4> QED
        BY <1>6, <3>1, <4>1
    <3> QED
      BY <1>1, <3>2, <3>3, <3>4
  <2> QED
    BY <1>1, <2>4, <2>5, <2>6
<1>8. ToSet(t) = ToSet(s) \cup {b}
  <2>1. ASSUME NEW x \in ToSet(t) PROVE x \in ToSet(s) \cup {b}
    <3>1. PICK j \in 1..(n + 1) : t[j] = x
      BY <1>5
    <3>2. CASE j < k
      <4>1. j \in 1..n /\ t[j] = s[j]
        BY <1>1, <1>3, <3>2
      <4> QED
        BY <1>4, <3>1, <4>1
    <3>3. CASE j = k
      BY <1>3, <3>1, <3>3
    <3>4. CASE j > k
      <4>1. j - 1 \in 1..n /\ t[j] = s[j - 1]
        BY <1>1, <1>3, <3>4
      <4> QED
        BY <1>4, <3>1, <4>1
    <3> QED
      BY <1>1, <3>2, <3>3, <3>4
  <2>2. b \in ToSet(t)
    <3>1. k \in 1..(n + 1) /\ t[k] = b
      BY <1>1, <1>3
    <3> QED
      BY <1>5, <3>1
  <2>3. ASSUME NEW x \in ToSet(s) PROVE x \in ToSet(t)
    <3>1. PICK j \in 1..n : s[j] = x
      BY <1>4
    <3>2. CASE j < k
      <4>1. j \in 1..(n + 1) /\ t[j] = x
        BY <1>1, <1>3, <3>1, <3>2
      <4> QED
        BY <1>5, <4>1
    <3>3. CASE ~(j < k)
      <4>1. j + 1 \in 1..(n + 1) /\ ~(j + 1 < k) /\ j + 1 # k /\ (j + 1) - 1 = j
        BY <1>1, <3>3
      <4>2. t[j + 1] = x
        BY <1>3, <3>1, <4>1
      <4> QED
        BY <1>5, <4>1, <4>2
    <3> QED
      BY <3>2, <3>3
  <2> QED
    BY <2>1, <2>2, <2>3
<1> QED
  BY <1>2, <1>3, <1>7, <1>8 DEF t, k, n

\* create_new_block_for_preopt: links, numbers and order agree.
LEMMA CreatedIs ==
  ASSUME NEW s \in Seq(Objs), Injects(s), NEW a \in 1..Len(s), NEW b \in Objs \ ToSet(s),
         NEW nx \in Links, NEW pv \in Links, NEW nr \in [Objs -> Nat], Ordered(s, nx, pv, nr)
  PROVE  HasCreated(s, nx, pv, nr, a, b)
<1> DEFINE t == InsertAt(s, a + 1, b)
           n == Len(s)
           after == s[a]
           links == [nx EXCEPT ![b] = nx[after], ![after] = b]
           back == Set([pv EXCEPT ![b] = after], nx[after], b)
           numbers == Numbered(t, nr)
<1>1. /\ t \in Seq(Objs) /\ Len(t) = n + 1 /\ Injects(t)
      /\ \A j \in 1..(n + 1) : t[j] = IF j < a + 1 THEN s[j] ELSE IF j = a + 1 THEN b ELSE s[j - 1]
      /\ ToSet(t) = ToSet(s) \cup {b}
  BY InsertedOrder
<1>2. /\ n \in Nat /\ a \in 1..n /\ b \in Objs /\ after \in Objs /\ \A j \in 1..n : s[j] \in Objs
      /\ \A i, j \in 1..n : s[i] = s[j] => i = j
  BY DEF Injects
<1>3. \A j \in 1..n : s[j] # b /\ s[j] # NoObj
  <2>1. \A j \in 1..n : s[j] \in ToSet(s)
    BY ToSetIs
  <2> QED
    BY <1>2, <2>1, NoObjIs
<1>4. /\ \A j \in 1..n : nx[s[j]] = IF j = n THEN NoObj ELSE s[j + 1]
      /\ \A j \in 1..n : pv[s[j]] = IF j = 1 THEN NoObj ELSE s[j - 1]
  BY Zenon DEF Ordered
<1> HIDE DEF t
<1>5. Relinked(t, nx, pv, nr)
  BY <1>1, RelinkedIs
<1>6. /\ numbers \in [Objs -> Nat]
      /\ Ordered(t, LinkedNext(t, nx), LinkedPrev(t, pv), numbers)
  BY <1>5, Zenon DEF Relinked
<1> HIDE DEF numbers, n
<1>7. \A j \in 1..(n + 1) : numbers[t[j]] = j - 1
  BY <1>1, <1>6, Zenon DEF Ordered
<1>8. nx[after] \in Objs \cup {NoObj} /\ after # b /\ nx[after] = IF a = n THEN NoObj ELSE s[a + 1]
  BY <1>2, <1>3, <1>4 DEF Links
<1>s. after = s[a]
  OBVIOUS
<1> HIDE DEF after
<1>9. links \in Links /\ back \in Links
  <2>1. links \in Links
    BY <1>2, <1>8 DEF Links
  <2>2. [pv EXCEPT ![b] = after] \in Links
    BY <1>2 DEF Links
  <2>3. back \in Links
    BY <1>2, <2>2 DEF Links, Set
  <2> QED
    BY <2>1, <2>3
<1>10. /\ \A c \in Objs : links[c] = IF c = after THEN b ELSE IF c = b THEN nx[after] ELSE nx[c]
       /\ \A c \in Objs : back[c] = IF c = nx[after] THEN b ELSE IF c = b THEN after ELSE pv[c]
  <2>1. \A c \in Objs : links[c] = IF c = after THEN b ELSE IF c = b THEN nx[after] ELSE nx[c]
    BY <1>2, <1>8 DEF Links
  <2>2. \A c \in Objs : back[c] = IF c = nx[after] THEN b ELSE IF c = b THEN after ELSE pv[c]
    BY <1>2, <1>8 DEF Links, Set
  <2> QED
    BY <2>1, <2>2
<1> HIDE DEF links, back
<1>11. ASSUME NEW j \in 1..(n + 1)
       PROVE  /\ links[t[j]] = IF j = n + 1 THEN NoObj ELSE t[j + 1]
              /\ back[t[j]] = IF j = 1 THEN NoObj ELSE t[j - 1]
  <2>1. CASE j < a
    <3>1. j \in 1..n /\ j + 1 \in 1..n /\ j + 1 < a + 1 /\ t[j] = s[j] /\ t[j + 1] = s[j + 1] /\ j # n /\ j # n + 1
      BY <1>1, <1>2, <2>1, SMTT(30)
    <3>2. s[j] # after /\ s[j] # b /\ s[j] # nx[after] /\ s[j] \in Objs
      <4>1. a # n => a + 1 \in 1..n /\ a + 1 # j
        BY <1>2, <2>1
      <4> QED
        BY <1>2, <1>3, <1>8, <1>s, <2>1, <3>1, <4>1
    <3>3. links[s[j]] = s[j + 1] /\ back[s[j]] = IF j = 1 THEN NoObj ELSE s[j - 1]
      BY <1>4, <1>10, <3>1, <3>2
    <3>4. j # 1 => t[j - 1] = s[j - 1]
      <4>1. j # 1 => j - 1 \in 1..(n + 1) /\ j - 1 < a + 1
        BY <1>2, <2>1
      <4> QED
        BY <1>1, <4>1
    <3> QED
      BY <3>1, <3>3, <3>4
  <2>2. CASE j = a
    <3>1. j \in 1..n /\ t[j] = after /\ t[j + 1] = b /\ j # n + 1
      BY <1>1, <1>2, <1>s, <2>2
    <3>2. after # nx[after]
      <4>1. a # n => a + 1 \in 1..n /\ a + 1 # a
        BY <1>2
      <4> QED
        BY <1>2, <1>3, <1>8, <1>s, <4>1
    <3>3. links[after] = b /\ back[after] = IF j = 1 THEN NoObj ELSE s[j - 1]
      BY <1>2, <1>4, <1>8, <1>10, <1>s, <2>2, <3>2
    <3>4. j # 1 => t[j - 1] = s[j - 1]
      BY <1>1, <1>2, <2>2, SMTT(30)
    <3> QED
      BY <3>1, <3>3, <3>4
  <2>3. CASE j = a + 1
    <3>1. t[j] = b /\ t[j - 1] = after /\ j # 1
      BY <1>1, <1>2, <1>s, <2>3
    <3>2. links[b] = nx[after]
      BY <1>2, <1>8, <1>10
    <3>3. back[b] = after
      <4>1. a # n => a + 1 \in 1..n
        BY <1>2
      <4>2. b # nx[after]
        BY <1>2, <1>3, <1>8, <4>1, NoObjIs
      <4> QED
        BY <1>2, <1>10, <4>2
    <3>4. a # n => j # n + 1 /\ t[j + 1] = s[a + 1]
      <4> SUFFICES ASSUME a # n PROVE j # n + 1 /\ t[j + 1] = s[a + 1]
        OBVIOUS
      <4>1. j + 1 \in 1..(n + 1) /\ ~(j + 1 < a + 1) /\ j + 1 # a + 1 /\ (j + 1) - 1 = a + 1 /\ j # n + 1
        BY <1>2, <2>3
      <4> QED
        BY <1>1, <4>1
    <3>5. a = n => j = n + 1
      BY <2>3
    <3> QED
      BY <1>8, <3>1, <3>2, <3>3, <3>4, <3>5
  <2>4. CASE j > a + 1
    <3> DEFINE i == j - 1
    <3>1. i \in 1..n /\ i > a /\ j = i + 1 /\ t[j] = s[i] /\ j # 1
      BY <1>1, <1>2, <2>4, SMTT(30)
    <3> HIDE DEF i
    <3>2. s[i] # after /\ s[i] # b /\ s[i] \in Objs
      BY <1>2, <1>3, <1>s, <3>1
    <3>3. links[s[i]] = IF i = n THEN NoObj ELSE s[i + 1]
      BY <1>4, <1>10, <3>1, <3>2
    <3>4. i # n => t[j + 1] = s[i + 1]
      <4> SUFFICES ASSUME i # n PROVE t[j + 1] = s[i + 1]
        OBVIOUS
      <4>1. j + 1 \in 1..(n + 1) /\ ~(j + 1 < a + 1) /\ j + 1 # a + 1 /\ (j + 1) - 1 = i + 1
        BY <1>2, <3>1
      <4> QED
        BY <1>1, <4>1
    <3>5. back[s[i]] = t[j - 1]
      <4>1. CASE i = a + 1
        <5>1. a # n /\ j - 1 = a + 1
          BY <1>2, <3>1, <4>1
        <5>2. s[i] = nx[after] /\ t[j - 1] = b
          BY <1>1, <1>2, <1>8, <4>1, <5>1
        <5> QED
          BY <1>10, <3>2, <5>2
      <4>2. CASE i # a + 1
        <5>1. s[i] # nx[after]
          <6>1. a # n => a + 1 \in 1..n
            BY <1>2
          <6> QED
            BY <1>2, <1>3, <1>8, <3>1, <4>2, <6>1
        <5>2. back[s[i]] = s[i - 1]
          <6>1. i # 1
            BY <1>2, <3>1
          <6> QED
            BY <1>4, <1>10, <3>1, <3>2, <5>1, <6>1
        <5>3. j - 1 \in 1..(n + 1) /\ ~(j - 1 < a + 1) /\ j - 1 # a + 1 /\ (j - 1) - 1 = i - 1
          BY <1>2, <3>1, <4>2
        <5>4. t[j - 1] = s[i - 1]
          BY <1>1, <5>3
        <5> QED
          BY <5>2, <5>4
      <4> QED
        BY <4>1, <4>2
    <3>6. i = n <=> j = n + 1
      BY <1>2, <3>1
    <3> QED
      BY <3>1, <3>3, <3>4, <3>5, <3>6
  <2> QED
    BY <1>2, <2>1, <2>2, <2>3, <2>4
<1>12. Ordered(t, links, back, numbers)
  BY <1>1, <1>7, <1>11, Zenon DEF Ordered
<1>13. Regenerated(s[1], links, n + 1) = t
  <2>1. s[1] = t[1] /\ Len(t) > 0 /\ Len(t) = n + 1
    BY <1>1, <1>2
  <2>2. \A k \in 1..(Len(t) - 1) : links[t[k]] = t[k + 1]
    <3> TAKE k \in 1..(Len(t) - 1)
    <3>1. k \in 1..(n + 1) /\ k # n + 1
      BY <1>1, <1>2
    <3> QED
      BY <1>11, <3>1
  <2>3. Regenerated(t[1], links, Len(t)) = t
    BY <1>1, <2>1, <2>2, RegeneratedIs
  <2> QED
    BY <2>1, <2>3
<1>14. ASSUME NEW k \in 1..n PROVE numbers[s[k]] \in 0..n /\ t[numbers[s[k]] + 1] = s[k]
  <2>1. CASE k < a + 1
    <3>1. k \in 1..(n + 1) /\ t[k] = s[k]
      BY <1>1, <1>2, <2>1
    <3>2. numbers[s[k]] = k - 1
      BY <1>7, <3>1
    <3>3. k - 1 \in 0..n /\ (k - 1) + 1 = k
      BY <1>2
    <3> QED
      BY <3>1, <3>2, <3>3
  <2>2. CASE ~(k < a + 1)
    <3>1. k + 1 \in 1..(n + 1) /\ ~(k + 1 < a + 1) /\ k + 1 # a + 1 /\ (k + 1) - 1 = k /\ k \in 0..n
      BY <1>2, <2>2
    <3>2. t[k + 1] = s[k]
      BY <1>1, <3>1
    <3>3. numbers[s[k]] = k
      BY <1>7, <3>1, <3>2
    <3> QED
      BY <3>1, <3>2, <3>3
  <2> QED
    BY <2>1, <2>2
<1> QED
  BY <1>1, <1>6, <1>9, <1>12, <1>13, <1>14, Zenon DEF HasCreated, t, n, links, back, numbers, after

-----------------------------------------------------------------------------
(* A function as it is handed over.                                          *)

\* All lists are empty.
Nothing == [b \in Objs |-> <<>>]

\* Nothing in any list is nothing.
LEMMA NothingIs ==
  /\ Nothing \in [Objs -> Seq(Insns)] /\ InAny(Nothing) = {}
  /\ \A b \in Objs : Nothing[b] = <<>> /\ Len(Nothing[b]) = 0 /\ 1..Len(Nothing[b]) = {}
<1> DEFINE e == <<>>
<1>1. e \in Seq(Insns) /\ Len(e) = 0 /\ 1..Len(e) = {}
  OBVIOUS
<1>2. Nothing = [b \in Objs |-> e]
  BY DEF Nothing
<1> HIDE DEF e
<1>3. /\ Nothing \in [Objs -> Seq(Insns)]
      /\ \A b \in Objs : Nothing[b] = e /\ Len(Nothing[b]) = 0 /\ 1..Len(Nothing[b]) = {}
  BY <1>1, <1>2
<1>4. InAny(Nothing) = {}
  BY <1>3 DEF InAny
<1> QED
  BY <1>3, <1>4 DEF e

\* Empty blocks have nothing in their lists.
LEMMA BlankIs == Blank \in Memories /\ Holds(Blank, Nothing) /\ Live(Blank) = {} /\ \A i \in Insns : Blank.cases[i] = <<>>
<1>1. Blank \in Memories
  <2> DEFINE e == <<>>
             f == {}
             o == "free"
  <2>1. e \in Seq(Nat) /\ f \in SUBSET {"push", "changed"} /\ o \in Opcodes /\ Null \in Pointers
    BY DEF Opcodes, Pointers
  <2>2. Blank = [head |-> [b \in Objs |-> Null], tail |-> [b \in Objs |-> Null],
                 flags |-> [b \in Objs |-> f],
                 next |-> [i \in Insns |-> Null], prev |-> [i \in Insns |-> Null],
                 op |-> [i \in Insns |-> o], ea |-> [i \in Insns |-> NoEa],
                 cases |-> [i \in Insns |-> e]]
    BY DEF Blank
  <2> HIDE DEF e, f, o
  <2>3. /\ [b \in Objs |-> Null] \in [Objs -> Pointers] /\ [i \in Insns |-> Null] \in [Insns -> Pointers]
        /\ [b \in Objs |-> f] \in [Objs -> SUBSET {"push", "changed"}]
        /\ [i \in Insns |-> o] \in [Insns -> Opcodes]
        /\ [i \in Insns |-> NoEa] \in [Insns -> Eas \cup {NoEa}]
        /\ [i \in Insns |-> e] \in [Insns -> Seq(Nat)]
    BY <2>1
  <2> QED
    BY <2>2, <2>3 DEF Memories
<1>2. /\ \A b \in Objs : Blank.head[b] = Null /\ Blank.tail[b] = Null
      /\ \A i \in Insns : /\ Blank.next[i] = Null /\ Blank.prev[i] = Null
                          /\ Blank.op[i] = "free" /\ Blank.cases[i] = <<>>
  BY DEF Blank
<1>3. Live(Blank) = {}
  BY <1>2 DEF Live
<1>4. Apart(Nothing)
  BY NothingIs, Zenon DEF Apart
<1>5. ASSUME NEW b \in Objs PROVE Chained(Blank, b, Nothing[b])
  <2>1. \A k : Nth(Nothing[b], k) = Null
    BY NothingIs, Zenon DEF Nth
  <2>2. Len(Nothing[b]) = 0 /\ 1..Len(Nothing[b]) = {}
    BY NothingIs
  <2> QED
    BY <1>2, <2>1, <2>2, Zenon DEF Chained
<1>6. Holds(Blank, Nothing)
  BY <1>2, <1>4, <1>5, NothingIs, Zenon DEF Holds
<1> QED
  BY <1>1, <1>2, <1>3, <1>6

\* Memory r, with the lists N, is that of a function that has nothing but the
\* table t, if it has that.
HasTable(t, r, N) ==
  /\ r \in Memories /\ Holds(r, N) /\ Live(r) = InAny(N) /\ Cardinality(Live(r)) <= MaxInsns
  /\ \A b \in Objs : b \notin ToSet(First) => N[b] = <<>>
  /\ \A i \in Insns : /\ r.op[i] # "jtbl" => r.cases[i] = <<>>
                      /\ r.cases[i] \in {<<>>, t}

\* The first blocks.
LEMMA FirstIs ==
  /\ First \in Seq(Objs) /\ Injects(First) /\ Len(First) \in Nat /\ Len(First) > 0
  /\ Last(First) \in Objs /\ Last(First) \in ToSet(First) /\ Len(First) <= MaxQty
<1>1. First \in Seq(Objs) /\ First # <<>> /\ IsInjective(First) /\ Len(First) <= MaxQty
  BY FirstAssumption, BoundsAssumption
<1>2. Len(First) \in Nat /\ Len(First) > 0 /\ DOMAIN First = 1..Len(First)
  BY <1>1
<1>3. Injects(First)
  BY <1>1, <1>2 DEF IsInjective, Injects
<1>4. Last(First) = First[Len(First)] /\ Len(First) \in 1..Len(First)
  BY <1>1, <1>2 DEF Last
<1>5. Last(First) \in ToSet(First)
  BY <1>1, <1>4, ToSetIs
<1>6. Last(First) \in Objs
  BY <1>1, <1>4
<1> QED
  BY <1>1, <1>2, <1>3, <1>5, <1>6

\* There is room for one instruction, and for two times MaxInsns.
LEMMA RoomIs ==
  /\ MaxInsns \in Nat /\ MaxInsns >= 1 /\ 2 * MaxInsns <= Cardinality(Insns) /\ Cardinality(Insns) \in Nat
  /\ Least(Insns) \in Insns /\ Least(Eas) \in Eas
<1>1. /\ MaxInsns \in Nat /\ MaxInsns >= 1 /\ 2 * MaxInsns <= Cardinality(Insns) /\ Cardinality(Insns) \in Nat
  BY BoundsAssumption, InsnsAssumption, FS_CardinalityType
<1>2. Insns # {}
  BY <1>1, FS_EmptySet
<1>3. Least(Insns) \in Insns
  BY <1>2, InsnsAssumption, LeastIs
<1>4. Least(Eas) \in Eas
  BY EasAssumption, LeastIs
<1> QED
  BY <1>1, <1>3, <1>4

\* The decompiler hands over a function that is well linked.
LEMMA WithTableIs ==
  ASSUME NEW t \in Tables
  PROVE  \E N : HasTable(t, WithTable(t), N)
<1>1. CASE t = <<>>
  <2>1. WithTable(t) = Blank
    BY <1>1 DEF WithTable
  <2>2. Cardinality(Live(Blank)) <= MaxInsns
    <3>1. Cardinality(Live(Blank)) = 0
      BY BlankIs, FS_EmptySet
    <3> QED
      BY <3>1, RoomIs
  <2>3. HasTable(t, Blank, Nothing)
    BY <2>2, BlankIs, NothingIs, Zenon DEF HasTable
  <2> QED
    BY <2>1, <2>3
<1>2. CASE t # <<>>
  <2> DEFINE i == Least(Insns)
             e == Least(Eas)
             o == "jtbl"
             b == Last(First)
             x == [Blank EXCEPT !.op[i] = "jtbl", !.cases[i] = t, !.ea[i] = Least(Eas)]
             r == Inserted(x, b, i, Null)
             z == 0
             s == InsertAt(Nothing[b], z + 1, i)
             N == [Nothing EXCEPT ![b] = s]
  <2>1. /\ i \in Insns /\ e \in Eas \cup {NoEa} /\ o \in Opcodes /\ b \in Objs /\ b \in ToSet(First)
        /\ t \in Seq(Nat) /\ o # "free"
    <3>1. t \in Seq(Nat)
      <4>1. t \in Seq(0..(Len(First) - 1))
        BY TablesAssumption
      <4>2. Len(First) \in Nat
        BY FirstIs
      <4> QED
        BY <4>1, <4>2
    <3> QED
      BY <3>1, RoomIs, FirstIs DEF Opcodes
  <2>2. WithTable(t) = r
    BY <1>2 DEF WithTable
  <2>3. x = Written(Blank, i, o, e, t)
    BY ZenonT(30) DEF Written, Blank
  <2> HIDE DEF x
  <2>z. z \in 0..Len(Nothing[b]) /\ Null = Nth(Nothing[b], z)
    BY <2>1, NothingIs DEF Nth
  <2> HIDE DEF i, e, o, b, z
  <2>4. x \in Memories /\ IsWritten(Blank, x, i, o, e, t)
    BY <2>1, <2>3, BlankIs, WrittenFields, Zenon
  <2>5. Holds(x, Nothing)
    BY <2>4, BlankIs, HeldStill, Zenon DEF IsWritten
  <2>6. InsertKeeps(x, Nothing, b, z, i)
    <3>1. i \in Insns \ InAny(Nothing)
      BY <2>1, NothingIs
    <3> QED
      BY <2>1, <2>4, <2>5, <2>z, <3>1, InsertedIs
  <2>7. /\ r \in Memories /\ IsInserted(x, r, b, i, Null)
        /\ Holds(r, N) /\ InAny(N) = InAny(Nothing) \cup {i}
    BY <2>6, <2>z, Zenon DEF InsertKeeps
  <2>8. InAny(N) = {i}
    BY <2>7, NothingIs
  <2> HIDE DEF r, N
  <2>9. r.op = [Blank.op EXCEPT ![i] = o] /\ r.cases = [Blank.cases EXCEPT ![i] = t]
    BY <2>4, <2>7, Zenon DEF IsWritten, IsInserted
  <2>10. /\ r.op[i] = o /\ r.cases[i] = t
         /\ \A j \in Insns \ {i} : r.op[j] = Blank.op[j] /\ r.cases[j] = Blank.cases[j]
    <3>1. Blank.op \in [Insns -> Opcodes] /\ Blank.cases \in [Insns -> Seq(Nat)]
      BY BlankIs, MemoryIs
    <3> QED
      BY <2>1, <2>9, <3>1
  <2>11. Live(r) = {i}
    <3>1. \A j \in Insns : Blank.op[j] = "free"
      BY BlankIs DEF Live
    <3> QED
      BY <2>1, <2>10, <3>1 DEF Live
  <2>12. Cardinality(Live(r)) <= MaxInsns
    <3>1. Cardinality(Live(r)) = 1
      BY <2>11, FS_Singleton
    <3> QED
      BY <3>1, RoomIs
  <2>13. \A c \in Objs : c \notin ToSet(First) => N[c] = <<>>
    <3>1. \A c \in Objs \ {b} : N[c] = Nothing[c]
      BY NothingIs DEF N
    <3> QED
      BY <2>1, <3>1, NothingIs, Zenon
  <2>14. \A j \in Insns : (r.op[j] # "jtbl" => r.cases[j] = <<>>) /\ r.cases[j] \in {<<>>, t}
    <3>1. \A j \in Insns \ {i} : r.cases[j] = <<>>
      BY <2>10, BlankIs, Zenon
    <3>2. r.op[i] = "jtbl"
      BY <2>10 DEF o
    <3> QED
      BY <2>10, <3>1, <3>2, Zenon
  <2>15. HasTable(t, r, N)
    BY <2>7, <2>8, <2>11, <2>12, <2>13, <2>14, Zenon DEF HasTable
  <2> QED
    BY <2>2, <2>15
<1> QED
  BY <1>1, <1>2

-----------------------------------------------------------------------------
(* The inductive invariant.                                                  *)

\* The lists as walks find them.
Lists(m) == [b \in Objs |-> Forwards(m, b)]

\* The lists L are those of memory m, those of the blocks of the function s and
\* of its duplicate d and no others; what is in none is in the hands of a rule
\* or free; and while there is no duplicate there is room for one.
GoodMemory(m, L, out, s, d) ==
  /\ m \in Memories /\ Holds(m, L)
  /\ out \cap InAny(L) = {} /\ Live(m) = out \cup InAny(L)
  /\ \A b \in Objs : b \notin ToSet(s) \cup ToSet(d) => L[b] = <<>>
  /\ d # <<>> \/ s = <<>> => out = {}
  /\ d = <<>> => Cardinality(Live(m)) <= MaxInsns

\* The blocks of the function and of its duplicate are in order, and different.
GoodBlocks(s, d, nx, pv, nr) ==
  /\ s \in Seq(Objs) /\ Injects(s) /\ Len(s) <= MaxQty
  /\ d \in Seq(Objs) /\ Injects(d) /\ ToSet(s) \cap ToSet(d) = {}
  /\ nx \in Links /\ pv \in Links /\ nr \in [Objs -> Nat]
  /\ Ordered(s, nx, pv, nr) /\ Ordered(d, nx, pv, nr)

\* Only tables have targets, and those are numbers of blocks of the function;
\* this is so until its duplicate is made.
GoodTables(m, s) ==
  \A i \in Insns :
    /\ m.op[i] # "jtbl" => m.cases[i] = <<>>
    /\ \A n \in 1..Len(m.cases[i]) : m.cases[i][n] < Len(s)

\* The three at once, of the state.
Inv ==
  /\ GoodMemory(mem, Lists(mem), loose, natural, dup)
  /\ GoodBlocks(natural, dup, nextb, prevb, serial)
  /\ dup = <<>> /\ natural # <<>> => GoodTables(mem, natural)

\* The steps of InsnSeq.tla, on lists before and after.
Elements(L) == UNION {ToSet(L[b]) : b \in Objs}

\* One goes into b (Insert).
Inserts(L, N, b) ==
  /\ Len(N[b]) = Len(L[b]) + 1
  /\ \E k \in 1..Len(N[b]) : N = [L EXCEPT ![b] = InsertAt(L[b], k, N[b][k])] /\ N[b][k] \notin Elements(L)

\* One leaves b (TakeOut).
TakesOut(L, N, b) ==
  /\ Len(N[b]) + 1 = Len(L[b])
  /\ \E k \in 1..Len(L[b]) : N = [L EXCEPT ![b] = RemoveAt(L[b], k)]

\* Empty lists get what was in none, as long as others (Duplicate).
Duplicates(L, N) ==
  \A b \in Objs :
    N[b] # L[b] =>
      /\ L[b] = <<>>
      /\ \E c \in Objs : L[c] = N[c] /\ Len(L[c]) = Len(N[b])
      /\ \A n \in 1..Len(N[b]) : N[b][n] \notin Elements(L)

\* Lists become empty or stay (Release).
Releases(L, N) == \A b \in Objs : N[b] \in {L[b], <<>>}

\* Sequences without common elements (Start).
Starts(N) ==
  /\ N \in [Objs -> Seq(Insns)]
  /\ \A b, c \in Objs : \A j \in DOMAIN N[b], k \in DOMAIN N[c] : N[b][j] = N[c][k] => b = c /\ j = k

\* Where all was empty others start (Load).
Loads(L, N) == Elements(L) = {} /\ Starts(N)

\* Any of these (Next).
Steps(L, N) ==
  (\E b \in Objs : Inserts(L, N, b) \/ TakesOut(L, N, b)) \/ Duplicates(L, N) \/ Releases(L, N) \/ Loads(L, N)

\* TablesKept and DuplicateKept, on memories and orders before and after.
SameTargets(m, r, s, t) ==
  t # <<>> =>
    \A b \in ToSet(s) : \A i \in {m.tail[b]} \ {Null} : \A n \in 1..Len(m.cases[i]) :
      t[r.cases[i][n] + 1] = s[m.cases[i][n] + 1]

\* Blocks of the duplicate e have the code of those of s, or of the duplicate d.
SameCodes(m, r, s, d, e) ==
  \A n \in 1..Len(e) : SameCode(m, IF d = <<>> THEN s[n] ELSE d[n], r, e[n])

\* What every step keeps.
Kept ==
  /\ Inv' /\ Steps(Lists(mem), Lists(mem'))
  /\ SameTargets(mem, mem', natural, natural')
  /\ SameCodes(mem, mem', natural, dup, dup')

\* The walks of all blocks find the lists.
LEMMA ListsAre ==
  ASSUME NEW m \in Memories, NEW N, Holds(m, N)
  PROVE  Lists(m) = N
<1>1. N = [b \in Objs |-> N[b]]
  BY DEF Holds
<1>2. \A b \in Objs : Forwards(m, b) = N[b]
  BY WalksAre
<1> QED
  BY <1>1, <1>2, Zenon DEF Lists

\* What is in lists is in them, and may be said so twice.
LEMMA ElementsAre ==
  ASSUME NEW L \in [Objs -> Seq(Insns)]
  PROVE  Elements(L) = InAny(L)
<1>1. \A x : x \in Elements(L) <=> \E b \in Objs : x \in ToSet(L[b])
  BY DEF Elements
<1>2. \A i : i \in InAny(L) <=> \E b \in Objs : i \in ToSet(L[b])
  BY InAnyIs
<1> QED
  BY <1>1, <1>2

\* Memory r is x with nm put into block b.
PutIn(x, r, L, N, b, nm) ==
  /\ r \in Memories /\ Holds(r, N) /\ InAny(N) = InAny(L) \cup {nm} /\ r.op = x.op /\ r.cases = x.cases
  /\ \A c \in Objs \ {b} : N[c] = L[c]
  /\ Inserts(L, N, b)

\* A place in a list is one behind an element or before them all.
LEMMA PutInIs ==
  ASSUME NEW x \in Memories, NEW L, Holds(x, L), NEW b \in Objs, NEW om \in ToSet(L[b]) \cup {Null},
         NEW nm \in Insns \ InAny(L)
  PROVE  \E N : PutIn(x, Inserted(x, b, nm, om), L, N, b, nm)
<1>1. L \in [Objs -> Seq(Insns)] /\ L[b] \in Seq(Insns) /\ Len(L[b]) \in Nat
  BY HeldIn DEF Holds
<1>2. PICK k \in 0..Len(L[b]) : om = Nth(L[b], k)
  <2>1. CASE om = Null
    <3>1. 0 \in 0..Len(L[b]) /\ 0 \notin 1..Len(L[b])
      BY <1>1
    <3>2. Nth(L[b], 0) = Null
      BY <3>1, Zenon DEF Nth
    <3> QED
      BY <2>1, <3>1, <3>2
  <2>2. CASE om \in ToSet(L[b])
    <3>1. PICK k \in 1..Len(L[b]) : L[b][k] = om
      BY <1>1, <2>2, ToSetIs
    <3>2. k \in 0..Len(L[b]) /\ Nth(L[b], k) = om
      BY <1>1, <3>1 DEF Nth
    <3> QED
      BY <3>2
  <2> QED
    BY <2>1, <2>2
<1> DEFINE p == k + 1
           s == InsertAt(L[b], p, nm)
           N == [L EXCEPT ![b] = s]
           r == Inserted(x, b, nm, om)
<1>3. /\ r \in Memories /\ IsInserted(x, r, b, nm, om)
      /\ Holds(r, N) /\ InAny(N) = InAny(L) \cup {nm}
  <2>1. InsertKeeps(x, L, b, k, nm)
    BY InsertedIs
  <2> QED
    BY <1>2, <2>1, Zenon DEF InsertKeeps
<1>4. p \in 1..(Len(L[b]) + 1)
  BY <1>1
<1> HIDE DEF p
<1>5. /\ s \in Seq(Insns) /\ Len(s) = Len(L[b]) + 1
      /\ \A j \in 1..(Len(L[b]) + 1) : s[j] = IF j < p THEN L[b][j] ELSE IF j = p THEN nm ELSE L[b][j - 1]
  <2>1. s \in Seq(Insns) /\ IsInsertAt(L[b], p, nm, s)
    BY <1>1, <1>4, InsertAtIs
  <2> QED
    BY <2>1, Zenon DEF IsInsertAt
<1>6. s[p] = nm /\ p \in 1..Len(s)
  BY <1>1, <1>4, <1>5
<1>s. s = InsertAt(L[b], p, nm)
  OBVIOUS
<1> HIDE DEF s
<1>7. N[b] = s /\ \A c \in Objs \ {b} : N[c] = L[c]
  BY <1>1
<1>8. N = [L EXCEPT ![b] = InsertAt(L[b], p, N[b][p])]
  <2>1. N[b][p] = nm
    BY <1>6, <1>7
  <2>2. [L EXCEPT ![b] = InsertAt(L[b], p, nm)] = [L EXCEPT ![b] = s]
    BY <1>s
  <2> HIDE DEF N
  <2>3. [L EXCEPT ![b] = InsertAt(L[b], p, N[b][p])] = [L EXCEPT ![b] = s]
    BY <2>1, <2>2
  <2> QED
    BY <2>3 DEF N
<1> HIDE DEF N, r
<1>9. N[b][p] \notin Elements(L)
  BY <1>1, <1>6, <1>7, ElementsAre
<1>10. Inserts(L, N, b)
  <2>1. Len(N[b]) = Len(L[b]) + 1 /\ p \in 1..Len(N[b])
    BY <1>5, <1>6, <1>7
  <2> QED
    BY <1>8, <1>9, <2>1, Zenon DEF Inserts
<1>11. r.op = x.op /\ r.cases = x.cases
  BY <1>3, Zenon DEF IsInserted
<1>12. PutIn(x, r, L, N, b, nm)
  BY <1>3, <1>7, <1>10, <1>11, Zenon DEF PutIn
<1> QED
  BY <1>12 DEF r

\* Memory r is m with i taken out of block b.
TookOut(m, r, L, N, b, i) ==
  /\ r \in Memories /\ Holds(r, N) /\ InAny(N) = InAny(L) \ {i} /\ r.op = m.op /\ r.cases = m.cases
  /\ \A c \in Objs \ {b} : N[c] = L[c]
  /\ TakesOut(L, N, b)

\* What is in a list can be taken out.
LEMMA TookOutIs ==
  ASSUME NEW m \in Memories, NEW L, Holds(m, L), NEW b \in Objs, NEW i \in ToSet(L[b])
  PROVE  \E N : TookOut(m, Removed(m, b, i), L, N, b, i)
<1>1. L \in [Objs -> Seq(Insns)] /\ L[b] \in Seq(Insns) /\ Len(L[b]) \in Nat
  BY HeldIn DEF Holds
<1>2. PICK k \in 1..Len(L[b]) : L[b][k] = i
  BY <1>1, ToSetIs
<1> DEFINE s == RemoveAt(L[b], k)
           N == [L EXCEPT ![b] = s]
           r == Removed(m, b, i)
<1>3. /\ r \in Memories /\ IsRemoved(m, r, b, i)
      /\ Holds(r, N) /\ InAny(N) = InAny(L) \ {i}
  <2>1. RemoveKeeps(m, L, b, k)
    BY RemovedIs
  <2> QED
    BY <1>2, <2>1, Zenon DEF RemoveKeeps
<1>5. s \in Seq(Insns) /\ Len(s) = Len(L[b]) - 1
  <2>1. s \in Seq(Insns) /\ IsRemoveAt(L[b], k, s)
    BY <1>1, RemoveAtIs
  <2> QED
    BY <2>1, Zenon DEF IsRemoveAt
<1>6. N = [L EXCEPT ![b] = RemoveAt(L[b], k)]
  OBVIOUS
<1> HIDE DEF s
<1>7. N[b] = s /\ \A c \in Objs \ {b} : N[c] = L[c]
  BY <1>1
<1> HIDE DEF N, r
<1>8. Len(N[b]) + 1 = Len(L[b])
  BY <1>1, <1>5, <1>7
<1>9. TakesOut(L, N, b)
  BY <1>6, <1>8, Zenon DEF TakesOut
<1>10. r.op = m.op /\ r.cases = m.cases
  BY <1>3, Zenon DEF IsRemoved
<1>11. TookOut(m, r, L, N, b, i)
  BY <1>3, <1>7, <1>9, <1>10, Zenon DEF TookOut
<1> QED
  BY <1>11 DEF r

-----------------------------------------------------------------------------
(* The steps of a rule.                                                      *)

\* An instruction is given what it is and where it comes from.
LEMMA MadeIs ==
  ASSUME NEW m \in Memories, NEW c \in Insns, NEW o \in Opcodes, NEW e \in Eas \cup {NoEa}, NEW x,
         x = [m EXCEPT !.op[c] = o, !.ea[c] = e]
  PROVE  x \in Memories /\ IsWritten(m, x, c, o, e, m.cases[c])
<1>1. /\ x.head = m.head /\ x.tail = m.tail /\ x.flags = m.flags
      /\ x.next = m.next /\ x.prev = m.prev
      /\ x.op = [m.op EXCEPT ![c] = o] /\ x.ea = [m.ea EXCEPT ![c] = e] /\ x.cases = m.cases
  BY DEF Memories
<1>2. x = [head |-> x.head, tail |-> x.tail, flags |-> x.flags, next |-> x.next, prev |-> x.prev,
           op |-> x.op, ea |-> x.ea, cases |-> x.cases]
  BY DEF Memories
<1>3. m.op \in [Insns -> Opcodes] /\ m.ea \in [Insns -> Eas \cup {NoEa}] /\ m.cases \in [Insns -> Seq(Nat)]
  BY MemoryIs, Zenon
<1>4. x.op \in [Insns -> Opcodes] /\ x.ea \in [Insns -> Eas \cup {NoEa}]
  BY <1>1, <1>3
<1>5. x \in Memories
  BY <1>1, <1>2, <1>3, <1>4, MemoryIs DEF Memories
<1>6. x.cases = [m.cases EXCEPT ![c] = m.cases[c]]
  BY <1>1, <1>3
<1> QED
  BY <1>1, <1>5, <1>6, Zenon DEF IsWritten, SameLists

\* The members of a block are those of its list, and the places in it are
\* behind them or before them all.
LEMMA PlacesAre ==
  ASSUME NEW b \in Objs
  PROVE  /\ Members(mem, b) = ToSet(Lists(mem)[b])
         /\ Places(b) \subseteq ToSet(Lists(mem)[b]) \cup {Null}
<1>1. Members(mem, b) = ToSet(Lists(mem)[b])
  BY DEF Members, Lists
<1> QED
  BY <1>1 DEF Places

\* While there is no duplicate, what lives is the function's.
LEMMA OwnedIs ==
  ASSUME Inv, dup = <<>>
  PROVE  Owned = Live(mem)
<1> DEFINE L == Lists(mem)
<1>1. /\ Holds(mem, L) /\ Live(mem) = loose \cup InAny(L)
      /\ \A b \in Objs : b \notin ToSet(natural) \cup ToSet(dup) => L[b] = <<>>
  BY Zenon DEF Inv, GoodMemory
<1>2. natural \in Seq(Objs) /\ dup \in Seq(Objs)
  BY Zenon DEF Inv, GoodBlocks
<1>3. L \in [Objs -> Seq(Insns)]
  BY <1>1, Zenon DEF Holds
<1>4. ToSet(dup) = {} /\ ToSet(natural) \subseteq Objs
  BY <1>2, ToSetIs DEF ToSet
<1>5. \A b \in Objs : Members(mem, b) = ToSet(L[b])
  BY PlacesAre
<1>6. \A i : i \in InAny(L) <=> \E b \in Objs : i \in ToSet(L[b])
  BY <1>3, InAnyIs
<1>7. \A b \in Objs : b \notin ToSet(natural) => ToSet(L[b]) = {}
  <2> TAKE b \in Objs
  <2> HAVE b \notin ToSet(natural)
  <2>1. L[b] = <<>>
    BY <1>1, <1>4
  <2> QED
    BY <2>1 DEF ToSet
<1> HIDE DEF L
<1>8. UNION {Members(mem, b) : b \in ToSet(natural)} = InAny(L)
  BY <1>4, <1>5, <1>6, <1>7
<1> QED
  BY <1>1, <1>8 DEF Owned

\* Without a duplicate there is none to have other code.
LEMMA NoCodes ==
  ASSUME NEW m, NEW r, NEW s, NEW d
  PROVE  SameCodes(m, r, s, d, <<>>)
BY DEF SameCodes

\* If no table changes, no target does.
LEMMA TargetsStay ==
  ASSUME NEW m, NEW r, NEW s, r.cases = m.cases
  PROVE  SameTargets(m, r, s, s)
BY Zenon DEF SameTargets

\* A rule inserts an instruction that it makes.
LEMMA InsertNewKeeps ==
  ASSUME Inv, dup = <<>>, natural # <<>>, NEW b \in ToSet(natural), NEW om \in Places(b),
         NEW op \in {"push", "other"}, NEW e \in Eas \cup {NoEa}, InsertNew(b, om, op, e)
  PROVE  Kept
<1> DEFINE L == Lists(mem)
           i == Least(Insns \ Live(mem))
           x == [mem EXCEPT !.op[i] = op, !.ea[i] = e]
           r == Inserted(x, b, i, om)
<1>1. /\ mem \in Memories /\ Holds(mem, L)
      /\ loose \cap InAny(L) = {} /\ Live(mem) = loose \cup InAny(L)
      /\ \A c \in Objs : c \notin ToSet(natural) \cup ToSet(dup) => L[c] = <<>>
  BY Zenon DEF Inv, GoodMemory
<1>2. GoodBlocks(natural, dup, nextb, prevb, serial) /\ GoodTables(mem, natural)
  BY DEF Inv
<1>3. natural \in Seq(Objs) /\ b \in Objs
  <2>1. natural \in Seq(Objs)
    BY <1>2, Zenon DEF GoodBlocks
  <2> QED
    BY <2>1, ToSetIs
<1>4. Cardinality(Live(mem)) < MaxInsns
  BY OwnedIs DEF InsertNew
<1>5. i \in Insns \ Live(mem)
  <2>1. Cardinality(Live(mem)) < Cardinality(Insns)
    BY <1>4, RoomIs, LiveIs
  <2> QED
    BY <1>1, <2>1, SpareInsn
<1>6. mem' = r /\ UNCHANGED <<loose, nextb, prevb, natural, serial, combine, dup>>
  BY DEF InsertNew, blocks
<1>o. op \in Opcodes /\ op # "free" /\ op # "jtbl"
  BY DEF Opcodes
<1> HIDE DEF i
<1>7. x \in Memories /\ IsWritten(mem, x, i, op, e, mem.cases[i])
  <2>1. x = [mem EXCEPT !.op[i] = op, !.ea[i] = e]
    OBVIOUS
  <2> HIDE DEF x
  <2> QED
    BY <1>1, <1>5, <1>o, <2>1, MadeIs, Zenon
<1> HIDE DEF x, L
<1>8. Holds(x, L)
  BY <1>1, <1>7, HeldStill, Zenon DEF IsWritten
<1>9. om \in ToSet(L[b]) \cup {Null} /\ i \in Insns \ InAny(L)
  BY <1>1, <1>3, <1>5, PlacesAre DEF L
<1>10. PICK N : PutIn(x, r, L, N, b, i)
  BY <1>3, <1>7, <1>8, <1>9, PutInIs, Zenon
<1> HIDE DEF r
<1>11. /\ r \in Memories /\ Holds(r, N) /\ InAny(N) = InAny(L) \cup {i} /\ r.op = x.op /\ r.cases = x.cases
       /\ \A c \in Objs \ {b} : N[c] = L[c]
       /\ Inserts(L, N, b)
  BY <1>10, Zenon DEF PutIn
<1>12. Lists(r) = N
  BY <1>11, ListsAre
<1>13. /\ r.op = [mem.op EXCEPT ![i] = op] /\ r.cases = mem.cases
  <2>1. x.op = [mem.op EXCEPT ![i] = op] /\ x.cases = [mem.cases EXCEPT ![i] = mem.cases[i]]
    BY <1>7, Zenon DEF IsWritten
  <2>2. mem.cases \in [Insns -> Seq(Nat)]
    BY <1>1, MemoryIs
  <2> QED
    BY <1>11, <2>1, <2>2
<1>14. Live(r) = Live(mem) \cup {i} /\ Cardinality(Live(r)) = Cardinality(Live(mem)) + 1
  BY <1>1, <1>5, <1>13, <1>o, OneMoreLives
<1>15. GoodMemory(r, N, loose, natural, dup)
  <2>1. loose \cap InAny(N) = {} /\ Live(r) = loose \cup InAny(N)
    BY <1>1, <1>5, <1>11, <1>14
  <2>2. \A c \in Objs : c \notin ToSet(natural) \cup ToSet(dup) => N[c] = <<>>
    BY <1>1, <1>11
  <2>3. Cardinality(Live(r)) <= MaxInsns
    BY <1>4, <1>14, LiveIs, RoomIs
  <2> QED
    BY <1>11, <2>1, <2>2, <2>3, Zenon DEF GoodMemory
<1>16. GoodTables(r, natural)
  <2>1. mem.op \in [Insns -> Opcodes] /\ mem.op[i] = "free"
    BY <1>1, <1>5, MemoryIs DEF Live
  <2>2. mem.cases[i] = <<>>
    BY <1>2, <1>5, <2>1 DEF GoodTables
  <2>3. \A j \in Insns \ {i} : r.op[j] = mem.op[j]
    BY <1>13, <2>1
  <2>4. \A j \in Insns : r.op[j] # "jtbl" => r.cases[j] = <<>>
    BY <1>2, <1>13, <2>2, <2>3, Zenon DEF GoodTables
  <2> QED
    BY <1>2, <1>13, <2>4, Zenon DEF GoodTables
<1>17. Inv'
  BY <1>2, <1>6, <1>12, <1>15, <1>16 DEF Inv
<1>18. Steps(L, N)
  BY <1>3, <1>11, Zenon DEF Steps
<1>19. SameTargets(mem, r, natural, natural)
  BY <1>13, TargetsStay
<1> QED
  BY <1>6, <1>12, <1>17, <1>18, <1>19, NoCodes DEF Kept, L

\* A rule puts back an instruction that it has taken out.
LEMMA InsertLooseKeeps ==
  ASSUME Inv, dup = <<>>, natural # <<>>, NEW b \in ToSet(natural), NEW om \in Places(b),
         NEW i \in loose, InsertLoose(b, om, i)
  PROVE  Kept
<1> DEFINE L == Lists(mem)
           r == Inserted(mem, b, i, om)
<1>1. /\ mem \in Memories /\ Holds(mem, L)
      /\ loose \cap InAny(L) = {} /\ Live(mem) = loose \cup InAny(L)
      /\ \A c \in Objs : c \notin ToSet(natural) \cup ToSet(dup) => L[c] = <<>>
      /\ Cardinality(Live(mem)) <= MaxInsns
  BY Zenon DEF Inv, GoodMemory
<1>2. GoodBlocks(natural, dup, nextb, prevb, serial) /\ GoodTables(mem, natural)
  BY DEF Inv
<1>3. natural \in Seq(Objs) /\ b \in Objs
  <2>1. natural \in Seq(Objs)
    BY <1>2, Zenon DEF GoodBlocks
  <2> QED
    BY <2>1, ToSetIs
<1>6. mem' = r /\ loose' = loose \ {i} /\ UNCHANGED <<nextb, prevb, natural, serial, combine, dup>>
  BY DEF InsertLoose, blocks
<1>9. om \in ToSet(L[b]) \cup {Null} /\ i \in Insns \ InAny(L)
  <2>1. i \in Insns
    BY <1>1, LiveIs
  <2> QED
    BY <1>1, <1>3, <2>1, PlacesAre DEF L
<1> HIDE DEF L
<1>10. PICK N : PutIn(mem, r, L, N, b, i)
  BY <1>1, <1>3, <1>9, PutInIs, Zenon
<1> HIDE DEF r
<1>11. /\ r \in Memories /\ Holds(r, N) /\ InAny(N) = InAny(L) \cup {i} /\ r.op = mem.op
       /\ r.cases = mem.cases
       /\ \A c \in Objs \ {b} : N[c] = L[c]
       /\ Inserts(L, N, b)
  BY <1>10, Zenon DEF PutIn
<1>12. Lists(r) = N
  BY <1>11, ListsAre
<1>14. Live(r) = Live(mem)
  BY <1>11 DEF Live
<1>15. GoodMemory(r, N, loose \ {i}, natural, dup)
  <2>1. (loose \ {i}) \cap InAny(N) = {} /\ Live(r) = (loose \ {i}) \cup InAny(N)
    BY <1>1, <1>11, <1>14
  <2>2. \A c \in Objs : c \notin ToSet(natural) \cup ToSet(dup) => N[c] = <<>>
    BY <1>1, <1>11
  <2>3. Cardinality(Live(r)) <= MaxInsns
    BY <1>1, <1>14
  <2> QED
    BY <1>11, <2>1, <2>2, <2>3, Zenon DEF GoodMemory
<1>16. GoodTables(r, natural)
  BY <1>2, <1>11, Zenon DEF GoodTables
<1>17. Inv'
  BY <1>2, <1>6, <1>12, <1>15, <1>16 DEF Inv
<1>18. Steps(L, N)
  BY <1>3, <1>11, Zenon DEF Steps
<1>19. SameTargets(mem, r, natural, natural)
  BY <1>11, TargetsStay
<1> QED
  BY <1>6, <1>12, <1>17, <1>18, <1>19, NoCodes DEF Kept, L

\* A rule takes an instruction out of its block.
LEMMA TakeOutKeeps ==
  ASSUME Inv, dup = <<>>, natural # <<>>, NEW b \in ToSet(natural), NEW i \in Members(mem, b),
         TakeOut(b, i)
  PROVE  Kept
<1> DEFINE L == Lists(mem)
           r == Removed(mem, b, i)
<1>1. /\ mem \in Memories /\ Holds(mem, L)
      /\ loose \cap InAny(L) = {} /\ Live(mem) = loose \cup InAny(L)
      /\ \A c \in Objs : c \notin ToSet(natural) \cup ToSet(dup) => L[c] = <<>>
      /\ Cardinality(Live(mem)) <= MaxInsns
  BY Zenon DEF Inv, GoodMemory
<1>2. GoodBlocks(natural, dup, nextb, prevb, serial) /\ GoodTables(mem, natural)
  BY DEF Inv
<1>3. natural \in Seq(Objs) /\ b \in Objs
  <2>1. natural \in Seq(Objs)
    BY <1>2, Zenon DEF GoodBlocks
  <2> QED
    BY <2>1, ToSetIs
<1>6. mem' = r /\ loose' = loose \cup {i} /\ UNCHANGED <<nextb, prevb, natural, serial, dup>>
  BY DEF TakeOut, blocks
<1>9. i \in ToSet(L[b]) /\ i \in InAny(L)
  <2>1. i \in ToSet(L[b])
    BY <1>3, PlacesAre DEF L
  <2>2. L \in [Objs -> Seq(Insns)]
    BY <1>1, Zenon DEF Holds
  <2> QED
    BY <1>3, <2>1, <2>2, InAnyIs
<1> HIDE DEF L
<1>10. PICK N : TookOut(mem, r, L, N, b, i)
  BY <1>1, <1>3, <1>9, TookOutIs, Zenon
<1> HIDE DEF r
<1>11. /\ r \in Memories /\ Holds(r, N) /\ InAny(N) = InAny(L) \ {i} /\ r.op = mem.op
       /\ r.cases = mem.cases
       /\ \A c \in Objs \ {b} : N[c] = L[c]
       /\ TakesOut(L, N, b)
  BY <1>10, Zenon DEF TookOut
<1>12. Lists(r) = N
  BY <1>11, ListsAre
<1>14. Live(r) = Live(mem)
  BY <1>11 DEF Live
<1>15. GoodMemory(r, N, loose \cup {i}, natural, dup)
  <2>1. (loose \cup {i}) \cap InAny(N) = {} /\ Live(r) = (loose \cup {i}) \cup InAny(N)
    BY <1>1, <1>9, <1>11, <1>14
  <2>2. \A c \in Objs : c \notin ToSet(natural) \cup ToSet(dup) => N[c] = <<>>
    <3> TAKE c \in Objs
    <3> HAVE c \notin ToSet(natural) \cup ToSet(dup)
    <3> QED
      BY <1>1, <1>11
  <2>3. Cardinality(Live(r)) <= MaxInsns
    BY <1>1, <1>14
  <2> QED
    BY <1>11, <2>1, <2>2, <2>3, Zenon DEF GoodMemory
<1>16. GoodTables(r, natural)
  BY <1>2, <1>11, Zenon DEF GoodTables
<1>17. Inv'
  BY <1>2, <1>6, <1>12, <1>15, <1>16 DEF Inv
<1>18. Steps(L, N)
  BY <1>3, <1>11, Zenon DEF Steps
<1>19. SameTargets(mem, r, natural, natural)
  BY <1>11, TargetsStay
<1> QED
  BY <1>6, <1>12, <1>17, <1>18, <1>19, NoCodes DEF Kept, L

\* The tail of a block is in its list, or there is none.
LEMMA TailIs ==
  ASSUME NEW m \in Memories, NEW L, Holds(m, L), NEW b \in Objs
  PROVE  m.tail[b] = Null \/ m.tail[b] \in InAny(L)
<1>1. /\ L[b] \in Seq(Insns) /\ Len(L[b]) \in Nat /\ Chained(m, b, L[b])
      /\ \A k \in 1..Len(L[b]) : L[b][k] \in Insns /\ L[b][k] \in InAny(L)
  BY HeldIn
<1>2. m.tail[b] = Nth(L[b], Len(L[b]))
  BY <1>1, Zenon DEF Chained
<1> QED
  BY <1>1, <1>2 DEF Nth

\* A rule is done with an instruction.
LEMMA DeleteKeeps ==
  ASSUME Inv, dup = <<>>, natural # <<>>, NEW i \in loose, Delete(i)
  PROVE  Kept
<1> DEFINE L == Lists(mem)
           r == Deleted(mem, i)
<1>1. /\ mem \in Memories /\ Holds(mem, L)
      /\ loose \cap InAny(L) = {} /\ Live(mem) = loose \cup InAny(L)
      /\ \A c \in Objs : c \notin ToSet(natural) \cup ToSet(dup) => L[c] = <<>>
      /\ Cardinality(Live(mem)) <= MaxInsns
  BY Zenon DEF Inv, GoodMemory
<1>2. GoodBlocks(natural, dup, nextb, prevb, serial) /\ GoodTables(mem, natural)
  BY DEF Inv
<1>3. natural \in Seq(Objs) /\ ToSet(natural) \subseteq Objs
  <2>1. natural \in Seq(Objs)
    BY <1>2, Zenon DEF GoodBlocks
  <2> QED
    BY <2>1, ToSetIs
<1>4. i \in Insns
  BY <1>1, LiveIs
<1>6. mem' = r /\ loose' = loose \ {i} /\ UNCHANGED <<nextb, prevb, natural, serial, combine, dup>>
  BY DEF Delete, blocks
<1> HIDE DEF L
<1>7. r \in Memories /\ IsWritten(mem, r, i, "free", NoEa, <<>>)
  BY <1>1, <1>4, DeletedFields, Zenon
<1> HIDE DEF r
<1>8. /\ SameLists(mem, r) /\ r.op = [mem.op EXCEPT ![i] = "free"]
      /\ r.cases = [mem.cases EXCEPT ![i] = <<>>]
  BY <1>7, Zenon DEF IsWritten
<1>9. Holds(r, L)
  BY <1>1, <1>8, HeldStill, Zenon
<1>10. mem.op \in [Insns -> Opcodes] /\ mem.cases \in [Insns -> Seq(Nat)]
  BY <1>1, MemoryIs
<1>11. /\ \A j \in Insns \ {i} : r.op[j] = mem.op[j] /\ r.cases[j] = mem.cases[j]
       /\ r.op[i] = "free" /\ r.cases[i] = <<>>
  BY <1>4, <1>8, <1>10
<1>12. Lists(r) = L
  BY <1>7, <1>9, ListsAre
<1>14. Live(r) = Live(mem) \ {i}
  BY <1>4, <1>11 DEF Live
<1>15. GoodMemory(r, L, loose \ {i}, natural, dup)
  <2>1. (loose \ {i}) \cap InAny(L) = {} /\ Live(r) = (loose \ {i}) \cup InAny(L)
    BY <1>1, <1>14
  <2>3. Cardinality(Live(r)) <= MaxInsns
    <3>1. Live(r) \subseteq Live(mem)
      BY <1>14
    <3>2. Cardinality(Live(r)) <= Cardinality(Live(mem))
      BY <3>1, LiveIs, FS_Subset
    <3>3. Cardinality(Live(r)) \in Nat /\ Cardinality(Live(mem)) \in Nat /\ MaxInsns \in Nat
      BY LiveIs, RoomIs
    <3> QED
      BY <1>1, <3>2, <3>3
  <2> QED
    BY <1>1, <1>7, <1>9, <2>1, <2>3, Zenon DEF GoodMemory
<1>16. GoodTables(r, natural)
  <2> SUFFICES ASSUME NEW j \in Insns
               PROVE  /\ r.op[j] # "jtbl" => r.cases[j] = <<>>
                      /\ \A n \in 1..Len(r.cases[j]) : r.cases[j][n] < Len(natural)
    BY Zenon DEF GoodTables
  <2>1. CASE j = i
    <3>1. Len(r.cases[j]) = 0
      BY <1>11, <2>1
    <3> QED
      BY <1>11, <2>1, <3>1
  <2>2. CASE j # i
    <3>1. r.op[j] = mem.op[j] /\ r.cases[j] = mem.cases[j]
      BY <1>11, <2>2
    <3> QED
      BY <1>2, <3>1, Zenon DEF GoodTables
  <2> QED
    BY <2>1, <2>2
<1>17. Inv'
  BY <1>2, <1>6, <1>12, <1>15, <1>16 DEF Inv
<1>18. Steps(L, L)
  BY Zenon DEF Steps, Releases
<1>19. SameTargets(mem, r, natural, natural)
  <2> SUFFICES ASSUME NEW b \in ToSet(natural), NEW j \in {mem.tail[b]} \ {Null}
               PROVE  r.cases[j] = mem.cases[j]
    BY Zenon DEF SameTargets
  <2>1. j \in InAny(L)
    BY <1>1, <1>3, TailIs
  <2>2. j \in Insns \ {i}
    BY <1>1, <2>1 DEF InAny
  <2> QED
    BY <1>11, <2>2
<1> QED
  BY <1>6, <1>12, <1>17, <1>18, <1>19, NoCodes DEF Kept, L

-----------------------------------------------------------------------------
(* The preoptimizer puts in a block.                                         *)

\* The targets cs are those of m led from the order s to the order t.
Retargets(m, cs, s, t) ==
  /\ cs \in [Insns -> Seq(Nat)]
  /\ \A i \in Insns :
       /\ m.op[i] # "jtbl" => cs[i] = <<>>
       /\ \A n \in 1..Len(cs[i]) : cs[i][n] < Len(t)
  /\ \A b \in ToSet(s) : \A i \in {m.tail[b]} \ {Null} : \A n \in 1..Len(m.cases[i]) :
       t[cs[i][n] + 1] = s[m.cases[i][n] + 1]

\* Where every block is found under its new number, so is every target.
LEMMA RetargetedIs ==
  ASSUME mem \in Memories, natural \in Seq(Objs), natural # <<>>, GoodTables(mem, natural),
         NEW t \in Seq(Objs), Len(t) = Len(natural) + 1, NEW h \in [Objs -> Nat],
         \A k \in 1..Len(natural) : h[natural[k]] \in 0..Len(natural) /\ t[h[natural[k]] + 1] = natural[k]
  PROVE  Retargets(mem, Retargeted(mem, Moved(natural, h)), natural, t)
<1> DEFINE q == Len(natural)
           f == Moved(natural, h)
           cs == Retargeted(mem, f)
           ends(i) == mem.op[i] = "jtbl" /\ \E b \in ToSet(natural) : mem.tail[b] = i
           led(i) == [n \in 1..Len(mem.cases[i]) |-> f[mem.cases[i][n]]]
<1>1. mem.cases \in [Insns -> Seq(Nat)] /\ mem.tail \in [Objs -> Pointers]
  BY MemoryIs
<1>2. q \in Nat /\ ToSet(natural) \subseteq Objs
  BY ToSetIs
<1>3. f = [n \in 0..(q - 1) |-> h[natural[n + 1]]]
  BY DEF Moved
<1>4. cs = [i \in Insns |-> IF ends(i) THEN led(i) ELSE mem.cases[i]]
  BY Zenon DEF Retargeted
<1> HIDE DEF f
<1>5. \A i \in Insns : \A n \in 1..Len(mem.cases[i]) : mem.cases[i][n] \in 0..(q - 1)
  <2> TAKE i \in Insns
  <2> TAKE n \in 1..Len(mem.cases[i])
  <2> DEFINE c == mem.cases[i]
  <2>1. c \in Seq(Nat) /\ n \in 1..Len(c)
    BY <1>1
  <2> HIDE DEF c
  <2>4. c[n] \in Nat
    BY <2>1
  <2>2. mem.cases[i][n] \in Nat
    BY <2>4 DEF c
  <2>3. mem.cases[i][n] < q
    BY Zenon DEF GoodTables
  <2> QED
    BY <1>2, <2>2, <2>3
<1>6. \A n \in 0..(q - 1) : f[n] \in Nat /\ f[n] < q + 1 /\ t[f[n] + 1] = natural[n + 1]
  <2> TAKE n \in 0..(q - 1)
  <2>1. n + 1 \in 1..q /\ f[n] = h[natural[n + 1]]
    BY <1>2, <1>3
  <2>2. h[natural[n + 1]] \in 0..q /\ t[h[natural[n + 1]] + 1] = natural[n + 1]
    BY <2>1
  <2> QED
    BY <1>2, <2>1, <2>2
<1> HIDE DEF q
<1>7. \A i \in Insns : led(i) \in Seq(Nat) /\ Len(led(i)) = Len(mem.cases[i])
  <2> TAKE i \in Insns
  <2>1. mem.cases[i] \in Seq(Nat) /\ Len(mem.cases[i]) \in Nat
    BY <1>1
  <2>2. \A n \in 1..Len(mem.cases[i]) : f[mem.cases[i][n]] \in Nat
    BY <1>5, <1>6
  <2> QED
    BY <2>1, <2>2
<1>8. \A i \in Insns : cs[i] = IF ends(i) THEN led(i) ELSE mem.cases[i]
  BY <1>4, Zenon
<1> HIDE DEF cs
<1>9. cs \in [Insns -> Seq(Nat)]
  <2>1. \A i \in Insns : (IF ends(i) THEN led(i) ELSE mem.cases[i]) \in Seq(Nat)
    BY <1>1, <1>7
  <2> HIDE DEF ends, led
  <2> QED
    BY <1>4, <2>1
<1>10. \A i \in Insns : mem.op[i] # "jtbl" => cs[i] = <<>>
  BY <1>8, Zenon DEF GoodTables
<1>11. \A i \in Insns : ends(i) => /\ Len(cs[i]) = Len(mem.cases[i])
                                  /\ \A n \in 1..Len(cs[i]) : cs[i][n] = f[mem.cases[i][n]]
  <2> TAKE i \in Insns
  <2> HAVE ends(i)
  <2>1. cs[i] = led(i)
    BY <1>8, Zenon
  <2>2. Len(cs[i]) = Len(mem.cases[i])
    BY <1>7, <2>1
  <2> QED
    BY <2>1, <2>2, Zenon
<1>12. \A i \in Insns : \A n \in 1..Len(cs[i]) : cs[i][n] < q + 1
  <2> TAKE i \in Insns
  <2> TAKE n \in 1..Len(cs[i])
  <2>1. CASE ends(i)
    <3>1. n \in 1..Len(mem.cases[i]) /\ cs[i][n] = f[mem.cases[i][n]]
      BY <1>11, <2>1, Zenon
    <3> QED
      BY <1>5, <1>6, <3>1
  <2>2. CASE ~ends(i)
    <3>1. cs[i] = mem.cases[i]
      BY <1>8, <2>2, Zenon
    <3>2. mem.cases[i][n] \in 0..(q - 1)
      BY <1>5, <3>1
    <3> QED
      BY <1>2, <3>1, <3>2 DEF q
  <2> QED
    BY <2>1, <2>2
<1>13. \A b \in ToSet(natural) : \A i \in {mem.tail[b]} \ {Null} : \A n \in 1..Len(mem.cases[i]) :
         t[cs[i][n] + 1] = natural[mem.cases[i][n] + 1]
  <2> TAKE b \in ToSet(natural)
  <2> TAKE i \in {mem.tail[b]} \ {Null}
  <2> TAKE n \in 1..Len(mem.cases[i])
  <2>1. i \in Insns
    BY <1>1, <1>2 DEF Pointers
  <2>2. mem.op[i] = "jtbl"
    <3>1. mem.op[i] # "jtbl" => mem.cases[i] = <<>>
      BY <2>1, Zenon DEF GoodTables
    <3> QED
      BY <3>1
  <2>3. ends(i)
    BY <2>2
  <2>4. cs[i][n] = f[mem.cases[i][n]]
    BY <1>11, <2>1, <2>3, Zenon
  <2>5. mem.cases[i][n] \in 0..(q - 1)
    BY <1>5, <2>1
  <2> QED
    BY <1>6, <2>4, <2>5
<1>14. Retargets(mem, cs, natural, t)
  BY <1>9, <1>10, <1>12, <1>13 DEF Retargets, q
<1> QED
  BY <1>14 DEF cs, f

\* The tables of a memory are written.
LEMMA CasesSet ==
  ASSUME NEW m \in Memories, NEW cs \in [Insns -> Seq(Nat)], NEW x, x = [m EXCEPT !.cases = cs]
  PROVE  /\ x \in Memories /\ SameLists(m, x) /\ x.op = m.op /\ x.ea = m.ea /\ x.flags = m.flags
         /\ x.cases = cs
<1>1. /\ x.head = m.head /\ x.tail = m.tail /\ x.flags = m.flags
      /\ x.next = m.next /\ x.prev = m.prev /\ x.op = m.op /\ x.ea = m.ea /\ x.cases = cs
  BY DEF Memories
<1>2. x = [head |-> x.head, tail |-> x.tail, flags |-> x.flags, next |-> x.next, prev |-> x.prev,
           op |-> x.op, ea |-> x.ea, cases |-> x.cases]
  BY DEF Memories
<1>3. x \in Memories
  BY <1>1, <1>2, MemoryIs DEF Memories
<1> QED
  BY <1>1, <1>3 DEF SameLists

\* A block is put in behind another one.
LEMMA CreateKeeps ==
  ASSUME Inv, dup = <<>>, natural # <<>>, NEW b \in ToSet(natural), Create(b)
  PROVE  Kept
<1> DEFINE L == Lists(mem)
           q == Len(natural)
           c == Least(Objs \ (ToSet(natural) \cup ToSet(dup)))
<1>1. /\ mem \in Memories /\ Holds(mem, L)
      /\ loose \cap InAny(L) = {} /\ Live(mem) = loose \cup InAny(L)
      /\ \A o \in Objs : o \notin ToSet(natural) \cup ToSet(dup) => L[o] = <<>>
      /\ Cardinality(Live(mem)) <= MaxInsns
  BY Zenon DEF Inv, GoodMemory
<1>2. /\ natural \in Seq(Objs) /\ Injects(natural) /\ dup \in Seq(Objs) /\ Injects(dup)
      /\ nextb \in Links /\ prevb \in Links /\ serial \in [Objs -> Nat]
      /\ Ordered(natural, nextb, prevb, serial) /\ GoodTables(mem, natural)
  BY Zenon DEF Inv, GoodBlocks
<1>3. q < MaxQty /\ Created(b, c) /\ UNCHANGED <<loose, combine, dup>>
  BY Zenon DEF Create
<1>4. q \in Nat /\ MaxQty \in Nat /\ 2 * MaxQty <= Cardinality(Objs) /\ Cardinality(Objs) \in Nat
  BY <1>2, BoundsAssumption, ObjsAssumption, FS_CardinalityType
<1>5. c \in Objs /\ c \notin ToSet(natural)
  <2>1. /\ IsFiniteSet(ToSet(natural)) /\ Cardinality(ToSet(natural)) \in Nat
        /\ Cardinality(ToSet(natural)) <= q
    BY <1>2, ToSetCard
  <2>2. ToSet(dup) = {}
    BY DEF ToSet
  <2>3. IsFiniteSet({}) /\ Cardinality({}) = 0
    BY FS_EmptySet
  <2>4. Cardinality(ToSet(natural)) + Cardinality({}) < Cardinality(Objs)
    BY <1>3, <1>4, <2>1, <2>3
  <2>5. Least(Objs \ (ToSet(natural) \cup {})) \in Objs \ (ToSet(natural) \cup {})
    BY <2>1, <2>3, <2>4, SpareObj
  <2> QED
    BY <2>2, <2>5
<1> HIDE DEF c
<1>6. PICK a \in 1..q : natural[a] = b
  BY <1>2, ToSetIs
<1> DEFINE t == InsertAt(natural, a + 1, c)
           links == [nextb EXCEPT ![c] = nextb[b], ![b] = c]
           back == Set([prevb EXCEPT ![c] = b], nextb[b], c)
           order == Regenerated(natural[1], links, q + 1)
           numbers == Numbered(order, serial)
           cs == Retargeted(mem, Moved(natural, numbers))
           r == [mem EXCEPT !.cases = cs]
<1>7. HasCreated(natural, nextb, prevb, serial, a, c)
  BY <1>2, <1>5, <1>6, CreatedIs, Zenon
<1>8. order = t
  BY <1>6, <1>7 DEF HasCreated
<1>9. /\ t \in Seq(Objs) /\ Len(t) = q + 1 /\ Injects(t)
      /\ links \in Links /\ back \in Links /\ numbers \in [Objs -> Nat]
      /\ Ordered(t, links, back, numbers) /\ ToSet(t) = ToSet(natural) \cup {c}
      /\ \A k \in 1..q : numbers[natural[k]] \in 0..q /\ t[numbers[natural[k]] + 1] = natural[k]
  BY <1>6, <1>7, <1>8 DEF HasCreated
<1>10. /\ nextb' = links /\ prevb' = back /\ natural' = t /\ serial' = numbers /\ mem' = r
       /\ loose' = loose /\ dup' = dup
  <2>1. nextb' = links /\ prevb' = back /\ natural' = order /\ serial' = numbers /\ mem' = r
    BY <1>3, Zenon DEF Created
  <2> QED
    BY <1>3, <1>8, <2>1
<1> HIDE DEF L, t, links, back, order, numbers, q
<1>11. Retargets(mem, cs, natural, t)
  <2>1. Len(t) = Len(natural) + 1
    BY <1>9 DEF q
  <2>2. \A k \in 1..Len(natural) :
          numbers[natural[k]] \in 0..Len(natural) /\ t[numbers[natural[k]] + 1] = natural[k]
    BY <1>9 DEF q
  <2> QED
    BY <1>1, <1>2, <1>9, <2>1, <2>2, RetargetedIs, Zenon
<1>12. /\ r \in Memories /\ SameLists(mem, r) /\ r.op = mem.op /\ r.cases = cs
  <2>1. cs \in [Insns -> Seq(Nat)] /\ r = [mem EXCEPT !.cases = cs]
    BY <1>11, Zenon DEF Retargets
  <2> HIDE DEF cs, r
  <2> QED
    BY <1>1, <2>1, CasesSet
<1> HIDE DEF cs, r
<1>13. Holds(r, L)
  BY <1>1, <1>12, HeldStill, Zenon
<1>14. Lists(r) = L
  BY <1>12, <1>13, ListsAre
<1>15. Live(r) = Live(mem)
  BY <1>12 DEF Live
<1>16. GoodMemory(r, L, loose, t, dup)
  <2>1. \A o \in Objs : o \notin ToSet(t) \cup ToSet(dup) => L[o] = <<>>
    BY <1>1, <1>9
  <2>2. t # <<>>
    BY <1>4, <1>9
  <2> QED
    BY <1>1, <1>12, <1>13, <1>15, <2>1, <2>2, Zenon DEF GoodMemory
<1>17. GoodBlocks(t, dup, links, back, numbers)
  <2>1. Len(t) <= MaxQty
    BY <1>3, <1>4, <1>9
  <2>2. ToSet(t) \cap ToSet(dup) = {}
    BY DEF ToSet
  <2>3. Ordered(dup, links, back, numbers)
    BY DEF Ordered
  <2> QED
    BY <1>2, <1>9, <2>1, <2>2, <2>3, Zenon DEF GoodBlocks
<1>18. GoodTables(r, t)
  BY <1>11, <1>12, Zenon DEF GoodTables, Retargets
<1>19. Inv'
  BY <1>10, <1>14, <1>16, <1>17, <1>18 DEF Inv
<1>20. Steps(L, L)
  BY Zenon DEF Steps, Releases
<1>21. SameTargets(mem, r, natural, t)
  BY <1>11, <1>12, Zenon DEF SameTargets, Retargets
<1> QED
  BY <1>10, <1>14, <1>19, <1>20, <1>21, NoCodes DEF Kept, L

-----------------------------------------------------------------------------
(* The function is duplicated and given up.                                  *)

\* A block and its copy have the same code.
LEMMA SameCodeIs ==
  ASSUME NEW m \in Memories, NEW L, Holds(m, L), NEW x \in Memories, NEW M, Holds(x, M),
         NEW b \in Objs, NEW c \in Objs, CopiedTo(m, x, L[b], b, M[c], c)
  PROVE  SameCode(m, b, x, c)
<1>1. Forwards(m, b) = L[b] /\ Forwards(x, c) = M[c]
  BY WalksAre
<1>2. /\ Len(M[c]) = Len(L[b]) /\ m.flags[b] \subseteq x.flags[c]
      /\ \A j \in 1..Len(L[b]) : CopyOf(m, x, L[b][j], M[c][j])
  BY Zenon DEF CopiedTo
<1>3. \A j \in 1..Len(L[b]) : /\ x.op[M[c][j]] = m.op[L[b][j]] /\ x.cases[M[c][j]] = m.cases[L[b][j]]
                              /\ m.ea[L[b][j]] \in {NoEa, x.ea[M[c][j]]}
  BY <1>2, Zenon DEF CopyOf
<1> QED
  BY <1>1, <1>2, <1>3, Zenon DEF SameCode

\* dup_mba makes a duplicate.
LEMMA DupKeeps ==
  ASSUME Inv, dup = <<>>, natural # <<>>, Dup
  PROVE  Kept
<1> DEFINE L == Lists(mem)
           q == Len(natural)
           order == Fresh(q)
           r == Duplicated(mem, natural, order)
           nr == [b \in Objs |-> IF b \in ToSet(order) THEN serial[natural[Index(order, b)]] ELSE serial[b]]
<1>1. /\ mem \in Memories /\ Holds(mem, L) /\ Live(mem) = loose \cup InAny(L)
      /\ \A o \in Objs : o \notin ToSet(natural) \cup ToSet(dup) => L[o] = <<>>
      /\ Cardinality(Live(mem)) <= MaxInsns
  BY Zenon DEF Inv, GoodMemory
<1>2. /\ natural \in Seq(Objs) /\ Injects(natural) /\ Len(natural) <= MaxQty
      /\ nextb \in Links /\ prevb \in Links /\ serial \in [Objs -> Nat]
      /\ Ordered(natural, nextb, prevb, serial)
  BY Zenon DEF Inv, GoodBlocks
<1>3. /\ loose = {} /\ dup' = order /\ mem' = r
      /\ nextb' = LinkedNext(order, nextb) /\ prevb' = LinkedPrev(order, prevb) /\ serial' = nr
      /\ UNCHANGED <<loose, natural, combine>>
  BY Zenon DEF Dup
<1>4. q \in Nat /\ MaxQty \in Nat /\ 2 * MaxQty <= Cardinality(Objs) /\ Cardinality(Objs) \in Nat /\ q > 0
  BY <1>2, BoundsAssumption, ObjsAssumption, FS_CardinalityType
<1>5. IsFresh(q, order)
  BY <1>2, <1>4, FreshIs
<1> HIDE DEF L, order
<1>6. /\ order \in Seq(Objs) /\ Len(order) = q /\ Injects(order)
      /\ \A k \in 1..q : order[k] \notin ToSet(natural) /\ order[k] \in Objs
  <2>1. /\ order \in Seq(Objs) /\ Len(order) = q /\ Injects(order)
        /\ \A k \in 1..q : order[k] \notin ToSet(natural)
    BY <1>5, Zenon DEF IsFresh
  <2> QED
    BY <2>1
<1>7. \A k \in 1..q : natural[k] \in ToSet(natural) /\ natural[k] \in Objs
  BY <1>2, ToSetIs
<1>8. ToSet(dup) = {} /\ ToSet(natural) \cap ToSet(order) = {} /\ ToSet(order) \subseteq Objs
  <2>1. ToSet(dup) = {}
    BY DEF ToSet
  <2> QED
    BY <1>6, <2>1, ToSetIs
<1>9. CanDuplicate(mem, L, natural, order)
  <2>1. 2 * Cardinality(Live(mem)) <= Cardinality(Insns)
    <3>1. Cardinality(Live(mem)) \in Nat /\ MaxInsns \in Nat /\ Cardinality(Insns) \in Nat
      BY LiveIs, RoomIs
    <3> QED
      BY <1>1, <3>1, RoomIs
  <2>2. \A j, k \in 1..Len(natural) : natural[j] # order[k]
    BY <1>6, <1>7
  <2>3. \A k \in 1..Len(order) : L[order[k]] = <<>>
    BY <1>1, <1>6, <1>8
  <2>4. InAny(L) \subseteq Live(mem) /\ Len(natural) = Len(order)
    BY <1>1, <1>6
  <2> QED
    BY <1>1, <1>2, <1>6, <2>1, <2>2, <2>3, <2>4, Zenon DEF CanDuplicate, Injects
<1>10. PICK M : Duplicating(mem, L, natural, order, q, r, M)
  BY <1>9, DuplicatedIs, Zenon
<1> HIDE DEF q, r
<1>11. /\ r \in Memories /\ Holds(r, M) /\ SameLive(mem, r)
       /\ Live(r) = Live(mem) \cup InAny(M) /\ InAny(L) \subseteq InAny(M)
       /\ \A b \in Objs : (\A k \in 1..q : b # order[k]) => M[b] = L[b]
       /\ \A k \in 1..q : CopiedTo(mem, r, L[natural[k]], natural[k], M[order[k]], order[k])
  BY <1>10, Zenon DEF Duplicating
<1>12. Lists(r) = M
  BY <1>11, ListsAre
<1>13. \A b \in Objs : b \notin ToSet(order) => M[b] = L[b]
  BY <1>6, <1>11, ToSetIs
<1>14. GoodMemory(r, M, loose, natural, order)
  <2>1. loose \cap InAny(M) = {} /\ Live(r) = loose \cup InAny(M)
    BY <1>1, <1>3, <1>11
  <2>2. \A b \in Objs : b \notin ToSet(natural) \cup ToSet(order) => M[b] = <<>>
    BY <1>1, <1>8, <1>13
  <2>3. order # <<>>
    BY <1>4, <1>6
  <2> QED
    BY <1>3, <1>11, <2>1, <2>2, <2>3, Zenon DEF GoodMemory
<1>15. nr = Numbered(order, serial)
  <2>1. \A b \in Objs : nr[b] = IF b \in ToSet(order) THEN Index(order, b) - 1 ELSE serial[b]
    <3> SUFFICES ASSUME NEW b \in Objs, b \in ToSet(order)
                 PROVE  serial[natural[Index(order, b)]] = Index(order, b) - 1
      OBVIOUS
    <3>1. PICK k \in 1..q : order[k] = b
      BY <1>6, ToSetIs
    <3>2. Index(order, b) = k
      BY <1>6, <3>1, IndexIs
    <3>3. serial[natural[k]] = k - 1
      BY <1>2, <3>1 DEF Ordered, q
    <3> QED
      BY <3>2, <3>3
  <2> QED
    BY <2>1 DEF Numbered
<1> HIDE DEF nr
<1>16. GoodBlocks(natural, order, nextb', prevb', serial')
  <2>1. Relinked(order, nextb, prevb, serial)
    BY <1>2, <1>6, RelinkedIs, Zenon
  <2>2. /\ nextb' \in Links /\ prevb' \in Links /\ serial' \in [Objs -> Nat]
        /\ Ordered(order, nextb', prevb', serial')
        /\ \A b \in Objs : b \notin ToSet(order) =>
             nextb'[b] = nextb[b] /\ prevb'[b] = prevb[b] /\ serial'[b] = serial[b]
    BY <1>3, <1>15, <2>1, Zenon DEF Relinked
  <2>3. Ordered(natural, nextb', prevb', serial')
    <3>1. \A k \in 1..Len(natural) : natural[k] \notin ToSet(order) /\ natural[k] \in Objs
      BY <1>7, <1>8 DEF q
    <3> QED
      BY <1>2, <2>2, <3>1, SMTT(30) DEF Ordered
  <2> QED
    BY <1>2, <1>6, <1>8, <2>2, <2>3, Zenon DEF GoodBlocks
<1>17. Inv'
  <2>1. order # <<>>
    BY <1>4, <1>6
  <2> QED
    BY <1>3, <1>12, <1>14, <1>16, <2>1 DEF Inv
<1>18. Steps(L, M)
  <2>1. L \in [Objs -> Seq(Insns)]
    BY <1>1, Zenon DEF Holds
  <2>2. Elements(L) \subseteq Live(mem)
    BY <1>1, <2>1, ElementsAre
  <2>3. Duplicates(L, M)
    <3> SUFFICES ASSUME NEW b \in Objs, M[b] # L[b]
                 PROVE  /\ L[b] = <<>>
                        /\ \E c \in Objs : L[c] = M[c] /\ Len(L[c]) = Len(M[b])
                        /\ \A n \in 1..Len(M[b]) : M[b][n] \notin Elements(L)
      BY Zenon DEF Duplicates
    <3>1. PICK k \in 1..q : order[k] = b
      BY <1>11
    <3>2. L[b] = <<>>
      BY <1>1, <1>6, <1>8, <3>1
    <3>3. CopiedTo(mem, r, L[natural[k]], natural[k], M[b], b)
      BY <1>11, <3>1
    <3>4. /\ Len(M[b]) = Len(L[natural[k]])
          /\ \A j \in 1..Len(L[natural[k]]) : M[b][j] \notin Live(mem)
      BY <3>3, Zenon DEF CopiedTo
    <3>5. natural[k] \in Objs /\ L[natural[k]] = M[natural[k]]
      BY <1>7, <1>8, <1>13
    <3> QED
      BY <2>2, <3>2, <3>4, <3>5
  <2> QED
    BY <2>3, Zenon DEF Steps
<1>19. SameTargets(mem, r, natural, natural)
  <2> SUFFICES ASSUME NEW b \in ToSet(natural), NEW j \in {mem.tail[b]} \ {Null}
               PROVE  r.cases[j] = mem.cases[j]
    BY Zenon DEF SameTargets
  <2>1. b \in Objs
    BY <1>2, ToSetIs
  <2>2. j \in InAny(L)
    BY <1>1, <2>1, TailIs
  <2> QED
    BY <1>1, <1>11, <2>2 DEF SameLive
<1>20. SameCodes(mem, r, natural, dup, order)
  <2> SUFFICES ASSUME NEW n \in 1..Len(order)
               PROVE  SameCode(mem, natural[n], r, order[n])
    BY Zenon DEF SameCodes
  <2>1. n \in 1..q /\ natural[n] \in Objs /\ order[n] \in Objs
    BY <1>6, <1>7
  <2>2. CopiedTo(mem, r, L[natural[n]], natural[n], M[order[n]], order[n])
    BY <1>11, <2>1
  <2> QED
    BY <1>1, <1>11, <2>1, <2>2, SameCodeIs, Zenon
<1> QED
  BY <1>3, <1>12, <1>17, <1>18, <1>19, <1>20 DEF Kept, L

\* Memory r is what is left of mem without the blocks of s.
LeftBy(s, r, N) ==
  /\ r \in Memories /\ Holds(r, N) /\ Live(r) = InAny(N) /\ Releases(Lists(mem), N)
  /\ \A b \in ToSet(s) : N[b] = <<>>
  /\ \A b \in Objs : b \notin ToSet(s) =>
       N[b] = Lists(mem)[b] /\ r.flags[b] = mem.flags[b]
       /\ \A k \in 1..Len(N[b]) : /\ r.op[N[b][k]] = mem.op[N[b][k]] /\ r.ea[N[b][k]] = mem.ea[N[b][k]]
                                  /\ r.cases[N[b][k]] = mem.cases[N[b][k]]

\* To empty the blocks of the function or of its duplicate touches no other.
LEMMA LeftIs ==
  ASSUME Inv, loose = {}, NEW s \in Seq(Objs), Injects(s)
  PROVE  \E N : LeftBy(s, AllEmptied(mem, s), N)
<1> DEFINE L == Lists(mem)
           q == Len(s)
           r == AllEmptied(mem, s)
           N == Without(L, s, q)
           G == UpTo(L, s, q)
<1>1. mem \in Memories /\ Holds(mem, L) /\ Live(mem) = loose \cup InAny(L)
  BY Zenon DEF Inv, GoodMemory
<1>2. /\ r \in Memories /\ Holds(r, N) /\ InAny(N) = InAny(L) \ G /\ IsGone(mem, r, G)
      /\ \A c \in Objs : (\A k \in 1..q : s[k] # c) => r.flags[c] = mem.flags[c]
  <2>1. HasCleared(mem, L, s, r)
    BY <1>1, AllEmptiedIs, Zenon DEF Injects
  <2> QED
    BY <2>1, Zenon DEF HasCleared
<1>3. \A b \in Objs : N[b] = IF \E k \in 1..q : s[k] = b THEN <<>> ELSE L[b]
  BY Zenon DEF Without
<1>4. ToSet(s) \subseteq Objs /\ \A b : b \in ToSet(s) <=> \E k \in 1..q : s[k] = b
  BY ToSetIs
<1>5. \A i : i \in G <=> i \in Insns /\ \E k \in 1..q : i \in ToSet(L[s[k]])
  BY Zenon DEF UpTo
<1> HIDE DEF r, N, G, L
<1>6. Live(r) = InAny(N)
  <2>1. Live(r) = Live(mem) \ G
    BY <1>2 DEF Live, IsGone
  <2> QED
    BY <1>1, <1>2, <2>1
<1>7. \A b \in ToSet(s) : N[b] = <<>>
  BY <1>3, <1>4
<1>8. Releases(L, N)
  BY <1>3, Zenon DEF Releases
<1>9. ASSUME NEW b \in Objs, b \notin ToSet(s)
      PROVE  /\ N[b] = L[b] /\ r.flags[b] = mem.flags[b]
             /\ \A k \in 1..Len(N[b]) : N[b][k] \in Insns \ G
  <2>1. N[b] = L[b] /\ r.flags[b] = mem.flags[b]
    BY <1>2, <1>3, <1>4, <1>9
  <2>2. ASSUME NEW k \in 1..Len(L[b])
        PROVE  L[b][k] \in Insns \ G
    <3>1. /\ L[b][k] \in Insns
          /\ \A c \in Objs \ {b} : \A j \in 1..Len(L[b]), n \in 1..Len(L[c]) : L[b][j] # L[c][n]
      BY <1>1, HeldIn
    <3>2. L \in [Objs -> Seq(Insns)]
      BY <1>1, Zenon DEF Holds
    <3>3. ASSUME NEW n \in 1..q
          PROVE  L[b][k] \notin ToSet(L[s[n]])
      <4>1. s[n] \in Objs /\ s[n] # b
        BY <1>4, <1>9
      <4>2. L[s[n]] \in Seq(Insns)
        BY <3>2, <4>1
      <4> QED
        BY <3>1, <4>1, <4>2, ToSetIs
    <3> QED
      BY <1>5, <3>1, <3>3
  <2> QED
    BY <2>1, <2>2
<1>10. LeftBy(s, r, N)
  <2>1. ASSUME NEW b \in Objs, b \notin ToSet(s), NEW k \in 1..Len(N[b])
        PROVE  /\ r.op[N[b][k]] = mem.op[N[b][k]] /\ r.ea[N[b][k]] = mem.ea[N[b][k]]
               /\ r.cases[N[b][k]] = mem.cases[N[b][k]]
    <3>1. N[b][k] \in Insns \ G
      BY <1>9, <2>1
    <3> QED
      BY <1>2, <3>1, Zenon DEF IsGone
  <2> QED
    BY <1>2, <1>6, <1>7, <1>8, <1>9, <2>1, Zenon DEF LeftBy, L
<1> QED
  BY <1>10 DEF r

\* The decompiler frees the function.
LEMMA FreeKeeps ==
  ASSUME Inv, dup # <<>>, Free
  PROVE  Kept
<1> DEFINE r == AllEmptied(mem, natural)
           L == Lists(mem)
<1>1. /\ mem \in Memories /\ Holds(mem, L) /\ loose = {}
      /\ \A o \in Objs : o \notin ToSet(natural) \cup ToSet(dup) => L[o] = <<>>
  BY Zenon DEF Inv, GoodMemory
<1>2. /\ natural \in Seq(Objs) /\ Injects(natural) /\ dup \in Seq(Objs) /\ Injects(dup)
      /\ ToSet(natural) \cap ToSet(dup) = {}
      /\ nextb \in Links /\ prevb \in Links /\ serial \in [Objs -> Nat]
      /\ Ordered(dup, nextb, prevb, serial)
  BY Zenon DEF Inv, GoodBlocks
<1>3. /\ natural' = <<>> /\ mem' = r /\ UNCHANGED <<loose, dup>>
      /\ nextb' = [b \in Objs |-> IF b \in ToSet(natural) THEN NoObj ELSE nextb[b]]
      /\ prevb' = [b \in Objs |-> IF b \in ToSet(natural) THEN NoObj ELSE prevb[b]]
      /\ serial' = [b \in Objs |-> IF b \in ToSet(natural) THEN 0 ELSE serial[b]]
  BY Zenon DEF Free
<1>4. PICK N : LeftBy(natural, r, N)
  BY <1>1, <1>2, LeftIs, Zenon
<1> HIDE DEF r
<1>5. /\ r \in Memories /\ Holds(r, N) /\ Live(r) = InAny(N) /\ Releases(L, N)
      /\ \A b \in ToSet(natural) : N[b] = <<>>
      /\ \A b \in Objs : b \notin ToSet(natural) =>
           N[b] = L[b] /\ r.flags[b] = mem.flags[b]
           /\ \A k \in 1..Len(N[b]) : /\ r.op[N[b][k]] = mem.op[N[b][k]]
                                      /\ r.ea[N[b][k]] = mem.ea[N[b][k]]
                                      /\ r.cases[N[b][k]] = mem.cases[N[b][k]]
  BY <1>4, Zenon DEF LeftBy
<1> HIDE DEF L
<1>6. Lists(r) = N
  BY <1>5, ListsAre
<1>7. \A k \in 1..Len(dup) : dup[k] \in Objs /\ dup[k] \notin ToSet(natural)
  BY <1>2, ToSetIs
<1>8. ToSet(<<>>) = {} /\ <<>> \in Seq(Objs) /\ Len(<<>>) = 0 /\ 1..0 = {}
  BY DEF ToSet
<1>9. GoodMemory(r, N, {}, <<>>, dup)
  <2>1. \A b \in Objs : b \notin ToSet(<<>>) \cup ToSet(dup) => N[b] = <<>>
    BY <1>1, <1>5
  <2> QED
    BY <1>5, <2>1 DEF GoodMemory
<1>10. GoodBlocks(<<>>, dup, nextb', prevb', serial')
  <2>1. nextb' \in Links /\ prevb' \in Links /\ serial' \in [Objs -> Nat]
    BY <1>2, <1>3 DEF Links
  <2>2. Ordered(dup, nextb', prevb', serial')
    BY <1>2, <1>3, <1>7 DEF Ordered
  <2>3. Injects(<<>>) /\ Ordered(<<>>, nextb', prevb', serial')
    BY <1>8 DEF Injects, Ordered
  <2>4. Len(<<>>) <= MaxQty
    BY <1>8, BoundsAssumption
  <2>5. ToSet(<<>>) \cap ToSet(dup) = {}
    BY <1>8
  <2> QED
    BY <1>2, <1>8, <2>1, <2>2, <2>3, <2>4, <2>5, Zenon DEF GoodBlocks
<1>11. Inv'
  BY <1>1, <1>3, <1>6, <1>9, <1>10 DEF Inv
<1>12. Steps(L, N)
  BY <1>5, Zenon DEF Steps
<1>13. SameTargets(mem, r, natural, <<>>)
  BY Zenon DEF SameTargets
<1>14. SameCodes(mem, r, natural, dup, dup)
  <2> SUFFICES ASSUME NEW n \in 1..Len(dup)
               PROVE  SameCode(mem, dup[n], r, dup[n])
    BY Zenon DEF SameCodes
  <2> DEFINE b == dup[n]
  <2>1. b \in Objs /\ b \notin ToSet(natural)
    BY <1>7
  <2> HIDE DEF b
  <2>2. Forwards(mem, b) = L[b] /\ Forwards(r, b) = N[b]
    BY <1>1, <1>5, <2>1, WalksAre
  <2>3. /\ N[b] = L[b] /\ r.flags[b] = mem.flags[b]
        /\ \A k \in 1..Len(N[b]) : /\ r.op[N[b][k]] = mem.op[N[b][k]] /\ r.ea[N[b][k]] = mem.ea[N[b][k]]
                                   /\ r.cases[N[b][k]] = mem.cases[N[b][k]]
    BY <1>5, <2>1, Zenon
  <2>4. SameCode(mem, b, r, b)
    BY <2>2, <2>3 DEF SameCode
  <2> QED
    BY <2>4 DEF b
<1> QED
  BY <1>3, <1>6, <1>11, <1>12, <1>13, <1>14 DEF Kept, L

\* The requester releases the duplicate.
LEMMA ReleaseKeeps ==
  ASSUME Inv, dup # <<>>, Release
  PROVE  Kept
<1> DEFINE r == AllEmptied(mem, dup)
           L == Lists(mem)
<1>1. /\ mem \in Memories /\ Holds(mem, L) /\ loose = {}
      /\ \A o \in Objs : o \notin ToSet(natural) \cup ToSet(dup) => L[o] = <<>>
  BY Zenon DEF Inv, GoodMemory
<1>2. /\ dup \in Seq(Objs) /\ Injects(dup)
      /\ nextb \in Links /\ prevb \in Links /\ serial \in [Objs -> Nat]
  BY Zenon DEF Inv, GoodBlocks
<1>3. /\ natural = <<>> /\ mem' = r /\ dup' = <<>> /\ UNCHANGED <<loose, natural>>
      /\ nextb' = [b \in Objs |-> IF b \in ToSet(dup) THEN NoObj ELSE nextb[b]]
      /\ prevb' = [b \in Objs |-> IF b \in ToSet(dup) THEN NoObj ELSE prevb[b]]
      /\ serial' = [b \in Objs |-> IF b \in ToSet(dup) THEN 0 ELSE serial[b]]
  BY Zenon DEF Release
<1>4. PICK N : LeftBy(dup, r, N)
  BY <1>1, <1>2, LeftIs, Zenon
<1> HIDE DEF r
<1>5. /\ r \in Memories /\ Holds(r, N) /\ Live(r) = InAny(N) /\ Releases(L, N)
      /\ \A b \in ToSet(dup) : N[b] = <<>>
      /\ \A b \in Objs : b \notin ToSet(dup) => N[b] = L[b]
  BY <1>4, Zenon DEF LeftBy
<1> HIDE DEF L
<1>6. Lists(r) = N
  BY <1>5, ListsAre
<1>8. ToSet(<<>>) = {} /\ <<>> \in Seq(Objs) /\ Len(<<>>) = 0 /\ 1..0 = {}
  BY DEF ToSet
<1>9. \A b \in Objs : N[b] = <<>>
  BY <1>1, <1>3, <1>5, <1>8
<1>10. Live(r) = {}
  BY <1>5, <1>8, <1>9 DEF InAny
<1>11. GoodMemory(r, N, {}, <<>>, <<>>)
  <2>1. Cardinality(Live(r)) <= MaxInsns
    BY <1>10, RoomIs, FS_EmptySet
  <2> QED
    BY <1>5, <1>9, <2>1 DEF GoodMemory
<1>12. GoodBlocks(<<>>, <<>>, nextb', prevb', serial')
  <2>1. nextb' \in Links /\ prevb' \in Links /\ serial' \in [Objs -> Nat]
    BY <1>2, <1>3 DEF Links
  <2>3. Injects(<<>>) /\ Ordered(<<>>, nextb', prevb', serial')
    BY <1>8 DEF Injects, Ordered
  <2>4. Len(<<>>) <= MaxQty
    BY <1>8, BoundsAssumption
  <2>5. ToSet(<<>>) \cap ToSet(<<>>) = {}
    BY <1>8
  <2> QED
    BY <1>8, <2>1, <2>3, <2>4, <2>5, Zenon DEF GoodBlocks
<1>13. Inv'
  BY <1>1, <1>3, <1>6, <1>11, <1>12 DEF Inv
<1>14. Steps(L, N)
  BY <1>5, Zenon DEF Steps
<1>15. SameTargets(mem, r, natural, <<>>)
  BY Zenon DEF SameTargets
<1> QED
  BY <1>3, <1>6, <1>13, <1>14, <1>15, NoCodes DEF Kept, L

-----------------------------------------------------------------------------
(* The decompiler hands over a function.                                     *)

\* Memory r and the links are those of the function with table t.
HandsOver(r, N, nx, pv, nr) ==
  /\ Lists(r) = N /\ GoodMemory(r, N, {}, First, <<>>) /\ GoodTables(r, First)
  /\ GoodBlocks(First, <<>>, nx, pv, nr)
  /\ Starts(N)

\* So it is, whatever the objects held before.
LEMMA HandedOver ==
  ASSUME NEW t \in Tables, NEW f \in Links, NEW g \in Links, NEW h \in [Objs -> Nat]
  PROVE  \E N : HandsOver(WithTable(t), N, LinkedNext(First, f), LinkedPrev(First, g), Numbered(First, h))
<1> DEFINE r == WithTable(t)
           nx == LinkedNext(First, f)
           pv == LinkedPrev(First, g)
           nr == Numbered(First, h)
<1>1. PICK N : HasTable(t, r, N)
  BY WithTableIs, Zenon
<1> HIDE DEF r
<1>2. /\ r \in Memories /\ Holds(r, N) /\ Live(r) = InAny(N) /\ Cardinality(Live(r)) <= MaxInsns
      /\ \A b \in Objs : b \notin ToSet(First) => N[b] = <<>>
      /\ \A i \in Insns : /\ r.op[i] # "jtbl" => r.cases[i] = <<>>
                          /\ r.cases[i] \in {<<>>, t}
  BY <1>1, Zenon DEF HasTable
<1>3. /\ First \in Seq(Objs) /\ Injects(First) /\ Len(First) \in Nat /\ Len(First) > 0
      /\ Len(First) <= MaxQty
  BY FirstIs
<1>4. Lists(r) = N
  BY <1>2, ListsAre
<1>5. First # <<>>
  BY <1>3
<1>6. GoodMemory(r, N, {}, First, <<>>)
  <2>1. \A b \in Objs : b \notin ToSet(First) \cup ToSet(<<>>) => N[b] = <<>>
    BY <1>2
  <2> QED
    BY <1>2, <1>5, <2>1 DEF GoodMemory
<1>7. GoodTables(r, First)
  <2>1. t \in Seq(0..(Len(First) - 1))
    BY TablesAssumption
  <2>2. \A n \in 1..Len(t) : t[n] < Len(First)
    <3> TAKE n \in 1..Len(t)
    <3>1. t[n] \in 0..(Len(First) - 1)
      BY <2>1
    <3> QED
      BY <1>3, <3>1
  <2>3. ASSUME NEW i \in Insns
        PROVE  \A n \in 1..Len(r.cases[i]) : r.cases[i][n] < Len(First)
    <3> DEFINE c == r.cases[i]
    <3>1. c = <<>> \/ c = t
      BY <1>2
    <3> HIDE DEF c
    <3>2. \A n \in 1..Len(c) : c[n] < Len(First)
      BY <2>2, <3>1
    <3> QED
      BY <3>2 DEF c
  <2> QED
    BY <1>2, <2>3, Zenon DEF GoodTables
<1>8. GoodBlocks(First, <<>>, nx, pv, nr)
  <2>1. Relinked(First, f, g, h)
    BY <1>3, RelinkedIs, Zenon
  <2>2. /\ nx \in Links /\ pv \in Links /\ nr \in [Objs -> Nat] /\ Ordered(First, nx, pv, nr)
    BY <2>1, Zenon DEF Relinked
  <2> HIDE DEF nx, pv, nr
  <2>3. <<>> \in Seq(Objs) /\ Injects(<<>>) /\ Ordered(<<>>, nx, pv, nr)
    BY DEF Injects, Ordered
  <2>4. ToSet(First) \cap ToSet(<<>>) = {}
    BY DEF ToSet
  <2> QED
    BY <1>3, <2>2, <2>3, <2>4, Zenon DEF GoodBlocks
<1>9. N \in [Objs -> Seq(Insns)] /\ Apart(N)
  BY <1>2, Zenon DEF Holds
<1>10. \A b \in Objs : DOMAIN N[b] = 1..Len(N[b])
  BY <1>9
<1>11. Starts(N)
  <2> SUFFICES ASSUME NEW b \in Objs, NEW c \in Objs, NEW j \in DOMAIN N[b], NEW k \in DOMAIN N[c],
                      N[b][j] = N[c][k]
               PROVE  b = c /\ j = k
    BY <1>9, Zenon DEF Starts
  <2>1. j \in 1..Len(N[b]) /\ k \in 1..Len(N[c])
    BY <1>10
  <2> QED
    BY <1>9, <2>1, Zenon DEF Apart
<1>12. HandsOver(r, N, nx, pv, nr)
  BY <1>4, <1>6, <1>7, <1>8, <1>11, Zenon DEF HandsOver
<1> QED
  BY <1>12 DEF r

\* The next function comes when the last one and its duplicate are gone.
LEMMA LoadKeeps ==
  ASSUME Inv, dup = <<>>, natural = <<>>, NEW t \in Tables, Load(t)
  PROVE  Kept
<1> DEFINE L == Lists(mem)
           r == WithTable(t)
<1>1. /\ mem \in Memories /\ Holds(mem, L) /\ loose = {}
      /\ \A o \in Objs : o \notin ToSet(natural) \cup ToSet(dup) => L[o] = <<>>
  BY Zenon DEF Inv, GoodMemory
<1>2. nextb \in Links /\ prevb \in Links /\ serial \in [Objs -> Nat]
  BY Zenon DEF Inv, GoodBlocks
<1>3. /\ mem' = r /\ natural' = First /\ UNCHANGED <<loose, dup>>
      /\ nextb' = LinkedNext(First, nextb) /\ prevb' = LinkedPrev(First, prevb)
      /\ serial' = Numbered(First, serial)
  BY Zenon DEF Load
<1>4. PICK N : HandsOver(r, N, nextb', prevb', serial')
  BY <1>2, <1>3, HandedOver, Zenon
<1> HIDE DEF r, L
<1>5. Inv'
  BY <1>1, <1>3, <1>4 DEF Inv, HandsOver
<1>6. Elements(L) = {}
  <2>1. ToSet(<<>>) = {}
    BY DEF ToSet
  <2>2. \A o \in Objs : ToSet(L[o]) = {}
    <3> TAKE o \in Objs
    <3>1. L[o] = <<>>
      BY <1>1, <2>1
    <3> QED
      BY <2>1, <3>1
  <2> QED
    BY <2>2 DEF Elements
<1>7. Steps(L, N)
  BY <1>4, <1>6, Zenon DEF Steps, Loads, HandsOver
<1>8. SameTargets(mem, r, natural, First)
  <2>1. ToSet(natural) = {}
    BY DEF ToSet
  <2> QED
    BY <2>1, Zenon DEF SameTargets
<1>9. Lists(r) = N
  BY <1>4, Zenon DEF HandsOver
<1> QED
  BY <1>3, <1>5, <1>7, <1>8, <1>9, NoCodes DEF Kept, L

\* The first one comes like every other.
LEMMA InitGood ==
  ASSUME Init
  PROVE  Inv /\ Abstract!Init
<1>1. PICK t \in Tables : mem = WithTable(t)
  BY DEF Init
<1> DEFINE f == [b \in Objs |-> NoObj]
           h == [b \in Objs |-> 0]
<1>2. f \in Links /\ h \in [Objs -> Nat]
  BY DEF Links
<1>3. /\ nextb = LinkedNext(First, f) /\ prevb = LinkedPrev(First, f) /\ serial = Numbered(First, h)
      /\ natural = First /\ loose = {} /\ dup = <<>>
  BY Zenon DEF Init
<1> HIDE DEF f, h
<1>4. PICK N : HandsOver(mem, N, nextb, prevb, serial)
  BY <1>1, <1>2, <1>3, HandedOver, Zenon
<1>5. Inv
  BY <1>3, <1>4 DEF Inv, HandsOver
<1>6. Starts(Lists(mem))
  <2>1. Lists(mem) = N /\ Starts(N)
    BY <1>4, Zenon DEF HandsOver
  <2> QED
    BY <2>1
<1>7. Abstract!Init
  BY <1>6, Zenon DEF Abstract!Init, Abstract!Start, Lists, Starts
<1> QED
  BY <1>5, <1>7

-----------------------------------------------------------------------------
(* Every step keeps the invariant, and what it is worth.                     *)

\* Code that nothing touches stays.
LEMMA CodeStays ==
  ASSUME NEW m, NEW b
  PROVE  SameCode(m, b, m, b)
BY DEF SameCode

\* A step that changes nothing changes no list, target or copy.
LEMMA StutterKeeps ==
  ASSUME Inv, UNCHANGED vars
  PROVE  Kept
<1>1. /\ mem' = mem /\ loose' = loose /\ nextb' = nextb /\ prevb' = prevb /\ natural' = natural
      /\ serial' = serial /\ dup' = dup
  BY DEF vars, blocks
<1>2. Inv'
  BY <1>1 DEF Inv
<1>3. Steps(Lists(mem), Lists(mem))
  BY Zenon DEF Steps, Releases
<1>4. SameTargets(mem, mem, natural, natural)
  BY TargetsStay
<1>5. SameCodes(mem, mem, natural, dup, dup)
  <2>1. CASE dup = <<>>
    BY <2>1, NoCodes
  <2>2. CASE dup # <<>>
    BY <2>2, CodeStays, Zenon DEF SameCodes
  <2> QED
    BY <2>1, <2>2
<1> QED
  BY <1>1, <1>2, <1>3, <1>4, <1>5 DEF Kept

\* One step for each operation.
LEMMA NextKeeps ==
  ASSUME Inv, [Next]_vars
  PROVE  Kept
<1>1. ASSUME dup = <<>>, natural # <<>>, NEW b \in ToSet(natural), Rewrite(b)
      PROVE  Kept
  <2>1. ASSUME NEW om \in Places(b), NEW new \in News, InsertNew(b, om, new[1], new[2])
        PROVE  Kept
    <3>1. new[1] \in {"push", "other"} /\ new[2] \in Eas \cup {NoEa}
      BY NewsAssumption
    <3> QED
      BY <1>1, <2>1, <3>1, InsertNewKeeps, Zenon
  <2>2. ASSUME NEW om \in Places(b), NEW i \in loose, InsertLoose(b, om, i)
        PROVE  Kept
    BY <1>1, <2>2, InsertLooseKeeps, Zenon
  <2>3. ASSUME NEW i \in Members(mem, b), TakeOut(b, i)
        PROVE  Kept
    BY <1>1, <2>3, TakeOutKeeps, Zenon
  <2>4. ASSUME Create(b)
        PROVE  Kept
    BY <1>1, <2>4, CreateKeeps, Zenon
  <2> QED
    BY <1>1, <2>1, <2>2, <2>3, <2>4, Zenon DEF Rewrite
<1>2. ASSUME dup = <<>>, natural # <<>>, NEW i \in loose, Delete(i)
      PROVE  Kept
  BY <1>2, DeleteKeeps, Zenon
<1>3. ASSUME dup = <<>>, natural # <<>>, Dup
      PROVE  Kept
  BY <1>3, DupKeeps, Zenon
<1>4. ASSUME dup # <<>>, Free
      PROVE  Kept
  BY <1>4, FreeKeeps, Zenon
<1>5. ASSUME dup # <<>>, Release
      PROVE  Kept
  BY <1>5, ReleaseKeeps, Zenon
<1>6. ASSUME dup = <<>>, natural = <<>>, NEW t \in Tables, Load(t)
      PROVE  Kept
  BY <1>6, LoadKeeps, Zenon
<1>7. ASSUME Next
      PROVE  Kept
  BY <1>1, <1>2, <1>3, <1>4, <1>5, <1>6, <1>7, Zenon DEF Next
<1>8. ASSUME UNCHANGED vars
      PROVE  Kept
  BY <1>8, StutterKeeps
<1> QED
  BY <1>7, <1>8

\* The elements of lists are all there is in a neighbour's place.
LEMMA NeighboursIn ==
  ASSUME NEW m \in Memories, NEW L, Holds(m, L), NEW S, InAny(L) \subseteq S
  PROVE  /\ m.head \in [Objs -> S \cup {Null}] /\ m.tail \in [Objs -> S \cup {Null}]
         /\ m.next \in [Insns -> S \cup {Null}] /\ m.prev \in [Insns -> S \cup {Null}]
<1>1. /\ m.head \in [Objs -> Pointers] /\ m.tail \in [Objs -> Pointers]
      /\ m.next \in [Insns -> Pointers] /\ m.prev \in [Insns -> Pointers]
  BY MemoryIs
<1>2. ASSUME NEW b \in Objs, NEW j
      PROVE  Nth(L[b], j) \in S \cup {Null}
  <2>1. \A k \in 1..Len(L[b]) : L[b][k] \in InAny(L)
    BY HeldIn
  <2> QED
    BY <2>1 DEF Nth
<1>3. ASSUME NEW b \in Objs
      PROVE  m.head[b] \in S \cup {Null} /\ m.tail[b] \in S \cup {Null}
  <2>1. m.head[b] = Nth(L[b], 1) /\ m.tail[b] = Nth(L[b], Len(L[b]))
    BY Zenon DEF Holds, Chained
  <2> QED
    BY <1>2, <2>1
<1>4. ASSUME NEW i \in Insns
      PROVE  m.next[i] \in S \cup {Null} /\ m.prev[i] \in S \cup {Null}
  <2>1. CASE i \in InAny(L)
    <3>1. PICK b \in Objs : \E k \in 1..Len(L[b]) : L[b][k] = i
      BY <2>1, Zenon DEF InAny
    <3>2. PICK k \in 1..Len(L[b]) : L[b][k] = i
      BY <3>1
    <3>3. m.next[i] = Nth(L[b], k + 1) /\ m.prev[i] = Nth(L[b], k - 1)
      BY <3>2, Zenon DEF Holds, Chained
    <3> QED
      BY <1>2, <3>3
  <2>2. CASE i \notin InAny(L)
    <3>1. m.next[i] = Null /\ m.prev[i] = Null
      BY <2>2, Zenon DEF Holds
    <3> QED
      BY <3>1
  <2> QED
    BY <2>1, <2>2
<1> QED
  BY <1>1, <1>3, <1>4

\* The invariant has the types.
LEMMA InvTypes ==
  ASSUME Inv
  PROVE  TypeOK
<1>1. /\ mem \in Memories /\ Holds(mem, Lists(mem)) /\ Live(mem) = loose \cup InAny(Lists(mem))
  BY Zenon DEF Inv, GoodMemory
<1>2. natural \in Seq(Objs) /\ dup \in Seq(Objs) /\ serial \in [Objs -> Nat]
  BY Zenon DEF Inv, GoodBlocks
<1>3. InAny(Lists(mem)) \subseteq Live(mem) /\ loose \subseteq Live(mem)
  BY <1>1
<1>4. /\ mem.head \in [Objs -> Live(mem) \cup {Null}] /\ mem.tail \in [Objs -> Live(mem) \cup {Null}]
      /\ mem.next \in [Insns -> Live(mem) \cup {Null}] /\ mem.prev \in [Insns -> Live(mem) \cup {Null}]
  BY <1>1, <1>3, NeighboursIn, Zenon
<1>5. /\ mem.flags \in [Objs -> SUBSET {"push", "changed"}]
      /\ mem.op \in [Insns -> Opcodes] /\ mem.ea \in [Insns -> Eas \cup {NoEa}]
  BY <1>1, MemoryIs, Zenon
<1> QED
  BY <1>2, <1>3, <1>4, <1>5, Zenon DEF TypeOK

\* The invariant links everything.
LEMMA InvLinked ==
  ASSUME Inv
  PROVE  WellLinked
<1> DEFINE L == Lists(mem)
<1>1. /\ mem \in Memories /\ Holds(mem, L) /\ loose \cap InAny(L) = {}
      /\ Live(mem) = loose \cup InAny(L)
      /\ \A o \in Objs : o \notin ToSet(natural) \cup ToSet(dup) => L[o] = <<>>
  BY Zenon DEF Inv, GoodMemory
<1>2. /\ natural \in Seq(Objs) /\ dup \in Seq(Objs)
      /\ Ordered(natural, nextb, prevb, serial) /\ Ordered(dup, nextb, prevb, serial)
  BY Zenon DEF Inv, GoodBlocks
<1> HIDE DEF L
<1>3. L \in [Objs -> Seq(Insns)]
  BY <1>1, Zenon DEF Holds
<1>4. \A b \in Objs : Forwards(mem, b) = L[b] /\ Backwards(mem, b) = Reverse(L[b])
  BY <1>1, WalksAre
<1>5. \A b \in Objs : Members(mem, b) = ToSet(L[b])
  BY <1>4 DEF Members
<1>6. \A b \in Objs : \A i : i \in ToSet(L[b]) <=> \E k \in 1..Len(L[b]) : L[b][k] = i
  BY <1>3, ToSetIs
<1>7. \A b, c \in Objs : b # c => ToSet(L[b]) \cap ToSet(L[c]) = {}
  <2> SUFFICES ASSUME NEW b \in Objs, NEW c \in Objs, NEW i \in ToSet(L[b]), i \in ToSet(L[c])
               PROVE  b = c
    OBVIOUS
  <2>1. PICK j \in 1..Len(L[b]) : L[b][j] = i
    BY <1>6
  <2>2. PICK k \in 1..Len(L[c]) : L[c][k] = i
    BY <1>6
  <2>3. Apart(L)
    BY <1>1, Zenon DEF Holds
  <2>4. L[b][j] = L[c][k]
    BY <2>1, <2>2
  <2> QED
    BY <2>3, <2>4, Zenon DEF Apart
<1>8. \A i : i \in InAny(L) <=> \E b \in Objs : i \in ToSet(L[b])
  BY <1>3, InAnyIs
<1>9. Made \subseteq Objs /\ \A b \in Objs : b \notin Made => ToSet(L[b]) = {}
  <2>1. ToSet(natural) \subseteq Objs /\ ToSet(dup) \subseteq Objs
    BY <1>2, ToSetIs
  <2>2. ASSUME NEW b \in Objs, b \notin Made
        PROVE  ToSet(L[b]) = {}
    <3>1. L[b] = <<>>
      BY <1>1, <2>2 DEF Made
    <3> QED
      BY <3>1 DEF ToSet
  <2> QED
    BY <2>1, <2>2 DEF Made
<1>10. InsnsLinked
  <2> DEFINE members == [b \in Objs |-> Members(mem, b)]
             listed == UNION {members[b] : b \in Objs}
  <2>1. \A b \in Objs : members[b] = ToSet(L[b])
    BY <1>5
  <2> HIDE DEF members
  <2>2. listed = InAny(L)
    BY <1>8, <2>1
  <2>3. \A b \in Objs : Backwards(mem, b) = Reverse(Forwards(mem, b))
    BY <1>4
  <2>4. \A b, c \in Objs : b # c => members[b] \cap members[c] = {}
    BY <1>7, <2>1
  <2>5. \A i \in Insns \ listed : mem.next[i] = Null /\ mem.prev[i] = Null
    BY <1>1, <2>2, Zenon DEF Holds
  <2>6. UNION {members[b] : b \in Made} = InAny(L)
    BY <1>8, <1>9, <2>1
  <2>7. Live(mem) \ loose = UNION {members[b] : b \in Made}
    BY <1>1, <2>6
  <2> QED
    BY <2>3, <2>4, <2>5, <2>7, Zenon DEF InsnsLinked, members
<1>11. BlocksLinked
  <2>1. ASSUME NEW s, Ordered(s, nextb, prevb, serial), NEW n \in 1..Len(s)
        PROVE  /\ serial[s[n]] = n - 1
               /\ nextb[s[n]] = IF n = Len(s) THEN NoObj ELSE s[n + 1]
               /\ prevb[s[n]] = IF n = 1 THEN NoObj ELSE s[n - 1]
    BY <2>1, Zenon DEF Ordered
  <2>2. \A s \in {natural, dup} : Ordered(s, nextb, prevb, serial)
    BY <1>2
  <2> QED
    BY <2>1, <2>2, Zenon DEF BlocksLinked
<1> QED
  BY <1>10, <1>11 DEF WellLinked

\* What a step does to the lists is a step of InsnSeq.tla.
LEMMA StepsRefine ==
  ASSUME Steps(Lists(mem), Lists(mem)')
  PROVE  Abstract!Next
<1>1. ASSUME NEW b \in Objs, Inserts(Lists(mem), Lists(mem)', b)
      PROVE  Abstract!Insert(b)
  BY <1>1, Zenon DEF Inserts, Elements, Lists, ToSet, InsertAt, Abstract!Insert, Abstract!InSome,
                   Abstract!ToSet, Abstract!InsertAt
<1>2. ASSUME NEW b \in Objs, TakesOut(Lists(mem), Lists(mem)', b)
      PROVE  Abstract!TakeOut(b)
  BY <1>2, Zenon DEF TakesOut, Lists, RemoveAt, Abstract!TakeOut, Abstract!RemoveAt
<1>3. ASSUME Duplicates(Lists(mem), Lists(mem)')
      PROVE  Abstract!Duplicate
  BY <1>3, Zenon DEF Duplicates, Elements, Lists, ToSet, Abstract!Duplicate, Abstract!InSome, Abstract!ToSet
<1>4. ASSUME Releases(Lists(mem), Lists(mem)')
      PROVE  Abstract!Release
  BY <1>4, Zenon DEF Releases, Lists, Abstract!Release
<1>5. ASSUME Loads(Lists(mem), Lists(mem)')
      PROVE  Abstract!Load
  <2>1. Abstract!InSome = {}
    BY <1>5, Zenon DEF Loads, Elements, Lists, ToSet, Abstract!InSome, Abstract!ToSet
  <2>2. Abstract!Start'
    BY <1>5 DEF Loads, Starts, Lists, Abstract!Start
  <2> QED
    BY <2>1, <2>2, Zenon DEF Abstract!Load
<1> QED
  BY <1>1, <1>2, <1>3, <1>4, <1>5, Zenon DEF Steps, Abstract!Next

-----------------------------------------------------------------------------
(* The theorems.                                                             *)

\* The invariant holds throughout.
LEMMA AlwaysInv == Spec => []Inv
<1>1. Init => Inv
  BY InitGood
<1>2. Inv /\ [Next]_vars => Inv'
  BY NextKeeps DEF Kept
<1> QED
  BY <1>1, <1>2, PTL DEF Spec

\* Everything in memory has its type, and nothing points to an instruction
\* that has been deleted (remove_from_block, release_dup_mba).
THEOREM TypeCorrect == Spec => []TypeOK
<1>1. Inv => TypeOK
  BY InvTypes
<1> QED
  BY <1>1, AlwaysInv, PTL

\* Whatever the rules, the preoptimizer and the requester do, both directions
\* of every list agree, no instruction is in two lists, none is lost, and every
\* block is found under its number in the order of the links.
THEOREM Linked == Spec => []WellLinked
<1>1. Inv => WellLinked
  BY InvLinked
<1> QED
  BY <1>1, AlwaysInv, PTL

\* Every operation on the nodes is one on sequences.
THEOREM Implements == Spec => Refines
<1>1. Init => Abstract!Init
  BY InitGood
<1>2. Inv /\ [Next]_vars => [Abstract!Next]_[b \in Objs |-> Forwards(mem, b)]
  <2> SUFFICES ASSUME Inv, [Next]_vars
               PROVE  Abstract!Next
    OBVIOUS
  <2>1. Steps(Lists(mem), Lists(mem'))
    BY NextKeeps, Zenon DEF Kept
  <2>2. Steps(Lists(mem), Lists(mem)')
    BY <2>1 DEF Lists
  <2> QED
    BY <2>2, StepsRefine
<1> QED
  BY <1>1, <1>2, AlwaysInv, PTL DEF Spec, Refines, Abstract!Spec

\* A case of a jump table leads to the same block before and after every step.
THEOREM CasesStay == Spec => TablesKept
<1>1. Inv /\ [Next]_vars => SameTargets(mem, mem', natural, natural')
  BY NextKeeps, Zenon DEF Kept
<1>2. SameTargets(mem, mem', natural, natural') =>
        (natural' # <<>> => \A b \in ToSet(natural) : \A i \in {mem.tail[b]} \ {Null} :
           \A n \in 1..Len(mem.cases[i]) :
             natural'[mem'.cases[i][n] + 1] = natural[mem.cases[i][n] + 1])
  BY Zenon DEF SameTargets
<1> QED
  BY <1>1, <1>2, AlwaysInv, PTL DEF Spec, TablesKept

\* A duplicate has the code of the original when it is made, and keeps it.
THEOREM CopiesStay == Spec => DuplicateKept
<1>1. Inv /\ [Next]_vars => SameCodes(mem, mem', natural, dup, dup')
  BY NextKeeps, Zenon DEF Kept
<1>2. SameCodes(mem, mem', natural, dup, dup') =>
        \A n \in 1..Len(dup') : SameCode(mem, IF dup = <<>> THEN natural[n] ELSE dup[n], mem', dup'[n])
  BY Zenon DEF SameCodes
<1> QED
  BY <1>1, <1>2, AlwaysInv, PTL DEF Spec, DuplicateKept

=============================================================================
