------------------------------ MODULE MblArray ------------------------------
(***************************************************************************)
(* The blocks of a function (mbl_array.cpp): linked, numbered, and found by  *)
(* number through `natural` and through the jump tables.  Rules insert and   *)
(* remove instructions, the preoptimizer may put in a block, and a request   *)
(* for microcode takes a duplicate and cancels the decompilation: the        *)
(* decompiler, which is external, frees the function, and the requester      *)
(* releases the duplicate.                                                   *)
(***************************************************************************)
EXTENDS InsnList

CONSTANTS
  First,    \* the blocks the function starts with, in order
  Tables,   \* case targets of the jump the last of them ends in, <<>> for none
  News,     \* what a rule makes: opcodes with addresses
  MaxQty,   \* bound: no more blocks than this are made
  MaxInsns  \* bound: nor instructions, those of the duplicate aside

NoObj == 0
ASSUME ObjsAssumption == Objs \subseteq Nat \ {NoObj} /\ IsFiniteSet(Objs)
ASSUME FirstAssumption == First \in Seq(Objs) \ {<<>>} /\ IsInjective(First)
ASSUME TablesAssumption == Tables \subseteq Seq(0..(Len(First) - 1))
ASSUME NewsAssumption == News \subseteq {"push", "other"} \X (Eas \cup {NoEa})
ASSUME BoundsAssumption ==
  /\ MaxQty \in Nat /\ Len(First) <= MaxQty /\ 2 * MaxQty <= Cardinality(Objs)
  /\ MaxInsns \in Nat \ {0} /\ 2 * MaxInsns <= Cardinality(Insns)

VARIABLES
  mem,            \* see InsnList
  loose,          \* the instructions that a rule has taken out of their block
  nextb, prevb,   \* links between blocks
  natural,        \* natural[n + 1]: the block with number n
  serial,         \* serial[b]: its number
  combine,        \* MBA_CMBBLK of the function
  dup             \* natural of the duplicate, <<>> if there is none

blocks == <<nextb, prevb, natural, serial>>
vars == <<mem, loose, blocks, combine, dup>>

Index(s, b) == CHOOSE n \in 1..Len(s) : s[n] = b
Least(S) == CHOOSE m \in S : \A n \in S : m <= n
Live(m) == {i \in Insns : m.op[i] # "free"}

\* The links and numbers of blocks in the order of s, the rest untouched.
LinkedNext(s, f) ==
  [b \in Objs |-> IF b \notin ToSet(s) THEN f[b]
                  ELSE IF Index(s, b) = Len(s) THEN NoObj ELSE s[Index(s, b) + 1]]
LinkedPrev(s, f) ==
  [b \in Objs |-> IF b \notin ToSet(s) THEN f[b]
                  ELSE IF Index(s, b) = 1 THEN NoObj ELSE s[Index(s, b) - 1]]
Numbered(s, f) == [b \in Objs |-> IF b \in ToSet(s) THEN Index(s, b) - 1 ELSE f[b]]

\* The function as the decompiler hands it over: empty but for the table.
WithTable(t) ==
  IF t = <<>> THEN Blank
  ELSE LET i == Least(Insns) IN
       Inserted([Blank EXCEPT !.op[i] = "jtbl", !.cases[i] = t, !.ea[i] = Least(Eas)],
                Last(First), i, Null)

Init ==
  /\ \E t \in Tables : mem = WithTable(t)
  /\ loose = {}
  /\ nextb = LinkedNext(First, [b \in Objs |-> NoObj])
  /\ prevb = LinkedPrev(First, [b \in Objs |-> NoObj])
  /\ natural = First
  /\ serial = Numbered(First, [b \in Objs |-> 0])
  /\ combine = FALSE /\ dup = <<>>

\* A place in the list of b: behind an instruction that does not end the block,
\* or before them all.
Places(b) == {i \in Members(mem, b) : mem.op[i] # "jtbl"} \cup {Null}

\* The instructions of the function, those in the hands of a rule included.
Owned == loose \cup UNION {Members(mem, b) : b \in ToSet(natural)}

-----------------------------------------------------------------------------
\* insert_into_block of an instruction just made.
InsertNew(b, om, op, e) ==
  /\ Cardinality(Owned) < MaxInsns
  /\ LET i == Least(Insns \ Live(mem)) IN
       mem' = Inserted([mem EXCEPT !.op[i] = op, !.ea[i] = e], b, i, om)
  /\ UNCHANGED <<loose, blocks, combine, dup>>

\* insert_into_block of one that was taken out elsewhere.
InsertLoose(b, om, i) ==
  /\ mem' = Inserted(mem, b, i, om)
  /\ loose' = loose \ {i}
  /\ UNCHANGED <<blocks, combine, dup>>

TakeOut(b, i) ==
  /\ mem' = Removed(mem, b, i)
  /\ loose' = loose \cup {i}
  /\ combine' = (combine \/ mem'.head[b] = Null)
  /\ UNCHANGED <<blocks, dup>>

\* The rule is done with what it took out.
Delete(i) ==
  /\ mem' = Deleted(mem, i)
  /\ loose' = loose \ {i}
  /\ UNCHANGED <<blocks, combine, dup>>

-----------------------------------------------------------------------------
\* regenerate_natural: qty steps along nextb.
Regenerated(first, links, qty) ==
  LET at[n \in 1..qty] == IF n = 1 THEN <<first>>
                          ELSE Append(at[n - 1], links[at[n - 1][n - 1]])
  IN at[qty]

\* Every table that ends a block, with its targets led through f.
Retargeted(m, f) ==
  [i \in Insns |-> IF m.op[i] = "jtbl" /\ \E b \in ToSet(natural) : m.tail[b] = i
                   THEN [n \in 1..Len(m.cases[i]) |-> f[m.cases[i][n]]]
                   ELSE m.cases[i]]

\* The number a block had to the number it gets.
Moved(old, numbers) == [n \in 0..(Len(old) - 1) |-> numbers[old[n + 1]]]

\* Seeded faults: the targets are looked up in the new order; the blocks
\* behind the new one keep their numbers.
CreatedLate(after, b) ==
  LET links == [nextb EXCEPT ![b] = nextb[after], ![after] = b]
      order == Regenerated(natural[1], links, Len(natural) + 1)
      numbers == Numbered(order, serial)
  IN /\ nextb' = links
     /\ prevb' = Set([prevb EXCEPT ![b] = after], nextb[after], b)
     /\ natural' = order
     /\ serial' = numbers
     /\ mem' = [mem EXCEPT !.cases = Retargeted(mem, Moved(order, numbers))]
CreatedUnnumbered(after, b) ==
  LET links == [nextb EXCEPT ![b] = nextb[after], ![after] = b]
      order == Regenerated(natural[1], links, Len(natural) + 1)
      numbers == [serial EXCEPT ![b] = serial[after] + 1]
  IN /\ nextb' = links
     /\ prevb' = Set([prevb EXCEPT ![b] = after], nextb[after], b)
     /\ natural' = order
     /\ serial' = numbers
     /\ mem' = [mem EXCEPT !.cases = Retargeted(mem, Moved(natural, numbers))]

\* The blocks behind the new one are renumbered and the case targets moved
\* with the blocks they led to.
Created(after, b) ==
  LET links == [nextb EXCEPT ![b] = nextb[after], ![after] = b]
      order == Regenerated(natural[1], links, Len(natural) + 1)
      numbers == Numbered(order, serial)
  IN /\ nextb' = links
     /\ prevb' = Set([prevb EXCEPT ![b] = after], nextb[after], b)
     /\ natural' = order
     /\ serial' = numbers
     /\ mem' = [mem EXCEPT !.cases = Retargeted(mem, Moved(natural, numbers))]

\* create_new_block_for_preopt(after)
Create(after) ==
  /\ Len(natural) < MaxQty
  /\ Created(after, Least(Objs \ (ToSet(natural) \cup ToSet(dup))))
  /\ UNCHANGED <<loose, combine, dup>>

-----------------------------------------------------------------------------
(* dup_mba and release_dup_mba.                                              *)

Copy(m, i, c) ==
  [m EXCEPT !.op[c] = m.op[i], !.ea[c] = m.ea[i], !.cases[c] = m.cases[i]]

\* Seeded fault: a copy goes in before the head.
CopiedInsnFront(m, to, i) ==
  LET c == Least(Insns \ Live(m)) IN Inserted(Copy(m, i, c), to, c, Null)

\* dup_mblock: each instruction is copied and inserted at the tail.
CopiedInsn(m, to, i) ==
  LET c == Least(Insns \ Live(m)) IN Inserted(Copy(m, i, c), to, c, m.tail[to])

CopiedBlock(m, from, to) ==
  LET list == Forwards(m, from)
      copied[n \in 0..Len(list)] ==
        IF n = 0 THEN [m EXCEPT !.flags[to] = m.flags[from]]
        ELSE CopiedInsn(copied[n - 1], to, list[n])
  IN copied[Len(list)]

\* The objects of a duplicate of qty blocks.
Fresh(qty) ==
  LET got[n \in 0..qty] ==
        IF n = 0 THEN <<>>
        ELSE Append(got[n - 1], Least(Objs \ (ToSet(natural) \cup ToSet(got[n - 1]))))
  IN got[qty]

\* The memory when the blocks of from have been copied to those of to.
Duplicated(m, from, to) ==
  LET copied[n \in 0..Len(from)] ==
        IF n = 0 THEN m ELSE CopiedBlock(copied[n - 1], from[n], to[n])
  IN copied[Len(from)]

Dup ==
  LET order == Fresh(Len(natural))
  IN /\ loose = {}
     /\ dup' = order
     /\ mem' = Duplicated(mem, natural, order)
     /\ nextb' = LinkedNext(order, nextb)
     /\ prevb' = LinkedPrev(order, prevb)
     /\ serial' = [b \in Objs |-> IF b \in ToSet(order)
                                  THEN serial[natural[Index(order, b)]] ELSE serial[b]]
     /\ UNCHANGED <<loose, natural, combine>>

\* release_dup_mblock: from the head on, taken out and deleted.
Emptied(m, b) ==
  LET list == Forwards(m, b)
      left[n \in 0..Len(list)] ==
        IF n = 0 THEN m ELSE Deleted(Removed(left[n - 1], b, list[n]), list[n])
  IN [left[Len(list)] EXCEPT !.flags[b] = {}]

\* All blocks of s, one after the other.
AllEmptied(m, s) ==
  LET left[n \in 0..Len(s)] == IF n = 0 THEN m ELSE Emptied(left[n - 1], s[n])
  IN left[Len(s)]

Release ==
  /\ natural = <<>>
  /\ mem' = AllEmptied(mem, dup)
  /\ nextb' = [b \in Objs |-> IF b \in ToSet(dup) THEN NoObj ELSE nextb[b]]
  /\ prevb' = [b \in Objs |-> IF b \in ToSet(dup) THEN NoObj ELSE prevb[b]]
  /\ serial' = [b \in Objs |-> IF b \in ToSet(dup) THEN 0 ELSE serial[b]]
  /\ dup' = <<>>
  /\ UNCHANGED <<loose, natural, combine>>

\* The decompiler frees the function it was told to give up.
Free ==
  /\ natural # <<>>
  /\ natural' = <<>>
  /\ mem' = AllEmptied(mem, natural)
  /\ nextb' = [b \in Objs |-> IF b \in ToSet(natural) THEN NoObj ELSE nextb[b]]
  /\ prevb' = [b \in Objs |-> IF b \in ToSet(natural) THEN NoObj ELSE prevb[b]]
  /\ serial' = [b \in Objs |-> IF b \in ToSet(natural) THEN 0 ELSE serial[b]]
  /\ combine' = FALSE
  /\ UNCHANGED <<loose, dup>>

\* It hands over the next one.
Load(t) ==
  /\ mem' = WithTable(t)
  /\ nextb' = LinkedNext(First, nextb) /\ prevb' = LinkedPrev(First, prevb)
  /\ natural' = First /\ serial' = Numbered(First, serial)
  /\ UNCHANGED <<loose, combine, dup>>

\* While the rules, the preoptimizer among them, are at work on b.
Rewrite(b) ==
  \/ \E om \in Places(b), new \in News : InsertNew(b, om, new[1], new[2])
  \/ \E om \in Places(b), i \in loose : InsertLoose(b, om, i)
  \/ \E i \in Members(mem, b) : mem.op[i] # "jtbl" /\ TakeOut(b, i)
  \/ Create(b)

Next ==
  \/ dup = <<>> /\ natural # <<>> /\
       \/ \E b \in ToSet(natural) : Rewrite(b)
       \/ \E i \in loose : Delete(i)
       \/ Dup
  \/ dup # <<>> /\ (Free \/ Release)
  \/ dup = <<>> /\ natural = <<>> /\ \E t \in Tables : Load(t)

Spec == Init /\ [][Next]_vars

-----------------------------------------------------------------------------
Made == ToSet(natural) \cup ToSet(dup)

\* Types, and nothing points to an instruction that has been deleted.
TypeOK ==
  LET there == Live(mem) \cup {Null} IN
  /\ mem.head \in [Objs -> there] /\ mem.tail \in [Objs -> there]
  /\ mem.next \in [Insns -> there] /\ mem.prev \in [Insns -> there]
  /\ mem.op \in [Insns -> Opcodes] /\ mem.ea \in [Insns -> Eas \cup {NoEa}]
  /\ mem.flags \in [Objs -> SUBSET {"push", "changed"}]
  /\ loose \subseteq Live(mem)
  /\ natural \in Seq(Objs) /\ dup \in Seq(Objs)
  /\ serial \in [Objs -> Nat]

\* The two directions of every list (insert_into_block, remove_from_block) are
\* the same list, no instruction is in two lists, one that is in none has no
\* links, and none is lost: the allocated ones are those in lists and those a
\* rule holds.
InsnsLinked ==
  LET members == [b \in Objs |-> Members(mem, b)]
      listed == UNION {members[b] : b \in Objs}
  IN /\ \A b \in Objs : Backwards(mem, b) = Reverse(Forwards(mem, b))
     /\ \A b, c \in Objs : b # c => members[b] \cap members[c] = {}
     /\ \A i \in Insns \ listed : mem.next[i] = Null /\ mem.prev[i] = Null
     /\ Live(mem) \ loose = UNION {members[b] : b \in Made}

\* Every block, of the function and of its duplicate, is found under its number,
\* in the order of the links (create_new_block_for_preopt, dup_mba).
BlocksLinked ==
  \A s \in {natural, dup} : \A n \in 1..Len(s) :
    /\ serial[s[n]] = n - 1
    /\ nextb[s[n]] = IF n = Len(s) THEN NoObj ELSE s[n + 1]
    /\ prevb[s[n]] = IF n = 1 THEN NoObj ELSE s[n - 1]

\* Lists of instructions and of blocks are well linked at once: no step mends
\* the one and leaves the other.
WellLinked == InsnsLinked /\ BlocksLinked

\* What the rules are promised of the lists.
Abstract == INSTANCE InsnSeq WITH lists <- [b \in Objs |-> Forwards(mem, b)]
\* Every insertion, removal, duplication and release (mbl_array.cpp) is one on
\* sequences.
Refines == Abstract!Spec

\* A case of a jump table leads to the same block before and after any step,
\* whatever blocks were put in before it (create_new_block_for_preopt).
TablesKept ==
  [][natural' # <<>> => \A b \in ToSet(natural) : \A i \in {mem.tail[b]} \ {Null} :
       \A n \in 1..Len(mem.cases[i]) :
         natural'[mem'.cases[i][n] + 1] = natural[mem.cases[i][n] + 1]]_vars

\* The copy c of block b has its instructions, in its order, with their
\* addresses, but for those that had none.
SameCode(m, b, new, c) ==
  LET old == Forwards(m, b)
      copy == Forwards(new, c)
  IN /\ Len(copy) = Len(old)
     /\ \A n \in 1..Len(old) :
          /\ new.op[copy[n]] = m.op[old[n]] /\ new.cases[copy[n]] = m.cases[old[n]]
          /\ m.ea[old[n]] \in {NoEa, new.ea[copy[n]]}
     /\ m.flags[b] \subseteq new.flags[c]
\* A duplicate (dup_mba) has the code of the original when it is made, and keeps
\* it when the original is freed.
DuplicateKept ==
  [][\A n \in 1..Len(dup') :
       SameCode(mem, IF dup = <<>> THEN natural[n] ELSE dup[n], mem', dup'[n])]_vars
=============================================================================
