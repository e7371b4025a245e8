------------------------------ MODULE Traverse ------------------------------
(***************************************************************************)
(* traverse_micro (hexutils/traverse_micro.hpp): every operand of an         *)
(* instruction, by a stack of fixed size instead of recursion.  An element   *)
(* of the stack is a list of operands with the next position in it and its   *)
(* length, packed into one word beside the list's address.                   *)
(*                                                                           *)
(* An instruction is a function from places to operands.  A place is the way *)
(* down to an operand: its position in each list on the way, the first being *)
(* 1.  The instruction itself is at <<>>, its operands l, r and d at <<1>>,  *)
(* <<2>> and <<3>>.                                                          *)
(***************************************************************************)
EXTENDS Naturals, Sequences, SequencesExt, FiniteSets

CONSTANTS
  Insns,      \* instructions that may be traversed
  StackSize,  \* AUXSTACK_SIZE of the traits
  Field       \* positions, and lengths, that their fields can say (2^8 in the code)

ASSUME TraverseAssumption == StackSize \in Nat \ {0, 1} /\ Field \in Nat \ {0, 1}

VARIABLES
  insn,     \* the instruction
  stack,    \* auxstack up to auxstack_pos
  at,       \* m, when it was reached by `goto step`; else <<>>
  visited,  \* the operands the callback has seen, in order
  stage     \* "walk", "done", or "raised" by a failed assertion

walkVars == <<insn, stack, at, visited, stage>>

-----------------------------------------------------------------------------

\* The operands below a place: l, r, d of mop_d, lop and hop of mop_p, the
\* operand of mop_a, the arguments of mop_f.
Length(i, place) ==
  CASE i[place].t \in {"insn", "d"} -> 3
    [] i[place].t = "p" -> 2
    [] i[place].t = "a" -> 1
    [] i[place].t = "f" -> i[place].args
    [] OTHER -> 0

\* An instruction has just the places that lists on the way down have.
ASSUME InsnsAssumption ==
  \A i \in Insns :
    /\ <<>> \in DOMAIN i /\ DOMAIN i \subseteq Seq(Nat) /\ i[<<>>].t = "insn"
    /\ \A place \in DOMAIN i :
         /\ Length(i, place) \in Nat
         /\ \A n \in 1..Length(i, place) : Append(place, n) \in DOMAIN i
         /\ \A k \in 1..Len(place) :
              \E above \in {SubSeq(place, 1, k - 1)} :
                above \in DOMAIN i /\ place[k] \in 1..Length(i, above)

\* Packing or-s the length in below the position, which is 0.
Encode(length) == length % (Field * Field)
Position(ele) == ele.ctx \div Field
LengthIn(ele) == ele.ctx % Field

List(place, length) == [list |-> place, ctx |-> Encode(length)]

\* Seeded fault: only the first two operands decide.
PushedTwo(i, place) ==
  CASE i[place].t \in {"insn", "d"} ->
         IF \A n \in 1..2 : i[Append(place, n)].t = "z" THEN <<>>
         ELSE <<List(place, 3)>>
    [] i[place].t = "f" -> IF i[place].args = 0 THEN <<>>
                           ELSE <<List(place, i[place].args)>>
    [] i[place].t = "p" -> <<List(place, 2)>>
    [] OTHER -> <<>>

\* encode_minsn, encode_callinfo and encode_pair: the lists put on the stack.
\* An instruction without any operand is left out, and so is a call without
\* arguments.
Pushed(i, place) ==
  CASE i[place].t \in {"insn", "d"} ->
         IF \A n \in 1..3 : i[Append(place, n)].t = "z" THEN <<>>
         ELSE <<List(place, 3)>>
    [] i[place].t = "f" -> IF i[place].args = 0 THEN <<>>
                           ELSE <<List(place, i[place].args)>>
    [] i[place].t = "p" -> <<List(place, 2)>>
    [] OTHER -> <<>>

\* acquire_next: the operand the element on top is at ...
Acquired == LET ele == Last(stack) IN Append(ele.list, Position(ele) + 1)

\* ... and what it leaves: the element moves on, or is dropped at its end.
Acquire ==
  LET ele == Last(stack)
  IN IF Position(ele) + 1 < LengthIn(ele)
     THEN Append(Front(stack), [ele EXCEPT !.ctx = @ + Field])
     ELSE Front(stack)

\* increment_to_next asserts that the element it gives out is not the last.
\* Seeded fault: nor the last but one.
FitsShort(rest) == Len(rest) + 2 < StackSize

Fits(rest) == Len(rest) + 1 < StackSize

-----------------------------------------------------------------------------

InitWalk ==
  /\ insn \in Insns
  /\ stack = Pushed(insn, <<>>)
  /\ at = <<>> /\ visited = <<>>
  /\ stage = "walk"

\* One turn of the loop from `step:` on, with the operand that is next.
Step ==
  /\ stage = "walk" /\ (at # <<>> \/ stack # <<>>)
  /\ \E m \in {IF at # <<>> THEN at ELSE Acquired},
        rest \in {IF at # <<>> THEN stack ELSE Acquire} :
       IF insn[m].t = "z"
       THEN stack' = rest /\ at' = <<>> /\ UNCHANGED <<visited, stage>>
       ELSE /\ visited' = Append(visited, m)
            /\ at' = IF insn[m].t = "a" THEN Append(m, 1) ELSE <<>>
            /\ IF Pushed(insn, m) # <<>> /\ ~Fits(rest)
               THEN stage' = "raised" /\ stack' = rest
               ELSE stack' = rest \o Pushed(insn, m) /\ UNCHANGED stage
  /\ UNCHANGED insn

Return ==
  /\ stage = "walk" /\ at = <<>> /\ stack = <<>>
  /\ stage' = "done"
  /\ UNCHANGED <<insn, stack, at, visited>>

-----------------------------------------------------------------------------

Operands == {place \in DOMAIN insn : place # <<>> /\ insn[place].t # "z"}

\* The order in which a recursive walk meets two places.
Before(p, q) ==
  \/ Len(p) < Len(q) /\ p = SubSeq(q, 1, Len(p))
  \/ \E n \in 1..Len(p) : /\ n <= Len(q) /\ p[n] < q[n]
                          /\ \A k \in 1..(n - 1) : p[k] = q[k]

\* Lists as long as their field can say.
FieldsFit == \A place \in DOMAIN insn : Length(insn, place) < Field

\* The stack gives what recursion would: the operands seen are seen once, each
\* before those within it and after those to its left, and there is none that
\* comes before the last one seen and was passed over; when the walk returns it
\* has seen all.  Only calls with more arguments than the length field can say
\* are out of it.
AsRecursion ==
  FieldsFit =>
    /\ \A n \in 1..(Len(visited) - 1) : Before(visited[n], visited[n + 1])
    /\ visited # <<>> =>
         \A p \in Operands : p \in Range(visited) \/ Before(Last(visited), p)
    /\ stage = "done" => Operands \subseteq Range(visited)

\* The stack never holds more lists than operands are nested, so that it is the
\* depth of an instruction and never its breadth that makes a walk give up.
GivesUpOnDepth ==
  /\ Len(stack) <= (IF visited = <<>> THEN 1 ELSE Len(Last(visited)) + 1)
  /\ stage = "raised" => \E place \in DOMAIN insn : Len(place) >= StackSize
=============================================================================
