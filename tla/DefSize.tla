------------------------------ MODULE DefSize -------------------------------
(***************************************************************************)
(* find_definition_size (hexutils.cpp): the size of the definition of an     *)
(* operand that an instruction sees, followed into predecessors as long as   *)
(* they agree; a zero extension to a whole register counts with the size of   *)
(* its source.  The bit-and and multi-compare rules rewrite operands to the   *)
(* size it reports.  `stack` holds the open calls.                           *)
(***************************************************************************)
EXTENDS Flow

CONSTANTS
  Codes,       \* instruction sequences a block may have
  Graphs,      \* sets of edges a function may have
  UseBlock     \* the block of the instruction that is asked about

VARIABLES
  code, edges, \* the function, left alone
  use,         \* position of that instruction in UseBlock
  stack,       \* open calls: block, predecessors not yet seen, defsize
  visited,     \* the pool, or a bitset64_t or bitset128_t
  size,        \* what the last call that returned true put in *size_out
  answer       \* "none" until the outermost call returns

vars == <<code, edges, use, stack, visited, size, answer>>
program == <<code, edges, use>>

\* defsize starts as -1, the value a definition without a size also has.
Open(b) == [blk |-> b, todo |-> Preds(edges, b), defsize |-> NoSize]

Init ==
  /\ code \in [Blocks -> Codes] /\ edges \in Graphs
  /\ use \in 1..Len(code[UseBlock])
  /\ stack = <<>> /\ visited \in LeftOver /\ size = NoSize /\ answer = "none"

\* Seeded faults: the sentinel is written through size_out; a block that was
\* met before is neither failed on nor stepped over.
FailWritten == stack' = <<>> /\ answer' = "false" /\ size' = 0 - 1
FailIgnored == UNCHANGED <<stack, answer, size>>

\* A call that fails makes every open call fail.
Fail == stack' = <<>> /\ answer' = "false" /\ UNCHANGED size

\* Seeded fault: sizes are not compared.
TellFirst(sz, below) ==
  /\ size' = sz
  /\ IF below = <<>> THEN stack' = <<>> /\ answer' = "true"
     ELSE /\ stack' = <<[Head(below) EXCEPT !.defsize = sz]>> \o Tail(below)
          /\ UNCHANGED answer

\* A call that found size sz returns to the topmost of `below`, which keeps
\* the first size it is told and fails on a different one.
Tell(sz, below) ==
  /\ size' = sz
  /\ IF below = <<>> THEN stack' = <<>> /\ answer' = "true"
     ELSE IF Head(below).defsize = NoSize
     THEN /\ stack' = <<[Head(below) EXCEPT !.defsize = sz]>> \o Tail(below)
          /\ UNCHANGED answer
     ELSE IF Head(below).defsize = sz
     THEN stack' = below /\ UNCHANGED answer
     ELSE stack' = <<>> /\ answer' = "false"

\* Seeded fault: a zero extension is a definition like any other.
ReportedPlain(i) == i.size

\* "ignore implicit zero extensions from x86_64 ops": a zero extension to eight
\* bytes has the size of what it extends, be it that of a 32-bit operation or
\* a movzx from one or two bytes.
Reported(i) == IF i.from # 0 /\ i.size = 8 THEN i.from ELSE i.size

\* Seeded fault: the start of the function is an ordinary block.
EnterAtEntry(b, before, below, seen) ==
  LET d == DefinitionBefore(code[b], before) IN
  /\ visited' = seen \cup {b}
  /\ IF d # 0 THEN Tell(Reported(code[b][d]), below)
     ELSE stack' = <<Open(b)>> \o below /\ UNCHANGED <<size, answer>>

\* A call on block b that looks before position `before`.
Enter(b, before, below, seen) ==
  LET d == DefinitionBefore(code[b], before) IN
  /\ visited' = seen \cup {b}
  /\ IF d # 0 THEN Tell(Reported(code[b][d]), below)
     ELSE IF Preds(edges, b) = {} THEN Fail
     ELSE stack' = <<Open(b)>> \o below /\ UNCHANGED <<size, answer>>

Begin ==
  /\ answer = "none" /\ stack = <<>>
  /\ Enter(UseBlock, use, <<>>, {})
  /\ UNCHANGED program

\* The next predecessor.  The call is given its tail as the instruction, so it
\* looks before the tail: before the last instruction of a block that has any.
Visit ==
  /\ answer = "none" /\ stack # <<>>
  /\ \E p \in Head(stack).todo :
       LET rest == <<[Head(stack) EXCEPT !.todo = @ \ {p}]>> \o Tail(stack) IN
       IF p \in visited THEN Fail /\ UNCHANGED visited
       ELSE Enter(p, Len(code[p]), rest, visited)
  /\ UNCHANGED program

Leave ==
  /\ answer = "none" /\ stack # <<>> /\ Head(stack).todo = {}
  /\ Tell(Head(stack).defsize, Tail(stack))
  /\ UNCHANGED <<program, visited>>

Next == Begin \/ Visit \/ Leave
Spec == Init /\ [][Next]_vars /\ WF_vars(Next)

-----------------------------------------------------------------------------
(* The definitions the instruction sees, each block's last instructions      *)
(* from position Len - skip + 1 on left out.                                 *)

InBody(b, skip) == DefinitionBefore(code[b], Len(code[b]) + 1 - skip)

SeenFrom(skip) ==
  LET own == DefinitionBefore(code[UseBlock], use)
      step == [b \in Blocks |-> IF InBody(b, skip) = 0 THEN Preds(edges, b) ELSE {}]
      passed == Closure(Preds(edges, UseBlock), step)
  IN IF own # 0 THEN {<<UseBlock, own>>}
     ELSE {<<b, InBody(b, skip)>> : b \in {x \in passed : InBody(x, skip) # 0}}

\* Instruction i leaves n bytes in the operand that need not be zero: it
\* zero-extends n bytes to the eight of a whole register, or writes n bytes in
\* any other way, extensions to fewer than eight bytes among them.
Leaves(i, n) ==
  \/ i.size = 8 /\ i.from # 0 /\ i.from = n
  \/ i.size = n /\ (i.size # 8 \/ i.from = 0)

TypeOK ==
  /\ visited \subseteq Blocks
  /\ stack \in Seq([blk : Blocks, todo : SUBSET Blocks, defsize : Nat])
  /\ size \in Nat /\ answer \in {"none", "true", "false"}

\* true means that every definition the walk can see, predecessors' tails left
\* out, leaves as many bytes as reported, those without a size aside; it is not
\* misled by loops or by a block with two ways into it.  A zero extension to
\* eight bytes is told from one that writes eight.  A block nobody defines the
\* operand before is never answered for.
SizeAgrees ==
  answer = "true" =>
    /\ SeenFrom(1) # {}
    /\ \A d \in SeenFrom(1) :
         \E n \in {size, NoSize} : Leaves(code[d[1]][d[2]], n)
    /\ DefinitionBefore(code[UseBlock], use) = 0 =>
         \A b \in visited : Preds(edges, b) # {} \/ InBody(b, 1) # 0

Ends == <>(answer # "none")
=============================================================================
