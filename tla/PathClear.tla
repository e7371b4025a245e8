----------------------------- MODULE PathClear ------------------------------
(***************************************************************************)
(* no_redef_in_path (hexutils.cpp): may the value an operand list has after  *)
(* an instruction be used at the start of a later block?  A recursive walk   *)
(* over successors that stops at the later block; `stack` holds the open     *)
(* calls.  cleanup_late_flag_ops moves flag computations when it says so.    *)
(***************************************************************************)
EXTENDS Flow

CONSTANTS
  Codes,      \* instruction sequences a block may have
  Graphs,     \* sets of edges a function may have
  From, To    \* blkfrom and blockto

VARIABLES
  code, edges,  \* the function, left alone
  start,        \* position of the instruction to look after in From
  stack,        \* open calls: the block and its successors not yet seen
  visited,      \* visited_pool
  answer        \* "none" until the outermost call returns

vars == <<code, edges, start, stack, visited, answer>>
program == <<code, edges, start>>

Open(b) == [blk |-> b, todo |-> Succs(edges, b)]

Init ==
  /\ code \in [Blocks -> Codes] /\ edges \in Graphs
  /\ start \in 0..Len(code[From])
  /\ stack = <<>> /\ visited \in LeftOver /\ answer = "none"

\* Seeded fault: the loop over the blocks does not get beyond the first.
SameCall(b) == stack

\* The open calls once the topmost has b behind it.
Rest(b) == <<[Head(stack) EXCEPT !.todo = @ \ {b}]>> \o Tail(stack)

\* Seeded faults: every block is looked at from its head; a write is gone past.
EnterFromHead(b, after, below, seen) ==
  IF b = To
  THEN /\ stack' = below /\ visited' = seen
       /\ answer' = IF below = <<>> THEN "true" ELSE answer
  ELSE /\ visited' = seen \cup {b}
       /\ IF RedefinitionAfter(code[b], 0) = 0
          THEN stack' = <<Open(b)>> \o below /\ UNCHANGED answer
          ELSE stack' = <<>> /\ answer' = "false"
EnterPast(b, after, below, seen) ==
  /\ UNCHANGED answer
  /\ IF b = To THEN stack' = below /\ visited' = seen
     ELSE visited' = seen \cup {b} /\ stack' = <<Open(b)>> \o below

\* A call on block b that looks after position `after`, with the blocks in
\* `seen` in the pool.
Enter(b, after, below, seen) ==
  IF b = To
  THEN /\ stack' = below /\ visited' = seen
       /\ answer' = IF below = <<>> THEN "true" ELSE answer
  ELSE /\ visited' = seen \cup {b}
       /\ IF RedefinitionAfter(code[b], after) = 0
          THEN stack' = <<Open(b)>> \o below /\ UNCHANGED answer
          ELSE stack' = <<>> /\ answer' = "false"

\* no_redef_in_path: clear the pool and walk.
Begin ==
  /\ answer = "none" /\ stack = <<>>
  /\ Enter(From, start, <<>>, {})
  /\ UNCHANGED program

Visit ==
  /\ answer = "none" /\ stack # <<>>
  /\ \E s \in Head(stack).todo :
       IF s \in visited
       THEN stack' = Rest(s) /\ UNCHANGED <<visited, answer>>
       ELSE Enter(s, 0, Rest(s), visited)
  /\ UNCHANGED program

Leave ==
  /\ answer = "none" /\ stack # <<>> /\ Head(stack).todo = {}
  /\ stack' = Tail(stack)
  /\ answer' = IF Len(stack) = 1 THEN "true" ELSE "none"
  /\ UNCHANGED <<program, visited>>

Next == Begin \/ Visit \/ Leave
Spec == Init /\ [][Next]_vars /\ WF_vars(Next)

-----------------------------------------------------------------------------
TypeOK ==
  /\ visited \subseteq Blocks
  /\ stack \in Seq([blk : Blocks, todo : SUBSET Blocks])
  /\ answer \in {"none", "true", "false"}

\* The answer is exact: no write on any way from the last execution of the
\* instruction at `start`, be there loops, dead ends or ways that miss To.
AnswerRight ==
  answer # "none" => (answer = "true" <=> NoRedefinition(code, edges, From, start, To))

\* While the walk is on, no block it has been to was found to write the list,
\* each of the open calls is on such a block, and blockto is not among them,
\* whatever the pool held when the walk began.
VisitedClear ==
  answer = "none" /\ stack # <<>> =>
    /\ \A b \in visited :
         b # To /\ RedefinitionAfter(code[b], IF b = From THEN start ELSE 0) = 0
    /\ \A n \in 1..Len(stack) : stack[n].blk \in visited

Ends == <>(answer # "none")
=============================================================================
