---------------------------- MODULE ReachingDefs ----------------------------
(***************************************************************************)
(* gather_defs (hexutils.cpp): the definitions of an operand list that reach *)
(* the end of a block, collected into a vector of fixed size by a recursive  *)
(* walk over predecessors.  `stack` holds the calls that are open.           *)
(***************************************************************************)
EXTENDS Flow

CONSTANTS
  Codes,      \* instruction sequences a block may have
  Graphs,     \* sets of edges a function may have
  Sizes,      \* capacities the caller may have given the vector
  EntryBlock  \* the block the caller asks about

VARIABLES
  code, edges,  \* the function, left alone
  cap,          \* m_max_size of the vector
  stack,        \* open calls: the block and its predecessors not yet seen
  visited,      \* visited_pool
  defs,         \* the vector, as pairs <<block, position>>
  answer        \* "none" until the outermost call returns

vars == <<code, edges, cap, stack, visited, defs, answer>>
program == <<code, edges, cap>>

\* push_back of fixed_size_vecptr_t takes no element into the last slot.
Fits == Len(defs) + 1 < cap

Open(b) == [blk |-> b, todo |-> Preds(edges, b)]

Init ==
  /\ code \in [Blocks -> Codes] /\ edges \in Graphs
  /\ cap \in Sizes
  /\ stack = <<>> /\ visited \in LeftOver /\ defs = <<>> /\ answer = "none"

\* Seeded fault: the loop over the blocks does not get beyond the first.
SameCall(b) == stack

\* The open calls once the topmost has b behind it.
Rest(b) == <<[Head(stack) EXCEPT !.todo = @ \ {b}]>> \o Tail(stack)

\* Seeded fault: only blocks the walk goes through are marked.
MarkedOpen(b) == IF LastDefinition(code[b]) = 0 THEN visited \cup {b} ELSE visited

Marked(b) == visited \cup {b}

\* Seeded faults: a block without a definition is not told from one with; a
\* full vector is reported as success.
EnterUnchecked(b, below) ==
  /\ defs' = Append(defs, <<b, LastDefinition(code[b])>>)
  /\ stack' = below
  /\ answer' = IF below = <<>> THEN "true" ELSE answer
EnterFullTrue(b, below) ==
  LET d == LastDefinition(code[b]) IN
  IF d = 0 THEN stack' = <<Open(b)>> \o below /\ UNCHANGED <<defs, answer>>
  ELSE /\ defs' = IF Fits THEN Append(defs, <<b, d>>) ELSE defs
       /\ stack' = below
       /\ answer' = IF below = <<>> THEN "true" ELSE answer

\* The start of a call on block b, above the calls of `below`.
Enter(b, below) ==
  LET d == LastDefinition(code[b]) IN
  IF d = 0 THEN stack' = <<Open(b)>> \o below /\ UNCHANGED <<defs, answer>>
  ELSE IF Fits
  THEN /\ defs' = Append(defs, <<b, d>>)
       /\ stack' = below
       /\ answer' = IF below = <<>> THEN "true" ELSE answer
  ELSE stack' = <<>> /\ answer' = "false" /\ UNCHANGED defs

\* gather_defs: clear the pool and walk.
Begin ==
  /\ answer = "none" /\ stack = <<>>
  /\ visited' = {}
  /\ Enter(EntryBlock, <<>>)
  /\ UNCHANGED program

\* The next predecessor, in the order predset has them.
Visit ==
  /\ answer = "none" /\ stack # <<>>
  /\ \E p \in Head(stack).todo :
       IF p \in visited
       THEN stack' = Rest(p) /\ UNCHANGED <<visited, defs, answer>>
       ELSE visited' = Marked(p) /\ Enter(p, Rest(p))
  /\ UNCHANGED program

\* A call that has seen all its predecessors returns true.
Leave ==
  /\ answer = "none" /\ stack # <<>> /\ Head(stack).todo = {}
  /\ stack' = Tail(stack)
  /\ answer' = IF Len(stack) = 1 THEN "true" ELSE "none"
  /\ UNCHANGED <<program, visited, defs>>

Next == Begin \/ Visit \/ Leave
Spec == Init /\ [][Next]_vars /\ WF_vars(Next)

-----------------------------------------------------------------------------
TypeOK ==
  /\ visited \subseteq Blocks
  /\ stack \in Seq([blk : Blocks, todo : SUBSET Blocks])
  /\ defs \in Seq(Blocks \X (Nat \ {0}))
  /\ answer \in {"none", "true", "false"}

Collected == {defs[n] : n \in 1..Len(defs)}

\* Nothing is collected that does not reach the end of the block, and nothing
\* twice, loops and joins in the graph notwithstanding.
Sound ==
  /\ Collected \subseteq ReachingEnd(code, edges, EntryBlock)
  /\ \A m, n \in 1..Len(defs) : defs[m] = defs[n] => m = n

\* "returns false if it failed to gather all uses due to the size of the defs
\* vector" (hexutils.hpp:363): true means that every reaching definition is
\* there, false that they did not fit.
AnswerTellsComplete ==
  /\ answer = "true" => Collected = ReachingEnd(code, edges, EntryBlock)
  /\ answer = "false" => Cardinality(ReachingEnd(code, edges, EntryBlock)) >= cap

\* The walk ends on every graph.
Ends == <>(answer # "none")
=============================================================================
