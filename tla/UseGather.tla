----------------------------- MODULE UseGather ------------------------------
(***************************************************************************)
(* gather_uses (hexutils.cpp): the uses of an operand list after (or, with   *)
(* prior, before) an instruction, collected into a vector of fixed size by a *)
(* recursive walk over successors (or predecessors).  The float and flag     *)
(* rules change the uses it collects.  `stack` holds the open calls.         *)
(***************************************************************************)
EXTENDS Flow

CONSTANTS
  Codes,      \* instruction sequences a block may have
  Graphs,     \* sets of edges a function may have
  Sizes,      \* capacities the caller may have given the vector
  From        \* the block of the instruction the caller starts at

VARIABLES
  code, edges,  \* the function, left alone
  cap,          \* m_max_size of the vector
  prior,        \* the direction
  start,        \* position of the instruction in From, 0 for none
  stack,        \* open calls: the block and its neighbours not yet seen
  visited,      \* visited_pool
  uses,         \* the vector, as pairs <<block, position>>
  answer        \* "none" until the outermost call returns

vars == <<code, edges, cap, prior, start, stack, visited, uses, answer>>
program == <<code, edges, cap, prior, start>>

Init ==
  /\ code \in [Blocks -> Codes] /\ edges \in Graphs /\ cap \in Sizes
  /\ prior \in BOOLEAN /\ start \in 0..Len(code[From])
  /\ stack = <<>> /\ visited \in LeftOver /\ uses = <<>> /\ answer = "none"

Neighbours(b) == IF prior THEN Preds(edges, b) ELSE Succs(edges, b)
Open(b) == [blk |-> b, todo |-> Neighbours(b)]

\* gather_single_block_uses.
Ended(b, pos) == UsesEnd(code[b], prior, pos)
Found(b, pos) ==
  LET at == UsesFrom(code[b], prior, pos) IN [n \in 1..Len(at) |-> <<b, at[n]>>]

\* push_back takes no element into the last slot.
Room == cap - 1 - Len(uses)
Fitting(found) == SubSeq(found, 1, Min0({Room, Len(found)}))

\* Seeded fault: the answer is turned round.
GoesOnClear(b, pos) == Len(Found(b, pos)) <= Room /\ Ended(b, pos) = 0

\* gather_single_block_uses: its answer says that a redefinition was reached,
\* and is "no" when the vector is full.
GoesOn(b, pos) == Len(Found(b, pos)) <= Room /\ Ended(b, pos) # 0

\* A call on block b, above the calls of `below`, from position pos; without
\* one (a null start, a block without a head) b is passed through.
Enter(b, pos, below) ==
  /\ uses' = IF pos = 0 THEN uses ELSE uses \o Fitting(Found(b, pos))
  /\ IF pos = 0 \/ GoesOn(b, pos)
     THEN stack' = <<Open(b)>> \o below /\ UNCHANGED answer
     ELSE stack' = below /\ answer' = IF below = <<>> THEN "true" ELSE answer

\* Seeded fault: the block walked from is marked, not the one walked to.
MarkedCaller(b) == visited \cup {Head(stack).blk}

Marked(b) == visited \cup {b}

\* gather_uses: clear the pool and walk.  The first block is not marked.
Begin ==
  /\ answer = "none" /\ stack = <<>>
  /\ visited' = {}
  /\ Enter(From, start, <<>>)
  /\ UNCHANGED program

\* The next neighbour, whose walk starts at its head and so looks behind it.
Visit ==
  /\ answer = "none" /\ stack # <<>>
  /\ \E s \in Head(stack).todo :
       LET rest == <<[Head(stack) EXCEPT !.todo = @ \ {s}]>> \o Tail(stack) IN
       IF s \in visited
       THEN stack' = rest /\ UNCHANGED <<visited, uses, answer>>
       ELSE visited' = Marked(s) /\ Enter(s, HeadOf(code[s]), rest)
  /\ UNCHANGED program

Leave ==
  /\ answer = "none" /\ stack # <<>> /\ Head(stack).todo = {}
  /\ stack' = Tail(stack)
  /\ answer' = IF Len(stack) = 1 THEN "true" ELSE "none"
  /\ UNCHANGED <<program, visited, uses>>

Next == Begin \/ Visit \/ Leave
Spec == Init /\ [][Next]_vars /\ WF_vars(Next)

-----------------------------------------------------------------------------
TypeOK ==
  /\ visited \subseteq Blocks
  /\ stack \in Seq([blk : Blocks, todo : SUBSET Blocks])
  /\ uses \in Seq(Blocks \X (Nat \ {0}))
  /\ answer \in {"none", "true"}

Collected == {uses[n] : n \in 1..Len(uses)}

Gathered == GatheredUses(code, edges, prior, From, start)

\* A vector with room left holds exactly that, on graphs with loops and joins
\* too; one that is full, no other.  None is collected twice but those of the
\* first block, which is not marked.
GathersPastRedefinitions ==
  /\ Collected \subseteq Gathered
  /\ answer # "none" /\ Len(uses) + 1 < cap => Collected = Gathered
  /\ \A m, n \in 1..Len(uses) : m # n /\ uses[m] = uses[n] => uses[m][1] = From

\* "make sure successors dont use the flag" (cleanup_late_flag_ops.cpp:120):
\* nothing gathered means that the value is not used.
NothingMissed == ~prior /\ answer # "none" /\ uses = <<>> => LiveUses(code, edges, From, start) = {}
=============================================================================
