-------------------------------- MODULE Flow --------------------------------
(***************************************************************************)
(* What the data-flow walks of hexutils.cpp see of a function: its blocks,   *)
(* their predecessors, and of each instruction only what it does to the one  *)
(* operand list the walk is about.  The walks in one block                   *)
(* (find_definition_backwards, find_redefinition, find_next_use) are the     *)
(* operators here; the walks over blocks are the modules that extend this.   *)
(***************************************************************************)
EXTENDS Naturals, Sequences, FiniteSets

CONSTANTS
  Blocks,     \* serial numbers of the blocks
  NoSize,     \* NOSIZE, an operand without a size
  LeftOver    \* what an earlier walk may have left in visited_pool

\* "use" reads the list; "def" writes it as its destination operand, which
\* generate_use_for_insn puts among the uses too; "spoil" is a call whose
\* spoiled list has it; "other" has nothing to do with it.
Kinds == {"other", "use", "def", "spoil"}

\* size is the size of the destination operand.  `from` is the size of what an
\* m_xdu, a zero extension, has as its source, and 0 in other instructions.
Insn(kind, size) == [kind |-> kind, size |-> size, from |-> 0]
Extension(from, size) == [kind |-> "def", size |-> size, from |-> from]

Defines(i) == i.kind \in {"def", "spoil"}
Uses(i) == i.kind \in {"use", "def"}

Max0(S) == IF S = {} THEN 0 ELSE CHOOSE m \in S : \A n \in S : n <= m
Min0(S) == IF S = {} THEN 0 ELSE CHOOSE m \in S : \A n \in S : m <= n

\* find_definition_backwards(blk, insn, list): the last definition before
\* position `before`, 0 for null.  A null insn means from the tail on.
DefinitionBefore(c, before) == Max0({n \in 1..Len(c) : n < before /\ Defines(c[n])})
LastDefinition(c) == DefinitionBefore(c, Len(c) + 1)

\* find_redefinition(blk, insn, list): the first definition after `after`.
RedefinitionAfter(c, after) == Min0({n \in 1..Len(c) : n > after /\ Defines(c[n])})

-----------------------------------------------------------------------------
(* Graphs, edge <<p, s>> from predecessor to successor.                      *)

Preds(edges, b) == {p \in Blocks : <<p, b>> \in edges}
Succs(edges, b) == {s \in Blocks : <<b, s>> \in edges}

\* S has `from` in it and what step gives for its members.
Closed(S, from, step) == from \subseteq S /\ \A c \in S : step[c] \subseteq S

\* The least such set.
Closure(from, step) ==
  LET closed == {S \in SUBSET Blocks : Closed(S, from, step)}
  IN {b \in Blocks : \A S \in closed : b \in S}

\* The definitions that reach a place: those last in a block from which there
\* is a way to it without another definition.
DefinitionsIn(code, blocks) ==
  {<<b, LastDefinition(code[b])>> : b \in {x \in blocks : LastDefinition(code[x]) # 0}}

PassThrough(code, edges, b) == IF LastDefinition(code[b]) = 0 THEN Preds(edges, b) ELSE {}

ReachingEnd(code, edges, b) ==
  DefinitionsIn(code, Closure({b}, [x \in Blocks |-> PassThrough(code, edges, x)]))

\* The blocks control can be in after it was last in `from` and before it
\* first comes to `to`, and whether none of them writes the list, nor `from`
\* after position `after`: what no_redef_in_path answers.
BlocksBetween(edges, from, to) ==
  Closure(Succs(edges, from),
          [b \in Blocks |-> IF b \in {from, to} THEN {} ELSE Succs(edges, b)]) \ {from, to}

NoRedefinition(code, edges, from, after, to) ==
  \/ from = to
  \/ /\ RedefinitionAfter(code[from], after) = 0
     /\ \A b \in BlocksBetween(edges, from, to) : LastDefinition(code[b]) = 0

\* The uses of the list after position `after` of `from` that come before a
\* redefinition.
LiveUses(code, edges, from, after) ==
  LET UsesIn(b, pos) == {<<b, n>> : n \in {k \in 1..Len(code[b]) : pos < k /\ code[b][k].kind = "use"
                       /\ RedefinitionAfter(code[b], pos) \notin 1..(k - 1)}}
      step == [b \in Blocks |-> IF LastDefinition(code[b]) = 0 THEN Succs(edges, b) ELSE {}]
      next == IF RedefinitionAfter(code[from], after) = 0 THEN Succs(edges, from) ELSE {}
  IN UsesIn(from, after) \cup UNION {UsesIn(b, 0) : b \in Closure(next, step)}

-----------------------------------------------------------------------------
(* gather_uses, forwards or (with prior) backwards: what find_next_use and
   find_prev_use give one after the other in one block, and the position of the
   redefinition that ended them, 0 for none.  Forwards an instruction is asked
   for uses first, and its destination is one; backwards it is asked for
   definitions first.                                                        *)
UsesEnd(c, prior, pos) ==
  IF prior THEN DefinitionBefore(c, pos)
  ELSE Min0({n \in 1..Len(c) : n > pos /\ Defines(c[n]) /\ ~Uses(c[n])})

UsesAhead(c, prior, pos) ==
  LET end == UsesEnd(c, prior, pos)
  IN {u \in 1..Len(c) : Uses(c[u]) /\ IF prior THEN end < u /\ u < pos
                                     ELSE pos < u /\ (end = 0 \/ u < end)}

\* The members of a set in the order given.
InOrder(order, S) ==
  LET found[n \in 0..Len(order)] ==
        IF n = 0 THEN <<>>
        ELSE IF order[n] \in S THEN Append(found[n - 1], order[n]) ELSE found[n - 1]
  IN found[Len(order)]

UsesFrom(c, prior, pos) ==
  InOrder([n \in 1..Len(c) |-> IF prior THEN Len(c) + 1 - n ELSE n], UsesAhead(c, prior, pos))

\* The walk in a neighbouring block starts at its head and so looks behind it;
\* a block without one, like a null start, is passed through.
HeadOf(c) == IF c = <<>> THEN 0 ELSE 1

\* What the walk over blocks gathers, given a vector large enough: it goes
\* past a redefinition, and ends where there is none.
GatheredUses(code, edges, prior, from, start) ==
  LET FoundIn(b, pos) == LET at == UsesFrom(code[b], prior, pos)
                         IN {<<b, at[n]>> : n \in 1..Len(at)}
      Past(b, pos) == IF pos = 0 \/ UsesEnd(code[b], prior, pos) # 0
                      THEN IF prior THEN Preds(edges, b) ELSE Succs(edges, b)
                      ELSE {}
      step == [b \in Blocks |-> Past(b, HeadOf(code[b]))]
  IN (IF start = 0 THEN {} ELSE FoundIn(from, start)) \cup
       UNION {FoundIn(b, 1) : b \in Closure(Past(from, start), step)}
=============================================================================
