------------------------------- MODULE Walks --------------------------------
(***************************************************************************)
(* The walks of hexutils.cpp as the combine rules call them: one at a time,  *)
(* each on a function of its own shape, all of them with g_bbidx_pool as     *)
(* their visited_pool, in whatever state the walk before left it.            *)
(***************************************************************************)
EXTENDS Flow

CONSTANTS
  DefCodes, ClearCodes, SizeCodes, UseCodes,   \* blocks of the functions each is asked about
  Graphs,                            \* their sets of edges
  Sizes, UseSizes                    \* capacities of the vectors of definitions, of uses

ASSUME BlocksAssumption == IsFiniteSet(Blocks) /\ \E b, c \in Blocks : b # c
ASSUME CodesAssumption ==
  /\ NoSize \in Nat
  /\ DefCodes \cup ClearCodes \cup SizeCodes \cup UseCodes \subseteq
       Seq([kind : Kinds, size : Nat, from : Nat])
ASSUME GraphsAssumption == Graphs \subseteq SUBSET (Blocks \X Blocks)
ASSUME SizesAssumption == Sizes \cup UseSizes \subseteq Nat \ {0}
ASSUME PoolsAssumption == LeftOver \subseteq SUBSET Blocks

Here == CHOOSE b \in Blocks : TRUE
There == CHOOSE b \in Blocks : b # Here

VARIABLES
  walk,                              \* which of the walks this is
  code, edges, stack, visited, answer,
  cap, defs,                         \* of gather_defs, cap of gather_uses too
  start,                             \* of no_redef_in_path and gather_uses
  prior, uses,                       \* of gather_uses
  use, size                          \* of find_definition_size

vars == <<walk, code, edges, stack, visited, answer, cap, defs, start, prior, uses, use, size>>

Gather == INSTANCE ReachingDefs WITH Codes <- DefCodes, EntryBlock <- Here
Clear == INSTANCE PathClear WITH Codes <- ClearCodes, From <- Here, To <- There
Find == INSTANCE DefSize WITH Codes <- SizeCodes, UseBlock <- Here

Collect == INSTANCE UseGather WITH Codes <- UseCodes, Sizes <- UseSizes, From <- Here

\* The variables a walk has none of keep these values.
Unused ==
  /\ walk \notin {"gather", "collect"} => cap = 0
  /\ walk # "gather" => defs = <<>>
  /\ walk \notin {"clear", "collect"} => start = 0
  /\ walk # "collect" => prior = FALSE /\ uses = <<>>
  /\ walk # "find" => use = 0 /\ size = NoSize

Init ==
  /\ \/ walk = "gather" /\ Gather!Init
     \/ walk = "clear" /\ Clear!Init
     \/ walk = "find" /\ Find!Init
     \/ walk = "collect" /\ Collect!Init
  /\ Unused

Next ==
  /\ UNCHANGED walk
  /\ \/ walk = "gather" /\ Gather!Next /\ UNCHANGED <<start, prior, uses, use, size>>
     \/ walk = "clear" /\ Clear!Next /\ UNCHANGED <<cap, defs, prior, uses, use, size>>
     \/ walk = "find" /\ Find!Next /\ UNCHANGED <<cap, defs, start, prior, uses>>
     \/ walk = "collect" /\ Collect!Next /\ UNCHANGED <<defs, use, size>>

\* A rule waits for the walk it called.
Spec == Init /\ [][Next]_vars /\ WF_vars(Next)

-----------------------------------------------------------------------------
(* The properties of each walk, whatever is in the pool when it begins.      *)

TypeOK ==
  /\ walk = "gather" => Gather!TypeOK
  /\ walk = "clear" => Clear!TypeOK
  /\ walk = "find" => Find!TypeOK
  /\ walk = "collect" => Collect!TypeOK

\* What gather_defs collects reaches the block, each definition once; it
\* answers true with all the reaching definitions collected and false only if
\* they did not fit.
DefsGathered == walk = "gather" => Gather!Sound /\ Gather!AnswerTellsComplete

\* no_redef_in_path answers true exactly if no way to the later block has a
\* write on it.
AnswerRight == walk = "clear" => Clear!AnswerRight

\* no_redef_in_path goes on only from blocks without a write.
VisitedClear == walk = "clear" => Clear!VisitedClear

\* find_definition_size answers true with a size only if no definition it
\* looked at leaves another number of bytes in the operand, a zero extension to
\* eight bytes those of its source, and none may come from before the
\* function's first instruction.
SizeAgrees == walk = "find" => Find!SizeAgrees

\* gather_uses collects what lies behind redefinitions, all of it if it fits, and
\* a use twice only in the block it starts in.
GathersPastRedefinitions == walk = "collect" => Collect!GathersPastRedefinitions

\* Every walk comes back to its rule, on any graph.
Ends == <>(answer # "none")

\* "make sure successors dont use the flag" (cleanup_late_flag_ops.cpp:120) is
\* asked of gather_uses: it finds no use only if none is reached.
NothingMissed == walk = "collect" => Collect!NothingMissed
=============================================================================
