------------------------------ MODULE GotoMerge ------------------------------
(***************************************************************************)
(* prepostprocess_run (prepostprocess.cpp) as it is built: the hoisting      *)
(* pass only rebuilds its graph, so the work is preopt_merge_goto_goto,      *)
(* repeated until a pass changes nothing.  A block that ends in a goto to a  *)
(* block that itself ends in a goto or a ret loses its goto and gets a copy  *)
(* of that block's instructions.  The copy loop walks the live instruction   *)
(* list of the target, which may be the list it appends to.                  *)
(***************************************************************************)
EXTENDS Naturals, Sequences

CONSTANTS
  N,        \* number of blocks; a block's number stands for its start address
  Bodies,   \* instruction lists a block may have before the pass
  MaxLen    \* bound: no instruction list grows beyond this length

Blocks == 1..N

ASSUME NAssumption == N \in Nat \ {0}

\* An instruction: its opcode, and for a goto the block whose start it names.
\* 0 is every target no block of the function starts at.
Insns == [op : {"goto", "ret", "jcnd", "other"}, to : 0..N]

ASSUME BodiesAssumption == Bodies \subseteq Seq(Insns)

VARIABLES
  code,     \* code[b]: the instructions of block b
  orig,     \* the code the pass was given
  pc,       \* "scan" a block, "copy" a target's instructions, "done"
  block,    \* the block being looked at, N + 1 past the last
  succ,     \* the block being copied
  cursor,   \* targins: position in succ's list
  changed   \* did_change of this pass

vars == <<code, orig, pc, block, succ, cursor, changed>>

TailOf(c, b) == c[b][Len(c[b])]

\* The tail is a goto to an address (l.optype() = mop_v) some block starts at.
Leads(c, b) == c[b] # <<>> /\ TailOf(c, b).op = "goto" /\ TailOf(c, b).to # 0

\* Seeded faults: a target that falls through or branches is copied too; a
\* target that ends in a goto is not; a goto to its own block is left alone.
MergeableAny(c, b) == Leads(c, b) /\ c[TailOf(c, b).to] # <<>>
MergeableRet(c, b) ==
  /\ Leads(c, b)
  /\ c[TailOf(c, b).to] # <<>>
  /\ TailOf(c, TailOf(c, b).to).op = "ret"
MergeableOther(c, b) ==
  /\ Leads(c, b) /\ TailOf(c, b).to # b
  /\ c[TailOf(c, b).to] # <<>>
  /\ TailOf(c, TailOf(c, b).to).op \in {"goto", "ret"}
Mergeable(c, b) ==
  /\ Leads(c, b)
  /\ c[TailOf(c, b).to] # <<>>
  /\ TailOf(c, TailOf(c, b).to).op \in {"goto", "ret"}

-----------------------------------------------------------------------------
Init ==
  /\ code \in [Blocks -> Bodies]
  /\ orig = code
  /\ pc = "scan"
  /\ block = 1
  /\ succ = 0
  /\ cursor = 0
  /\ changed = FALSE

\* One of the `continue`s.
NextBlock ==
  /\ pc = "scan" /\ block \in Blocks
  /\ ~Mergeable(code, block)
  /\ block' = block + 1
  /\ UNCHANGED <<code, orig, pc, succ, cursor, changed>>

\* The goto is unlinked and deleted; the copy starts at the target's head as
\* it is after that.
DropGoto ==
  /\ pc = "scan" /\ block \in Blocks
  /\ Mergeable(code, block)
  /\ succ' = TailOf(code, block).to
  /\ code' = [code EXCEPT ![block] = SubSeq(@, 1, Len(@) - 1)]
  /\ pc' = "copy"
  /\ cursor' = 1
  /\ changed' = TRUE
  /\ UNCHANGED <<orig, block>>

CopyInsn ==
  /\ pc = "copy" /\ cursor <= Len(code[succ])
  /\ Len(code[block]) < MaxLen
  /\ code' = [code EXCEPT ![block] = Append(@, code[succ][cursor])]
  /\ cursor' = cursor + 1
  /\ UNCHANGED <<orig, pc, block, succ, changed>>

\* Seeded fault: the block before the one that was merged comes next.
EndCopyBack ==
  /\ pc = "copy" /\ cursor > Len(code[succ])
  /\ pc' = "scan" /\ block' = block - 1
  /\ succ' = 0 /\ cursor' = 0
  /\ UNCHANGED <<code, orig, changed>>

\* goto rerun: the same block again.
EndCopy ==
  /\ pc = "copy" /\ cursor > Len(code[succ])
  /\ pc' = "scan"
  /\ succ' = 0 /\ cursor' = 0
  /\ UNCHANGED <<code, orig, block, changed>>

\* Seeded fault: didchange is not reset between passes.
EndPassChanged ==
  /\ pc = "scan" /\ block = N + 1
  /\ IF changed
     THEN block' = 1 /\ UNCHANGED <<pc, changed>>
     ELSE pc' = "done" /\ UNCHANGED <<block, changed>>
  /\ UNCHANGED <<code, orig, succ, cursor>>

\* do ... while (didchange)
EndPass ==
  /\ pc = "scan" /\ block = N + 1
  /\ IF changed
     THEN block' = 1 /\ changed' = FALSE /\ UNCHANGED pc
     ELSE pc' = "done" /\ UNCHANGED <<block, changed>>
  /\ UNCHANGED <<code, orig, succ, cursor>>

Next == NextBlock \/ DropGoto \/ CopyInsn \/ EndCopy \/ EndPass

\* One thread runs the pass to its end.
Spec == Init /\ [][Next]_vars /\ WF_vars(Next)

-----------------------------------------------------------------------------
(* What a block means: the instructions that run from its start, gotos        *)
(* followed, up to a ret, a branch, a goto out of the function or a fall into *)
(* the next block.                                                            *)

Falls(b) == [op |-> "falls", to |-> b + 1]

Spins == <<[op |-> "spins", to |-> 0]>>

\* What the blocks mean, given what those do that a goto leads to.
Means(c, next) ==
  [b \in Blocks |->
     IF Leads(c, b) THEN SubSeq(c[b], 1, Len(c[b]) - 1) \o next[TailOf(c, b).to]
     ELSE IF c[b] # <<>> /\ TailOf(c, b).op \in {"ret", "goto"} THEN c[b]
     ELSE Append(c[b], Falls(b))]

Meaning(c) ==
  LET run[n \in 0..N] == Means(c, IF n = 0 THEN [b \in Blocks |-> Spins] ELSE run[n - 1])
  IN run[N]

\* The block reached from b by following n gotos of c, 0 if there is none.
Follow(c, b) ==
  LET at[n \in 0..N] ==
        IF n = 0 THEN b
        ELSE IF at[n - 1] # 0 /\ Leads(c, at[n - 1]) THEN TailOf(c, at[n - 1]).to
        ELSE 0
  IN at

OnCycle(c, b) == \E n \in 1..N : Follow(c, b)[n] = b
Cyclic(c) == \E b \in Blocks : OnCycle(c, b)

\* A cycle of gotos that does something on its way round: an ordinary endless
\* loop of the decompiled function.
WorkingLoop(c) == \E b \in Blocks : OnCycle(c, b) /\ Len(c[b]) > 1

-----------------------------------------------------------------------------
TypeOK ==
  /\ code \in [Blocks -> Seq(Insns)] /\ orig \in [Blocks -> Seq(Insns)]
  /\ pc \in {"scan", "copy", "done"} /\ block \in 1..(N + 1)
  /\ succ \in 0..N /\ cursor \in Nat /\ changed \in BOOLEAN

\* A function without a cycle of gotos means the same after every merge: the
\* copied blocks end in a goto or a ret, never in a fall into a block that
\* follows only the original.
MeaningKept == ~Cyclic(orig) /\ pc # "copy" => Meaning(code) = Meaning(orig)

\* What is left is a fixpoint: no goto leads to a block that ends in another
\* goto or a ret, though each merge changes what the gotos to its block see.
Merged ==
  pc = "done" =>
    \A b, t \in Blocks :
      Leads(code, b) /\ TailOf(code, b).to = t /\ code[t] # <<>> =>
        TailOf(code, t).op \in {"jcnd", "other"}

\* A cycle of gotos that a goto outside the cycle leads into.
EntersCycle(c) ==
  \E b \in Blocks :
    ~OnCycle(c, b) /\ \E n \in 1..N : Follow(c, b)[n] # 0 /\ OnCycle(c, Follow(c, b)[n])

\* The pass does not come back from a function with a goto loop that does any
\* work: merges shorten the loop to a block with a goto to itself, and once that
\* is unlinked the copy loop appends to the list it is walking.
NoWayBack == pc = "done" => ~WorkingLoop(orig)

\* From every other function it does come back, short of one more case: a goto
\* into a cycle from outside may be replaced by itself for ever.
Finishes ==
  /\ []NoWayBack
  /\ ~WorkingLoop(orig) /\ ~EntersCycle(orig) => <>(pc = "done")
=============================================================================
