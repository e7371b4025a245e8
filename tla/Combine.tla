------------------------------- MODULE Combine -------------------------------
(* dispatch_combinsn of micro_hooks.cpp: one call tries the rules on an
   instruction, then on its operands, and stops at the first that rewrites
   something; dispatch_glbopt calls it again as long as one does.

   The context of the rules lives in globals that a call leaves as they are
   when it ends, so "parent" (g_parent_mop_size) starts with whatever the last
   instruction left there. *)
EXTENDS Dispatch

CONSTANTS
  MaxCalls,  \* calls of dispatch_combinsn followed
  Cases      \* instructions the decompiler may hand over, each with the globals
             \* as they are then: [insn, parent, top, defsize, floaty]

VARIABLES
  case,      \* the instruction as it was, and the answers of the analyses
  insn,      \* as it is now
  parent,    \* g_parent_mop_size
  calls,     \* how often it was dispatched, bounded by MaxCalls
  idle,      \* the last call changed nothing
  presumed   \* every rewrite so far was one its rule is made for

vars == <<case, insn, parent, calls, idle, presumed>>

-----------------------------------------------------------------------------
Init ==
  /\ case \in Cases
  /\ insn = case.insn
  /\ parent = case.parent
  /\ calls = 0
  /\ idle = FALSE
  /\ presumed = TRUE

DispatchCombinsn ==
  \E c \in {Combined(insn, [case EXCEPT !.parent = parent])} :
     /\ ~idle /\ insn # Raised /\ calls < MaxCalls
     /\ insn' = IF c.raised THEN Raised ELSE c.to
     /\ parent' = c.parent
     /\ calls' = calls + 1
     /\ idle' = ~c.did
     /\ presumed' = (/\ presumed /\ ~c.raised
                     /\ c.did => Presumes(c.rule, c.at, c.ctx))
     /\ UNCHANGED case

Next == DispatchCombinsn
Spec == Init /\ [][Next]_vars

-----------------------------------------------------------------------------
(* The rewritten instruction does what the one the decompiler handed over did,
   whatever the registers hold: no rule, and no rule after another, changes the
   program the user reads. *)
MeaningKept ==
  presumed =>
    \A env \in Envs(RegsOf(case.insn) \cup RegsOf(insn)) :
      Exec(insn, env) = Exec(case.insn, env)

(* try_compute_opnd_potential_valbits: every bit a value can have is in the
   mask the rules reason with. *)
MaskCovers ==
  presumed =>
   \A o \in {o \in Within(insn) : o.k # "parts" /\ o.size \in 1..Wide /\ CountsRight(o)} :
    \A env \in Envs(RegsIn(o)) : BitAnd(Value(o, env), Mask(o)) = Value(o, env)

(* An operand has the size of the result of the instruction in it: the
   decompiler's verifier dies of anything else, and run_combinsn_fixups, which
   the dispatcher is there to call, asserts it. *)
SizesAgree ==
  presumed => \A o \in Within(insn) : IsSub(o) => o.size = o.i.d.size

(* dispatch_glbopt asks for another round as long as a rule fires: after few
   rounds none does, and no two rules undo each other for ever. *)
Settles == calls = MaxCalls => idle \/ insn = Raised
=============================================================================
