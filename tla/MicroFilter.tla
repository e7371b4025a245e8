---------------------------- MODULE MicroFilter ----------------------------
(***************************************************************************)
(* micro_filter_api_t (internal/micro_filter_api.hpp), the one filter the     *)
(* plugin installs in the decompiler, and the filters it chooses from, of      *)
(* which trivial_inliner_x64_t generates microcode itself.  The decompiler is  *)
(* external: it generates a function instruction by instruction, each by       *)
(* gen_micro, which asks match and, if that says so, calls apply.  `calls` are *)
(* the calls open, innermost first; cdg.insn is one object for all of them.    *)
(***************************************************************************)
EXTENDS Rewriters

CONSTANTS
  Worlds,   \* programs that may be decompiled
  Mains,    \* the functions of them that are
  Mbas      \* addresses an mbl_array_t may have

ASSUME WorldsAssumption == (\A w \in Worlds : IsWorld(w)) /\ Mains \subseteq Fns

VARIABLES
  world,
  cur, at,        \* the function, None between two, and its next instruction
  mba,            \* cdg.mba
  insn, ea,       \* cdg.insn and its address
  calls,          \* open calls of gen_micro and apply
  rc,             \* what a call has just returned, or "running"
  selected,       \* m_selected_filter
  guard,          \* m_recursion_guard
  currMba, expectedEnd, currEnd,   \* m_curr_mba, m_expected_fn_end, m_curr_insn_end_ea
  emitted,        \* the instructions microcode was generated for
  dispatched,     \* how often dispatch_microcode_generated ran for cur
  thrown          \* an exception has left the guard set

kernel == <<world, cur, at, mba>>
cdg == <<insn, ea>>
filterVars == <<selected, guard, currMba, expectedEnd, currEnd>>
allVars == <<kernel, cdg, calls, rc, filterVars, emitted, dispatched, thrown>>

Filters == {"inliner", "bmi1"}
ASSUME FiltersAssumption == None \notin Filters

Base(f) == 100 * f
EndOf(f) == Base(f) + SizeOf(world.fns[f].body)
Body == world.fns[cur].body

FilterInit ==
  /\ world \in {w \in Worlds : NoCircle(w)}
  /\ cur = None /\ at = 0 /\ mba = None
  /\ insn = Hang /\ ea = 0 /\ calls = <<>> /\ rc = "running"
  /\ selected = None /\ guard = FALSE
  /\ currMba = None /\ expectedEnd = 0 /\ currEnd = 0
  /\ emitted = <<>> /\ dispatched = 0 /\ thrown = FALSE

-----------------------------------------------------------------------------
(* The decompiler.                                                           *)

StartFunction(f, m) ==
  /\ cur = None
  /\ cur' = f /\ mba' = m /\ at' = 1
  /\ UNCHANGED <<world, cdg, calls, rc, filterVars, emitted, dispatched, thrown>>

NextInsn ==
  /\ cur # None /\ calls = <<>> /\ rc # "error" /\ at <= Len(Body)
  /\ insn' = Body[at] /\ ea' = Base(cur) + Offset(Body, at)
  /\ at' = at + 1 /\ rc' = "running"
  /\ calls' = <<[proc |-> "gen_micro"]>>
  /\ UNCHANGED <<world, cur, mba, filterVars, emitted, dispatched, thrown>>

\* cdg is another object for the next function.
GiveUp ==
  /\ cur' = None /\ at' = 0 /\ insn' = Hang /\ ea' = 0
  /\ rc' = "running" /\ calls' = <<>> /\ emitted' = <<>> /\ dispatched' = 0
  /\ UNCHANGED <<world, mba, filterVars>>

Done == cur # None /\ calls = <<>> /\ rc = "ok" /\ at > Len(Body)
Failed == cur # None /\ calls = <<>> /\ rc = "error"

Finish == (Done \/ Failed) /\ GiveUp /\ UNCHANGED thrown

\* gen_micro when no filter is to be applied; it may fail.
Standard ==
  /\ calls' = Tail(calls)
  /\ \/ rc' = "ok" /\ emitted' = Append(emitted, insn')
     \/ rc' = "error" /\ UNCHANGED emitted

InMatch == calls # <<>> /\ Head(calls).proc = "gen_micro" /\ rc = "running"

\* An internal error of the decompiler is an exception, which the plugin does
\* not catch.
Throw ==
  /\ InMatch
  /\ GiveUp
  /\ thrown' = (thrown \/ guard)

-----------------------------------------------------------------------------
(* match: the rewriters run until none changes the instruction, and a filter *)
(* is selected, anew for every instruction.                                  *)

Preprocessed == PreprocessedIn(world)

Rewrite ==
  LET i == Rewritten(world, insn, Preprocessed) IN
  /\ InMatch /\ i # insn
  /\ insn' = i
  /\ UNCHANGED <<kernel, ea, calls, rc, filterVars, emitted, dispatched, thrown>>

Matching ==
  CASE insn.kind = "near" /\ Inlinable(world, insn.to) -> "inliner"
    [] insn.kind = "bmi" -> "bmi1"
    [] OTHER -> None

\* Seeded fault: an instruction ends where it begins.
UpdateFromCodegenStart ==
  /\ IF mba = currMba THEN UNCHANGED <<currMba, expectedEnd>>
     ELSE currMba' = mba /\ expectedEnd' = EndOf(cur)
  /\ currEnd' = ea

UpdateFromCodegen ==
  /\ IF mba = currMba THEN UNCHANGED <<currMba, expectedEnd>>
     ELSE currMba' = mba /\ expectedEnd' = EndOf(cur)
  /\ currEnd' = ea + insn.size

Match ==
  /\ InMatch /\ Rewritten(world, insn, Preprocessed) = insn
  /\ UpdateFromCodegen
  /\ selected' = Matching
  /\ UNCHANGED cdg
  /\ IF Matching = None /\ guard THEN Standard
     ELSE /\ calls' = <<[proc |-> "apply"]>> \o Tail(calls)
          /\ UNCHANGED <<rc, emitted>>
  /\ UNCHANGED <<kernel, guard, dispatched, thrown>>

-----------------------------------------------------------------------------
(* apply: of the filter that is selected now, or gen_micro again, which comes *)
(* back into match and is kept from coming here by the guard.                *)

Top(proc) == calls # <<>> /\ Head(calls).proc = proc

\* The end of apply, whatever it returns.
ApplyReturn(result) ==
  /\ rc' = result
  /\ calls' = Tail(calls)
  /\ dispatched' = IF currEnd = expectedEnd THEN dispatched + 1 ELSE dispatched

ApplyBmi1 ==
  /\ Top("apply") /\ rc = "running" /\ selected = "bmi1"
  /\ emitted' = Append(emitted, insn)
  /\ ApplyReturn("ok")
  /\ UNCHANGED <<kernel, cdg, filterVars, thrown>>

Guarded == TRUE

ApplyNone ==
  /\ Top("apply") /\ rc = "running" /\ selected = None
  /\ guard' = Guarded
  /\ calls' = <<[proc |-> "gen_micro"], [proc |-> "guarded"]>> \o Tail(calls)
  /\ UNCHANGED <<kernel, cdg, rc, selected, currMba, expectedEnd, currEnd,
                 emitted, dispatched, thrown>>

\* It is reset whatever gen_micro returned.
GuardAfter(result) == FALSE

ReturnGuarded ==
  /\ Top("guarded") /\ rc # "running"
  /\ guard' = GuardAfter(rc)
  /\ ApplyReturn(rc)
  /\ UNCHANGED <<kernel, cdg, selected, currMba, expectedEnd, currEnd, emitted, thrown>>

\* What the inliner has put by, and where in the callee it goes on.
Inlining(call, start, next) == [proc |-> "inline", call |-> call, ea |-> start, next |-> next]

\* trivial_inliner_x64_t::apply: each instruction of the callee is put in place
\* of the call, whose address it takes, until the return.
Inlined(call, start, off) ==
  LET i == Settled(world, Decoded(world.fns[call.to].body, off)) IN
  /\ ea' = start
  /\ IF i.kind = "ret" THEN insn' = call /\ ApplyReturn("ok")
     ELSE /\ insn' = i /\ rc' = "running"
          /\ calls' = <<[proc |-> "gen_micro"], Inlining(call, start, off + i.size)>> \o Tail(calls)
          /\ UNCHANGED dispatched

ApplyInliner ==
  /\ Top("apply") /\ rc = "running" /\ selected = "inliner"
  /\ Inlined(insn, ea, 0)
  /\ UNCHANGED <<kernel, filterVars, emitted, thrown>>

InlineNext ==
  /\ Top("inline") /\ rc # "running"
  /\ IF rc = "error" THEN ApplyReturn(rc) /\ UNCHANGED cdg
     ELSE Inlined(Head(calls).call, Head(calls).ea, Head(calls).next)
  /\ UNCHANGED <<kernel, filterVars, emitted, thrown>>

FilterWork ==
  \/ NextInsn \/ Finish
  \/ Rewrite \/ Match
  \/ ApplyBmi1 \/ ApplyNone \/ ReturnGuarded \/ ApplyInliner \/ InlineNext

FilterNext ==
  \/ FilterWork
  \/ Throw
  \/ \E f \in Mains, m \in Mbas : StartFunction(f, m)

FilterSpec == FilterInit /\ [][FilterNext]_allVars /\ WF_allVars(FilterWork)

-----------------------------------------------------------------------------
\* Types, and how deep calls go: an instruction of a callee put in place of a
\* call, generated under the guard.
FilterTypeOK ==
  /\ cur \in Mains \cup {None} /\ at \in Nat
  /\ insn \in Instructions
  /\ rc \in {"running", "ok", "error"}
  /\ selected \in Filters \cup {None} /\ guard \in BOOLEAN
  /\ emitted \in Seq(Instructions) /\ dispatched \in Nat
  /\ Len(calls) <= 3

Doings(is) == InTurn(Doing(world)[Rounds], is)

\* apply steps through the callee by the sizes the rewriters leave, and a call
\* they have put an operation in place of has the size of that.
OutOfStep(f) ==
  \E n \in 1..Len(world.fns[f].body) :
    Preprocessed[world.fns[f].body[n]].size # world.fns[f].body[n].size
CallsInlined(f) == {i \in {Preprocessed[j] : j \in ToSet(world.fns[f].body)} :
                      i.kind = "near" /\ Inlinable(world, i.to)}

\* operation_then_ret_resolver_x86_64 goes by the size of the first instruction,
\* rewritten, too: that of a longer one covers what comes between.
Covers(f) ==
  LET body == world.fns[f].body
  IN Len(body) > 2 /\ Preprocessed[body[1]].size + Last(body).size = SizeOf(body)

\* What is generated for a function does what the function does, whichever of
\* its calls are resolved, dropped, replaced or inlined by rewriters and
\* filters, but for callees inlined out of step or covered.  It is told of
\* programs only in which calls end.
DoesTheSame ==
  /\ Done /\ Shallow(world)
  /\ \A i \in CallsInlined(cur) : ~OutOfStep(i.to)
  /\ \A f \in Fns : ~Covers(f)
  => Doings(emitted) = Doings(Body)

\* The end of a function is noticed, once, when the mbl_array_t is not taken
\* for the one before, nothing was inlined, no size changed and the guard was
\* not left up.
DispatchedAtEnd ==
  /\ Done /\ expectedEnd = EndOf(cur) /\ ~thrown
  /\ CallsInlined(cur) = {} /\ ~OutOfStep(cur)
  => dispatched = 1

\* Generating a function ends.
Ends == cur # None ~> cur = None
=============================================================================
