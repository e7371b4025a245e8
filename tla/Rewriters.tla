----------------------------- MODULE Rewriters ------------------------------
(***************************************************************************)
(* What the plugin does to a machine instruction before microcode is made of *)
(* it (microgen_additions/): the rewriters, which turn one instruction into   *)
(* another, and what the inliner reads of a callee.  Instructions are decoded *)
(* out of functions by offset and may be decoded in the wrong place.          *)
(***************************************************************************)
EXTENDS Naturals, FiniteSets, SequencesExt

CONSTANTS
  Fns,      \* functions, positive numbers
  Ptrs,     \* pointers to functions
  None,     \* no function, no pointer, and the operand of other instructions
  Rounds    \* bound: rewritings of one instruction, and decodings in decodings

ASSUME FnsAssumption ==
  Fns \subseteq Nat \ {0} /\ IsFiniteSet(Fns) /\ None \notin Fns \cup Ptrs
\* Enough of them for the longest way that is no circle, two for each function.
ASSUME RoundsAssumption == Rounds \in Nat /\ Rounds >= 2 * Cardinality(Fns) + 2

\* near, mem: a call of a function, or through a pointer.  cond: a conditional
\* jump to where the debugger is tested for; past: one that is followed by that.
\* stop: an instruction the inliner refuses.  bmi: one a filter other than the
\* inliner takes.  op: any other, `to` telling one from another.  junk: what is
\* decoded from the middle of an instruction.
Insn(kind, to, size) == [kind |-> kind, to |-> to, size |-> size]

Hang == Insn("hang", None, 0)
Instructions ==
  [kind : {"near"}, to : Fns, size : Nat] \cup [kind : {"mem"}, to : Ptrs, size : Nat]
    \cup [kind : {"cond", "past", "jmp", "stop", "bmi", "op", "nop", "ret", "junk", "hang"},
          to : Fns \cup {None}, size : Nat]

\* A world has for each function its body, whether it is a thunk (to a function,
\* or through a pointer), is called nullsub_..., or does not return; and for
\* each pointer whether it is const and where it leads.  Bodies are straight code
\* up to a return, and that of a nullsub is nothing else.
IsWorld(w) ==
  /\ w.fns \in [Fns -> [body : Seq(Instructions), thunk : Fns \cup {None}, via : Ptrs \cup {None},
                        nullsub : BOOLEAN, noret : BOOLEAN]]
  /\ w.ptrs \in [Ptrs -> [const : BOOLEAN, to : Fns]]
  /\ \A f \in Fns :
       /\ Len(w.fns[f].body) > 0
       /\ \A n \in 1..Len(w.fns[f].body) :
            /\ w.fns[f].body[n].size > 0
            /\ w.fns[f].body[n].kind = "ret" => n = Len(w.fns[f].body)
       /\ w.fns[f].nullsub => /\ Len(w.fns[f].body) = 1
                             /\ w.fns[f].thunk = None /\ w.fns[f].via = None

\* Where each instruction of a body ends.
Offsets(body) ==
  LET after[n \in 0..Len(body)] == IF n = 0 THEN 0 ELSE after[n - 1] + body[n].size
  IN after
SizeOf(body) == Offsets(body)[Len(body)]
Offset(body, n) == Offsets(body)[n - 1]

\* decode_insn: out of step with the code, up to where it is in step again.
Decoded(body, off) ==
  LET starts == {Offset(body, n) : n \in 1..(Len(body) + 1)}
      beyond == {s \in starts : off < s}
  IN IF off \in starts
     THEN body[CHOOSE n \in 1..Len(body) : Offset(body, n) = off]
     ELSE Insn("junk", None, (CHOOSE s \in beyond : \A t \in beyond : s <= t) - off)

-----------------------------------------------------------------------------
(* Each rewriter: the instruction it makes of i, or i.                       *)

\* Seeded fault: a jump made by it is made conditional again.
UnderDebuggerBack(i) ==
  CASE i.kind = "cond" -> [i EXCEPT !.kind = "nop"]
    [] i.kind = "past" -> [i EXCEPT !.kind = "jmp"]
    [] i.kind = "jmp" -> [i EXCEPT !.kind = "past"]
    [] OTHER -> i

\* remove_under_debugger_interrs
UnderDebugger(i) ==
  CASE i.kind = "cond" -> [i EXCEPT !.kind = "nop"]
    [] i.kind = "past" -> [i EXCEPT !.kind = "jmp"]
    [] OTHER -> i

\* remove_nullsub_call
NullsubCall(w, i) ==
  IF i.kind = "near" /\ w.fns[i.to].nullsub THEN Insn("nop", None, i.size) ELSE i

\* resolve_thunk_function_address_x86_64
ResolvedThunk(w, i) ==
  IF i.kind = "near" /\ w.fns[i.to].via # None THEN Insn("mem", w.fns[i.to].via, i.size)
  ELSE IF i.kind = "near" /\ w.fns[i.to].thunk # None THEN Insn("near", w.fns[i.to].thunk, i.size)
  ELSE IF i.kind = "mem" /\ w.ptrs[i.to].const THEN Insn("near", w.ptrs[i.to].to, i.size)
  ELSE i

\* is_insn_okay_to_inline: neither the end of a basic block nor a stack or
\* conditional move instruction.
OkayToInline(i) == i.kind \in {"op", "bmi", "nop", "junk"}

\* Seeded fault: nothing is asked of what comes between the first and the return.
OperationThenRetAny(w, i, pre) ==
  IF i.kind # "near" THEN i
  ELSE LET first == pre[w.fns[i.to].body[1]]
       IN IF Last(w.fns[i.to].body).kind = "ret" /\ OkayToInline(first) THEN first ELSE i

\* operation_then_ret_resolver_x86_64.  Decoding the start of the callee goes
\* through preprocess_insn, too, which is `pre`; the size becomes that of what
\* is decoded.
OperationThenRet(w, i, pre) ==
  IF i.kind # "near" THEN i
  ELSE LET body == w.fns[i.to].body
           first == pre[body[1]]
       IN IF Last(body).kind # "ret" THEN i
          ELSE IF first = Hang \/ (first.size + Last(body).size = SizeOf(body) /\ OkayToInline(first))
          THEN first ELSE i

\* One round of preprocess_insn: the first rewriter that changes i.
Rewritten(w, i, pre) ==
  IF UnderDebugger(i) # i THEN UnderDebugger(i)
  ELSE IF NullsubCall(w, i) # i THEN NullsubCall(w, i)
  ELSE IF ResolvedThunk(w, i) # i THEN ResolvedThunk(w, i)
  ELSE OperationThenRet(w, i, pre)

\* What one round more comes to where pre is what fewer come to.
Round(w, pre) ==
  [i \in Instructions |->
     LET next == Rewritten(w, i, pre) IN IF next = i THEN i ELSE pre[next]]

\* preprocess_insn: rounds until none changes it.
PreprocessedIn(w) ==
  LET after[n \in 0..Rounds] ==
        IF n = 0 THEN [i \in Instructions |-> Hang] ELSE Round(w, after[n - 1])
  IN after[Rounds]
Settled(w, i) == PreprocessedIn(w)[i]

\* Where decoding a call of f may go on to: what a thunk leads to, and what a
\* function that ends in a return calls first.
Leads(w, i) ==
  IF i.kind = "near" THEN {i.to} ELSE IF i.kind = "mem" /\ w.ptrs[i.to].const
  THEN {w.ptrs[i.to].to} ELSE {}
Onward(w, f) ==
  ({w.fns[f].thunk} \ {None})
    \cup (IF w.fns[f].via = None THEN {} ELSE Leads(w, Insn("mem", w.fns[f].via, 0)))
    \cup (IF Last(w.fns[f].body).kind = "ret" THEN Leads(w, w.fns[f].body[1]) ELSE {})

\* None of these goes in a circle: on one, preprocess_insn does not come back.
NoCircle(w) ==
  LET ending[n \in 0..Cardinality(Fns)] ==
        IF n = 0 THEN {} ELSE {f \in Fns : Onward(w, f) \subseteq ending[n - 1]}
  IN ending[Cardinality(Fns)] = Fns

-----------------------------------------------------------------------------
(* trivial_inliner_x64_t::match.                                             *)

\* What is_callea_inlinable finds off bytes into f; nothing can be made of it
\* beyond the end.
There(w, f, off) ==
  IF off >= SizeOf(w.fns[f].body) THEN Hang ELSE Settled(w, Decoded(w.fns[f].body, off))

\* Where it looks, one instruction after the other: the next is where the size of
\* the one before, rewritten, says.
Looks(w, f) ==
  LET off[n \in 0..SizeOf(w.fns[f].body)] ==
        IF n = 0 THEN 0 ELSE LET last == off[n - 1] IN last + There(w, f, last).size
  IN off

\* There is a return, and all that is found before may be inlined.
Inlinable(w, f) ==
  /\ ~w.fns[f].noret /\ SizeOf(w.fns[f].body) <= 64
  /\ Settled(w, Last(w.fns[f].body)).kind = "ret"
  /\ \E n \in 0..SizeOf(w.fns[f].body) :
       /\ \A m \in 0..(n - 1) : OkayToInline(There(w, f, Looks(w, f)[m]))
       /\ There(w, f, Looks(w, f)[n]).kind = "ret"

-----------------------------------------------------------------------------
(* What an instruction does: the operations it, or what it calls, comes to.  *)

\* Of instructions one after the other, each of which does what does says.
InTurn(does, is) == FlattenSeq([n \in 1..Len(is) |-> does[is[n]]])

\* What an instruction does where does says what those it leads on to do.
Deed(w, does) ==
  [i \in Instructions |->
     IF i.kind \in {"nop", "cond"} THEN <<>>
     ELSE IF i.kind = "past" THEN <<Insn("jmp", i.to, 0)>>
     ELSE IF i.kind = "mem" /\ w.ptrs[i.to].const THEN does[Insn("near", w.ptrs[i.to].to, 0)]
     ELSE IF i.kind # "near" THEN <<Insn(i.kind, i.to, 0)>>
     ELSE IF w.fns[i.to].via # None THEN does[Insn("mem", w.fns[i.to].via, 0)]
     ELSE IF w.fns[i.to].thunk # None THEN does[Insn("near", w.fns[i.to].thunk, 0)]
     ELSE InTurn(does, Front(w.fns[i.to].body))]

\* What instructions do as far as calls go no deeper than a number.
Doing(w) ==
  LET upTo[n \in 0..Rounds] ==
        IF n = 0 THEN [i \in Instructions |-> <<Hang>>] ELSE Deed(w, upTo[n - 1])
  IN upTo

\* No call goes deeper than Rounds, as it would if functions called one another
\* in a circle: this is all they do.
Shallow(w) ==
  \A i \in {Insn("near", f, 0) : f \in Fns} \cup {Insn("mem", p, 0) : p \in Ptrs} :
    Doing(w)[Rounds - 1][i] = Doing(w)[Rounds][i]
=============================================================================
