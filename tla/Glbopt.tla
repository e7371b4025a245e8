------------------------------- MODULE Glbopt -------------------------------
(* hxe_combine and dispatch_glbopt of micro_hooks.cpp over a function: the
   decompiler hands single instructions to the rules while it optimizes, and in
   the end dispatch_glbopt walks all of them, again and again until a walk in
   which no rule did anything.  Rules insert and delete instructions, join
   blocks and cut edges under the walk. *)
EXTENDS FlowRules, Codegen

CONSTANTS
  Functions,  \* functions after local optimization, with what the analyses
              \* of single registers answer and what the
              \* registers may hold at first: [f, defsize, floaty, starts], and
              \* "machine", the instruction whose emitted code f begins with
              \* and the function without it, if there is one
  Ignored,    \* registers nothing reads after the function
  MaxEvents,  \* hxe_combine events before hxe_glbopt
  MaxRounds,  \* walks over the function
  Fuel        \* blocks a run of the function may go through

VARIABLES
  f,          \* the function
  analyses,   \* [defsize, floaty, starts, machine]
  stage,      \* "combine", "walk", "between" rounds, "ok" or "raised"
  blk, pos,   \* the instruction dispatch_glbopt is at
  modified,   \* did_modify
  rounds,     \* walks begun
  events,     \* hxe_combine events so far
  before,     \* the function when the walk began
  was,        \* the function before the last step
  parent,     \* g_parent_mop_size
  topset,     \* g_current_topinsn has been set
  presumed    \* every rewrite so far was one its rule is made for

vars == <<f, analyses, stage, blk, pos, modified, rounds, events, before, was, parent,
          topset, presumed>>

-----------------------------------------------------------------------------
(* What a rule over several instructions takes for granted and does not look
   at. *)
Named(g) == UNION {UNION {UseList(g.code[b][n]) : n \in DOMAIN g.code[b]} : b \in Serials}
Fresh(g, byte, size) == byte # -1 /\ byte..(byte + size - 1) \cap Named(g) = {}
Loads(i) == {o \in Within(i) : HasOp(o, "ldx")}
Reach(g, from, without) ==
  Walk!Closure(from \ {without}, [b \in Serials |-> IF b = without THEN {} ELSE g.succ[b]])

StxPresumes(g, b, n) ==
  LET first == g.code[b][n].l
      second == g.code[b][n + 1].l
      x == SideOfOp(first.i, "ldx")
      y == SideOfOp(second.i, "ldx")
  IN /\ \A o \in {second, first.i[x], second.i[y]} : o.size = first.size
     /\ Loads(Insn("mov", second.i[Other(y)], None, None)) = {}

(* The flag is dead after the jump, an operand is taken for overwritten exactly
   when it is, and a store does not come between a load and the jump. *)
SiftPresumes(g, b, m, n, cc) ==
  LET set == g.code[b][m]
      between == DefsBetween(g.code[b], m, n)
      Overwritten(o) == BytesIn(Operands(o)) \cap between # {}
  IN m # 0 =>
     /\ \A s \in g.succ[b] : Walk!LiveUses(SeenCode(g, {At[cc]}), BySucc(g), s, 0) = {}
     /\ \A o \in {set.l, set.r} : Overlaps(o, between) <=> Overwritten(o)
     /\ ~Overwritten(set.r)
     /\ Overwritten(set.l) =>
          Fresh(g, AllocateTemp(g.code[b], set.l.size), set.l.size)
     /\ Loads(set) # {} => \A k \in m..n : g.code[b][k].op # "stx"

SiftAllPresumes(g, b, n) ==
  \A steps \in {SiftSteps(g, b, n)} :
    \A k \in 1..Len(CcInOrder) :
      steps[k].f # steps[k - 1].f =>
        /\ ~steps[k].stop
        /\ \E m \in {SiftableDef(steps[k - 1].f, b, steps[k - 1].n, CcInOrder[k])} :
             SiftPresumes(steps[k - 1].f, b, m, steps[k - 1].n, CcInOrder[k])

(* The set is on every way to the jump, and nothing it reads, not even the flag
   it writes, is written on the way. *)
JccPresumes(g, b, n) ==
  \A k \in DOMAIN CcInOrder :
    \A at \in CopiedDef(g, b, n, CcInOrder[k]) :
      LET set == g.code[at[1]][at[2]]
          ways == {x \in Reach(g, g.succ[at[1]], at[1]) : b \in Reach(g, {x}, at[1])}
      IN /\ At[CcInOrder[k]] \notin BytesIn(Operands(set.l) \cup Operands(set.r))
         /\ Loads(set) = {}
         /\ \A x \in ways : Walk!LastDefinition(Seen(g.code[x], UseList(set))) = 0
         /\ Walk!RedefinitionAfter(Seen(g.code[at[1]], UseList(set)), at[2]) = 0
         /\ b \notin Reach(g, {1}, at[1])

(* The sets write one bit each, which no later one reads or writes. *)
MergerPresumes(g, b, n) ==
  LET sets == g.code[b + 1]
  IN /\ Fresh(g, AllocateTemp(g.code[b], FlagSlots + 1), FlagSlots + 1)
     /\ \A k \in DOMAIN sets :
          /\ sets[k].d.size = 1 /\ Mask(sets[k].d) = 1
          /\ \A h \in 1..(k - 1) : UseList(sets[k]) \cap DefList(sets[h]) = {}

CopyAt(c, v, o, n) ==
  \E k \in 1..(n - 1) :
    /\ c[k] = Insn("mov", v, None, o)
    /\ \A h \in (k + 1)..(n - 1) : DefList(c[h]) \cap (Bytes(v) \cup Bytes(o)) = {}

(* Only the shifts and the joins found write v or what was shifted, each of what
   v was, for all of its width; the sum reads v. *)
RoundUpPresumes(g, b, n) ==
  LET c == g.code[b]
      v == c[n].d
      found == SmearedTo(c, n, v)
      last == found[Smears].join
      sum == IF last = 0 THEN 0 ELSE SumAt(c, last)
  IN sum # 0 =>
     /\ \A k \in (n + 1)..(sum - 1) :
          (DefList(c[k]) \cap Bytes(v) # {}) <=> (\E m \in 1..Smears : found[m].join = k)
     /\ \A m \in 1..Smears :
          LET s == c[found[m].shift]
          IN /\ s.l = v \/ CopyAt(c, v, s.l, found[m].shift)
             /\ s.l.size = v.size /\ s.d.size = v.size
             /\ \A k \in (found[m].shift + 1)..(found[m].join - 1) :
                  DefList(c[k]) \cap DefList(s) = {}
     /\ 2 ^ Smears >= Bits(v.size)
     /\ SideOfKind(c[sum], "num") # "no" /\ c[sum][Other(SideOfKind(c[sum], "num"))] = v
     /\ c[sum].d.size = v.size
     /\ Fresh(g, AllocateTemp(c, v.size), v.size)

FlowPresumes(rule, g, b, n) ==
  CASE rule = "StxStxCombine" -> StxPresumes(g, b, n)
    [] rule = "SiftDownFlagcomps" -> SiftAllPresumes(g, b, n)
    [] rule = "InterblockJccDeps" -> JccPresumes(g, b, n)
    [] rule = "MergeShortCircuitOr" -> g.code[b][n].d.b \notin {b + 1, b + 2}
    [] rule = "InterblockFlagopMerger" -> MergerPresumes(g, b, n)
    [] rule = "ReplaceBooleanFlow" -> TRUE
    [] rule = "RoundUpPow2" -> RoundUpPresumes(g, b, n)

-----------------------------------------------------------------------------
(* dispatch_combinsn on the instruction at n of block b.  A rule that declines
   may have changed the function all the same, and the next rule sees that. *)
FlowNames == {"StxStxCombine", "SiftDownFlagcomps", "InterblockJccDeps",
              "ReplaceBooleanFlow", "MergeShortCircuitOr", "InterblockFlagopMerger",
              "RoundUpPow2"}

Answer(did, g, n, size, ok) ==
  [did |-> did, f |-> g, n |-> n, parent |-> size, presumed |-> ok]

Right(rule, g, b, n, ctx) ==
  IF rule \in FlowNames THEN FlowPresumes(rule, g, b, n)
  ELSE Presumes(rule, g.code[b][n], ctx)

OnOperands(c, g, b, n, ok) ==
  Answer(c.did, IF c.did THEN [g EXCEPT !.code[b][n] = IF c.raised THEN Raised ELSE c.to]
                ELSE g,
         n, c.parent, ok /\ (c.did => ~c.raised /\ Presumes(c.rule, c.at, c.ctx)))

RECURSIVE FromRule(_, _, _, _, _, _), AfterRule(_, _, _, _, _, _, _),
          Changed(_, _, _, _, _)
FromRule(k, g, b, n, ctx, ok) ==
  IF k > Len(AllRules) THEN OnOperands(InOperands(g.code[b][n], ctx), g, b, n, ok)
  ELSE AfterRule(ApplyAt(AllRules[k], g, b, n, ctx), k, g, b, n, ctx, ok)
AfterRule(r, k, g, b, n, ctx, ok) ==
  IF r.f = g /\ ~r.did THEN FromRule(k + 1, g, b, n, ctx, ok)
  ELSE Changed(r, k, b, ctx, ok /\ Right(AllRules[k], g, b, n, ctx))
Changed(r, k, b, ctx, ok) ==
  IF r.did THEN Answer(TRUE, r.f, r.n, ctx.parent, ok /\ r.f.code[b][r.n] # Raised)
  ELSE FromRule(k + 1, r.f, b, r.n, ctx, ok)

(* current_topinsn is set only for an instruction that has neighbours; for one
   alone in its block it is whatever was dispatched before. *)
Alone(b) == Len(f.code[b]) = 1
Top(b) == IF ~Alone(b) THEN "this" ELSE IF topset THEN "other" ELSE "null"

Context(b, glbopt) ==
  [parent |-> parent, top |-> Top(b), glbopt |-> glbopt,
   defsize |-> analyses.defsize, floaty |-> analyses.floaty]

HasRaised(g) == \E b \in Serials : \E n \in DOMAIN g.code[b] : g.code[b][n] = Raised

DispatchCombinsn(b, n, glbopt) ==
  \E c \in {FromRule(1, f, b, n, Context(b, glbopt), presumed)} :
    /\ f' = c.f /\ was' = f
    /\ parent' = c.parent
    /\ presumed' = c.presumed
    /\ topset' = (topset \/ ~Alone(b))
    /\ \/ /\ glbopt
          /\ modified' = (modified \/ c.did)
          /\ pos' = c.n + 1
       \/ /\ ~glbopt
          /\ UNCHANGED <<modified, pos>>
    /\ stage' = IF HasRaised(c.f) THEN "raised" ELSE stage

-----------------------------------------------------------------------------
Init ==
  /\ \E case \in Functions :
       /\ f = case.f
       /\ analyses = [defsize |-> case.defsize, floaty |-> case.floaty, starts |-> case.starts,
                     machine |-> case.machine]
  /\ stage = "combine"
  /\ blk = 1 /\ pos = 1
  /\ modified = FALSE
  /\ rounds = 0 /\ events = 0
  /\ before = f /\ was = f
  /\ parent = -1
  /\ topset = FALSE
  /\ presumed = TRUE

(* hxe_combine, which is not called for the only instruction of a block. *)
CombineEvent ==
  /\ stage = "combine" /\ events < MaxEvents
  /\ \E b \in Serials : \E n \in DOMAIN f.code[b] :
       ~Alone(b) /\ DispatchCombinsn(b, n, FALSE)
  /\ events' = events + 1
  /\ UNCHANGED <<analyses, blk, rounds, before>>

(* The decompiler drops what the rules made a nop of before it asks again. *)
WithoutNops(g) ==
  [g EXCEPT !.code = [b \in Serials |-> SelectSeq(@[b], LAMBDA i : i.op # "nop")]]

BeginRound ==
  /\ stage \in {"combine", "between"} /\ rounds < MaxRounds
  /\ f' \in {f, WithoutNops(f)}
  /\ before' = f' /\ was' = f'
  /\ stage' = "walk" /\ rounds' = rounds + 1
  /\ blk' = 1 /\ pos' = 1 /\ modified' = FALSE
  /\ UNCHANGED <<analyses, events, parent, topset, presumed>>

DispatchGlbopt ==
  /\ stage = "walk" /\ blk \in Serials /\ pos \in DOMAIN f.code[blk]
  /\ DispatchCombinsn(blk, pos, TRUE)
  /\ UNCHANGED <<analyses, blk, rounds, events, before>>

NextBlock ==
  /\ stage = "walk" /\ blk \in Serials /\ pos \notin DOMAIN f.code[blk]
  /\ blk' = blk + 1 /\ pos' = 1 /\ was' = f
  /\ UNCHANGED <<f, analyses, stage, modified, rounds, events, before, parent,
                 topset, presumed>>

(* MERR_LOOP or MERR_OK. *)
EndRound ==
  /\ stage = "walk" /\ blk \notin Serials
  /\ stage' = IF modified THEN "between" ELSE "ok"
  /\ was' = f
  /\ UNCHANGED <<f, analyses, blk, pos, modified, rounds, events, before, parent,
                 topset, presumed>>

Next == CombineEvent \/ BeginRound \/ DispatchGlbopt \/ NextBlock \/ EndRound

Spec == Init /\ [][Next]_vars

-----------------------------------------------------------------------------
(* A run of a function: the registers and memory, the places read from, and the
   block that comes next. *)
Going(env, loads, to) == [env |-> env, loads |-> loads, to |-> to]
Places(i, env) == {Cell(Value(o.i.r, env)) : o \in Loads(i)}

Loaded(i, s) == [s EXCEPT !.loads = @ \cup Places(i, s.env)]
Stepped(i, s) ==
  CASE i.op = "nop" -> s
    [] i.op = "goto" -> [s EXCEPT !.to = i.l.b]
    [] i.op \in JConditional ->
         [s EXCEPT !.to = IF Outcome(i, s.env) # 0 THEN i.d.b ELSE @]
    [] i.op = "stx" -> [s EXCEPT !.env = Store(i, @)]
    [] OTHER -> [s EXCEPT !.env = Exec(i, @)]

(* The states a block, and the function, can end in. *)
RECURSIVE AfterBlock(_, _, _), Run(_, _, _)
AfterBlock(c, n, s) ==
  IF n > Len(c) THEN {s}
  ELSE UNION {AfterBlock(c, n + 1, t) : t \in {Stepped(c[n], Loaded(c[n], s))}}
Run(g, s, fuel) ==
  IF fuel = 0 \/ s.to = NBlocks THEN {s}
  ELSE UNION {Run(g, t, fuel - 1) : t \in AfterBlock(g.code[s.to], 1, [s EXCEPT !.to = s.to + 1])}

RegistersOf(g) ==
  UNION {UNION {RegsOf(g.code[b][n]) : n \in DOMAIN g.code[b]} : b \in Serials}
Garbage == [r \in DOMAIN RegBits |-> 2 ^ RegBits[r] - 1]

(* From the same registers both functions end with the same ones, and the new
   one reads from nowhere the old one does not. *)
SameEnd(old, new, seen) ==
  old.to = NBlocks =>
    /\ new.to = NBlocks
    /\ \A r \in seen : old.env[r] = new.env[r]
    /\ new.loads \subseteq old.loads
SameProgram(g, h) ==
  \A start \in {Going(env @@ Garbage, {}, 1) : env \in analyses.starts} :
    \A old \in Run(g, start, Fuel) : \A new \in Run(h, start, Fuel) :
      SameEnd(old, new, RegistersOf(g) \ Ignored)

-----------------------------------------------------------------------------
(* No rewrite, of one instruction or of several in different blocks, changes
   what the function does: a flag computed later or again, a branch turned into
   logic and two stores made one leave every register and cell as they were. *)
ProgramKept == presumed /\ was # f => SameProgram(was, f)

(* A function that begins with code a filter emitted does what the processor
   does with the instruction the code is for, and then what comes after it: the
   destination and the flags, read by a later jump or set, are those of the
   instruction when the code is emitted and after every rule. *)
EmittedDoes ==
  presumed =>
    \A m \in analyses.machine : \A env \in {s @@ Garbage : s \in analyses.starts} :
      Presumable(m.insn, env) =>
        \A old \in Run(m.after, Going(Does(m.insn, env), {}, 1), Fuel),
           new \in Run(f, Going(env, {}, 1), Fuel) :
          SameEnd(old, new, RegistersOf(f) \ Ignored)

(* The sets of successors and predecessors and the types the rules maintain by
   hand are those of the jumps: the decompiler's later passes, and the walks of
   the next rule, go by the sets and not by the jumps. *)
Ends(b) == IF f.code[b] = <<>> THEN Nop ELSE f.code[b][Len(f.code[b])]
EdgesAgree ==
  presumed =>
    \A b \in 1..(NBlocks - 1) :
      LET last == Ends(b)
          to == CASE last.op = "goto" -> {last.l.b}
                  [] last.op \in JConditional -> {last.d.b, b + 1}
                  [] OTHER -> {b + 1}
      IN /\ f.succ[b] = to
         /\ f.type[b] = (IF last.op \in JConditional THEN "2way" ELSE "1way")
         /\ \A s \in Serials : s \in f.succ[b] <=> b \in f.pred[s]

(* MERR_OK says that nothing was changed, and the decompiler keeps what it knows
   of the function from before the walk. *)
OkMeansUnchanged == stage = "ok" /\ presumed => f = before

(* The rules come to an end on every function: they do not undo each other, nor
   does one find its own result to work on, from one MERR_LOOP to the next. *)
Finishes == stage = "between" /\ presumed => rounds < MaxRounds
=============================================================================
