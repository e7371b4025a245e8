------------------------------ MODULE FlowRules ------------------------------
(* The combine rules that look at other instructions than their own: they move
   the computation of a flag to the jump that reads it, turn branches into
   logic, join stores and find a computation spread over a block
   (cleanup_late_flag_ops.cpp, memory_oper_rules.cpp,
   pow2_rounding_recognizers.cpp).
   What they know of the function they have from the walks of Flow.

   A function is [code, succ, pred, type]: of each block its instructions, its
   successor and predecessor sets and its type.  Blocks are numbered in their
   order, so that block b falls through to b + 1, and the last is the
   decompiler's empty one at the end.  An operand list is the set of the bytes
   of the register file in it. *)
EXTENDS Dispatch

CONSTANTS
  NBlocks,    \* mba->qty
  At,         \* register -> number of its first byte; the flags come first
  TempBytes,  \* rlist_tempregs: bytes of the registers left to the decompiler
  TempEnd,    \* its "high", which is rounded up to a whole word
  FlagSlots,  \* sets interblock_flagop_merger takes at most (15 in the code)
  Smears      \* shifts recognize_overcombined_round_up_pow2 looks for (5)

ASSUME FlowRulesAssumption ==
  /\ NBlocks \in Nat \ {0} /\ FlagSlots \in Nat \ {0} /\ TempEnd \in Nat /\ Smears \in Nat
  /\ At \in [DOMAIN At -> Nat] /\ CcRegs \subseteq DOMAIN At
  /\ TempBytes # {} /\ TempBytes \subseteq 0..(TempEnd - 1)

Serials == 1..NBlocks
Walk == INSTANCE Flow WITH Blocks <- Serials, NoSize <- 0, LeftOver <- {}

FirstTemp == CHOOSE b \in TempBytes : \A c \in TempBytes : b <= c
NameAt(byte) == CHOOSE r \in DOMAIN At : At[r] = byte
TempReg(byte, size) == Reg(NameAt(byte), size)

-----------------------------------------------------------------------------
(* Operand lists. *)
Bytes(o) == IF IsLvalue(o) THEN At[o.r]..(At[o.r] + o.size - 1) ELSE {}
BytesIn(operands) == UNION {Bytes(o) : o \in operands}
(* generate_use_for_insn goes through all operands, the destination too. *)
UseList(i) == BytesIn(Within(i))
DefList(i) == Bytes(i.d)
(* bitset_t::has_any steps its bit before it tests it (see Bitset). *)
HasAny(list, bit, width) == list \cap ((bit + 1)..(bit + width)) # {}

(* What each instruction is to a list, as the walks see it. *)
Kind(i, list) ==
  IF DefList(i) \cap list # {} THEN "def"
  ELSE IF UseList(i) \cap list # {} THEN "use" ELSE "other"
Seen(c, list) == [n \in DOMAIN c |-> Walk!Insn(Kind(c[n], list), 0)]
SeenCode(f, list) == [b \in Serials |-> Seen(f.code[b], list)]
BySucc(f) == {<<b, s>> \in Serials \X Serials : s \in f.succ[b]}
ByPred(f) == {<<p, b>> \in Serials \X Serials : p \in f.pred[b]}

(* find_next_use, with a redefinition: 0 when there is no use before it. *)
NextUse(c, n, list) ==
  LET seen == Seen(c, list)
      use == Walk!Min0({k \in (n + 1)..Len(c) : Walk!Uses(seen[k])})
      def == Walk!RedefinitionAfter(seen, n)
  IN [use |-> IF def # 0 /\ def < use THEN 0 ELSE use, redefined |-> use = 0 /\ def # 0]

(* allocate_tempreg_unused_in_block_range: the first group of which no byte is
   free, by way of has_any; the first instruction is not asked for its uses. *)
AllocateTemp(c, size) ==
  LET free == TempBytes \ UNION {UseList(c[n]) : n \in 2..Len(c)}
      at == {g \in FirstTemp..(TempEnd - 1) :
               (g - FirstTemp) % size = 0 /\ ~HasAny(free, g, size)}
  IN IF at = {} THEN -1 ELSE CHOOSE g \in at : \A h \in at : g <= h

(* minsn_might_have_side_effects asks only what is nested in the instruction. *)
MightHaveSideEffects(i) ==
  \E o \in Within(i) : IsSub(o) /\ o.i.op \in {"ldx", "stx", "call", "icall", "ext", "round_up_pow2"}

-----------------------------------------------------------------------------
(* A rule answers whether it did something, with the function as it leaves it
   and the position its instruction has then. *)
Did(f, n) == [did |-> TRUE, f |-> f, n |-> n]
Declined(f, n) == [did |-> FALSE, f |-> f, n |-> n]

JConditional == Jcc \cup {"jcnd"}
(* Mutant: the other end of the edge is forgotten. *)
CutEdgeOneEnd(f, from, to) == [f EXCEPT !.succ[from] = @ \ {to}]
CutEdge(f, from, to) ==
  [f EXCEPT !.succ[from] = @ \ {to}, !.pred[to] = @ \ {from}]
EndsInGoto(f, b, to) ==
  [f EXCEPT !.code[b] = Append(@, Insn("goto", Target(to), None, None)),
            !.type[b] = "1way"]
Nop == Insn("nop", None, None, None)

RECURSIVE WithCc(_, _, _)
(* replace_cc_flag_mops_with_other_mop. *)
WithCc(o, cc, by) ==
  CASE o.k = "reg" /\ o.r = cc -> by
    [] o.k = "sub" -> [o EXCEPT !.i = [@ EXCEPT !.l = WithCc(@, cc, by),
                                                !.r = WithCc(@, cc, by),
                                                !.d = WithCc(@, cc, by)]]
    [] o.k = "parts" ->
         [o EXCEPT !.parts = [n \in DOMAIN @ |-> WithCc(@[n], cc, by)]]
    [] OTHER -> o
(* Mutant: a flag inside an operand is missed. *)
ReplaceCcOutside(i, cc, by) ==
  [i EXCEPT !.l = IF @.k = "reg" /\ @.r = cc THEN by ELSE @]
ReplaceCc(i, cc, by) == WithCc(SubOf(i, i.d.size), cc, by).i

(* What is computed, without the register it went to, as an operand. *)
Computed(i) == Sub([i EXCEPT !.d = Sized(1)])

CcInOrder == [k \in 1..Cardinality(CcRegs) |-> NameAt(k - 1)]

-----------------------------------------------------------------------------
(* stx_stx_combine: extract_stx_displ, extract_ldx_displ and the comparisons
   of the four.  A place is a segment, a base register and a displacement. *)
Place(seg, address) ==
  IF IsLvalue(address) /\ IsLvalue(seg)
  THEN {[seg |-> seg.r, base |-> address, displ |-> {}]}
  ELSE LET s == IF HasOp(address, "add") THEN SideOfKind(address.i, "reg") ELSE "no"
       IN IF IsLvalue(seg) /\ s # "no" /\ IsNum(address.i[Other(s)])
          THEN {[seg |-> seg.r, base |-> address.i[s],
                 displ |-> {address.i[Other(s)].v}]}
          ELSE {}
StxPlace(i) == Place(i.r, i.d)
LdxPlace(i) == Place(i.l, i.r)

StxStxCombine(f, b, n) ==
  LET c == f.code[b]
      first == c[n].l.i
      second == c[n + 1].l.i
      x == SideOfOp(first, "ldx")
      y == SideOfOp(second, "ldx")
  IN IF /\ c[n].op = "stx" /\ n < Len(c) /\ c[n + 1].op = "stx"
        /\ StxPlace(c[n]) # {} /\ StxPlace(c[n]) = StxPlace(c[n + 1])
        /\ IsSub(c[n].l) /\ IsSub(c[n + 1].l)
        /\ {first.op, second.op} \subseteq Commutative
        /\ x # "no" /\ y # "no"
        /\ LdxPlace(first[x].i) = StxPlace(c[n])
        /\ LdxPlace(second[y].i) = StxPlace(c[n])
     THEN Did([f EXCEPT !.code[b][n].op = "nop",
                        !.code[b][n + 1].l.i[y].i = first], n)
     ELSE Declined(f, n)

-----------------------------------------------------------------------------
(* sift_down_flagcomps: the set that computes a flag read by a jcnd alone is
   taken out of the block and put in place of the flag.  An operand of it that
   is written in between is kept in a temporary.  The right operand's temporary
   goes to the left side, as in the code. *)
Overlaps(o, list) ==
  \E x \in Operands(o) : IsLvalue(x) /\ HasAny(list, At[x.r], x.size)
DefsBetween(c, m, n) == UNION {DefList(c[k]) : k \in (m + 1)..(n - 1)}

(* The operand o of the set at m is freed from what is written up to the jump at
   n: "at" is where the set is then, 0 when there is no temporary for it. *)
InTemporary(f, b, m, o, t) ==
  IF t = -1 THEN [f |-> f, at |-> 0]
  ELSE [f |-> [f EXCEPT !.code[b] =
                 InsertAt([@ EXCEPT ![m].l = TempReg(t, o.size)], m,
                          Insn("mov", o, None, TempReg(t, o.size)))],
        at |-> m + 1]
Decoupled(f, b, m, n, o) ==
  IF Overlaps(o, DefsBetween(f.code[b], m, n))
  THEN InTemporary(f, b, m, o, AllocateTemp(f.code[b], o.size))
  ELSE [f |-> f, at |-> m]

(* Mutant: the flag may be read before the jump, too. *)
SiftableDefReadBefore(f, b, n, cc) ==
  LET m == Walk!DefinitionBefore(Seen(f.code[b], {At[cc]}), n)
  IN IF m # 0 /\ f.code[b][m].op \in SetOps THEN m ELSE 0
SiftableDef(f, b, n, cc) ==
  LET m == Walk!DefinitionBefore(Seen(f.code[b], {At[cc]}), n)
  IN IF /\ m # 0 /\ f.code[b][m].op \in SetOps /\ NextUse(f.code[b], m, {At[cc]}).use = n
        /\ \A s \in f.succ[b] :
             Walk!GatheredUses(SeenCode(f, {At[cc]}), BySucc(f), FALSE, s,
                               Walk!HeadOf(f.code[s])) = {}
     THEN m ELSE 0

(* A flag looked at: "stop" is the return from the middle of the loop. *)
Looked(stop, did, f, n) == [stop |-> stop, did |-> did, f |-> f, n |-> n]
Sifted(f, b, m, n, cc) ==
  Looked(FALSE, TRUE,
       [f EXCEPT !.code[b] =
          RemoveAt([@ EXCEPT ![n] = ReplaceCc(@, cc, Computed(f.code[b][m]))], m)], n - 1)
WithRight(left, right, b, n, cc) ==
  IF right.at = 0 THEN Looked(TRUE, FALSE, left.f, n)
  ELSE Sifted(right.f, b, right.at, n + right.at - left.at, cc)
WithLeft(f, left, b, m, n, cc) ==
  IF left.at = 0 THEN Looked(TRUE, FALSE, f, n)
  ELSE WithRight(left, Decoupled(left.f, b, left.at, n + left.at - m, f.code[b][m].r),
                 b, n + left.at - m, cc)
SiftOne(f, b, m, n, cc) ==
  IF m = 0 THEN Looked(FALSE, FALSE, f, n)
  ELSE WithLeft(f, Decoupled(f, b, m, n, f.code[b][m].l), b, m, n, cc)

(* The loop over the flags the jump reads; the k-th is the function after k. *)
AfterFlag(was, used, b, cc) ==
  IF was.stop \/ At[cc] \notin used THEN was
  ELSE [SiftOne(was.f, b, SiftableDef(was.f, b, was.n, cc), was.n, cc)
          EXCEPT !.did = was.did \/ @]
SiftSteps(f, b, n) ==
  LET after[k \in 0..Len(CcInOrder)] ==
        IF k = 0 THEN Looked(FALSE, FALSE, f, n)
        ELSE AfterFlag(after[k - 1], UseList(f.code[b][n]), b, CcInOrder[k])
  IN after

SiftEnd(end) == [did |-> end.did /\ ~end.stop, f |-> end.f, n |-> end.n]
SiftDownFlagcomps(f, b, n) ==
  IF /\ f.code[b][n].op = "jcnd"
     /\ HasAny(UseList(f.code[b][n]), 0, Cardinality(CcRegs))
  THEN SiftEnd(SiftSteps(f, b, n)[Len(CcInOrder)])
  ELSE Declined(f, n)

-----------------------------------------------------------------------------
(* interblock_jcc_deps_combiner: a flag that a single set in another block
   defines is computed again at the jump. *)
OnlyDef(f, b, n, cc) ==
  LET seen == SeenCode(f, {At[cc]})
      defs == Walk!ReachingEnd(seen, ByPred(f), b)
  IN IF /\ Walk!DefinitionBefore(seen[b], n) = 0
        /\ Cardinality(defs) = 1
        /\ Walk!GatheredUses(seen, ByPred(f), TRUE, b, n - 1) = {}
     THEN defs ELSE {}
CopiedDef(f, b, n, cc) ==
  {at \in OnlyDef(f, b, n, cc) :
     LET set == f.code[at[1]][at[2]]
     IN /\ set.op \in SetOps
        /\ Walk!NoRedefinition(SeenCode(f, UseList(set)), BySucc(f), at[1], at[2], b)}

AfterCopy(was, b, cc, copied) ==
  IF copied = {} THEN was
  ELSE LET at == CHOOSE at \in copied : TRUE
       IN Did([was.f EXCEPT !.code[b][was.n] =
                 ReplaceCc(@, cc, Computed(was.f.code[at[1]][at[2]]))], was.n)
JccDeps(f, b, n) ==
  LET after[k \in 0..Len(CcInOrder)] ==
        IF k = 0 THEN Declined(f, n)
        ELSE AfterCopy(after[k - 1], b, CcInOrder[k],
                       IF At[CcInOrder[k]] \in UseList(f.code[b][n])
                       THEN CopiedDef(after[k - 1].f, b, n, CcInOrder[k]) ELSE {})
  IN after[Len(CcInOrder)]
(* Mutant: did_change is never set. *)
InterblockJccDepsSilent(f, b, n) ==
  IF f.code[b][n].op \in JConditional THEN [JccDeps(f, b, n) EXCEPT !.did = FALSE]
  ELSE Declined(f, n)
InterblockJccDeps(f, b, n) ==
  IF f.code[b][n].op \in JConditional THEN JccDeps(f, b, n) ELSE Declined(f, n)

-----------------------------------------------------------------------------
(* replace_boolean_flow_with_boolean_logic: "x := 0; jcc past; x := 1" is the
   negated condition as a number. *)
ReplaceBooleanFlow(f, b, n, top) ==
  LET c == f.code[b]
      i == c[n]
      jump == c[Len(c)]
      one == f.code[b + 1][1]
      set == Nested(NegateRelation[JccToSetcc[jump.op]], jump.l, jump.r, 1)
  IN IF /\ top = "this" /\ i.op = "mov" /\ IsEqualTo(i.l, 0)
        /\ jump.op \in Jcc /\ b < NBlocks /\ Len(f.code[b + 1]) = 1
        /\ one.op = "mov" /\ LvalueEqual(one.d, i.d) /\ IsEqualTo(one.l, 1)
        /\ NextUse(c, n, Bytes(i.d)) = [use |-> 0, redefined |-> FALSE]
        /\ jump.d.b = b + 2
     THEN Did(EndsInGoto(CutEdge([f EXCEPT !.code[b] =
                                    [@ EXCEPT ![n] = Nop,
                                              ![Len(c)] = IF i.d.size = 1 THEN [set EXCEPT !.d = i.d]
                                                          ELSE Insn("xdu", Sub(set), None, i.d)]],
                                 b, b + 1),
                         b, b + 2), n)
     ELSE Declined(f, n)

(* merge_short_circuit_or_with_no_side_effects. *)
AsSet(jump) == Computed([jump EXCEPT !.op = JccToSetcc[@]])
MergeShortCircuitOr(f, b, n) ==
  LET i == f.code[b][n]
      j == f.code[b + 1][1]
  IN IF /\ i.op \in Jcc /\ b < NBlocks /\ f.pred[b + 1] = {b}
        /\ Len(f.code[b + 1]) = 1 /\ j.op \in Jcc /\ j.d = i.d
        /\ ~MightHaveSideEffects(j)
     THEN Did(CutEdge([f EXCEPT !.code[b][n] = [i EXCEPT !.op = "jnz", !.r = Num(0, 1),
                                                  !.l = Sub(Either(AsSet(i).i, AsSet(j).i))],
                                !.code[b + 1][1] = Nop, !.type[b + 1] = "1way"],
                      b + 1, i.d.b), n)
     ELSE Declined(f, n)

(* interblock_flagop_merger: the sets a jump skips are made before it, into a
   group of temporaries, and selected by its condition. *)
Selected(flag, old, new, d) ==
  Insn("or", Sub(Nested("and", old, flag, flag.size)),
             Sub(Nested("and", new, Unary("lnot", flag, 1), 1)), d)
InterblockFlagopMerger(f, b, n) ==
  LET c == f.code[b]
      i == c[n]
      sets == f.code[b + 1]
      temp == AllocateTemp(c, FlagSlots + 1)
      flag == TempReg(temp + FlagSlots, 1)
      early == [k \in DOMAIN sets |-> [sets[k] EXCEPT !.d.r = NameAt(temp + k - 1)]]
      masks == [k \in DOMAIN sets |-> Selected(flag, sets[k].d, early[k].d, sets[k].d)]
      code == SubSeq(c, 1, n - 1) \o early
                \o <<[i EXCEPT !.op = JccToSetcc[@], !.d = flag]>>
                \o SubSeq(c, n + 1, Len(c)) \o masks
  IN IF /\ i.op \in Jcc /\ b + 1 < NBlocks /\ f.type[b + 1] = "1way" /\ i.d.b = b + 2
        /\ \A k \in DOMAIN sets : /\ sets[k].op \in SetOps /\ sets[k].d.k = "reg"
                                  /\ ~MightHaveSideEffects(sets[k])
        /\ Len(sets) <= FlagSlots /\ temp # -1
     THEN Did(EndsInGoto(CutEdge([f EXCEPT !.code[b] = code,
                                           !.code[b + 1] =
                                             IF f.pred[b + 1] = {b}
                                             THEN [k \in DOMAIN sets |-> Nop] ELSE @],
                                 b, b + 1),
                         b, b + 2), n + Len(sets))
     ELSE Declined(f, n)

-----------------------------------------------------------------------------
(* moptrace_t: the first of the wanted instructions behind n that has to do with
   the list; the destinations of copies of what is in the list are added to it on
   the way.  A use list has the destinations, too, so that the tracer never takes
   a write for a redefinition. *)
Extends(i, list) ==
  i.op \in {"mov", "xdu", "xds"} /\ IsLvalue(i.l) /\ HasAny(list, At[i.l.r], i.l.size)
Traced(list, i) ==
  IF UseList(i) \cap list # {} /\ Extends(i, list) THEN list \cup DefList(i) ELSE list
Trace(c, n, list, wanted) ==
  LET known[k \in n..Len(c)] == IF k = n THEN list ELSE Traced(known[k - 1], c[k])
      Found(i, had) == UseList(i) \cap had # {} /\ ~Extends(i, had)
  IN Walk!Min0({k \in wanted \cap (n + 1)..Len(c) : Found(c[k], known[k - 1])})

(* recognize_overcombined_round_up_pow2: "v := x - 1", then Smears times
   "v |= v >> 2^k", then a sum with one, which becomes a call of a helper on what
   x was at first.  The sum is looked for among all additions, and one of two
   registers is read as if one of them were a number. *)
ShiftsBy(c, by) == {k \in DOMAIN c : \E d \in DivByPowerOfTwo(c[k]) : d.by = by}
JoinsOf(c, list) ==
  {k \in DOMAIN c : /\ c[k].op = "or" /\ IsLvalue(c[k].l) /\ IsLvalue(c[k].r)
                    /\ UseList(c[k]) = list}
Increment(i) ==
  LET n == SideOfKind(i, "num")
  IN i.op = "add" /\ (n # "no" => IsEqualTo(i[n], 1) /\ IsLvalue(i[Other(n)]))
Increments(c) == {k \in DOMAIN c : Increment(c[k])}
ShiftAt(c, m, v, k) == Trace(c, m, Bytes(v), ShiftsBy(c, 2 ^ k))
JoinAt(c, m, v) == Trace(c, m, Bytes(v), JoinsOf(c, Bytes(v) \cup DefList(c[m])))
SumAt(c, n) == Trace(c, n, DefList(c[n]), Increments(c))
(* The smearing of v from n on: positions of shift and join, 0 once one is
   missing. *)
Smeared(c, m, v, k) ==
  LET s == IF m = 0 THEN 0 ELSE ShiftAt(c, m, v, k)
  IN [shift |-> s, join |-> IF s = 0 THEN 0 ELSE JoinAt(c, s, v)]
SmearedTo(c, n, v) ==
  LET at[k \in 0..Smears] ==
        IF k = 0 THEN [shift |-> n, join |-> n] ELSE Smeared(c, at[k - 1].join, v, k - 1)
  IN at

Rounded(f, b, n, sum, t) ==
  LET c == f.code[b]
      temp == TempReg(t, c[sum].d.size)
      call == Nested("round_up_pow2", temp, None, c[n].l.size)
  IN [f EXCEPT !.code[b] =
        InsertAt([c EXCEPT ![sum] = Insn("mov", SubOf(call, temp.size), None, @.d)],
                 n, Insn("mov", c[n].l, None, temp))]
RoundUpAt(f, b, n, sum) ==
  LET c == f.code[b]
  IN IF sum = 0 THEN Declined(f, n)
     ELSE IF SideOfKind(c[sum], "num") = "no" THEN Did([f EXCEPT !.code[b][n] = Raised], n)
     ELSE IF AllocateTemp(c, c[sum].d.size) = -1 THEN Declined(f, n)
     ELSE Did(Rounded(f, b, n, sum, AllocateTemp(c, c[sum].d.size)), n + 1)
RoundUpPow2(f, b, n, top) ==
  LET c == f.code[b]
  IN IF top = "this" /\ c[n].op = "sub" /\ IsEqualTo(c[n].r, 1)
     THEN LET join == SmearedTo(c, n, c[n].d)[Smears].join
          IN RoundUpAt(f, b, n, IF join = 0 THEN 0 ELSE SumAt(c, join))
     ELSE Declined(f, n)

-----------------------------------------------------------------------------
(* g_allrules and g_x86_rules with the rules above in their places, and a rule
   tried on the instruction at n of block b. *)
AllRules ==
  SubSeq(InsnRules, 1, 7) \o <<"StxStxCombine">> \o SubSeq(InsnRules, 8, 17)
    \o <<"SiftDownFlagcomps", "InterblockJccDeps">> \o SubSeq(InsnRules, 18, 19)
    \o <<"ReplaceBooleanFlow", "MergeShortCircuitOr">> \o SubSeq(InsnRules, 20, 20)
    \o <<"InterblockFlagopMerger", "RoundUpPow2">> \o SubSeq(InsnRules, 21, Len(InsnRules))

(* Where an attempt at the instruction itself leaves the function. *)
InFunction(c, f, b, n) ==
  [did |-> c.did, f |-> IF c.did THEN [f EXCEPT !.code[b][n] = c.to] ELSE f, n |-> n]

ApplyAt(rule, f, b, n, ctx) ==
  CASE rule = "StxStxCombine" -> StxStxCombine(f, b, n)
    [] rule = "SiftDownFlagcomps" -> SiftDownFlagcomps(f, b, n)
    [] rule = "InterblockJccDeps" -> InterblockJccDeps(f, b, n)
    [] rule = "ReplaceBooleanFlow" -> ReplaceBooleanFlow(f, b, n, ctx.top)
    [] rule = "MergeShortCircuitOr" ->
         IF ctx.glbopt THEN Declined(f, n) ELSE MergeShortCircuitOr(f, b, n)
    [] rule = "InterblockFlagopMerger" -> InterblockFlagopMerger(f, b, n)
    [] rule = "RoundUpPow2" -> RoundUpPow2(f, b, n, ctx.top)
    [] OTHER -> InFunction(Attempt(ApplyRule(rule, f.code[b][n], ctx), rule,
                                   f.code[b][n], ctx), f, b, n)
=============================================================================
