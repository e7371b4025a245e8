------------------------------ MODULE Dispatch ------------------------------
(* How dispatch_combinsn of micro_hooks.cpp finds a rule for an instruction: it
   tries the rules on the instruction itself, then goes through its operands and
   what is nested in them, and stops at the first rule that rewrites something.
   And what each rule takes for granted. *)
EXTENDS ArithRules

(* An attempt: whether a rule applied, what the instruction or operand is now,
   the parent size it leaves behind, and, of a rule that applied, which, where
   and under what context.  "raised" is a failed assertion. *)
Missed(x, ctx) == [did |-> FALSE, to |-> x, parent |-> ctx.parent, rule |-> "none",
                   at |-> x, ctx |-> ctx, raised |-> FALSE]
Attempt(to, rule, i, ctx) ==
  [did |-> to # i, to |-> to, parent |-> ctx.parent, rule |-> rule, at |-> i,
   ctx |-> ctx, raised |-> to = Raised]
OrElse(attempt, next) == IF attempt.did THEN attempt ELSE next

RuleHit(i, ctx) ==
  LET from[n \in 1..(Len(InsnRules) + 1)] ==
        IF n > Len(InsnRules) THEN Missed(i, ctx)
        ELSE OrElse(Attempt(ApplyRule(InsnRules[n], i, ctx), InsnRules[n], i, ctx),
                    from[n + 1])
  IN from[1]

(* The operands of an instruction or the arguments of a call, one after the
   other.  The parent's size is set on the way down and never put back. *)
RECURSIVE Combined(_, _), CombinedIn(_, _), CombinedAt(_, _, _)
Placed(c, whole, keys, ctx) ==
  IF c.did THEN [c EXCEPT !.to = [whole EXCEPT ![Head(keys)] = c.to]]
  ELSE CombinedAt(whole, Tail(keys), [ctx EXCEPT !.parent = c.parent])
CombinedAt(whole, keys, ctx) ==
  IF keys = <<>> THEN Missed(whole, ctx)
  ELSE Placed(CombinedIn(whole[Head(keys)], ctx), whole, keys, ctx)

InOperands(i, ctx) == CombinedAt(i, <<"d", "l", "r">>, ctx)
Combined(i, ctx) == OrElse(RuleHit(i, ctx), InOperands(i, ctx))

Wrapped(c, o, field) == [c EXCEPT !.to = [o EXCEPT ![field] = c.to]]
CombinedIn(o, ctx) ==
  CASE o.k = "sub" ->
         Wrapped(Combined(o.i, [ctx EXCEPT !.parent = o.size,
                                           !.top = IF @ = "this" THEN "other" ELSE @]),
                 o, "i")
    [] o.k = "parts" ->
         Wrapped(CombinedAt(o.parts, [n \in DOMAIN o.parts |-> n], ctx), o, "parts")
    [] OTHER -> Missed(o, ctx)

(* The operand and all in it. *)
RECURSIVE Operands(_)
Operands(o) ==
  {o} \cup CASE o.k = "sub" -> UNION {Operands(o.i[s]) : s \in {"l", "r", "d"}}
             [] o.k = "parts" -> UNION {Operands(o.parts[n]) : n \in DOMAIN o.parts}
             [] OTHER -> {}
Within(i) == (Operands(i.l) \cup Operands(i.r) \cup Operands(i.d))

-----------------------------------------------------------------------------
(* What a rule takes for granted of the instruction it rewrites and the code
   does not look at.  A rewrite outside of it is a miscompilation the README
   describes; it is remembered in "presumed". *)
Agrees(o) == IsNum(o) => o.v = o.org
RECURSIVE CountsRight(_)
CountsRight(o) ==
  CASE o.k = "sub" ->
         /\ CountsRight(o.i.l) /\ CountsRight(o.i.r) /\ CountsRight(o.i.d)
         /\ o.i.op = "popcnt" => PopCount[Mask(o.i.l)] <= 1
    [] o.k = "parts" -> \A n \in DOMAIN o.parts : CountsRight(o.parts[n])
    [] OTHER -> TRUE
BelowSign(o) == Mask(o) < HighBit(o.size)

Presumes(rule, i, ctx) ==
  CASE rule = "CombineShiftAnd" ->
         i[SideOfKind(i, "sub")].i.l.i.l.size <= Wide
    [] rule = "RaiseBitlut" ->
         LET count == i.l.i[SideOfOp(i.l.i, "shl")].i.r
             lval == ResolveLvalue(count)
         IN IsLvalue(lval) /\ 2 ^ RegBits[lval.r] <= Bits(i.l.size)
    [] rule \in {"XorToOr", "MulToAnd", "ShrSarToAndNot", "AddOnebitsEqualsTwo",
                 "SetzOneBitToLogicalNot", "CompOneBitToJcnd", "PopcntBoolFold"} ->
         /\ CountsRight(i.l) /\ CountsRight(i.r)
         /\ rule = "PopcntBoolFold" => i.d.size = i.l.size
    [] rule = "CombineOrShift" ->
         LET inner == i.l.i[SideOfOp(i.l.i, "shl")].i
         IN i.r.v + inner.r.v < Bits(i.d.size)
    [] rule = "CndopAndXor1" -> Agrees(i.l.i[Other(SideOfOp(i.l.i, "xor"))])
    [] rule = "BnotAndOne" -> Agrees(i[Other(SideOfOp(i, "bnot"))])
    [] rule = "JzfAndBnot" ->
         LET band == i[SideOfKind(i, "sub")].i
             mask == band[Other(SideOfOp(band, "bnot"))]
         IN IsNum(mask) /\ Fit(mask.v, mask.size) \in PowersOfTwo
    [] rule = "FloatNegate" -> ~(i.op = "xor" /\ SideOfOp(i, "xor") # "no")
    [] rule = "FloatAbs" -> i.op = "and"
    [] rule = "DistributeConstantSub" -> i.op \in ZfCond
    [] rule = "DivisionMagicNumber" ->
         \E m \in MagicDivision(i) :
           /\ m.term.size = ctx.parent
           /\ \E q \in 1..AllOnes(m.term.size) :
                \A v \in 0..AllOnes(m.term.size) : ScaledBy(m, v) = v \div q
    [] rule = "MergeMultiSetz" ->
         /\ i.d.k = "none" /\ Terms(i) # {}
         /\ \A t \in Terms(i) :
              LET vals == ValuesOf(t, i)
              IN t.size = 1 /\ Len(vals) > 1 /\ vals[Len(vals)] = vals[Len(vals) - 1]
    [] rule = "SetsSubToCmp" -> BelowSign(i.l.i.l) /\ BelowSign(i.l.i.r)
    [] OTHER -> TRUE

=============================================================================
