------------------------------ MODULE ArithRules ------------------------------
(* The combine rules that rewrite one instruction in place.  A rule takes the
   instruction and the context the dispatcher keeps in globals, and returns the
   rewritten instruction, or the same one when it does not apply.

     ctx.parent   g_parent_mop_size: size of the operand that holds it
     ctx.top      g_current_topinsn: "this" instruction, an "other" or "null"
     ctx.defsize  what find_definition_size tells of a one-byte register,
                  0 when it fails
     ctx.floaty   the float rules take the operand for a floating point value

   Where the code reads a number's current value the rule reads "v"; where it
   goes through is_equal_to it reads the original one.  *)
EXTENDS PotentialBits, SequencesExt

CONSTANTS
  SimdRegs,   \* the vector registers
  DivLimit    \* how many numerators the division rule tries (4096 in the code)

(* An assertion of the code failed, or it goes on with memory that is not what
   it takes it for. *)
Raised == Insn("raised", None, None, None)

(* The machine's shift of a 64-bit word: the count is taken modulo its width. *)
ShiftedLeft(v, n) == Fit(v * 2 ^ (n % Bits(Wide)), Wide)

CombineShiftAnd(i, ctx) ==
  LET s == SideOfKind(i, "sub")
      n == SideOfKind(i, "num")
      band == i[s].i
      inner == band.l.i
      shifted ==
        CASE inner.op = "shr" /\ IsNum(inner.r) -> {<<inner.l, inner.r.v>>}
          [] inner.op = "high" -> {<<inner.l, Bits(inner.l.size \div 2)>>}
          [] inner.op = "low" /\ HasOp(inner.l, "shr") ->
               IF IsNum(inner.l.i.r) THEN {<<inner.l.i.l, inner.l.i.r.v>>} ELSE {}
          [] OTHER -> {}
  IN IF /\ i.op \in ZfCond /\ s # "no" /\ n # "no" /\ i[n].v = 0
        /\ band.op = "and" /\ IsNum(band.r) /\ IsSub(band.l)
        /\ \E x \in shifted : x[2] # 0
     THEN LET x == CHOOSE x \in shifted : TRUE
              mask == [band.r EXCEPT !.v = ShiftedLeft(@, x[2]), !.size = x[1].size]
          IN [i EXCEPT ![s] = Sub(Nested("and", x[1], mask, x[1].size)),
                       ![n].size = x[1].size]
     ELSE i

(* chain_setops_with_or: in pairs, the odd one last. *)
Either(x, y) == Nested("or", SubOf(x, 1), SubOf(y, 1), 1)
OrChain(c) ==
  LET joined[n \in 1..(Len(c) \div 2)] ==
        IF n = 1 THEN Either(c[1], c[2])
        ELSE Either(Either(c[2 * n - 1], c[2 * n]), joined[n - 1])
  IN IF Len(c) = 1 THEN c[1]
     ELSE IF Len(c) % 2 = 1 THEN Either(joined[Len(c) \div 2], c[Len(c)])
     ELSE joined[Len(c) \div 2]

RECURSIVE ResolveLvalue(_)
ResolveLvalue(o) == IF HasOp(o, "low") \/ HasOp(o, "xdu") THEN ResolveLvalue(o.i.l) ELSE o

BitsUp[v \in Word] ==
  IF v = 0 THEN <<>>
  ELSE LET b == CHOOSE b \in 0..Bits(2 * Wide) :
                  (v \div 2 ^ b) % 2 = 1 /\ v % 2 ^ b = 0
       IN <<b>> \o BitsUp[v - 2 ^ b]

RaiseBitlut(i, ctx) ==
  LET band == i.l.i
      s == SideOfOp(band, "shl")
      lut == band[Other(s)]
      count == band[s].i.r
      lval == ResolveLvalue(count)
      compared == IF IsLvalue(lval) THEN lval ELSE count
      compsize == IF ~IsLvalue(lval) THEN count.size
                  ELSE IF lval.size # 1 THEN lval.size
                  ELSE IF ctx.defsize # 0 THEN ctx.defsize ELSE count.size
      bits == BitsUp[Fit(lut.v, lut.size)]
      Test(n) == Nested("setz", [compared EXCEPT !.size = compsize],
                        Num(bits[n], compsize), 1)
  IN IF /\ i.op \in ZfCond /\ HasOp(i.l, "and") /\ IsEqualTo(i.r, 0)
        /\ s # "no" /\ IsNum(lut) /\ IsEqualTo(band[s].i.l, 1)
     THEN IF bits = <<>> \/ ctx.top = "null" THEN Raised
          ELSE [i EXCEPT !.l = SubOf(OrChain([n \in 1..Len(bits) |-> Test(n)]), 1),
                         !.r.size = 1]
     ELSE i

NegatedSets(i, ctx) ==
  IF /\ i.op = "neg" /\ HasOp(i.l, "xdu") /\ HasOp(i.l.i.l, "sets")
     /\ IsLvalue(i.l.i.l.i.l) /\ i.l.i.l.i.l.size = i.d.size
  THEN LET m == i.l.i.l.i.l
       IN [i EXCEPT !.op = "sar", !.l = m, !.r = Num(Bits(m.size) - 1, 1)]
  ELSE i

XorToOrAlways(i, ctx) == IF i.op = "xor" THEN [i EXCEPT !.op = "or"] ELSE i
XorToOr(i, ctx) ==
  IF i.op = "xor" /\ BitAnd(Mask(i.r), Mask(i.l)) = 0
  THEN [i EXCEPT !.op = "or"] ELSE i

MulToAnd(i, ctx) ==
  IF i.op = "mul" /\ Boolish(i.l) /\ Boolish(i.r)
  THEN [i EXCEPT !.op = "and"] ELSE i

ShrSarToAndNot(i, ctx) ==
  IF /\ i.op \in {"shr", "sar"} /\ Boolish(i.l) /\ Boolish(i.r)
     /\ i.l.size = 1 /\ i.r.size = 1
  THEN [i EXCEPT !.op = "and", !.r = Unary("lnot", i.r, 1)]
  ELSE i

AddOnebitsEqualsTwo(i, ctx) ==
  LET sum == i.l.i
  IN IF /\ i.op \in ZfCond /\ SideOfKind(i, "sub") = "l" /\ IsEqualTo(i.r, 2)
        /\ sum.op = "add" /\ Boolish(sum.l) /\ Boolish(sum.r)
     THEN [i EXCEPT !.l.i.op = "and", !.r = UpdateValue(@, 1)]
     ELSE i

CombineOrShift(i, ctx) ==
  LET bor == i.l.i
      s == SideOfOp(bor, "shl")
      apart == bor[Other(s)]
      inner == bor[s].i
      both == [inner.r EXCEPT !.v = @ + i.r.v, !.org = @ + i.r.v]
  IN IF /\ i.op = "shl" /\ i.d.k = "none" /\ HasOp(i.l, "or") /\ IsNum(i.r)
        /\ s # "no" /\ IsNum(inner.r)
     THEN [i EXCEPT !.op = "or",
                    !.l = Sub(Nested("shl", apart, i.r, apart.size)),
                    !.r = Sub(Nested("shl", inner.l, both, apart.size))]
     ELSE i

DivMulToModulus(i, ctx) ==
  LET s == IF IsLvalue(i.l) THEN "l" ELSE "r"
      product == i[Other(s)].i
      found == {<<m, q>> \in MulByConstant(product) \X UNION {DivByConstant(m.term.i) :
                                         m \in {m \in MulByConstant(product) : IsSub(m.term)}} :
                  m.factor = q.factor /\ LvalueEqualIgnoreSize(i[s], q.term)}
  IN IF i.op \in ZfCond /\ IsLvalue(i[s]) /\ IsSub(i[Other(s)]) /\ found # {}
     THEN LET f == CHOOSE f \in found : TRUE
              quotient == f[1].term.i
              mod == [quotient EXCEPT !.op = "umod", !.r.v = f[2].factor,
                                      !.r.size = quotient.l.size]
          IN [i EXCEPT ![s] = Num(0, mod.r.size), ![Other(s)].i = mod]
     ELSE i

CndopAndXor1(i, ctx) ==
  LET band == i.l.i
      x == SideOfOp(band, "xor")
      bxor == band[x].i
      n == SideOfKind(bxor, "num")
  IN IF /\ i.op \in ZfCond /\ IsEqualTo(i.r, 0) /\ HasOp(i.l, "and")
        /\ x # "no" /\ IsEqualTo(band[Other(x)], 1)
        /\ n # "no" /\ IsEqualTo(bxor[n], 1)
     THEN [i EXCEPT !.op = NegateRelation[i.op], !.l.i[x] = bxor[Other(n)]]
     ELSE i

(* setup_ztest_bitand and setup_subinsn_setcc_of_size. *)
ZeroTestOfAndNarrow(x, y, size, d) ==
  LET test == Nested("setz", Sub(Nested("and", x, y, y.size)), Num(0, y.size), 1)
  IN IF size = 1 THEN [test EXCEPT !.d = d] ELSE test
ZeroTestOfAnd(x, y, size, d) ==
  LET test == Nested("setz", Sub(Nested("and", x, y, y.size)), Num(0, y.size), 1)
  IN IF size = 1 THEN [test EXCEPT !.d = d] ELSE Insn("xdu", Sub(test), None, d)

BnotAndOne(i, ctx) ==
  LET s == SideOfOp(i, "bnot")
  IN IF i.op = "and" /\ s # "no" /\ IsEqualTo(i[Other(s)], 1)
     THEN LET x == i[s].i.l
          IN ZeroTestOfAnd(x, [i[Other(s)] EXCEPT !.size = x.size], i.d.size, i.d)
     ELSE i

JzfAndBnotKept(i, ctx) ==
  IF /\ i.op \in {"jz", "jnz"} /\ HasOp(i.l, "and") /\ IsNum(i.r) /\ i.r.v = 0
     /\ SideOfOp(i.l.i, "bnot") # "no"
  THEN [i EXCEPT !.op = NegateRelation[i.op]] ELSE i
JzfAndBnot(i, ctx) ==
  LET n == SideOfKind(i, "num")
      s == SideOfKind(i, "sub")
      not == SideOfOp(i[s].i, "bnot")
      band == i[s].i
  IN IF /\ i.op \in {"jz", "jnz"} /\ n # "no" /\ s # "no" /\ i[n].v = 0
        /\ band.op = "and" /\ not # "no"
     THEN [i EXCEPT !.op = NegateRelation[i.op],
                    ![s].i[not] = [band[not].i.l EXCEPT !.size = band[not].size]]
     ELSE i

SimdLdShrtrim(i, ctx) ==
  IF /\ i.op = "low" /\ i.d.size = Wide /\ HasOp(i.l, "byteshr128")
     /\ i.l.size = 2 * Wide /\ IsEqualTo(i.l.i.r, Wide)
  THEN [i EXCEPT !.op = "high", !.l = i.l.i.l]
  ELSE i

XduInXor128(i, ctx) ==
  LET x == IF IsSub(i.l.i.l) THEN "l" ELSE "r"
      ext == i.l.i[x]
      kept == i.l.i[Other(x)]
  IN IF /\ ctx.top = "this" /\ i.op = "mov" /\ IsLvalue(i.d) /\ i.d.r \in SimdRegs
        /\ HasOp(i.l, "xor128") /\ HasOp(ext, "xdu")
        /\ ext.i.d.size = 2 * Wide /\ ext.i.l.size = Wide
        /\ IsLvalue(kept) /\ kept.r = i.d.r
     THEN Insn("xor", [ext.i.l EXCEPT !.size = Wide], [kept EXCEPT !.size = Wide],
               [i.d EXCEPT !.size = Wide])
     ELSE i

(* detect_bitwise_negate_floatop, locate_abs_value_floatpath: the sign bit of a
   floating point value is flipped or cleared through a mask, which may be a
   global whose bytes are known ("static").  ctx.floaty is the answer of the
   heuristics that look at the operand's uses. *)
HighBit(size) == 2 ^ (Bits(size) - 1)
StaticIs(o, v) == o.k = "static" /\ Fit(o.v, o.size) = v

FloatNegate(i, ctx) ==
  LET x == SideOfOp(i, "xor")
      bxor == IF x # "no" THEN i[x].i ELSE i
      m == SideOfKind(bxor, "static")
      value == bxor[Other(m)]
  IN IF /\ (x # "no" \/ i.op = "xor")
        /\ m # "no" /\ StaticIs(bxor[m], HighBit(value.size))
        /\ i.op \notin {"i2f", "u2f"} /\ ctx.floaty
     THEN IF i.op = "xor"
          THEN [i EXCEPT !.op = "fneg", !.l = value, !.r = None]
          ELSE [i EXCEPT ![x] = Unary("fneg", value, value.size)]
     ELSE i

FloatAbs(i, ctx) ==
  LET m == IF SideOfKind(i, "num") # "no" THEN SideOfKind(i, "num")
           ELSE SideOfKind(i, "static")
      value == i[Other(m)]
      expect == HighBit(i[m].size) - 1
  IN IF /\ m # "no" /\ ctx.floaty
        /\ (IsEqualTo(i[m], expect) \/ StaticIs(i[m], expect))
     THEN [i EXCEPT !.op = "mov", !.l = Unary("fabs", value, value.size), !.r = None]
     ELSE i

(* setup_bitand asserts that both sides have one size; otherwise it raises. *)
LtzeroToHighbit(i, ctx) ==
  LET m == CHOOSE m \in MulByPowerOfTwo(i) : TRUE
      test == m.term.i.l.i
      z == SideOfKind(test, "num")
      high == 2 ^ (Bits(m.term.size) - 1)
  IN IF /\ MulByPowerOfTwo(i) # {} /\ 2 ^ m.by = high
        /\ HasOp(m.term, "xdu") /\ HasOp(m.term.i.l, "setl")
        /\ z # "no" /\ IsEqualTo(test[z], 0)
        /\ test[Other(z)].size = m.term.size
     THEN IF m.const.size = test[Other(z)].size
          THEN Insn("and", test[Other(z)], UpdateValue(m.const, high), i.d)
          ELSE Raised
     ELSE i

DistributeConstantSub(i, ctx) ==
  LET s == SideOfKind(i, "sub")
      diff == i[s].i
  IN IF /\ i.op \in SetOps \cup Jcc /\ s # "no" /\ IsNum(i[Other(s)])
        /\ diff.op = "sub" /\ IsNum(diff.r)
     THEN LET c == i[Other(s)]
              bound == Signed(Fit(diff.r.org, diff.r.size), diff.r.size)
              comp == Signed(Fit(c.org, c.size), c.size)
          IN [i EXCEPT ![Other(s)] = UpdateValue(c, Fit(bound + comp, Wide)), ![s] = diff.l]
     ELSE i

(* The first numerator whose product has a nonzero high part is taken for the
   divisor.  When the number was extended from another size than the holder's
   the code reads an instruction as if it were an operand: Raised stands for
   whatever that gives. *)
MagicDivision(i) ==
  LET n == SideOfKind(i, "num")
      high == i[Other(n)]
      product == high.i.l.i
      c == IF HasOp(product.l, "xdu") /\ IsNum(product.l.i.l) THEN "l" ELSE "r"
  IN IF /\ i.op = "shr" /\ n # "no" /\ HasOp(high, "high")
        /\ high.i.l.size = 2 * Wide /\ HasOp(high.i.l, "mul")
        /\ HasOp(product[c], "xdu") /\ IsNum(product[c].i.l)
        /\ HasOp(product[Other(c)], "xdu")
     THEN {[term |-> product[Other(c)].i.l, factor |-> product[c].i.l.v,
            by |-> i[n].v, const |-> n]}
     ELSE {}
ScaledBy(m, v) == ((m.factor * v) \div Limit(Wide)) \div (2 ^ m.by)

DivisionMagicNumber(i, ctx) ==
  LET m == CHOOSE m \in MagicDivision(i) : TRUE
      found == {q \in 1..DivLimit : ScaledBy(m, q) # 0}
  IN IF MagicDivision(i) # {} /\ found # {}
     THEN IF m.term.size = ctx.parent
          THEN [i EXCEPT !.op = "udiv", ![Other(m.const)] = m.term,
                         ![m.const] = Num(CHOOSE q \in found : \A p \in found : q <= p,
                                          ctx.parent)]
          ELSE Raised
     ELSE i

(* merge_multi_setz_chain_interval.  IntervalsOf is
   make_compare_interval_from_sorted_range: a run of numbers is handed out, and
   so is a lone one, when the number after it is looked at. *)
RECURSIVE SetopChain(_), IsSetopChain(_)
IsSetopChain(i) ==
  i.op \in SetOps \/ (i.op = "or" /\ IsSub(i.l) /\ IsSub(i.r)
                      /\ IsSetopChain(i.l.i) /\ IsSetopChain(i.r.i))
SetopChain(i) ==
  IF i.op = "or" THEN SetopChain(i.l.i) \o SetopChain(i.r.i) ELSE <<i>>

IntervalsOf(vals) ==
  LET after[n \in 1..Len(vals)] ==
        IF n = 1 THEN [ivls |-> <<>>, lone |-> <<>>, run |-> FALSE, from |-> 0]
        ELSE LET was == after[n - 1]
                 next == vals[n] = vals[n - 1] + 1
             IN CASE was.run /\ ~next ->
                       [was EXCEPT !.run = FALSE,
                                   !.ivls = Append(@, <<was.from, vals[n - 1]>>)]
                  [] ~was.run /\ ~next -> [was EXCEPT !.lone = Append(@, vals[n - 1])]
                  [] ~was.run /\ next -> [was EXCEPT !.run = TRUE, !.from = vals[n - 1]]
                  [] OTHER -> was
  IN after[Len(vals)]

SetccOfSize(op, x, y, size) ==
  IF size = 1 THEN Nested(op, x, y, 1)
  ELSE Nested("xdu", Sub(Nested(op, x, y, 1)), None, size)
Between(x, low, high) ==
  Nested("and", Sub(Nested("setbe", x, Num(high, x.size), 1)),
                Sub(Nested("setae", x, Num(low, x.size), 1)), 1)

Point(s) == /\ s.op = "setz" /\ SideOfKind(s, "num") # "no"
            /\ IsLvalue(s[Other(SideOfKind(s, "num"))])
TermOf(s) == s[Other(SideOfKind(s, "num"))]
Terms(i) == {TermOf(s) : s \in {s \in Range(SetopChain(i)) : Point(s)}}
ValuesOf(t, i) ==
  LET OfTerm(s) == Point(s) /\ TermOf(s) = t
      mine == SelectSeq(SetopChain(i), OfTerm)
  IN SortSeq([n \in DOMAIN mine |-> mine[n][SideOfKind(mine[n], "num")].v],
             LAMBDA x, y : x < y)

MergeMultiSetz(i, ctx) ==
  LET joined == [t \in Terms(i) |-> IntervalsOf(ValuesOf(t, i))]
      TestsOf(t) ==
        [n \in DOMAIN joined[t].ivls |->
            Between(t, joined[t].ivls[n][1], joined[t].ivls[n][2])]
        \o [n \in DOMAIN joined[t].lone |->
            SetccOfSize("setz", t, Num(joined[t].lone[n], t.size), t.size)]
      NotPoint(s) == ~Point(s)
      terms == SetToSeq(Terms(i))
      tests == FlattenSeq([n \in DOMAIN terms |-> TestsOf(terms[n])])
               \o SelectSeq(SetopChain(i), NotPoint)
  IN IF /\ i.op = "or" /\ IsSetopChain(i) /\ Len(SetopChain(i)) >= 5
        /\ \E t \in Terms(i) :
             Len(joined[t].lone) + 2 * Len(joined[t].ivls) < Len(ValuesOf(t, i))
     THEN IF tests = <<>> THEN Raised ELSE OrChain(tests)
     ELSE i

SetzOneBitToLogicalNot(i, ctx) ==
  LET n == SideOfKind(i, "num")
  IN IF /\ i.op = "setz" /\ n # "no" /\ i[n].size = 1 /\ IsEqualTo(i[n], 0)
        /\ Boolish(i[Other(n)])
     THEN [i EXCEPT !.op = "lnot", !.l = i[Other(n)], !.r = None]
     ELSE i

CompOneBitToJcnd(i, ctx) ==
  LET n == SideOfKind(i, "num")
  IN IF /\ n # "no"
        /\ \/ i.op = "jz" /\ IsEqualTo(i[n], 1)
           \/ i.op = "jnz" /\ IsEqualTo(i[n], 0)
        /\ Boolish(i[Other(n)])
     THEN [i EXCEPT !.op = "jcnd", !.l = i[Other(n)], !.r = None]
     ELSE i

SetsSubToCmp(i, ctx) ==
  IF i.op = "sets" /\ HasOp(i.l, "sub")
  THEN [i EXCEPT !.op = "setb", !.l = i.l.i.l, !.r = i.l.i.r]
  ELSE i

PopcntBoolFold(i, ctx) ==
  IF i.op = "popcnt" /\ Boolish(i.l)
  THEN [i EXCEPT !.op = "mov", !.d = Sized(i.l.size)]
  ELSE i

(* Only one the architecture adds on x86; the function it asks for the size
   of the register's definition is the one RaiseBitlut asks. *)
BitorHigh(i, ctx) ==
  LET n == SideOfKind(i, "num")
      c == i[n]
      x == i[Other(n)]
      whole == HighOf[x.r]
  IN IF /\ i.op = "or" /\ n # "no" /\ c.size = 1 /\ IsLvalue(x)
        /\ x.r \in DOMAIN HighOf /\ LvalueEqualIgnoreSize(i.d, x)
        /\ ctx.defsize \notin {0, 1}
     THEN [i EXCEPT ![n] = [c EXCEPT !.v = @ * Limit(1), !.org = @ * Limit(1),
                                     !.size = ctx.defsize],
                    ![Other(n)] = Reg(whole, ctx.defsize),
                    !.d = Reg(whole, ctx.defsize)]
     ELSE i

-----------------------------------------------------------------------------
(* g_allrules and g_x86_rules: the installed rules, in the order they are
   tried.  The rules that look at other instructions are in FlowRules. *)
InsnRules ==
  <<"CombineShiftAnd", "RaiseBitlut", "NegatedSets", "XorToOr", "MulToAnd",
    "ShrSarToAndNot", "AddOnebitsEqualsTwo", "CombineOrShift",
    "DivMulToModulus", "CndopAndXor1", "BnotAndOne", "JzfAndBnot",
    "SimdLdShrtrim", "XduInXor128", "FloatNegate", "FloatAbs", "LtzeroToHighbit", "DistributeConstantSub",
    "DivisionMagicNumber", "MergeMultiSetz", "SetzOneBitToLogicalNot", "CompOneBitToJcnd",
    "SetsSubToCmp", "PopcntBoolFold", "BitorHigh">>

ApplyRule(rule, i, ctx) ==
  CASE rule = "CombineShiftAnd" -> CombineShiftAnd(i, ctx)
    [] rule = "RaiseBitlut" -> RaiseBitlut(i, ctx)
    [] rule = "NegatedSets" -> NegatedSets(i, ctx)
    [] rule = "XorToOr" -> XorToOr(i, ctx)
    [] rule = "MulToAnd" -> MulToAnd(i, ctx)
    [] rule = "ShrSarToAndNot" -> ShrSarToAndNot(i, ctx)
    [] rule = "AddOnebitsEqualsTwo" -> AddOnebitsEqualsTwo(i, ctx)
    [] rule = "CombineOrShift" -> CombineOrShift(i, ctx)
    [] rule = "DivMulToModulus" -> DivMulToModulus(i, ctx)
    [] rule = "CndopAndXor1" -> CndopAndXor1(i, ctx)
    [] rule = "BnotAndOne" -> BnotAndOne(i, ctx)
    [] rule = "JzfAndBnot" -> JzfAndBnot(i, ctx)
    [] rule = "SimdLdShrtrim" -> SimdLdShrtrim(i, ctx)
    [] rule = "XduInXor128" -> XduInXor128(i, ctx)
    [] rule = "FloatNegate" -> FloatNegate(i, ctx)
    [] rule = "FloatAbs" -> FloatAbs(i, ctx)
    [] rule = "LtzeroToHighbit" -> LtzeroToHighbit(i, ctx)
    [] rule = "DistributeConstantSub" -> DistributeConstantSub(i, ctx)
    [] rule = "DivisionMagicNumber" -> DivisionMagicNumber(i, ctx)
    [] rule = "MergeMultiSetz" -> MergeMultiSetz(i, ctx)
    [] rule = "SetzOneBitToLogicalNot" -> SetzOneBitToLogicalNot(i, ctx)
    [] rule = "CompOneBitToJcnd" -> CompOneBitToJcnd(i, ctx)
    [] rule = "SetsSubToCmp" -> SetsSubToCmp(i, ctx)
    [] rule = "PopcntBoolFold" -> PopcntBoolFold(i, ctx)
    [] rule = "BitorHigh" -> BitorHigh(i, ctx)
=============================================================================
