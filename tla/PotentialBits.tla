---------------------------- MODULE PotentialBits ----------------------------
(* The bits an operand may have set (potential_bits.cpp), and the extractors
   the rules share with it (hexutils.cpp): multiplication and unsigned division
   by a constant, zero extension. *)
EXTENDS Micro

(* try_extract_mulp2_by_const, try_extract_udivp2_by_const: the operand that
   is shifted and by how much, as a set of at most one record. *)
PowersOfTwo == {2 ^ b : b \in 0..Bits(Wide)}
Log2(v) == CHOOSE b \in 0..Bits(Wide) : 2 ^ b = v

MulByPowerOfTwoFactor(i) ==
  LET c == SideOfKind(i, "num")
  IN IF i.op = "shl" /\ IsNum(i.r)
     THEN {[term |-> i.l, by |-> i.r.v, const |-> i.r]}
     ELSE IF i.op = "mul" /\ c # "no" /\ i[c].v \in PowersOfTwo
     THEN {[term |-> i[Other(c)], by |-> i[c].v, const |-> i[c]]}
     ELSE {}
MulByPowerOfTwo(i) ==
  LET c == SideOfKind(i, "num")
  IN IF i.op = "shl" /\ IsNum(i.r)
     THEN {[term |-> i.l, by |-> i.r.v, const |-> i.r]}
     ELSE IF i.op = "mul" /\ c # "no" /\ i[c].v \in PowersOfTwo
     THEN {[term |-> i[Other(c)], by |-> Log2(i[c].v), const |-> i[c]]}
     ELSE {}
DivByPowerOfTwo(i) ==
  IF i.op = "shr" /\ IsNum(i.r) THEN {[term |-> i.l, by |-> i.r.v]}
  ELSE IF i.op = "udiv" /\ IsNum(i.r) /\ i.r.v \in PowersOfTwo
  THEN {[term |-> i.l, by |-> Log2(i.r.v)]}
  ELSE {}

(* try_extract_mul_by_constant, try_extract_udiv_by_constant: the same for any
   constant, with the factor itself. *)
MulByConstant(i) ==
  IF i.op = "mul" /\ SideOfKind(i, "num") # "no"
  THEN LET c == SideOfKind(i, "num")
       IN {[term |-> i[Other(c)], factor |-> i[c].v]}
  ELSE IF i.op = "shl" /\ IsNum(i.r)
  THEN {[term |-> i.l, factor |-> Fit(2 ^ i.r.v, i.l.size)]}
  ELSE {}
DivByConstant(i) ==
  IF i.op = "udiv" /\ IsNum(i.r) THEN {[term |-> i.l, factor |-> i.r.v]}
  ELSE IF i.op = "shr" /\ IsNum(i.r)
  THEN {[term |-> i.l, factor |-> Fit(2 ^ i.r.v, i.l.size)]}
  ELSE {}

-----------------------------------------------------------------------------
(* nextpow2 smears the highest bit down and keeps only it. *)
HighestPowerOfTwo(n) == CHOOSE p \in PowersOfTwo : p <= n /\ n < 2 * p

PopcntMask(argmask, size) ==
  IF argmask = AllOnes(size) THEN Bits(size) - 1
  ELSE IF argmask = 0 THEN 0
  ELSE LET p == HighestPowerOfTwo(PopCount[argmask])
       IN IF p = 1 THEN 1 ELSE p - 1

RECURSIVE Mask(_)
Mask(o) ==
  CASE o.k = "num" -> o.v
    [] o.k = "reg" -> IF o.size = 1 /\ o.r \in CcRegs THEN 1 ELSE AllOnes(o.size)
    [] o.k \in {"static", "none"} -> AllOnes(o.size)
    [] o.k = "sub" ->
         LET i == o.i
             l == Mask(i.l)
             r == Mask(i.r)
         IN CASE i.op \in SetOps \cup {"cfadd", "ofadd"} -> 1
              [] MulByPowerOfTwo(i) # {} ->
                   LET m == CHOOSE m \in MulByPowerOfTwo(i) : TRUE
                   IN Fit(Mask(m.term) * 2 ^ m.by, i.d.size)
              [] i.op = "xdu" -> Fit(l, i.l.size)
              [] DivByPowerOfTwo(i) # {} ->
                   LET m == CHOOSE m \in DivByPowerOfTwo(i) : TRUE
                   IN Mask(m.term) \div 2 ^ m.by
              [] i.op \in {"or", "xor"} -> BitOr(l, r)
              [] i.op = "and" -> BitAnd(l, r)
              [] i.op = "add" ->
                   IF BitAnd(l, r) = 0 THEN BitOr(l, r) ELSE AllOnes(i.d.size)
              [] i.op = "popcnt" -> PopcntMask(l, i.l.size)
              [] i.op = "rbit" -> RevBits(l, i.l.size)
              [] OTHER -> AllOnes(o.size)
Boolish(o) == Mask(o) = 1
=============================================================================
