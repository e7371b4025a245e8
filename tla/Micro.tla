------------------------------- MODULE Micro -------------------------------
(* Microcode operands and instructions (mop_t, minsn_t of micro_on_70.hpp,
   mop.cpp, minsn.cpp) as trees, the pattern helpers the combine rules match
   them with, the relation tables of micromisc.cpp, and the value of an
   operand: the decompiler's meaning of each opcode, which the repository does
   not define and every rewrite has to keep.

   A byte has Byte bits (8 in the code) so that every value can be tried; an
   ordinary word has up to Wide bytes (8 in the code), a vector twice that.
   Registers, stack and global variables are all "reg" operands: the rules
   treat every lvalue alike. *)
EXTENDS Integers, Sequences, FiniteSets, TLC, Bitwise

CONSTANTS
  Byte,      \* bits in a byte
  Wide,      \* bytes in the widest ordinary operand
  RegBits,   \* register -> how many bits of it are ever set
  HighOf,    \* name of a high byte -> the register it is byte 1 of
  CcRegs,    \* the condition code registers
  CellOf     \* address -> the cell of memory there, named like a register

ASSUME MicroAssumption ==
  /\ Byte \in Nat \ {0} /\ Wide \in Nat \ {0}
  /\ \A r \in DOMAIN RegBits : RegBits[r] \in 1..(2 * Wide * Byte)
  /\ \A h \in DOMAIN HighOf : HighOf[h] \in DOMAIN RegBits
  /\ CcRegs \subseteq DOMAIN RegBits
  /\ \A a \in DOMAIN CellOf : CellOf[a] \in DOMAIN RegBits

Bits(size) == Byte * size
Limit(size) == 2 ^ Bits(size)
AllOnes(size) == Limit(size) - 1

-----------------------------------------------------------------------------
(* Operands.  A number keeps two copies of its value, as mnumber_t does. *)
Static(v, size) == [k |-> "static", v |-> v, size |-> size]
None == [k |-> "none", size |-> 0]
Sized(size) == [k |-> "none", size |-> size]
Num(v, size) == [k |-> "num", v |-> v, org |-> v, size |-> size]
Reg(r, size) == [k |-> "reg", r |-> r, size |-> size]
Sub(i) == [k |-> "sub", i |-> i, size |-> i.d.size]
SubOf(i, size) == [k |-> "sub", i |-> i, size |-> size]

Insn(op, l, r, d) == [op |-> op, l |-> l, r |-> r, d |-> d]
(* An instruction that is the operand of another one has no destination, only
   the size of its result. *)
Nested(op, l, r, size) == Insn(op, l, r, Sized(size))
Parts(ps) == [k |-> "parts", parts |-> ps, size |-> Len(ps)]
Unary(op, l, size) == Sub(Nested(op, l, None, size))

(* The block a jump goes to. *)
Target(b) == [k |-> "block", b |-> b, size |-> 0]

IsNum(o) == o.k = "num"
IsSub(o) == o.k = "sub"
IsLvalue(o) == o.k = "reg"
HasOp(o, op) == IsSub(o) /\ o.i.op = op

Fit(v, size) == v % Limit(size)
(* is_constant takes the original value; the opcode tests of the rules mostly
   read the current one. *)
IsEqualTo(o, v) == IsNum(o) /\ Fit(o.org, o.size) = v
UpdateValue(o, v) == [o EXCEPT !.v = v, !.org = v]
LvalueEqualIgnoreSize(x, y) == IsLvalue(x) /\ IsLvalue(y) /\ x.r = y.r
LvalueEqual(x, y) == LvalueEqualIgnoreSize(x, y) /\ x.size = y.size

(* get_eitherlr, get_either_insnop: the side of an instruction that matches,
   the right one first.  A side is "r", "l" or "no". *)
Other(side) == IF side = "r" THEN "l" ELSE "r"
SideOfKind(i, kind) ==
  IF i.r.k = kind THEN "r" ELSE IF i.l.k = kind THEN "l" ELSE "no"
SideOfOp(i, op) ==
  IF HasOp(i.r, op) THEN "r" ELSE IF HasOp(i.l, op) THEN "l" ELSE "no"

-----------------------------------------------------------------------------
(* Relations.  Conditional jumps and sets come in pairs. *)
ZfCond == {"setz", "setnz", "jz", "jnz"}
SetOps == {"sets", "setz", "setnz", "setae", "setb", "seta", "setbe",
           "setg", "setge", "setl", "setle", "setp", "seto"}
JccToSetcc == [jnz |-> "setnz", jz |-> "setz", jae |-> "setae", jb |-> "setb",
               ja |-> "seta", jbe |-> "setbe", jg |-> "setg", jge |-> "setge",
               jl |-> "setl", jle |-> "setle"]
Jcc == DOMAIN JccToSetcc
Commutative == {"add", "mul", "or", "and", "xor", "setz", "setnz",
                "cfadd", "ofadd"}
NegateRelation ==
  [setnz |-> "setz", setz |-> "setnz", setae |-> "setb", setb |-> "setae",
   seta |-> "setbe", setbe |-> "seta", setg |-> "setle", setge |-> "setl",
   setl |-> "setge", setle |-> "setg",
   jnz |-> "jz", jz |-> "jnz", jae |-> "jb", jb |-> "jae",
   ja |-> "jbe", jbe |-> "ja", jg |-> "jle", jge |-> "jl",
   jl |-> "jge", jle |-> "jg"]
SwapRelation ==
  [setae |-> "setbe", setb |-> "seta", seta |-> "setb", setbe |-> "setae",
   setg |-> "setl", setge |-> "setle", setl |-> "setg", setle |-> "setge",
   jae |-> "jbe", jb |-> "ja", ja |-> "jb", jbe |-> "jae",
   jg |-> "jl", jge |-> "jle", jl |-> "jg", jle |-> "jge"]
WithEquality ==
  [setb |-> "setbe", seta |-> "setae", setg |-> "setge", setl |-> "setle",
   jb |-> "jbe", ja |-> "jae", jg |-> "jge", jl |-> "jle"]

-----------------------------------------------------------------------------
(* Values.  Four bits at a time come from a table. *)
Word == 0..AllOnes(2 * Wide)
AndTab == [x, y \in 0..15 |-> x & y]
RECURSIVE BitAnd(_, _)
BitAnd(x, y) ==
  AndTab[x % 16, y % 16]
    + (IF x < 16 \/ y < 16 THEN 0 ELSE 16 * BitAnd(x \div 16, y \div 16))
BitOr(x, y) == x + y - BitAnd(x, y)
BitXor(x, y) == x + y - 2 * BitAnd(x, y)
PopCount == [x \in Word |->
               Cardinality({b \in 0..(Bits(2 * Wide) - 1) : (x \div 2 ^ b) % 2 = 1})]
Signed(x, size) == IF 2 * x >= Limit(size) THEN x - Limit(size) ELSE x
RevBits(x, size) ==
  LET set == {b \in 0..(Bits(size) - 1) : (x \div 2 ^ b) % 2 = 1}
      at[b \in 0..Bits(size)] ==
        IF b = 0 THEN 0
        ELSE at[b - 1] + (IF (b - 1) \in set THEN 2 ^ (Bits(size) - b) ELSE 0)
  IN at[Bits(size)]

BitAt(x, n) == (x \div 2 ^ n) % 2
LowestSet(x, width) ==
  IF x = 0 THEN width ELSE CHOOSE n \in 0..(width - 1) : BitAt(x, n) = 1 /\ x % 2 ^ n = 0

RoundUp(x, size) ==
  IF x = 0 THEN 0 ELSE CHOOSE p \in {2 ^ b : b \in 0..Bits(size)} : p >= x /\ p < 2 * x

Holds(op, x, y, size) ==
  LET s == Signed(x, size)  t == Signed(y, size)
  IN CASE op = "setz" -> x = y  [] op = "setnz" -> x # y
       [] op = "setae" -> x >= y  [] op = "setb" -> x < y
       [] op = "seta" -> x > y  [] op = "setbe" -> x <= y
       [] op = "setg" -> s > t  [] op = "setge" -> s >= t
       [] op = "setl" -> s < t  [] op = "setle" -> s <= t
       [] op = "sets" -> s < 0
Truth(b) == IF b THEN 1 ELSE 0

Result(op, x, y, lsize, dsize) ==
  CASE op \in {"mov", "xdu", "low"} -> x
    [] op = "jcnd" -> Truth(x # 0)
    [] op = "and" -> BitAnd(x, y)
    [] op = "or" -> BitOr(x, y)
    [] op = "xor" -> BitXor(x, y)
    [] op = "add" -> x + y
    [] op = "sub" -> x - y + Limit(lsize)
    [] op = "mul" -> x * y
    [] op = "shl" -> x * 2 ^ y
    [] op = "shr" -> x \div 2 ^ y
    [] op = "sar" -> Signed(x, lsize) \div 2 ^ y
    [] op = "neg" -> Limit(lsize) - x
    [] op = "bnot" -> AllOnes(lsize) - x
    [] op = "lnot" -> Truth(x = 0)
    [] op = "xds" -> Signed(x, lsize)
    [] op = "high" -> x \div Limit(dsize)
    [] op = "udiv" -> x \div y
    [] op = "umod" -> x % y
    [] op = "fneg" -> (x + 2 ^ (Bits(lsize) - 1)) % Limit(lsize)
    [] op = "fabs" -> x % 2 ^ (Bits(lsize) - 1)
    [] op \in SetOps -> Truth(Holds(op, x, y, lsize))
    [] op \in Jcc -> Truth(Holds(JccToSetcc[op], x, y, lsize))
    [] op = "popcnt" -> PopCount[x]
    [] op = "rbit" -> RevBits(x, lsize)
    [] op = "tzcnt" -> LowestSet(x, Bits(lsize))
    [] op = "und" -> 1
    [] op = "round_up_pow2" -> RoundUp(x, lsize)
    [] op = "byteshr128" -> x \div Limit(y)
    [] op = "xor128" -> BitXor(x, y)

ReadReg(r, size, env) ==
  IF r \in DOMAIN HighOf
  THEN Fit(env[HighOf[r]] \div Limit(1), size)
  ELSE Fit(env[r], size)

(* The cell an address stands for: a load or store says segment and address in
   two operands, and memory is small and wraps. *)
Cell(address) == CellOf[address % Cardinality(DOMAIN CellOf)]

(* A flag left undefined is 1 here; what reads it the README leaves out.
   A call is its arguments: what it does with them is not ours to know. *)
RECURSIVE Value(_, _), Outcome(_, _)
Value(o, env) ==
  CASE o.k \in {"num", "static"} -> Fit(o.v, o.size)
    [] o.k = "parts" ->
         LET from[n \in 1..(Len(o.parts) + 1)] ==
               IF n > Len(o.parts) THEN 0
               ELSE Value(o.parts[n], env) + Limit(2 * Wide) * from[n + 1]
         IN from[1]
    [] o.k = "reg" -> ReadReg(o.r, o.size, env)
    [] o.k \in {"none", "block"} -> 0
    [] o.k = "sub" -> Fit(Outcome(o.i, env), o.size)
Outcome(i, env) ==
  IF i.op = "call" THEN Value(i.d, env)
  ELSE IF i.op = "ldx" THEN ReadReg(Cell(Value(i.r, env)), i.d.size, env)
  ELSE Result(i.op, Value(i.l, env), Value(i.r, env), i.l.size, i.d.size)

(* A smaller destination keeps the rest of its register. *)
WriteReg(d, v, env) ==
  IF d.r \in DOMAIN HighOf
  THEN LET whole == HighOf[d.r]
           rest == env[whole] - Limit(1) * ReadReg(d.r, 1, env)
       IN [env EXCEPT ![whole] = rest + Limit(1) * Fit(v, 1)]
  ELSE [env EXCEPT ![d.r] = env[d.r] - Fit(env[d.r], d.size) + Fit(v, d.size)]

(* What an instruction of a block does: the registers after it, or whether a
   jump is taken. *)
Exec(i, env) == IF IsLvalue(i.d) THEN WriteReg(i.d, Outcome(i, env), env)
                ELSE Outcome(i, env)
Store(i, env) ==
  WriteReg(Reg(Cell(Value(i.d, env)), i.l.size), Value(i.l, env), env)

RECURSIVE RegsIn(_)
RegsIn(o) ==
  CASE o.k = "reg" -> {IF o.r \in DOMAIN HighOf THEN HighOf[o.r] ELSE o.r}
    [] o.k = "parts" -> UNION {RegsIn(o.parts[n]) : n \in DOMAIN o.parts}
    [] o.k = "sub" ->
         RegsIn(o.i.l) \cup RegsIn(o.i.r) \cup RegsIn(o.i.d)
           \cup (IF o.i.op \in {"ldx", "stx"}
                 THEN {CellOf[a] : a \in DOMAIN CellOf} ELSE {})
    [] OTHER -> {}
RegsOf(i) == RegsIn(SubOf(i, i.d.size))

(* Every value the given registers can have. *)
RECURSIVE Envs(_)
Envs(regs) ==
  IF regs = {} THEN {<<>>}
  ELSE LET r == CHOOSE r \in regs : TRUE
       IN {(r :> v) @@ e : v \in 0..(2 ^ RegBits[r] - 1), e \in Envs(regs \ {r})}
=============================================================================
