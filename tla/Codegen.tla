------------------------------- MODULE Codegen -------------------------------
(* The microcode filters that emit an instruction by themselves: bittest_fixup,
   shiftx_generator, tzcnt_generator and blsr_generator (microgen_additions/),
   and what the processor does, which their comments go by.  Operands are
   registers or, of bt, a number; one in memory the decompiler has loaded into a
   register first.  Operands are of one byte or Wide bytes, the code's four and
   eight.  A processor of 64 bits also clears the upper half of a register whose
   lower half an instruction writes; no filter emits that, and what is compared
   here are the bytes written. *)
EXTENDS Micro

(* An instruction of the processor: operand 0, 1 and 2 in that order. *)
X86(itype, size, ops) == [itype |-> itype, size |-> size, ops |-> ops]

Cf == Reg("cf", 1)
Zf == Reg("zf", 1)
Sf == Reg("nf", 1)
Of == Reg("of", 1)

(* undefine_flag: the flag holds anything, and nothing may read it. *)
UndefineFlag(flag) == Insn("und", None, None, flag)

Op(x, n) == IF IsNum(x.ops[n + 1]) THEN x.ops[n + 1] ELSE [x.ops[n + 1] EXCEPT !.size = x.size]
Low8(x, n) == [x.ops[n + 1] EXCEPT !.size = 1]
Zero(x) == Num(0, x.size)

(* Mutant: the destination is written before the flags are computed. *)
TzcntCallFirst(x) ==
  <<Insn("tzcnt", Op(x, 1), None, Op(x, 0)),
    Insn("setnz", Sub(Nested("and", Op(x, 1), Num(1, x.size), x.size)), Zero(x), Zf),
    Insn("setz", Op(x, 1), Zero(x), Cf),
    UndefineFlag(Of), UndefineFlag(Sf)>>

(* The result is zero when the lowest bit is set; the helper comes last, since
   its result may go to the register it reads. *)
Tzcnt(x) ==
  <<Insn("setnz", Sub(Nested("and", Op(x, 1), Num(1, x.size), x.size)), Zero(x), Zf),
    Insn("setz", Op(x, 1), Zero(x), Cf),
    Insn("tzcnt", Op(x, 1), None, Op(x, 0)),
    UndefineFlag(Of), UndefineFlag(Sf)>>

Blsr(x) ==
  <<Insn("and", Op(x, 1), Sub(Nested("sub", Op(x, 1), Num(1, x.size), x.size)), Op(x, 0)),
    Insn("sets", Op(x, 0), None, Sf),
    Insn("setz", Op(x, 0), Zero(x), Zf),
    Insn("mov", Num(0, 1), None, Of),
    Insn("setz", Op(x, 1), Zero(x), Cf)>>

ShiftCode == [sarx |-> "sar", shlx |-> "shl", shrx |-> "shr"]
Shiftx(x) == <<Insn(ShiftCode[x.itype], Op(x, 1), Low8(x, 2), Op(x, 0))>>

(* The bit's place is a number shifted when the code is emitted, or the lowest
   byte of a register. *)
BitTested(x) ==
  IF IsNum(Op(x, 1)) THEN Num(Fit(2 ^ Op(x, 1).v, x.size), x.size)
  ELSE Sub(Nested("shl", Num(1, x.size), Low8(x, 1), x.size))
Bittest(x) ==
  <<Insn("setnz", Sub(Nested("and", BitTested(x), Op(x, 0), x.size)), Zero(x), Cf),
    UndefineFlag(Of), UndefineFlag(Sf)>>

Emitted(x) ==
  CASE x.itype = "bt" -> Bittest(x)
    [] x.itype \in DOMAIN ShiftCode -> Shiftx(x)
    [] x.itype = "tzcnt" -> Tzcnt(x)
    [] x.itype = "blsr" -> Blsr(x)

-----------------------------------------------------------------------------
(* What the processor does with the registers.  Flags it leaves undefined keep
   the value of "env" here, and are not to be read after it. *)
Operand(x, n, env) == Value(Op(x, n), env)
Into(x, v, env) == WriteReg(Op(x, 0), v, env)
Flags(cf, zf, sf, of, env) ==
  [env EXCEPT !["cf"] = Truth(cf), !["zf"] = Truth(zf), !["nf"] = Truth(sf), !["of"] = Truth(of)]

Width(x) == Bits(x.size)
Carried(cf, env) == [env EXCEPT !["cf"] = Truth(cf)]
Does(x, env) ==
  CASE x.itype = "bt" ->
         Carried(BitAt(Operand(x, 0, env), Operand(x, 1, env) % Width(x)) = 1, env)
    [] x.itype \in DOMAIN ShiftCode ->
         Into(x, Fit(Result(ShiftCode[x.itype], Operand(x, 1, env),
                            Operand(x, 2, env) % Width(x), x.size, x.size), x.size), env)
    [] x.itype = "tzcnt" ->
         LET v == Operand(x, 1, env)
         IN Into(x, LowestSet(v, Width(x)),
                 [Carried(v = 0, env) EXCEPT !["zf"] = Truth(BitAt(v, 0) = 1)])
    [] x.itype = "blsr" ->
         LET v == Operand(x, 1, env)
             w == IF v = 0 THEN 0 ELSE v - 2 ^ LowestSet(v, Width(x))
         IN Into(x, w, Flags(v = 0, w = 0, Signed(w, x.size) < 0, FALSE, env))

(* The filters take a shift or a place to be less than the width, which the
   processor reduces by it, and the registers of blsr to differ: the carry is
   computed last, from a register that then holds the result. *)
CountIn(x) == IF x.itype = "bt" THEN {1} ELSE IF x.itype \in DOMAIN ShiftCode THEN {2} ELSE {}
Presumable(x, env) ==
  /\ \A n \in CountIn(x) : Operand(x, n, env) < Width(x)
  /\ x.itype = "blsr" => Op(x, 0) # Op(x, 1)
=============================================================================
