------------------------------ MODULE MCGlbopt ------------------------------
(* Functions of four blocks and the decompiler's empty one, with two words a
   and b, a byte c, three flags and two cells of memory.  Each set of functions
   has the shape one rule over several instructions looks for, with what makes
   the rule right and what it has to look out for. *)
EXTENDS Glbopt

MCRegBits ==
  [a |-> 2, b |-> 2, c |-> 2, cf |-> 1, zf |-> 1, nf |-> 1, of |-> 1, ds |-> 1, m0 |-> 2, m1 |-> 2,
   t0 |-> 4, t1 |-> 4, v0 |-> 4, v1 |-> 4, v2 |-> 4, v3 |-> 4]
MCHighOf == [ah |-> "a", bh |-> "b", t0h |-> "t0", t1h |-> "t1", v0h |-> "v0", v1h |-> "v1", v2h |-> "v2",
             v3h |-> "v3"]
MCCcRegs == {"cf", "zf", "nf", "of"}
MCSimdRegs == {}
MCCellOf == [k \in 0..1 |-> IF k = 0 THEN "m0" ELSE "m1"]
MCAt == [cf |-> 0, zf |-> 1, nf |-> 2, of |-> 3, a |-> 4, ah |-> 5, b |-> 6, bh |-> 7,
         t0 |-> 8, t0h |-> 9, t1 |-> 10, t1h |-> 11,
         v0 |-> 12, v0h |-> 13, v1 |-> 14, v1h |-> 15, c |-> 16, ds |-> 17,
         v2 |-> 18, v2h |-> 19, v3 |-> 20, v3h |-> 21]
MCTempBytes == 8..11
MCIgnored == {"cf", "zf", "nf", "of"}

LOCAL A == Reg("a", 1)
LOCAL B == Reg("b", 1)
LOCAL AW == Reg("a", 2)
LOCAL BW == Reg("b", 2)
LOCAL C == Reg("c", 1)
LOCAL CF == Reg("cf", 1)
LOCAL ZF == Reg("zf", 1)
LOCAL NF == Reg("nf", 1)
LOCAL OF == Reg("of", 1)
LOCAL DS == Reg("ds", 1)
LOCAL K(v) == Num(v, 1)
LOCAL Mov(x, d) == Insn("mov", x, None, d)
LOCAL Set(op, x, y, d) == Insn(op, x, y, d)
LOCAL Jump(op, x, y, to) == Insn(op, x, y, Target(to))
LOCAL Goto(to) == Insn("goto", Target(to), None, None)
LOCAL Bin(op, x, y) == Sub(Nested(op, x, y, 1))
LOCAL Neither(x) == Unary("lnot", x, 1)
LOCAL Load(at) == Bin("ldx", DS, at)

(* The function of this code, with the sets and types its jumps ask for. *)
FunctionOf(code) ==
  LET last(b) == IF code[b] = <<>> THEN Nop ELSE code[b][Len(code[b])]
      succ == [b \in Serials |->
                 IF b = NBlocks THEN {}
                 ELSE CASE last(b).op = "goto" -> {last(b).l.b}
                        [] last(b).op \in JConditional -> {last(b).d.b, b + 1}
                        [] OTHER -> {b + 1}]
  IN [code |-> code, succ |-> succ,
      pred |-> [b \in Serials |-> {p \in Serials : b \in succ[p]}],
      type |-> [b \in Serials |-> IF b = NBlocks THEN "stop"
                                  ELSE IF last(b).op \in JConditional THEN "2way"
                                  ELSE "1way"]]
LOCAL Four(c1, c2, c3, c4) == FunctionOf(<<c1, c2, c3, c4, <<>>>>)

(* A flag computed above the jump, with the operands overwritten between them,
   and read again below or not. *)
Sifts ==
  {Four(start \o <<set>> \o between \o <<Jump("jcnd", cond, None, 3)>>, fall, target, <<>>) :
     start \in {<<>>, <<Mov(K(3), C)>>},
     set \in {Set("setz", A, K(1), ZF), Set("setb", A, B, ZF),
              Set("setz", Load(K(0)), K(0), ZF), Set("setz", AW, Num(1, 2), ZF)},
     between \in {<<>>, <<Mov(K(2), A)>>, <<Mov(K(2), B)>>, <<Mov(B, C), Mov(C, AW)>>,
                  <<Insn("stx", K(2), DS, K(0))>>, <<Mov(ZF, C)>>},
     cond \in {Neither(ZF)},
     fall \in {<<Mov(K(1), C)>>},
     target \in {<<>>, <<Mov(A, C), Mov(ZF, C)>>, <<Mov(ZF, C)>>,
                 <<Set("setz", B, K(0), ZF), Mov(ZF, C)>>}}
TwoFlags ==
  {Four(<<Mov(B, C), Set("setb", A, B, CF), Set("sets", x, None, NF)>> \o between
          \o <<Jump("jcnd", Bin("xor", NF, CF), None, 3)>>,
        <<Mov(K(1), C)>>, <<>>, <<>>) :
     x \in {A, CF}, between \in {<<>>, <<Mov(K(2), A)>>, <<Mov(K(0), AW)>>}}

(* A flag computed in another block, on every way to the jump or not, once or
   again on the way round a loop. *)
Copies ==
  {Four(<<Set("setb", x, B, CF), Jump("jnz", B, K(0), 3)>>, mid,
        over \o <<Jump("jcnd", cond, None, to)>>, <<Mov(K(2), C)>>) :
     x \in {A, CF},
     mid \in {<<Mov(K(1), C)>>, <<Mov(K(1), A)>>, <<Set("setz", A, B, CF)>>,
              <<Mov(K(1), C), Goto(4)>>},
     over \in {<<>>, <<Mov(K(1), B)>>, <<Mov(CF, C)>>, <<Set("setz", A, K(0), ZF)>>},
     cond \in {CF, Neither(CF)},
     to \in {5}}
Loops ==
  {Four(first, <<Set("setb", A, B, CF)>> \o more, <<Mov(B, C), x>>,
        <<Jump("jcnd", CF, None, 3)>>) :
     first \in {<<Mov(K(1), C)>>, <<Jump("jz", A, K(0), 3)>>},
     more \in {<<>>, <<Mov(K(3), C)>>},
     x \in {Mov(K(0), B), Insn("sub", B, K(1), B), Mov(K(1), C)}}

(* "x := 0; if not taken x := 1". *)
Booleans ==
  {Four(<<Mov(zero, d)>> \o between \o <<Jump(op, A, B, to)>>, <<Mov(one, d)>> \o more,
        <<Mov(Reg("v1", 1), C)>>, <<>>) :
     d \in {Reg("v1", 1)}, zero \in {K(0), K(2)}, one \in {K(1)},
     between \in {<<>>, <<Mov(K(1), C)>>, <<Mov(Reg("v1", 1), C)>>, <<Mov(A, Reg("v1", 1))>>},
     op \in {"jl", "jz", "jae"}, to \in {3, 4}, more \in {<<>>, <<Mov(K(1), C)>>}}
WideBooleans ==
  {Four(<<Mov(Num(0, 2), Reg("v1", 2)), Jump(op, A, B, 3)>>, <<Mov(Num(1, 2), Reg("v1", 2))>>,
        <<Mov(Reg("v1", 2), Reg("v0", 2))>>, <<>>) : op \in {"jl", "jbe"}}

(* "if x or y". *)
Circuits ==
  {Four(<<Mov(K(3), C), Jump(p, A, x, to)>>, pre \o <<Jump(q, y, K(0), to)>>, last, <<Mov(K(0), C)>>) :
     p \in {"jz", "jb"}, q \in {"jz", "jnz"}, x \in {K(1)}, y \in {B, Load(A)},
     to \in {3, 4}, pre \in {<<>>, <<Mov(K(2), B)>>}, last \in {<<Mov(K(1), C)>>, <<Goto(2)>>}}

(* Flags set on one side of a branch and tested behind it. *)
Merges ==
  {Four(<<Mov(K(1), C), Jump("jge", A, B, 3)>>, sets,
        <<Jump("jcnd", Bin("xor", NF, ZF), None, 5)>>, back) :
     sets \in {<<Set("setz", A, B, ZF)>>, <<Set("setz", A, B, ZF), Set("sets", A, None, NF)>>,
               <<Set("setz", A, B, ZF), Set("setnz", ZF, K(0), NF)>>,
               <<Set("setz", A, B, ZF), Set("sets", A, None, NF), Set("setb", A, B, CF),
                 Set("setb", A, K(1), CF)>>,
               <<Set("setz", Load(K(0)), B, ZF)>>, <<Set("setz", A, B, C)>>},
     back \in {<<Mov(K(2), C)>>, <<Mov(K(2), C), Jump("jz", C, K(0), 2)>>}}

LOCAL Plus(n) == Bin("add", A, K(n))
Stores ==
  {Four(<<Insn("stx", Bin("and", Load(p), x), DS, p), Insn("stx", Bin("or", y, Load(q)), DS, q)>>,
        <<>>, <<>>, <<>>) :
     p \in {A, Plus(1)}, q \in {A, Plus(1), Plus(2)}, x \in {K(2), B}, y \in {K(1), B, Load(B)}}

(* "v - 1", smeared and plus one, in a row or with something in between. *)
LOCAL Shifted(k, x, d) == Insn("shr", x, Num(2 ^ k, 1), d)
LOCAL Joined(x, y, d) == Insn("or", x, y, d)
LOCAL Plus1(x, d) == Insn("add", x, Num(1, x.size), d)
Roundings ==
  UNION {LET x == Reg("v1", s)  v == Reg("v2", s)  t == Reg("v3", s)
         IN {Four(<<Insn("sub", y, Num(1, s), v)>> \o first \o second \o last,
                  <<>>, <<>>, <<>>) :
               y \in {x, v},
               first \in {<<Shifted(0, v, t), Joined(v, t, v)>>,
                          <<Mov(v, t), Shifted(0, t, t), Joined(v, t, v)>>,
                          <<Shifted(0, v, x), Mov(x, t), Joined(v, t, v)>>},
               second \in {<<Shifted(1, v, t)>>, <<Shifted(1, t, t)>>,
                           <<Mov(Num(2, s), x), Shifted(1, v, t)>>,
                           <<Mov(x, v), Shifted(1, v, t)>>, <<Mov(v, x), Shifted(1, x, t)>>},
               last \in {<<Joined(t, v, t), Plus1(t, v)>>}
                         \cup {<<Joined(t, v, v)>> \o sum :
                                sum \in {<<Plus1(v, x)>>, <<Insn("add", v, x, v)>>,
                                        <<Insn("add", v, Num(2, s), x), Plus1(v, v)>>}}} : s \in 1..2}

(* The rules for single instructions find work where these leave some. *)
Mixed ==
  {Four(<<Insn("xor", CF, ZF, NF), Set("setz", A, K(1), ZF),
          Jump("jz", ZF, K(n), 3)>>,
        <<Mov(K(1), C)>>, <<Jump("jz", Neither(Bin("setz", x, K(0))), K(0), 5)>>, <<Mov(K(2), C)>>) :
     n \in 0..1, x \in {CF, A}}

(* An emitted instruction and what reads its flags: a jump, taken on one or two
   of them, or moves. *)
LOCAL V0(size) == Reg("v0", size)
LOCAL V1(size) == Reg("v1", size)
Instructions ==
  {X86(t, s, <<V0(s), x>>) : t \in {"tzcnt", "blsr"}, s \in 1..2, x \in {V0(2), V1(2)}}
    \cup {X86(t, s, <<V0(s), x, y>>) :
            t \in {"sarx", "shlx", "shrx"}, s \in 1..2, x \in {V0(2), V1(2)}, y \in {V0(2), A}}
    \cup {X86("bt", s, <<V1(s), x>>) : s \in 1..2, x \in {V1(2), A, Num(0, 1), Num(3, 1)}}
LOCAL Reads(t) ==
  CASE t = "tzcnt" -> {CF, Neither(ZF)}
    [] t = "blsr" -> {CF, ZF, Bin("xor", NF, OF), Bin("or", CF, ZF)}
    [] t = "bt" -> {CF, Neither(CF), Bin("or", CF, ZF)}
    [] OTHER -> {CF}
LOCAL AfterJump(insns, cond) ==
  Four(insns \o <<Jump("jcnd", cond, None, 3)>>, <<Mov(K(1), C)>>, <<>>, <<>>)
LOCAL AfterMove(insns, flag) == Four(Append(insns, Mov(flag, C)), <<>>, <<>>, <<>>)
LOCAL Machine(insn, g, after) ==
  [f |-> g, defsize |-> 0, floaty |-> FALSE, machine |-> {[insn |-> insn, after |-> after]},
   starts |-> [v0 : {0, 1, 2, 6, 8, 15}, v1 : {0, 2, 4, 9, 15}, a : 0..3]]
Generated ==
  UNION {{Machine(x, AfterJump(Emitted(x), cond), AfterJump(<<>>, cond)) :
             cond \in Reads(x.itype)}
           \cup {Machine(x, AfterMove(Emitted(x), flag), AfterMove(<<>>, flag)) :
                   flag \in Reads(x.itype) \cap {CF, ZF}} : x \in Instructions}

LOCAL Words == {0, 1, 3}
LOCAL Bit == {0, 1}
LOCAL From(starts, fs) ==
  {[f |-> g, defsize |-> 0, floaty |-> FALSE, starts |-> starts, machine |-> {}] : g \in fs}
MCFunctions ==
  From([a : Words, b : Words, m0 : Bit], Sifts)
    \cup From([a : Words, b : Words, cf : Bit], TwoFlags \cup Copies \cup Loops)
    \cup From([a : Words, b : Words], Booleans \cup WideBooleans)
    \cup From([a : Bit, b : Words, m0 : Words, m1 : {2}], Circuits \cup Stores)
    \cup From([a : Words, b : {1, 2}, zf : Bit, nf : Bit], Merges \cup Mixed)
    \cup From([v1 : 0..15, v2 : {0, 6}], Roundings)
    \cup Generated
=============================================================================
