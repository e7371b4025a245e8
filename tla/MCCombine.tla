------------------------------ MODULE MCCombine ------------------------------
(* Bytes of two bits, words of two bytes (the code's eight) and vectors of
   four.  The instructions are those each rule looks for, with operands and
   numbers it fits and ones it does not, on their own and inside others. *)
EXTENDS Combine

MCRegBits == [a |-> 4, b |-> 2, cf |-> 1, x |-> 8]
MCHighOf == [ah |-> "a"]
MCCcRegs == {"cf"}
MCSimdRegs == {"x"}
MCCellOf == <<>>

LOCAL A == Reg("a", 2)
LOCAL A1 == Reg("a", 1)
LOCAL B == Reg("b", 2)
LOCAL B1 == Reg("b", 1)
LOCAL AH == Reg("ah", 1)
LOCAL CF == Reg("cf", 1)
LOCAL X == Reg("x", 4)
LOCAL Bin(op, x, y) == Sub(Nested(op, x, y, x.size))
LOCAL Test(op, x, y) == Sub(Nested(op, x, y, 1))
LOCAL Xdu(x, size) == Unary("xdu", x, size)
LOCAL Low(x) == Unary("low", x, 1)

LOCAL Set(op, x, y) == Insn(op, x, y, CF)
LOCAL Jump(op, x, y) == Insn(op, x, y, None)
LOCAL Move(x) == Insn("mov", x, None, Reg("b", x.size))
(* A comparison with a number, as a jump and as a value. *)
LOCAL Compared(ops, x, n) ==
  {Jump(op, x, Num(n, x.size)) : op \in ops \cap Jcc}
    \cup {Set(op, x, Num(n, x.size)) : op \in ops \cap SetOps}

Shifted ==
  {Bin("shr", y, Num(k, 1)) : y \in {A, Bin("xor", A, Num(1, 2)), Unary("bnot", A, 2)},
                              k \in 0..3}
    \cup {Low(Bin("shr", A, Num(k, 1))) : k \in 1..2}
    \cup {Unary("high", A, 1), Unary("high", X, 2),
          Unary("low", Sub(Nested("byteshr128", X, Num(2, 1), 4)), 2)}
Masked ==
  {Bin("and", s, Num(m, s.size)) : s \in Shifted, m \in 1..2}
    \cup {Bin("and", Bin("xor", A, Num(n, 2)), Num(m, 2)) : n \in {1, 2}, m \in {1, 3}}
    \cup {Bin("and", Unary("bnot", A, 2), Num(m, 2)) : m \in {1, 2, 3}}
    \cup {Bin("and", Num(1, 2), Unary("bnot", y, 2)) : y \in {A, Bin("xor", A, Num(1, 2))}}
MaskTests == UNION {Compared(ZfCond, x, n) : x \in Masked, n \in 0..1}

Tables ==
  {Jump(op, Bin("and", y, Num(t, 2)), Num(0, 2)) :
     op \in {"jz", "jnz"}, t \in {1, 2, 5, 13, 15},
     y \in {Bin("shl", Num(1, 2), c) : c \in {B1, B, A1, Low(B), Low(A), Xdu(B1, 2),
                                              Low(Bin("add", B, Num(1, 2)))}}}
    \cup {Set("setnz", Bin("and", Bin("shl", Num(n, 2), B1), Num(0, 2)), Num(0, 2)) :
            n \in 1..2}

Flags == {CF, Test("setl", A, Num(0, 2)), Test("setz", A1, Num(1, 1)),
          Test("sets", A, None)}
Counts == {Unary("popcnt", y, 1) : y \in {CF, A1, Bin("and", A1, Num(1, 1)),
                                          Xdu(CF, 2), Num(0, 1)}}
Boolean ==
  {Insn(op, x, y, B1) : op \in {"xor", "or", "mul", "shr", "sar", "add"},
                        x \in Flags, y \in Flags \cup {B1}}
    \cup {Insn(op, Xdu(f, 2), Bin("and", A, Num(m, 2)), B) :
            op \in {"xor", "add"}, f \in {CF, B1}, m \in {2, 4, 12}}
    \cup UNION {Compared(ZfCond, Bin("add", x, y), n) :
                  x \in Flags, y \in {CF, B1}, n \in 1..2}
    \cup UNION {Compared(ZfCond, x, n) :
                  x \in Flags \cup Counts \cup {Bin("xor", f, CF) : f \in Flags}
                        \cup {Unary("rbit", CF, 1)}, n \in 0..2}
    \cup {Move(c) : c \in Counts}

Signs ==
  {Insn("neg", Xdu(Test("sets", y, None), s), None, Reg("b", s)) : y \in {A, A1}, s \in 1..2}
    \cup {Insn(op, Xdu(Test("setl", y, Num(n, y.size)), s), Num(k, c), Reg("b", s)) :
            op \in {"shl", "mul"}, y \in {A, A1}, n \in 0..1, k \in {1, 2, 3, 8},
            s \in 1..2, c \in 1..2}
    \cup {Set("sets", Bin("sub", y, z), None) :
            y \in {A, Xdu(B1, 2), Xdu(CF, 2)}, z \in {B, Xdu(A1, 2), Num(1, 2)}}

Constants ==
  {Jump(op, Bin("sub", y, Num(b, 2)), Num(n, 2)) :
     op \in Jcc, y \in {A}, b \in {1, 9, 15}, n \in {0, 7, 15}}
    \cup {Jump("jz", Bin("sub", Num(b, 2), A), Num(1, 2)) : b \in {1, 9}}
    \cup {Insn("shl", Bin("or", B, Bin("shl", A, Num(n, 1))), Num(k, 1), d) :
            n \in 1..3, k \in 1..2, d \in {B}}
    \cup {Move(Bin("shl", Bin("or", Bin("shl", A, Num(n, 1)), B), Num(k, 1))) :
            n \in 1..3, k \in 1..2}
    \cup {Jump(op, x, y) :
            op \in {"jz", "setz", "jl"}, x \in {A, B},
            y \in {Bin(mul[1], Bin(div[1], A, Num(div[2], 2)), Num(mul[2], 2)) :
                     mul \in {<<"mul", 3>>, <<"mul", 4>>, <<"shl", 2>>},
                     div \in {<<"udiv", 3>>, <<"udiv", 4>>, <<"shr", 2>>}}}

Vectors ==
  {Insn("low", Sub(Nested("byteshr128", y, Num(n, 1), 4)), None, B) :
     y \in {X}, n \in 1..2}
    \cup {Insn("mov", Sub(Nested("xor128", y, z, 4)), None, X) :
            y \in {X, Xdu(A, 4)}, z \in {X, Xdu(A, 4), Xdu(A1, 4)}}

Floats ==
  {Insn(op, y, m, B) : op \in {"xor", "and", "add"}, y \in {A, Bin("xor", A, Static(8, 2))},
                       m \in {Static(8, 2), Static(7, 2), Num(7, 2), B}}

Divisions ==
  {Insn("shr", Unary("high", Sub(Nested("mul", Xdu(y, 4), Xdu(Num(m[1], 2), 4), 4)), 2),
        Num(m[2], 1), B) :
     y \in {A, A1}, m \in {<<11, 1>>, <<13, 2>>, <<6, 1>>, <<4, 0>>, <<5, 3>>, <<8, 0>>}}

Points(vals, y) == [n \in DOMAIN vals |-> Nested("setz", y, Num(vals[n], y.size), 1)]
Chains ==
  {OrChain(Points(vals, y)) :
     vals \in {<<1, 2, 3, 4, 5>>, <<1, 2, 3, 3, 0>>, <<2, 1, 0, 2, 2>>, <<1, 3, 1, 3, 0, 3>>,
               <<0, 1, 2, 3>>},
     y \in {A1, A}}
    \cup {OrChain(Points(<<1, 2, 3, 3, 0>>, A1) \o <<Nested("setl", A, B, 1)>>)}

High == {Insn("or", AH, Num(n, 1), AH) : n \in 0..3}

-----------------------------------------------------------------------------
Plain(i) == [insn |-> i, parent |-> 2, top |-> "this", defsize |-> 0, floaty |-> FALSE]

(* The condition of a jump or a set as the operand of another instruction: of a
   call, where the last argument is looked at last, and of a negation. *)
AsOperand(i) == Sub([i EXCEPT !.op = IF @ \in Jcc THEN JccToSetcc[@] ELSE @,
                              !.d = Sized(1)])
Inside ==
  {Insn("call", None, None, Parts(<<A, AsOperand(i), CF>>)) :
     i \in {i \in MaskTests : i.l.size = 2 /\ i.op = "setz"}}
    \cup {Jump("jcnd", Unary("lnot", AsOperand(i), 1), None) :
            i \in {i \in MaskTests : i.op = "setnz"}}
    \cup {Jump("jnz", Sub(c), Num(0, 1)) : c \in Chains}
    \cup {Insn("mul", Xdu(AsOperand(i), 2), Xdu(AsOperand(j), 2), B) :
            i \in {i \in MaskTests : i.op = "setz" /\ i.l.size = 2 /\ i.r.v = 0},
            j \in {j \in Boolean : j.op = "setz" /\ j.r.v = 1 /\ j.l.k = "reg"}}

MCCases ==
  {Plain(i) : i \in UNION {MaskTests, Boolean, Signs, Constants, Inside, Chains}}
    \cup {[Plain(i) EXCEPT !.top = t, !.defsize = d] :
            i \in Tables, t \in {"this", "other", "null"}, d \in {0, 2}}
    \cup {[Plain(i) EXCEPT !.defsize = d] : i \in High, d \in 0..2}
    \cup {[Plain(i) EXCEPT !.top = t] : i \in Vectors, t \in {"this", "other"}}
    \cup {[Plain(i) EXCEPT !.floaty = f] : i \in Floats, f \in BOOLEAN}
    \cup {[Plain(i) EXCEPT !.parent = p] : i \in Divisions, p \in {-1, 1, 2}}
    \cup {Plain(Move(Sub([i EXCEPT !.d = Sized(2)]))) : i \in Divisions}
=============================================================================
