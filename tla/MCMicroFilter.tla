--------------------------- MODULE MCMicroFilter ---------------------------
\* MicroFilter over programs of two functions to decompile, 1 and 2, of which 1
\* calls 3 and 3 may call 4, directly or through a pointer.
EXTENDS MicroFilter

CONSTANT p

Op(n, size) == Insn("op", n, size)
Stop == Insn("stop", None, 2)
Ret == Insn("ret", None, 1)
Bmi == Insn("bmi", None, 5)
Past == Insn("past", None, 2)
Cond == Insn("cond", None, 2)
Call(f) == Insn("near", f, 5)
CallPtr == Insn("mem", p, 6)

Plain(body) == [body |-> body, thunk |-> None, via |-> None, nullsub |-> FALSE, noret |-> FALSE]
Thunk(f) == [Plain(<<Insn("jmp", None, 5)>>) EXCEPT !.thunk = f]
ThunkVia(q, f) == [Thunk(f) EXCEPT !.via = q]
Nullsub == [Plain(<<Ret>>) EXCEPT !.nullsub = TRUE]

Second == Plain(<<Cond, Op(1, 3), Bmi>>)
Third == {Plain(<<Op(3, 3), Call(4), Ret>>), Plain(<<Call(4), Op(3, 3), Ret>>), Plain(<<Call(4), Ret>>),
          Thunk(4), Plain(<<Stop, Ret>>)}
ThirdByPtr == {Plain(<<CallPtr, Ret>>), ThunkVia(p, 4)}
Fourth == {Nullsub, Plain(<<Op(4, 5), Ret>>), Plain(<<Op(4, 8), Ret>>), Plain(<<Op(4, 3), Ret>>), Plain(<<Cond, Op(4, 3), Bmi, Ret>>),
           [Plain(<<Op(4, 3), Op(2, 5), Ret>>) EXCEPT !.noret = TRUE]}

World(a, c, d, const, to) ==
  [fns |-> <<Plain(a), Second, c, d>>, ptrs |-> [q \in {p} |-> [const |-> const, to |-> to]]]

MCWorlds ==
  {World(a, c, d, FALSE, 3) : a \in {<<Call(3), Ret>>, <<Call(3), Past, Ret>>}, c \in Third, d \in Fourth}
    \cup {World(a, c, d, k, t) : a \in {<<Call(3), Ret>>, <<CallPtr, Call(3), Ret>>}, c \in ThirdByPtr,
           d \in {Nullsub, Plain(<<Op(4, 3), Ret>>)}, k \in BOOLEAN, t \in {3, 4}}
=============================================================================
