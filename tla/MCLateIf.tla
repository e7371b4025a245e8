------------------------------ MODULE MCLateIf ------------------------------
(* Bodies of up to three statements over ifs two deep; in some a label stands
   in a branch and is jumped to. *)
EXTENDS LateIf

LOCAL X == Expr("x")
LOCAL Y == Expr("y")
LOCAL L == Labelled("l", Expr("z"))

\* Branches without an if; the statement R returns.
LOCAL Flat(R) == {<<X>>, <<X, Y>>, <<R>>, <<Y, R>>, <<L>>}
LOCAL Elses(R) == {None, Block(<<Y>>), Block(<<X, Y>>), Block(<<X, R>>)}

LOCAL Inner(R) == {If("q", Block(t), e) : t \in Flat(R), e \in Elses(R)}
LOCAL Branches(R) ==
  Flat(R) \cup UNION {{<<i>>, <<i, R>>, <<X, i>>} : i \in Inner(R)}
LOCAL OuterElses(R) ==
  {None, Block(<<Y>>), If("s", Block(<<X>>), None), Block(<<If("s", Block(<<X>>), None), R>>)}
LOCAL Outer(R) == {If("p", Block(t), e) : t \in Branches(R), e \in OuterElses(R)}

LOCAL BodiesOf(R) ==
  UNION {{<<o>>, <<o, R>>, <<Y, o, R>>} : o \in Outer(R)}
  \cup {<<If("t", Block(<<Goto("l")>>), None), o, R>> : o \in {u \in Outer(R) : HasLabel(u, "l")}}
MCBodies == BodiesOf(Return("r")) \cup BodiesOf(Return(""))
=============================================================================
