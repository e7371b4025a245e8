------------------------------- MODULE LateIf -------------------------------
(***************************************************************************)
(* The ctree rule perform_late_if_inversion (ctree/late_if_invert.cpp).      *)
(* First do_ret_swap turns `if (c) { T } return` into `if (!c) { return }    *)
(* T return`, one block at a time and starting over after each, until none   *)
(* is left; then every `if` whose else branch is the lighter one has its     *)
(* branches exchanged.  A condition is an atom and whether it is negated;    *)
(* lnot, the visitor's order and the copying of statements are the           *)
(* decompiler's.                                                             *)
(***************************************************************************)
EXTENDS Naturals, Sequences, SequencesExt, FiniteSets, FiniteSetsExt

CONSTANTS
  Bodies,  \* bodies of functions: sequences of statements
  Fuel     \* bound on the statements of one execution

ASSUME FuelAssumption == Fuel \in Nat

VARIABLES
  void,    \* the function's type is known to return nothing
  source,  \* the body as the decompiler hands it over
  body,    \* func->body
  stage,   \* "swap" in do_ret_swap, "invert", "done"
  targets  \* m_targets: the ifs to invert, by their conditions

vars == <<void, source, body, stage, targets>>

-----------------------------------------------------------------------------
(* Statements. *)

None == [op |-> "none"]
Expr(x) == [op |-> "expr", id |-> x, label |-> "none"]
Labelled(l, s) == [s EXCEPT !.label = l]
Goto(l) == [op |-> "goto", to |-> l]
Return(x) == [op |-> "return", id |-> x]
Block(list) == [op |-> "block", list |-> list]
If(c, then, else) ==
  [op |-> "if", cond |-> c, negated |-> FALSE, then |-> then, else |-> else]

\* cfunc_t::body is a block; only it is one that falls out of the function.
Children(s) ==
  CASE s.op = "block" -> s.list
    [] s.op = "if" -> IF s.else = None THEN <<s.then>> ELSE <<s.then, s.else>>
    [] OTHER -> <<>>

\* A statement and those in it, in the order a ctree_visitor_t meets them.
RECURSIVE PreorderOf(_)
PreorderOf(list) ==
  IF list = <<>> THEN <<>>
  ELSE <<Head(list)>> \o PreorderOf(Children(Head(list)) \o Tail(list))
Preorder(s) == PreorderOf(<<s>>)

-----------------------------------------------------------------------------
(* What a function does under a valuation of its conditions: the tests and   *)
(* expressions met, and what is returned.  Falling out of the body returns.  *)

HasLabel(s, l) == \E t \in Range(Preorder(s)) : t.op = "expr" /\ t.label = l

\* What runs from the label l on, if it is in a list of statements.
RECURSIVE From(_, _)
From(list, l) ==
  LET at == SelectInSeq(list, LAMBDA s : HasLabel(s, l))
      s == list[at]
      rest == SubSeq(list, at + 1, Len(list))
  IN CASE s.op = "expr" -> <<s>> \o rest
       [] s.op = "block" -> From(s.list, l) \o rest
       [] s.op = "if" -> From(SelectSeq(Children(s), LAMBDA t : HasLabel(t, l)), l) \o rest

RECURSIVE Does(_, _, _, _)
Does(all, list, true, fuel) ==
  IF fuel = 0 THEN <<"still going">>
  ELSE IF list = <<>> THEN <<"return", "">>
  ELSE LET s == Head(list)
           rest == Tail(list)
           on(next) == Does(all, next, true, fuel - 1)
       IN CASE s.op = "expr" -> <<s.id>> \o on(rest)
            [] s.op = "goto" -> on(From(<<all>>, s.to))
            [] s.op = "return" -> <<"return", s.id>>
            [] s.op = "block" -> on(s.list \o rest)
            [] s.op = "if" -> <<s.cond>> \o
                 on((IF (s.cond \in true) # s.negated THEN <<s.then>>
                     ELSE IF s.else = None THEN <<>> ELSE <<s.else>>) \o rest)

Conditions(s) == {t.cond : t \in {u \in Range(Preorder(s)) : u.op = "if"}}
SameMeaning(s, t) ==
  \A true \in SUBSET Conditions(s) : Does(s, <<s>>, true, Fuel) = Does(t, <<t>>, true, Fuel)

-----------------------------------------------------------------------------
(* do_ret_swap. *)

EndsInReturn(s) ==
  s.op = "return" \/ (s.op = "block" /\ Last(s.list).op = "return")

ContainsLabel(s) == \E t \in Range(Preorder(s)) : t.op = "expr" /\ t.label # "none"

\* The if is the statement before the return; in the body of a function that
\* returns nothing it is the last, and a return is thought behind it.
IfAt(s, falls) == IF falls THEN Len(s.list) ELSE Len(s.list) - 1

HasIf(s, falls) ==
  /\ s.op = "block"
  /\ ~falls => Len(s.list) >= 2 /\ Last(s.list).op = "return"
  /\ s.list[IfAt(s, falls)].op = "if"

\* Seeded fault: an else branch is not looked for.
SwappableElse(s, falls) ==
  /\ HasIf(s, falls)
  /\ LET if == s.list[IfAt(s, falls)]
     IN ~EndsInReturn(if.then) /\ ~ContainsLabel(if.then)

\* Seeded fault: a branch that returns is swapped as well.
SwappableReturn(s, falls) ==
  /\ HasIf(s, falls)
  /\ LET if == s.list[IfAt(s, falls)]
     IN if.else = None /\ ~ContainsLabel(if.then)

Swappable(s, falls) ==
  /\ HasIf(s, falls)
  /\ LET if == s.list[IfAt(s, falls)]
     IN if.else = None /\ ~EndsInReturn(if.then) /\ ~ContainsLabel(if.then)

\* What the branch held goes to the end of the block, before its return.
Swapped(s, falls) ==
  LET at == IfAt(s, falls)
      if == s.list[at]
      ret == IF void THEN Return("") ELSE Last(s.list)
      early == [if EXCEPT !.negated = ~@, !.then = Block(<<ret>>)]
  IN Block(SubSeq(s.list, 1, at - 1) \o <<early>> \o if.then.list
           \o (IF falls THEN <<>> ELSE <<Last(s.list)>>))

\* One apply_to of invert_retthen_t: the first block it can change.
CanSwap(s) == \E t \in Range(Preorder(s)) : Swappable(t, FALSE)

RECURSIVE SwapFirst(_, _)
SwapFirst(s, falls) ==
  CASE Swappable(s, falls) -> Swapped(s, falls)
    [] ~Swappable(s, falls) /\ s.op = "block" ->
         LET n == SelectInSeq(s.list, CanSwap)
         IN IF n = 0 THEN s ELSE [s EXCEPT !.list[n] = SwapFirst(@, FALSE)]
    [] s.op = "if" ->
         IF CanSwap(s.then) THEN [s EXCEPT !.then = SwapFirst(@, FALSE)]
         ELSE [s EXCEPT !.else = SwapFirst(@, FALSE)]
    [] OTHER -> s

-----------------------------------------------------------------------------
(* inverter_t and do_invert_if. *)

Weight(s) == Len(Preorder(s))

\* Seeded fault: branches of the same weight are exchanged.
LighterElseEqual(s) ==
  s.op = "if" /\ s.else # None /\ Weight(s.else) <= Weight(s.then)

LighterElse(s) ==
  s.op = "if" /\ s.else # None /\ Weight(s.else) < Weight(s.then)

Targets(s) ==
  LET ifs == SelectSeq(Preorder(s), LighterElse)
  IN [n \in DOMAIN ifs |-> ifs[n].cond]

DoInvertIf(if) ==
  [if EXCEPT !.negated = ~@, !.then = if.else, !.else = if.then]

\* The if with condition c, wherever earlier inversions have put it.
RECURSIVE Invert(_, _)
Invert(s, c) ==
  CASE s.op = "block" -> [s EXCEPT !.list = [n \in DOMAIN @ |-> Invert(@[n], c)]]
    [] s.op = "if" ->
         IF s.cond = c THEN DoInvertIf(s)
         ELSE [s EXCEPT !.then = Invert(@, c), !.else = Invert(@, c)]
    [] OTHER -> s

-----------------------------------------------------------------------------

Init ==
  /\ void \in BOOLEAN
  /\ source \in {Block(list) : list \in Bodies}
  /\ void => \A s \in Range(Preorder(source)) : s.op = "return" => s.id = ""
  /\ body = source
  /\ stage = "swap" /\ targets = <<>>

DoRetSwap ==
  /\ stage = "swap"
  /\ \E swapped \in {SwapFirst(body, void)} :
       IF swapped # body
       THEN body' = swapped /\ UNCHANGED <<stage, targets>>
       ELSE /\ targets' = Targets(body)
            /\ stage' = IF targets' = <<>> THEN "done" ELSE "invert"
            /\ UNCHANGED body
  /\ UNCHANGED <<void, source>>

InvertNext ==
  /\ stage = "invert"
  /\ body' = Invert(body, Head(targets))
  /\ targets' = Tail(targets)
  /\ stage' = IF targets' = <<>> THEN "done" ELSE "invert"
  /\ UNCHANGED <<void, source>>

Next == DoRetSwap \/ InvertNext
Spec == Init /\ [][Next]_vars

-----------------------------------------------------------------------------

\* After every single change the function makes the tests and evaluates the
\* expressions it did, in that order, and returns what it did: whichever blocks
\* return, fall through or are jumped into, and whether or not it is known to
\* return nothing.
MeaningKept == SameMeaning(source, body)

\* What the rule leaves it would leave again: exchanging branches brings up no
\* block to swap and no if to invert, so the text no longer depends on how
\* often the decompiler calls it.
Settled ==
  stage = "done" => SwapFirst(body, void) = body /\ Targets(body) = <<>>

\* What keeps the do .. while of do_ret_swap, which starts over after each
\* change, from going on for ever: every swap leaves fewer ifs whose branch
\* does not return than it found.
OpenIfs(s) ==
  Len(SelectSeq(Preorder(s), LAMBDA t : t.op = "if" /\ ~EndsInReturn(t.then)))
SwapsRunOut ==
  [][stage' = "swap" => OpenIfs(body') < OpenIfs(body)]_vars
=============================================================================
