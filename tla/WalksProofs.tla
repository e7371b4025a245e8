---------------------------- MODULE WalksProofs -----------------------------
(***************************************************************************)
(* What the walks of Walks promise, for every function, every graph, every   *)
(* capacity and every state of the pool.  A part each: what the walk's answer *)
(* is about is a least closed set, so a walk is right if it never leaves the  *)
(* set (soundness) and has every neighbour of what it has done behind it or   *)
(* in an open call (completeness once no call is open).                      *)
(***************************************************************************)
EXTENDS Walks, IndFacts, FiniteSetTheorems

\* What the blocks of every walk are made of.
Instructions == [kind : Kinds, size : Nat, from : Nat]

\* A closure is closed, and within every closed set.
LEMMA ClosureIs ==
  ASSUME NEW from \in SUBSET Blocks, NEW step \in [Blocks -> SUBSET Blocks]
  PROVE  /\ Closure(from, step) \in SUBSET Blocks
         /\ from \subseteq Closure(from, step)
         /\ \A c \in Closure(from, step) : step[c] \subseteq Closure(from, step)
         /\ \A S \in SUBSET Blocks : Closed(S, from, step) => Closure(from, step) \subseteq S
BY DEF Closure, Closed

\* Min0 is the least, and 0 only of nothing.
LEMMA MinOf ==
  ASSUME NEW S \in SUBSET (Nat \ {0})
  PROVE  /\ Min0(S) = 0 <=> S = {}
         /\ S # {} => Min0(S) \in S /\ \A n \in S : Min0(S) <= n
<1>1. CASE S = {}
  BY <1>1 DEF Min0
<1>2. CASE S # {}
  <2>1. \E m \in S : \A n \in S : m <= n
    BY <1>2, FirstOf
  <2> QED
    BY <1>2, <2>1 DEF Min0
<1> QED
  BY <1>1, <1>2

\* Max0 is the greatest, and 0 only of nothing.
LEMMA MaxOf ==
  ASSUME NEW k \in Nat, NEW S \in SUBSET (1..k)
  PROVE  /\ Max0(S) = 0 <=> S = {}
         /\ S # {} => Max0(S) \in S /\ \A n \in S : n <= Max0(S)
<1>1. CASE S = {}
  BY <1>1 DEF Max0
<1>2. CASE S # {}
  <2>1. \E m \in S : \A n \in S : n <= m
    <3>1. S \in SUBSET (0..k)
      OBVIOUS
    <3> QED
      BY <1>2, <3>1, LastOf
  <2>2. Max0(S) \in S /\ \A n \in S : n <= Max0(S)
    BY <1>2, <2>1 DEF Max0
  <2>3. 0 \notin S
    OBVIOUS
  <2> QED
    BY <1>2, <2>2, <2>3
<1> QED
  BY <1>1, <1>2

\* A search backwards finds nothing exactly if nothing before it defines.
LEMMA DefinitionIs ==
  ASSUME NEW c \in Seq(Instructions), NEW before \in Nat
  PROVE  /\ DefinitionBefore(c, before) = 0 <=> \A n \in 1..Len(c) : n < before => ~Defines(c[n])
         /\ DefinitionBefore(c, before) # 0 =>
              DefinitionBefore(c, before) \in 1..Len(c) /\ DefinitionBefore(c, before) < before
<1> DEFINE S == {n \in 1..Len(c) : n < before /\ Defines(c[n])}
<1>1. Len(c) \in Nat /\ S \in SUBSET (1..Len(c))
  OBVIOUS
<1>2. (Max0(S) = 0 <=> S = {}) /\ (S # {} => Max0(S) \in S)
  <2> HIDE DEF S
  <2> QED
    BY <1>1, MaxOf
<1> QED
  BY <1>2 DEF DefinitionBefore

\* find_redefinition finds the first definition after a place.
LEMMA RedefinitionIs ==
  ASSUME NEW c \in Seq(Instructions), NEW after \in Nat
  PROVE  RedefinitionAfter(c, after) = 0 <=> \A n \in 1..Len(c) : n > after => ~Defines(c[n])
<1> DEFINE S == {n \in 1..Len(c) : n > after /\ Defines(c[n])}
<1>1. Len(c) \in Nat /\ S \in SUBSET (Nat \ {0})
  OBVIOUS
<1>2. Min0(S) = 0 <=> S = {}
  <2> HIDE DEF S
  <2> QED
    BY <1>1, MinOf
<1> QED
  BY <1>2 DEF RedefinitionAfter

\* A block without a definition is told by either search.
LEMMA NoDefinition ==
  ASSUME NEW c \in Seq(Instructions)
  PROVE  /\ LastDefinition(c) = 0 <=> \A n \in 1..Len(c) : ~Defines(c[n])
         /\ RedefinitionAfter(c, 0) = 0 <=> LastDefinition(c) = 0
         /\ LastDefinition(c) # 0 => LastDefinition(c) \in Nat \ {0}
<1>1. Len(c) \in Nat /\ Len(c) + 1 \in Nat /\ \A n \in 1..Len(c) : n < Len(c) + 1 /\ n > 0
  OBVIOUS
<1> QED
  BY <1>1, DefinitionIs, RedefinitionIs DEF LastDefinition

-----------------------------------------------------------------------------
(* What the walks have in common: a stack of open calls, each with what it   *)
(* has not seen yet.  Every neighbour of a block that is done is seen or     *)
(* waits in a call that is open on that block; once none is open, all are    *)
(* seen.                                                                     *)

\* What is in a stack or a vector.
Items(st) == {st[n] : n \in 1..Len(st)}

\* The neighbours of the blocks `done` are among `seen` or wait in one of the calls.
Covered(done, seen, next, calls) ==
  \A b \in done : \A s \in next[b] : s \in seen \/ \E c \in calls : c.blk = b /\ s \in c.todo

\* The calls of a stack are the topmost and those below it.
LEMMA ItemsOf ==
  ASSUME NEW X, NEW st \in Seq(X)
  PROVE  /\ Items(<<>>) = {}
         /\ Items(st) \subseteq X
         /\ st # <<>> => /\ Head(st) \in X /\ Tail(st) \in Seq(X)
                         /\ Items(st) = {Head(st)} \cup Items(Tail(st))
                         /\ Len(st) = 1 <=> Tail(st) = <<>>
         /\ \A c \in X : /\ <<c>> \o st \in Seq(X)
                         /\ <<c>> \o st # <<>>
                         /\ Items(<<c>> \o st) = {c} \cup Items(st)
                         /\ Head(<<c>> \o st) = c /\ Tail(<<c>> \o st) = st
<1>1. Items(<<>>) = {} /\ Items(st) \subseteq X
  BY DEF Items
<1>2. ASSUME st # <<>>
      PROVE  /\ Head(st) \in X /\ Tail(st) \in Seq(X)
             /\ Items(st) = {Head(st)} \cup Items(Tail(st))
             /\ Len(st) = 1 <=> Tail(st) = <<>>
  <2>1. /\ Head(st) = st[1] /\ Head(st) \in X /\ Tail(st) \in Seq(X)
        /\ Len(st) \in Nat /\ Len(st) >= 1
        /\ Len(Tail(st)) = Len(st) - 1
        /\ \A n \in 1..Len(Tail(st)) : Tail(st)[n] = st[n + 1]
    BY <1>2
  <2>2. ASSUME NEW n \in 1..Len(st) PROVE st[n] \in {Head(st)} \cup Items(Tail(st))
    <3>1. CASE n = 1
      BY <2>1, <3>1
    <3>2. CASE n # 1
      <4>1. n - 1 \in 1..Len(Tail(st)) /\ (n - 1) + 1 = n
        BY <2>1, <3>2
      <4>2. Tail(st)[n - 1] = st[n]
        BY <2>1, <4>1
      <4> QED
        BY <4>1, <4>2 DEF Items
    <3> QED
      BY <3>1, <3>2
  <2>3. ASSUME NEW n \in 1..Len(Tail(st)) PROVE Tail(st)[n] \in Items(st)
    <3>1. n + 1 \in 1..Len(st)
      BY <2>1
    <3> QED
      BY <2>1, <3>1 DEF Items
  <2>4. Head(st) \in Items(st)
    BY <2>1 DEF Items
  <2>5. Items(st) = {Head(st)} \cup Items(Tail(st))
    BY <2>2, <2>3, <2>4 DEF Items
  <2>6. Len(st) = 1 <=> Tail(st) = <<>>
    BY <2>1
  <2> QED
    BY <2>1, <2>5, <2>6
<1>3. ASSUME NEW c \in X
      PROVE  /\ <<c>> \o st \in Seq(X)
             /\ <<c>> \o st # <<>>
             /\ Items(<<c>> \o st) = {c} \cup Items(st)
             /\ Head(<<c>> \o st) = c /\ Tail(<<c>> \o st) = st
  <2> DEFINE e == <<c>> \o st
  <2>1. /\ e \in Seq(X) /\ Len(e) = Len(st) + 1 /\ e[1] = c
        /\ \A n \in 1..Len(st) : e[n + 1] = st[n]
    OBVIOUS
  <2>2. e # <<>> /\ Head(e) = c
    BY <2>1
  <2>3. Tail(e) = st
    BY <2>1
  <2>4. Len(st) \in Nat
    OBVIOUS
  <2>5. ASSUME NEW n \in 1..Len(e) PROVE e[n] \in {c} \cup Items(st)
    <3>1. CASE n = 1
      BY <2>1, <3>1
    <3>2. CASE n # 1
      <4>1. n - 1 \in 1..Len(st) /\ (n - 1) + 1 = n
        BY <2>1, <2>4, <3>2
      <4>2. e[n] = st[n - 1]
        BY <2>1, <4>1
      <4> QED
        BY <4>1, <4>2 DEF Items
    <3> QED
      BY <3>1, <3>2
  <2>6. ASSUME NEW n \in 1..Len(st) PROVE st[n] \in Items(e)
    <3>1. n + 1 \in 1..Len(e)
      BY <2>1, <2>4
    <3>2. st[n] = e[n + 1]
      BY <2>1
    <3> HIDE DEF e
    <3> QED
      BY <3>1, <3>2 DEF Items
  <2>7. c \in Items(e)
    <3>1. 1 \in 1..Len(e) /\ e[1] = c
      BY <2>1, <2>4
    <3> HIDE DEF e
    <3> QED
      BY <3>1 DEF Items
  <2>8. Items(e) = {c} \cup Items(st)
    <3> HIDE DEF e
    <3> QED
      BY <2>5, <2>6, <2>7 DEF Items
  <2> QED
    BY <2>1, <2>2, <2>3, <2>8
<1> QED
  BY <1>1, <1>2, <1>3

\* Nothing is in an empty stack.
LEMMA NoItems == Items(<<>>) = {}
BY DEF Items

\* The stack of the outermost call alone.
LEMMA FirstItem ==
  ASSUME NEW X, NEW c \in X
  PROVE  /\ <<c>> \o <<>> \in Seq(X) /\ <<c>> \o <<>> # <<>>
         /\ Items(<<c>> \o <<>>) = {c}
<1> DEFINE none == <<>>
<1>1. none \in Seq(X) /\ Items(none) = {}
  BY DEF Items
<1> HIDE DEF none
<1>2. <<c>> \o none \in Seq(X) /\ <<c>> \o none # <<>> /\ Items(<<c>> \o none) = {c} \cup Items(none)
  BY <1>1, ItemsOf
<1> QED
  BY <1>1, <1>2 DEF none

\* A neighbour that is seen may be struck off.
LEMMA StruckOff ==
  ASSUME NEW done, NEW seen, NEW next, NEW calls, NEW h, NEW s \in seen, NEW rest,
         Covered(done, seen, next, {h} \cup calls),
         rest.blk = h.blk, rest.todo = h.todo \ {s}
  PROVE  Covered(done, seen, next, {rest} \cup calls)
BY DEF Covered

\* A block is done once a call on it has all its neighbours before it.
LEMMA Opened ==
  ASSUME NEW done, NEW seen, NEW next, NEW calls, NEW call,
         Covered(done, seen, next, calls), call.todo = next[call.blk]
  PROVE  Covered(done \cup {call.blk}, seen, next, {call} \cup calls)
BY DEF Covered

\* A call that has nothing left may return.
LEMMA Returned ==
  ASSUME NEW done, NEW seen, NEW next, NEW calls, NEW h,
         Covered(done, seen, next, {h} \cup calls), h.todo = {}
  PROVE  Covered(done, seen, next, calls)
BY DEF Covered

\* What covers also covers with more seen and less done.
LEMMA CoversLess ==
  ASSUME NEW done, NEW seen, NEW next, NEW calls, NEW less, NEW more,
         Covered(done, seen, next, calls), less \subseteq done, seen \subseteq more
  PROVE  Covered(less, more, next, calls)
BY DEF Covered

\* What is added at the end of a vector.
Distinct(q) == \A m, n \in 1..Len(q) : q[m] = q[n] => m = n

\* A vector has what it had, and once more what is appended.
LEMMA AppendedIs ==
  ASSUME NEW X, NEW q \in Seq(X), NEW x \in X
  PROVE  /\ Append(q, x) \in Seq(X)
         /\ Len(Append(q, x)) = Len(q) + 1
         /\ Items(Append(q, x)) = Items(q) \cup {x}
         /\ Distinct(q) /\ x \notin Items(q) => Distinct(Append(q, x))
<1> DEFINE e == Append(q, x)
<1>1. /\ e \in Seq(X) /\ Len(e) = Len(q) + 1 /\ Len(q) \in Nat /\ e[Len(q) + 1] = x
      /\ \A n \in 1..Len(q) : e[n] = q[n]
  OBVIOUS
<1>2. \A n \in 1..Len(e) : n \in 1..Len(q) \/ n = Len(q) + 1
  BY <1>1
<1>3. \A n \in 1..Len(q) : n \in 1..Len(e)
  BY <1>1
<1>4. Len(q) + 1 \in 1..Len(e)
  BY <1>1
<1> HIDE DEF e
<1>5. Items(e) = Items(q) \cup {x}
  BY <1>1, <1>2, <1>3, <1>4 DEF Items
<1>6. ASSUME Distinct(q), x \notin Items(q) PROVE Distinct(e)
  <2>1. SUFFICES ASSUME NEW m \in 1..Len(e), NEW n \in 1..Len(e), e[m] = e[n] PROVE m = n
    BY DEF Distinct
  <2>2. CASE m \in 1..Len(q) /\ n \in 1..Len(q)
    BY <1>1, <1>6, <2>1, <2>2 DEF Distinct
  <2>3. CASE m \in 1..Len(q) /\ n = Len(q) + 1
    <3>1. q[m] = x
      BY <1>1, <2>1, <2>3
    <3> QED
      BY <1>6, <2>3, <3>1 DEF Items
  <2>4. CASE n \in 1..Len(q) /\ m = Len(q) + 1
    <3>1. q[n] = x
      BY <1>1, <2>1, <2>4
    <3> QED
      BY <1>6, <2>4, <3>1 DEF Items
  <2> QED
    BY <1>2, <2>2, <2>3, <2>4
<1> QED
  BY <1>1, <1>5, <1>6 DEF e

-----------------------------------------------------------------------------
(* no_redef_in_path.                                                         *)

\* The two blocks the walks are about.
Here_There == Here \in Blocks /\ There \in Blocks /\ Here # There

\* There are two such blocks, as every function has an entry and another block.
LEMMA HereThere == Here_There
<1>1. Here \in Blocks
  BY BlocksAssumption DEF Here
<1>2. \E b \in Blocks : b # Here
  BY BlocksAssumption
<1>3. There \in Blocks /\ There # Here
  BY <1>2 DEF There
<1> QED
  BY <1>1, <1>3 DEF Here_There

\* The operators of the instance are those of Flow.
LEMMA ClearSame ==
  /\ \A e, b : Clear!Succs(e, b) = Succs(e, b)
  /\ \A c : Clear!LastDefinition(c) = LastDefinition(c)
  /\ \A c, n : Clear!RedefinitionAfter(c, n) = RedefinitionAfter(c, n)
  /\ \A from, step : Clear!Closure(from, step) = Closure(from, step)
<1>1. \A e, b : Clear!Succs(e, b) = Succs(e, b)
  BY DEF Clear!Succs, Succs
<1>2. \A c : Clear!LastDefinition(c) = LastDefinition(c)
  BY DEF Clear!LastDefinition, LastDefinition, Clear!DefinitionBefore, DefinitionBefore,
         Clear!Max0, Max0, Clear!Defines, Defines
<1>3. \A c, n : Clear!RedefinitionAfter(c, n) = RedefinitionAfter(c, n)
  BY DEF Clear!RedefinitionAfter, RedefinitionAfter, Clear!Min0, Min0, Clear!Defines, Defines
<1>4. \A from, step : Clear!Closure(from, step) = Closure(from, step)
  BY DEF Clear!Closure, Closure, Clear!Closed, Closed
<1> QED
  BY <1>1, <1>2, <1>3, <1>4

\* What no_redef_in_path goes through: it stops at both blocks it was given.
SuccsOf(e) == [b \in Blocks |-> Succs(e, b)]
Beyond(e) == [b \in Blocks |-> IF b \in {Here, There} THEN {} ELSE Succs(e, b)]
Between(e) == Closure(Succs(e, Here), Beyond(e)) \ {Here, There}

\* What lies between two blocks is closed under going on.
LEMMA BetweenIs ==
  ASSUME NEW e
  PROVE  /\ Between(e) \in SUBSET Blocks
         /\ \A b \in Between(e) \cup {Here} : Succs(e, b) \ {Here, There} \subseteq Between(e)
         /\ \A V \in SUBSET Blocks :
              /\ Succs(e, Here) \subseteq V /\ \A b \in V \ {Here, There} : Succs(e, b) \subseteq V
              => Between(e) \subseteq V
<1> DEFINE C == Closure(Succs(e, Here), Beyond(e))
<1>1. Succs(e, Here) \in SUBSET Blocks /\ Beyond(e) \in [Blocks -> SUBSET Blocks]
  BY DEF Succs, Beyond
<1>2. /\ C \in SUBSET Blocks /\ Succs(e, Here) \subseteq C
      /\ \A c \in C : Beyond(e)[c] \subseteq C
      /\ \A S \in SUBSET Blocks : Closed(S, Succs(e, Here), Beyond(e)) => C \subseteq S
  BY <1>1, ClosureIs
<1>3. Between(e) \in SUBSET Blocks
  BY <1>2 DEF Between
<1>4. ASSUME NEW b \in Between(e) \cup {Here}, NEW s \in Succs(e, b) \ {Here, There}
      PROVE  s \in Between(e)
  <2>1. CASE b = Here
    BY <1>2, <1>4, <2>1 DEF Between
  <2>2. CASE b # Here
    <3>1. b \in C /\ b \in Blocks /\ b \notin {Here, There}
      BY <1>2, <1>4, <2>2 DEF Between
    <3>2. Beyond(e)[b] = Succs(e, b)
      BY <3>1 DEF Beyond
    <3> QED
      BY <1>2, <1>4, <3>1, <3>2 DEF Between
  <2> QED
    BY <2>1, <2>2
<1>5. ASSUME NEW V \in SUBSET Blocks, Succs(e, Here) \subseteq V,
             \A b \in V \ {Here, There} : Succs(e, b) \subseteq V
      PROVE  Between(e) \subseteq V
  <2>1. \A b \in V : Beyond(e)[b] \subseteq V
    BY <1>5 DEF Beyond
  <2>2. Closed(V, Succs(e, Here), Beyond(e))
    BY <1>5, <2>1 DEF Closed
  <2> QED
    BY <1>2, <2>2 DEF Between
<1> QED
  BY <1>3, <1>4, <1>5

\* What the answer has to be.
IsClear(c, e, after) ==
  /\ RedefinitionAfter(c[Here], after) = 0
  /\ \A b \in Between(e) : LastDefinition(c[b]) = 0

\* IsClear is what the specification of the walk asks for.
LEMMA ClearAnswer ==
  ASSUME NEW c, NEW e, NEW after
  PROVE  Clear!NoRedefinition(c, e, Here, after, There) <=> IsClear(c, e, after)
<1>1. Clear!BlocksBetween(e, Here, There) = Between(e)
  <2>1. [b \in Blocks |-> IF b \in {Here, There} THEN {} ELSE Clear!Succs(e, b)] = Beyond(e)
    BY ClearSame DEF Beyond
  <2> QED
    BY <2>1, ClearSame DEF Clear!BlocksBetween, Between
<1> QED
  BY <1>1, HereThere, ClearSame DEF Clear!NoRedefinition, Here_There, IsClear

\* The types of this walk's variables.
ClearType ==
  /\ code \in [Blocks -> ClearCodes] /\ start \in Nat
  /\ visited \in SUBSET Blocks
  /\ stack \in Seq([blk : Blocks, todo : SUBSET Blocks])
  /\ answer \in {"none", "true", "false"}

\* The walk is on blocks between the two that do not write, and has each
\* successor of those it has been to behind it or before it.
ClearWalking ==
  /\ Here \in visited /\ There \notin visited
  /\ visited \ {Here} \subseteq Between(edges)
  /\ \A b \in visited : RedefinitionAfter(code[b], IF b = Here THEN start ELSE 0) = 0
  /\ \A c \in Items(stack) : c.blk \in visited /\ c.todo \subseteq Succs(edges, c.blk)
  /\ Covered(visited, visited \cup {There}, SuccsOf(edges), Items(stack))

\* While it is on it is walking; once it has answered the answer is exact.
ClearInv ==
  /\ ClearType
  /\ answer = "none" /\ stack # <<>> => ClearWalking
  /\ answer # "none" => (answer = "true" <=> IsClear(code, edges, start))

\* A walk not yet begun, with whatever is in the pool.
LEMMA ClearInit == Clear!Init => ClearInv
<1>1. SUFFICES ASSUME code \in [Blocks -> ClearCodes], start \in 0..Len(code[Here]),
                      stack = <<>>, visited \in LeftOver, answer = "none"
               PROVE  ClearInv
  BY DEF Clear!Init
<1>2. start \in Nat
  <2>1. code[Here] \in Seq(Instructions)
    BY <1>1, HereThere, CodesAssumption DEF Here_There, Instructions
  <2> QED
    BY <1>1, <2>1
<1>3. ClearType
  BY <1>1, <1>2, PoolsAssumption DEF ClearType
<1> QED
  BY <1>1, <1>3 DEF ClearInv

\* The first block is looked at after the instruction, with the pool cleared.
LEMMA ClearBegin == ClearInv /\ Clear!Begin => ClearInv'
<1>1. SUFFICES ASSUME ClearInv, answer = "none", stack = <<>>,
                      code' = code, edges' = edges, start' = start, visited' = {Here},
                      IF RedefinitionAfter(code[Here], start) = 0
                      THEN /\ stack' = <<[blk |-> Here, todo |-> Succs(edges, Here)]>> \o <<>>
                           /\ answer' = answer
                      ELSE stack' = <<>> /\ answer' = "false"
               PROVE  ClearInv'
  BY HereThere, ClearSame DEF Clear!Begin, Clear!Enter, Clear!program, Clear!Open, Here_There
<1> DEFINE call == [blk |-> Here, todo |-> Succs(edges, Here)]
<1>2. call \in [blk : Blocks, todo : SUBSET Blocks] /\ Here \in Blocks
  BY HereThere DEF Succs, Here_There
<1>3. CASE RedefinitionAfter(code[Here], start) = 0
  <2>1. stack' = <<call>> \o <<>> /\ answer' = "none"
    BY <1>1, <1>3
  <2>2. Items(stack') = {call} /\ stack' \in Seq([blk : Blocks, todo : SUBSET Blocks])
    <3> HIDE DEF call
    <3> QED
      BY <1>2, <2>1, FirstItem
  <2>3. ClearWalking'
    <3>1. Here \notin {There}
      BY HereThere DEF Here_There
    <3>2. Covered({Here}, {Here} \cup {There}, SuccsOf(edges), {call})
      BY <1>2 DEF Covered, SuccsOf
    <3>3. Items(stack') = {call} /\ call.blk = Here /\ call.todo \subseteq Succs(edges, call.blk)
      BY <2>2
    <3> HIDE DEF call
    <3>4. \A b \in visited' : RedefinitionAfter(code[b], IF b = Here THEN start ELSE 0) = 0
      BY <1>1, <1>3
    <3>5. \A c \in Items(stack') : c.blk \in visited' /\ c.todo \subseteq Succs(edges, c.blk)
      BY <1>1, <3>3
    <3>6. Here \in visited' /\ There \notin visited' /\ visited' \ {Here} \subseteq Between(edges)
      BY <1>1, <3>1
    <3> QED
      BY <1>1, <3>2, <3>3, <3>4, <3>5, <3>6, Zenon DEF ClearWalking
  <2> QED
    BY <1>1, <1>2, <2>1, <2>2, <2>3 DEF ClearInv, ClearType
<1>4. CASE RedefinitionAfter(code[Here], start) # 0
  <2>1. stack' = <<>> /\ answer' = "false"
    BY <1>1, <1>4
  <2>2. ~IsClear(code, edges, start)
    BY <1>4 DEF IsClear
  <2> QED
    BY <1>1, <1>2, <2>1, <2>2 DEF ClearInv, ClearType
<1> QED
  BY <1>3, <1>4

\* A successor is skipped, is the later block, is gone through, or has a write.
LEMMA ClearVisit == ClearInv /\ Clear!Visit => ClearInv'
<1> DEFINE Entry == [blk : Blocks, todo : SUBSET Blocks]
           h == Head(stack)
           below == Tail(stack)
<1>1. SUFFICES ASSUME ClearInv, answer = "none", stack # <<>>,
                      code' = code, edges' = edges, start' = start,
                      NEW s \in h.todo,
                      \/ /\ s \in visited
                         /\ stack' = <<[h EXCEPT !.todo = @ \ {s}]>> \o below
                         /\ visited' = visited /\ answer' = answer
                      \/ /\ s \notin visited /\ s = There
                         /\ stack' = <<[h EXCEPT !.todo = @ \ {s}]>> \o below
                         /\ visited' = visited
                         /\ answer' = IF <<[h EXCEPT !.todo = @ \ {s}]>> \o below = <<>>
                                      THEN "true" ELSE answer
                      \/ /\ s \notin visited /\ s # There
                         /\ visited' = visited \cup {s}
                         /\ \/ /\ RedefinitionAfter(code[s], 0) = 0 /\ answer' = answer
                               /\ stack' = <<[blk |-> s, todo |-> Succs(edges, s)]>>
                                           \o (<<[h EXCEPT !.todo = @ \ {s}]>> \o below)
                            \/ /\ RedefinitionAfter(code[s], 0) # 0
                               /\ stack' = <<>> /\ answer' = "false"
               PROVE  ClearInv'
  BY ClearSame, Zenon DEF Clear!Visit, Clear!Enter, Clear!program, Clear!Open, Clear!Rest
<1> DEFINE rest == [h EXCEPT !.todo = @ \ {s}]
           call == [blk |-> s, todo |-> Succs(edges, s)]
<1>2. ClearType /\ ClearWalking
  BY <1>1 DEF ClearInv
<1>3. /\ h \in Entry /\ below \in Seq(Entry)
      /\ Items(stack) = {h} \cup Items(below)
  <2>1. stack \in Seq(Entry)
    BY <1>2 DEF ClearType
  <2> HIDE DEF Entry
  <2> QED
    BY <1>1, <2>1, ItemsOf
<1>4. rest \in Entry /\ rest.blk = h.blk /\ rest.todo = h.todo \ {s}
  BY <1>3
<1>5. s \in Blocks /\ s \in Succs(edges, h.blk) /\ h.blk \in visited /\ call \in Entry
  BY <1>1, <1>2, <1>3 DEF ClearWalking, Succs
<1>6. /\ <<rest>> \o below \in Seq(Entry) /\ <<rest>> \o below # <<>>
      /\ Items(<<rest>> \o below) = {rest} \cup Items(below)
  <2> HIDE DEF Entry, rest, below
  <2> QED
    BY <1>3, <1>4, ItemsOf
<1>7. \A c \in {rest} \cup Items(below) : c.blk \in visited /\ c.todo \subseteq Succs(edges, c.blk)
  BY <1>2, <1>3, <1>4 DEF ClearWalking
<1>8. CASE s \in visited \cup {There} /\ stack' = <<rest>> \o below /\ visited' = visited /\ answer' = "none"
  <2>1. Covered(visited, visited \cup {There}, SuccsOf(edges), {rest} \cup Items(below))
    <3>1. Covered(visited, visited \cup {There}, SuccsOf(edges), Items(stack))
      BY <1>2, Zenon DEF ClearWalking
    <3> HIDE DEF h, rest, below
    <3> QED
      BY <1>3, <1>4, <1>8, <3>1, StruckOff
  <2>2. ClearWalking'
    <3> DEFINE left == <<rest>> \o below
               I == {rest} \cup Items(below)
    <3>1. Items(left) = I /\ stack' = left /\ visited' = visited
      BY <1>6, <1>8
    <3>2. /\ \A c \in I : c.blk \in visited /\ c.todo \subseteq Succs(edges, c.blk)
          /\ Covered(visited, visited \cup {There}, SuccsOf(edges), I)
      BY <1>7, <2>1
    <3>3. code' = code /\ edges' = edges /\ start' = start
      BY <1>1
    <3> HIDE DEF left, I
    <3> QED
      BY <1>2, <3>1, <3>2, <3>3, Zenon DEF ClearWalking
  <2>3. ClearType'
    BY <1>1, <1>2, <1>6, <1>8 DEF ClearType
  <2> QED
    BY <1>8, <2>2, <2>3 DEF ClearInv
<1>9. CASE s \notin visited \cup {There} /\ visited' = visited \cup {s}
  <2>1. s \in Between(edges)
    <3>1. s # Here /\ s # There
      BY <1>2, <1>9 DEF ClearWalking
    <3>2. h.blk \in Between(edges) \cup {Here}
      BY <1>2, <1>5 DEF ClearWalking
    <3> HIDE DEF h
    <3> QED
      BY <1>5, <3>1, <3>2, BetweenIs
  <2>2. CASE RedefinitionAfter(code[s], 0) = 0 /\ answer' = answer /\ stack' = <<call>> \o (<<rest>> \o below)
    <3>1. /\ stack' \in Seq(Entry)
          /\ Items(stack') = {call} \cup ({rest} \cup Items(below))
      <4> DEFINE lower == <<rest>> \o below
      <4>1. lower \in Seq(Entry) /\ call \in Entry /\ Items(lower) = {rest} \cup Items(below)
        BY <1>5, <1>6
      <4> HIDE DEF Entry, lower, call
      <4>2. <<call>> \o lower \in Seq(Entry) /\ Items(<<call>> \o lower) = {call} \cup Items(lower)
        BY <4>1, ItemsOf
      <4> QED
        BY <2>2, <4>1, <4>2 DEF lower
    <3>2. Covered(visited \cup {s}, (visited \cup {s}) \cup {There}, SuccsOf(edges), Items(stack'))
      <4>1. Covered(visited, visited \cup {There} \cup {s}, SuccsOf(edges), {h} \cup Items(below))
        BY <1>2, <1>3, CoversLess DEF ClearWalking
      <4>2. Covered(visited, visited \cup {There} \cup {s}, SuccsOf(edges), {rest} \cup Items(below))
        <5> HIDE DEF h, rest, below
        <5> QED
          BY <1>4, <4>1, StruckOff
      <4>3. call.blk = s /\ call.todo = SuccsOf(edges)[call.blk]
        BY <1>5 DEF SuccsOf
      <4>4. (visited \cup {s}) \cup {There} = visited \cup {There} \cup {s}
        OBVIOUS
      <4> HIDE DEF rest, below, call
      <4>5. Covered(visited \cup {call.blk}, visited \cup {There} \cup {s}, SuccsOf(edges),
                    {call} \cup ({rest} \cup Items(below)))
        BY <4>2, <4>3, Opened
      <4> QED
        BY <3>1, <4>3, <4>4, <4>5
    <3>3. \A c \in Items(stack') : c.blk \in visited \cup {s} /\ c.todo \subseteq Succs(edges, c.blk)
      BY <1>7, <3>1
    <3>4. ClearWalking'
      <4>1. s # Here
        BY <1>2, <1>9 DEF ClearWalking
      <4>2. Here \in visited' /\ There \notin visited' /\ visited' \ {Here} \subseteq Between(edges)
        BY <1>2, <1>9, <2>1 DEF ClearWalking
      <4>3. \A b \in visited' : RedefinitionAfter(code[b], IF b = Here THEN start ELSE 0) = 0
        BY <1>2, <1>9, <2>2, <4>1, Zenon DEF ClearWalking
      <4> HIDE DEF h, rest, below, call
      <4> QED
        BY <1>1, <1>9, <3>2, <3>3, <4>2, <4>3 DEF ClearWalking
    <3>5. ClearType'
      BY <1>1, <1>2, <1>5, <1>9, <2>2, <3>1 DEF ClearType
    <3> QED
      BY <1>1, <2>2, <3>4, <3>5 DEF ClearInv
  <2>3. CASE RedefinitionAfter(code[s], 0) # 0 /\ stack' = <<>> /\ answer' = "false"
    <3>1. LastDefinition(code[s]) # 0
      <4>1. code[s] \in Seq(Instructions)
        BY <1>2, <1>5, CodesAssumption DEF ClearType, Instructions
      <4> QED
        BY <2>3, <4>1, NoDefinition
    <3>2. ~IsClear(code, edges, start)
      BY <2>1, <3>1 DEF IsClear
    <3> QED
      BY <1>1, <1>2, <1>5, <1>9, <2>3, <3>2 DEF ClearInv, ClearType
  <2> QED
    BY <1>1, <1>9, <2>2, <2>3
<1> QED
  BY <1>1, <1>6, <1>8, <1>9

\* A call that has gone through its successors returns; the outermost answers.
LEMMA ClearLeave == ClearInv /\ Clear!Leave => ClearInv'
<1> DEFINE Entry == [blk : Blocks, todo : SUBSET Blocks]
           h == Head(stack)
           below == Tail(stack)
<1>1. SUFFICES ASSUME ClearInv, answer = "none", stack # <<>>, h.todo = {},
                      code' = code, edges' = edges, start' = start, visited' = visited,
                      stack' = below, answer' = IF Len(stack) = 1 THEN "true" ELSE "none"
               PROVE  ClearInv'
  BY DEF Clear!Leave, Clear!program
<1>2. ClearType /\ ClearWalking
  BY <1>1 DEF ClearInv
<1>3. /\ below \in Seq(Entry)
      /\ Len(stack) = 1 <=> below = <<>>
      /\ Items(stack) = {h} \cup Items(below)
  <2>1. stack \in Seq(Entry)
    BY <1>2 DEF ClearType
  <2> HIDE DEF Entry
  <2> QED
    BY <1>1, <2>1, ItemsOf
<1>4. Covered(visited, visited \cup {There}, SuccsOf(edges), Items(below))
  <2> HIDE DEF h, below
  <2> QED
    BY <1>1, <1>2, <1>3, Returned DEF ClearWalking
<1>5. ClearType'
  BY <1>1, <1>2, <1>3 DEF ClearType
<1>6. CASE below # <<>>
  <2>1. ClearWalking'
    BY <1>1, <1>2, <1>3, <1>4 DEF ClearWalking
  <2> QED
    BY <1>1, <1>3, <1>5, <1>6, <2>1 DEF ClearInv
<1>7. CASE below = <<>>
  <2>1. \A b \in visited : Succs(edges, b) \subseteq visited \cup {There}
    <3>1. Items(below) = {}
      BY <1>7, NoItems
    <3> QED
      BY <1>2, <1>4, <3>1 DEF Covered, SuccsOf, ClearType
  <2>2. Between(edges) \subseteq visited \cup {There}
    <3>1. visited \cup {There} \in SUBSET Blocks
      BY <1>2, HereThere DEF ClearType, Here_There
    <3>2. Succs(edges, Here) \subseteq visited \cup {There}
      BY <1>2, <2>1 DEF ClearWalking
    <3> QED
      BY <2>1, <3>1, <3>2, BetweenIs
  <2>3. ASSUME NEW b \in Between(edges) PROVE LastDefinition(code[b]) = 0
    <3>1. b \in visited /\ b # Here
      BY <2>2, <2>3 DEF Between
    <3>2. RedefinitionAfter(code[b], 0) = 0
      BY <1>2, <3>1 DEF ClearWalking
    <3>3. code[b] \in Seq(Instructions)
      BY <1>2, <3>1, CodesAssumption DEF ClearType, Instructions
    <3> QED
      BY <3>2, <3>3, NoDefinition
  <2>4. RedefinitionAfter(code[Here], start) = 0
    BY <1>2 DEF ClearWalking
  <2>5. IsClear(code, edges, start)
    BY <2>3, <2>4 DEF IsClear
  <2>6. answer' = "true"
    BY <1>1, <1>3, <1>7
  <2> QED
    BY <1>1, <1>5, <2>5, <2>6 DEF ClearInv
<1> QED
  BY <1>6, <1>7

-----------------------------------------------------------------------------
(* gather_defs.                                                              *)

\* The blocks from whose end there is a way without a definition.
PassesOf(c, e) == [b \in Blocks |-> PassThrough(c, e, b)]
Reached(c, e) == Closure({Here}, PassesOf(c, e))

\* The operators of the instance are those of Flow.
LEMMA GatherSame ==
  /\ \A e, b : Gather!Preds(e, b) = Preds(e, b)
  /\ \A c : Gather!LastDefinition(c) = LastDefinition(c)
  /\ \A c, e : Gather!ReachingEnd(c, e, Here) = DefinitionsIn(c, Reached(c, e))
<1>1. \A e, b : Gather!Preds(e, b) = Preds(e, b)
  BY DEF Gather!Preds, Preds
<1>2. \A c : Gather!LastDefinition(c) = LastDefinition(c)
  BY DEF Gather!LastDefinition, LastDefinition, Gather!DefinitionBefore, DefinitionBefore,
         Gather!Max0, Max0, Gather!Defines, Defines
<1>3. ASSUME NEW c, NEW e PROVE Gather!ReachingEnd(c, e, Here) = DefinitionsIn(c, Reached(c, e))
  <2>1. [x \in Blocks |-> Gather!PassThrough(c, e, x)] = PassesOf(c, e)
    BY <1>1, <1>2 DEF Gather!PassThrough, PassThrough, PassesOf
  <2>2. \A from, step : Gather!Closure(from, step) = Closure(from, step)
    BY DEF Gather!Closure, Closure, Gather!Closed, Closed
  <2>3. \A blocks : Gather!DefinitionsIn(c, blocks) = DefinitionsIn(c, blocks)
    BY <1>2 DEF Gather!DefinitionsIn, DefinitionsIn
  <2> QED
    BY <2>1, <2>2, <2>3 DEF Gather!ReachingEnd, Reached
<1> QED
  BY <1>1, <1>2, <1>3

\* What is reached is closed under passing through blocks without a definition.
LEMMA ReachedIs ==
  ASSUME NEW c, NEW e
  PROVE  /\ Reached(c, e) \in SUBSET Blocks /\ Here \in Reached(c, e)
         /\ \A b \in Reached(c, e) : LastDefinition(c[b]) = 0 => Preds(e, b) \subseteq Reached(c, e)
         /\ \A V \in SUBSET Blocks :
              /\ Here \in V /\ \A b \in V : LastDefinition(c[b]) = 0 => Preds(e, b) \subseteq V
              => Reached(c, e) \subseteq V
<1>1. {Here} \in SUBSET Blocks /\ PassesOf(c, e) \in [Blocks -> SUBSET Blocks]
  BY HereThere DEF Here_There, PassesOf, PassThrough, Preds
<1>2. /\ Reached(c, e) \in SUBSET Blocks /\ {Here} \subseteq Reached(c, e)
      /\ \A b \in Reached(c, e) : PassesOf(c, e)[b] \subseteq Reached(c, e)
      /\ \A V \in SUBSET Blocks : Closed(V, {Here}, PassesOf(c, e)) => Reached(c, e) \subseteq V
  BY <1>1, ClosureIs DEF Reached
<1>3. \A b \in Blocks : LastDefinition(c[b]) = 0 => PassesOf(c, e)[b] = Preds(e, b)
  BY DEF PassesOf, PassThrough
<1>4. \A b \in Blocks : LastDefinition(c[b]) # 0 => PassesOf(c, e)[b] = {}
  BY DEF PassesOf, PassThrough
<1>5. ASSUME NEW V \in SUBSET Blocks, Here \in V,
             \A b \in V : LastDefinition(c[b]) = 0 => Preds(e, b) \subseteq V
      PROVE  Reached(c, e) \subseteq V
  <2>1. \A b \in V : PassesOf(c, e)[b] \subseteq V
    BY <1>3, <1>4, <1>5
  <2> QED
    BY <1>2, <1>5, <2>1 DEF Closed
<1> QED
  BY <1>2, <1>3, <1>5

\* The definitions in some blocks, and with one block more.
LEMMA DefinitionsAre ==
  ASSUME NEW c, NEW S \in SUBSET Blocks
  PROVE  /\ IsFiniteSet(DefinitionsIn(c, S))
         /\ \A T \in SUBSET S : DefinitionsIn(c, T) \subseteq DefinitionsIn(c, S)
         /\ \A b \in S : LastDefinition(c[b]) # 0 => <<b, LastDefinition(c[b])>> \in DefinitionsIn(c, S)
         /\ \A b \in Blocks \ S : \A n : <<b, n>> \notin DefinitionsIn(c, S)
         /\ \A b : DefinitionsIn(c, S \cup {b}) =
                     IF LastDefinition(c[b]) = 0 THEN DefinitionsIn(c, S)
                     ELSE DefinitionsIn(c, S) \cup {<<b, LastDefinition(c[b])>>}
<1>1. IsFiniteSet(DefinitionsIn(c, S))
  <2> DEFINE T == {x \in S : LastDefinition(c[x]) # 0}
             f == [b \in T |-> <<b, LastDefinition(c[b])>>]
  <2>1. IsFiniteSet(T)
    <3>1. T \in SUBSET Blocks
      OBVIOUS
    <3> HIDE DEF T
    <3> QED
      BY <3>1, BlocksAssumption, FS_Subset
  <2>2. f \in Surjection(T, DefinitionsIn(c, S))
    BY DEF Surjection, DefinitionsIn
  <2> HIDE DEF T, f
  <2> QED
    BY <2>1, <2>2, FS_Surjection
<1>2. \A T \in SUBSET S : DefinitionsIn(c, T) \subseteq DefinitionsIn(c, S)
  BY DEF DefinitionsIn
<1>3. \A b \in S : LastDefinition(c[b]) # 0 => <<b, LastDefinition(c[b])>> \in DefinitionsIn(c, S)
  BY DEF DefinitionsIn
<1>4. \A b \in Blocks \ S : \A n : <<b, n>> \notin DefinitionsIn(c, S)
  BY DEF DefinitionsIn
<1>5. ASSUME NEW b
      PROVE  DefinitionsIn(c, S \cup {b}) =
               IF LastDefinition(c[b]) = 0 THEN DefinitionsIn(c, S)
               ELSE DefinitionsIn(c, S) \cup {<<b, LastDefinition(c[b])>>}
  BY DEF DefinitionsIn
<1> QED
  BY <1>1, <1>2, <1>3, <1>4, <1>5

\* The definitions that reach, and the blocks the walk has gone through.
Reaching(c, e) == DefinitionsIn(c, Reached(c, e))
PredsOf(e) == [b \in Blocks |-> Preds(e, b)]
Passed(c, blocks) == {b \in blocks \cup {Here} : LastDefinition(c[b]) = 0}

\* The types of this walk's variables.
GatherType ==
  /\ code \in [Blocks -> DefCodes] /\ cap \in Nat
  /\ visited \in SUBSET Blocks
  /\ stack \in Seq([blk : Blocks, todo : SUBSET Blocks])
  /\ defs \in Seq(Blocks \X (Nat \ {0}))
  /\ answer \in {"none", "true", "false"}

\* The vector has the definitions of the blocks the walk has been to, all of
\* them reached, and the walk has each predecessor of those without one behind
\* it or before it.
GatherWalking ==
  /\ LastDefinition(code[Here]) = 0
  /\ visited \subseteq Reached(code, edges)
  /\ \A c \in Items(stack) : /\ c.blk \in Reached(code, edges) /\ LastDefinition(code[c.blk]) = 0
                             /\ c.todo \subseteq Preds(edges, c.blk)
  /\ Items(defs) = DefinitionsIn(code, visited)
  /\ Cardinality(Items(defs)) = Len(defs)
  /\ Covered(Passed(code, visited), visited, PredsOf(edges), Items(stack))

\* What is collected reaches, once each; an answer says whether that is all.
GatherInv ==
  /\ GatherType
  /\ Items(defs) \subseteq Reaching(code, edges) /\ Distinct(defs)
  /\ answer = "none" /\ stack = <<>> => defs = <<>>
  /\ answer = "none" /\ stack # <<>> => GatherWalking
  /\ answer = "true" => Items(defs) = Reaching(code, edges)
  /\ answer = "false" => Cardinality(Reaching(code, edges)) >= cap

\* A walk not yet begun, with an empty vector.
LEMMA GatherInit == Gather!Init => GatherInv
<1>1. SUFFICES ASSUME code \in [Blocks -> DefCodes], cap \in Sizes,
                      stack = <<>>, visited \in LeftOver, defs = <<>>, answer = "none"
               PROVE  GatherInv
  BY DEF Gather!Init
<1>2. GatherType
  BY <1>1, PoolsAssumption, SizesAssumption DEF GatherType
<1>3. Items(defs) = {} /\ Distinct(defs)
  BY <1>1, NoItems DEF Distinct
<1> QED
  BY <1>1, <1>2, <1>3 DEF GatherInv

\* A vector that does not take one more that reaches cannot take all.
LEMMA DoesNotFit ==
  ASSUME NEW R, NEW T, IsFiniteSet(R), T \subseteq R, NEW x \in R, x \notin T,
         NEW n \in Nat, NEW k \in Nat, Cardinality(T) = n, ~(n + 1 < k)
  PROVE  Cardinality(R) >= k
<1>1. IsFiniteSet(T)
  BY FS_Subset
<1>2. IsFiniteSet(T \cup {x}) /\ Cardinality(T \cup {x}) = n + 1
  BY <1>1, FS_AddElement
<1>3. Cardinality(T \cup {x}) <= Cardinality(R)
  <2>1. T \cup {x} \in SUBSET R
    OBVIOUS
  <2> QED
    BY <2>1, FS_Subset
<1>4. Cardinality(R) \in Nat
  BY FS_CardinalityType
<1> QED
  BY <1>2, <1>3, <1>4

\* The block asked about has a definition itself or is gone through.
LEMMA GatherBegin == GatherInv /\ Gather!Begin => GatherInv'
<1> DEFINE d == LastDefinition(code[Here])
           call == [blk |-> Here, todo |-> Preds(edges, Here)]
           Entry == [blk : Blocks, todo : SUBSET Blocks]
<1>1. SUFFICES ASSUME GatherInv, answer = "none", stack = <<>>,
                      code' = code, edges' = edges, cap' = cap, visited' = {},
                      \/ d = 0 /\ stack' = <<call>> \o <<>> /\ defs' = defs /\ answer' = answer
                      \/ /\ d # 0 /\ Len(defs) + 1 < cap
                         /\ defs' = Append(defs, <<Here, d>>) /\ stack' = <<>> /\ answer' = "true"
                      \/ /\ d # 0 /\ ~(Len(defs) + 1 < cap)
                         /\ stack' = <<>> /\ answer' = "false" /\ defs' = defs
               PROVE  GatherInv'
  BY GatherSame, Zenon DEF Gather!Begin, Gather!Enter, Gather!program, Gather!Open, Gather!Fits
<1>2. GatherType /\ defs = <<>> /\ Items(defs) = {} /\ Distinct(defs)
  <2>1. GatherType /\ defs = <<>> /\ Distinct(defs)
    BY <1>1 DEF GatherInv
  <2> QED
    BY <2>1, NoItems
<1>3. Here \in Blocks /\ Here \in Reached(code, edges)
  BY HereThere, ReachedIs DEF Here_There
<1>4. CASE d = 0 /\ stack' = <<call>> \o <<>> /\ defs' = defs /\ answer' = answer
  <2>1. call \in Entry
    BY <1>3 DEF Preds
  <2>2. stack' \in Seq(Entry) /\ stack' # <<>> /\ Items(stack') = {call}
    <3> HIDE DEF call, Entry
    <3> QED
      BY <1>4, <2>1, FirstItem
  <2>3. GatherWalking'
    <3>1. DefinitionsIn(code, {}) = {}
      BY DEF DefinitionsIn
    <3>2. Cardinality(Items(defs)) = Len(defs)
      BY <1>2, FS_EmptySet
    <3>3. Covered(Passed(code, {}), {}, PredsOf(edges), {call})
      BY <1>3 DEF Covered, Passed, PredsOf
    <3>4. call.blk = Here /\ call.todo = Preds(edges, Here)
      OBVIOUS
    <3> HIDE DEF call
    <3> QED
      BY <1>1, <1>2, <1>3, <1>4, <2>2, <3>1, <3>2, <3>3, <3>4 DEF GatherWalking
  <2>4. GatherType'
    BY <1>1, <1>2, <1>4, <2>2 DEF GatherType
  <2> QED
    BY <1>1, <1>2, <1>4, <2>2, <2>3, <2>4 DEF GatherInv
<1>5. CASE d # 0
  <2>1. Reached(code, edges) = {Here}
    <3>1. {Here} \in SUBSET Blocks /\ Here \in {Here}
      BY <1>3
    <3>2. \A b \in {Here} : LastDefinition(code[b]) = 0 => Preds(edges, b) \subseteq {Here}
      BY <1>5
    <3>3. Reached(code, edges) \subseteq {Here}
      BY <3>1, <3>2, ReachedIs
    <3> QED
      BY <1>3, <3>3
  <2>2. Reaching(code, edges) = {<<Here, d>>}
    BY <1>5, <2>1 DEF Reaching, DefinitionsIn
  <2>3. d \in Nat \ {0}
    <3>1. code[Here] \in Seq(Instructions)
      BY <1>2, <1>3, CodesAssumption DEF GatherType, Instructions
    <3> QED
      BY <1>5, <3>1, NoDefinition
  <2>4. CASE Len(defs) + 1 < cap
    <3>1. stack' = <<>> /\ answer' = "true" /\ defs' = Append(defs, <<Here, d>>)
      BY <1>1, <1>5, <2>4
    <3>2. defs \in Seq(Blocks \X (Nat \ {0})) /\ <<Here, d>> \in Blocks \X (Nat \ {0})
      BY <1>2, <1>3, <2>3 DEF GatherType
    <3>3. defs' \in Seq(Blocks \X (Nat \ {0})) /\ Items(defs') = {<<Here, d>>} /\ Distinct(defs')
      <4> DEFINE X == Blocks \X (Nat \ {0})
                 x == <<Here, d>>
      <4>1. defs \in Seq(X) /\ x \in X /\ defs' = Append(defs, x) /\ x \notin Items(defs)
        BY <1>2, <3>1, <3>2
      <4> HIDE DEF X, x
      <4>2. /\ Append(defs, x) \in Seq(X) /\ Items(Append(defs, x)) = Items(defs) \cup {x}
            /\ Distinct(Append(defs, x))
        <5>1. Distinct(defs)
          BY <1>2
        <5> QED
          BY <4>1, <5>1, AppendedIs
      <4>3. Items(defs') = {} \cup {x}
        BY <1>2, <4>1, <4>2, Zenon
      <4>4. defs' \in Seq(X) /\ Distinct(defs')
        BY <4>1, <4>2, Zenon
      <4> QED
        BY <4>3, <4>4 DEF X, x
    <3>4. GatherType'
      BY <1>1, <1>2, <3>1, <3>3 DEF GatherType
    <3> QED
      BY <1>1, <2>2, <3>1, <3>3, <3>4 DEF GatherInv
  <2>5. CASE ~(Len(defs) + 1 < cap)
    <3>1. stack' = <<>> /\ answer' = "false" /\ defs' = defs
      BY <1>1, <1>5, <2>5
    <3>2. GatherType'
      BY <1>1, <1>2, <3>1 DEF GatherType
    <3>3. Cardinality(Reaching(code, edges)) = 1
      BY <2>2, FS_Singleton
    <3>4. Cardinality(Reaching(code, edges)) >= cap
      BY <1>2, <2>5, <3>3 DEF GatherType
    <3> QED
      BY <1>1, <1>2, <3>1, <3>2, <3>4 DEF GatherInv
  <2> QED
    BY <2>4, <2>5
<1> QED
  BY <1>1, <1>4, <1>5

\* A predecessor is skipped, gone through, collected from or does not fit.
LEMMA GatherVisit == GatherInv /\ Gather!Visit => GatherInv'
<1> DEFINE Entry == [blk : Blocks, todo : SUBSET Blocks]
           h == Head(stack)
           below == Tail(stack)
           R == Reached(code, edges)
<1>1. SUFFICES ASSUME GatherInv, answer = "none", stack # <<>>,
                      code' = code, edges' = edges, cap' = cap,
                      NEW p \in h.todo,
                      \/ /\ p \in visited
                         /\ stack' = <<[h EXCEPT !.todo = @ \ {p}]>> \o below
                         /\ visited' = visited /\ defs' = defs /\ answer' = answer
                      \/ /\ p \notin visited /\ LastDefinition(code[p]) = 0
                         /\ stack' = <<[blk |-> p, todo |-> Preds(edges, p)]>>
                                     \o (<<[h EXCEPT !.todo = @ \ {p}]>> \o below)
                         /\ visited' = visited \cup {p} /\ defs' = defs /\ answer' = answer
                      \/ /\ p \notin visited /\ LastDefinition(code[p]) # 0 /\ Len(defs) + 1 < cap
                         /\ stack' = <<[h EXCEPT !.todo = @ \ {p}]>> \o below
                         /\ visited' = visited \cup {p}
                         /\ defs' = Append(defs, <<p, LastDefinition(code[p])>>)
                         /\ answer' = IF <<[h EXCEPT !.todo = @ \ {p}]>> \o below = <<>>
                                      THEN "true" ELSE answer
                      \/ /\ p \notin visited /\ LastDefinition(code[p]) # 0 /\ ~(Len(defs) + 1 < cap)
                         /\ visited' = visited \cup {p}
                         /\ stack' = <<>> /\ answer' = "false" /\ defs' = defs
               PROVE  GatherInv'
  BY GatherSame, Zenon DEF Gather!Visit, Gather!Enter, Gather!program, Gather!Open, Gather!Rest,
                           Gather!Marked, Gather!Fits
<1> DEFINE rest == [h EXCEPT !.todo = @ \ {p}]
           call == [blk |-> p, todo |-> Preds(edges, p)]
           d == LastDefinition(code[p])
<1>2. /\ GatherType /\ GatherWalking
      /\ Items(defs) \subseteq Reaching(code, edges) /\ Distinct(defs)
  BY <1>1 DEF GatherInv
<1>3. /\ h \in Entry /\ below \in Seq(Entry)
      /\ Items(stack) = {h} \cup Items(below)
  <2>1. stack \in Seq(Entry)
    BY <1>2 DEF GatherType
  <2> HIDE DEF Entry
  <2> QED
    BY <1>1, <2>1, ItemsOf
<1>4. rest \in Entry /\ rest.blk = h.blk /\ rest.todo = h.todo \ {p}
  BY <1>3
<1>5. p \in Blocks /\ p \in Preds(edges, h.blk) /\ h.blk \in R /\ call \in Entry
  BY <1>1, <1>2, <1>3 DEF GatherWalking, Preds
<1>6. /\ <<rest>> \o below \in Seq(Entry) /\ <<rest>> \o below # <<>>
      /\ Items(<<rest>> \o below) = {rest} \cup Items(below)
  <2> HIDE DEF Entry, rest, below
  <2> QED
    BY <1>3, <1>4, ItemsOf
<1>7. \A c \in {rest} \cup Items(below) :
        c.blk \in R /\ LastDefinition(code[c.blk]) = 0 /\ c.todo \subseteq Preds(edges, c.blk)
  BY <1>2, <1>3, <1>4 DEF GatherWalking
<1>8. p \in R
  <2>1. LastDefinition(code[h.blk]) = 0
    BY <1>2, <1>3 DEF GatherWalking
  <2> HIDE DEF h
  <2> QED
    BY <1>5, <2>1, ReachedIs
<1>9. visited \cup {p} \in SUBSET Blocks /\ visited \cup {p} \subseteq R
  BY <1>2, <1>5, <1>8 DEF GatherType, GatherWalking
<1>10. ASSUME NEW seen, visited \subseteq seen, p \in seen
       PROVE  Covered(Passed(code, visited), seen, PredsOf(edges), {rest} \cup Items(below))
  <2>1. Covered(Passed(code, visited), seen, PredsOf(edges), {h} \cup Items(below))
    <3>1. Covered(Passed(code, visited), visited, PredsOf(edges), {h} \cup Items(below))
      BY <1>2, <1>3 DEF GatherWalking
    <3> QED
      BY <1>10, <3>1, CoversLess
  <2> HIDE DEF h, rest, below
  <2> QED
    BY <1>4, <1>10, <2>1, StruckOff
<1>11. CASE p \in visited /\ stack' = <<rest>> \o below /\ visited' = visited /\ defs' = defs /\ answer' = answer
  <2>1. Covered(Passed(code, visited), visited, PredsOf(edges), {rest} \cup Items(below))
    BY <1>10, <1>11
  <2>2. GatherWalking'
    <3> HIDE DEF h, rest, below, R
    <3> QED
      BY <1>1, <1>2, <1>6, <1>7, <1>11, <2>1 DEF GatherWalking, R
  <2>3. GatherType'
    BY <1>1, <1>2, <1>6, <1>11 DEF GatherType
  <2> HIDE DEF h, rest, below
  <2> QED
    BY <1>1, <1>2, <1>6, <1>11, <2>2, <2>3 DEF GatherInv
<1>12. CASE /\ p \notin visited /\ d = 0
            /\ stack' = <<call>> \o (<<rest>> \o below)
            /\ visited' = visited \cup {p} /\ defs' = defs /\ answer' = answer
  <2>1. /\ stack' \in Seq(Entry) /\ stack' # <<>>
        /\ Items(stack') = {call} \cup ({rest} \cup Items(below))
    <3> DEFINE lower == <<rest>> \o below
    <3>1. lower \in Seq(Entry) /\ call \in Entry /\ Items(lower) = {rest} \cup Items(below)
      BY <1>5, <1>6
    <3> HIDE DEF Entry, lower, call
    <3>2. /\ <<call>> \o lower \in Seq(Entry) /\ <<call>> \o lower # <<>>
          /\ Items(<<call>> \o lower) = {call} \cup Items(lower)
      BY <3>1, ItemsOf
    <3> QED
      BY <1>12, <3>1, <3>2 DEF lower
  <2>2. Covered(Passed(code, visited \cup {p}), visited \cup {p}, PredsOf(edges), Items(stack'))
    <3>1. Covered(Passed(code, visited), visited \cup {p}, PredsOf(edges), {rest} \cup Items(below))
      BY <1>10
    <3>2. call.blk = p /\ call.todo = PredsOf(edges)[call.blk]
      BY <1>5 DEF PredsOf
    <3>3. Passed(code, visited \cup {p}) \subseteq Passed(code, visited) \cup {p}
      BY DEF Passed
    <3> HIDE DEF h, rest, below, call
    <3>4. call.todo = PredsOf(edges)[call.blk]
      BY <3>2
    <3>5. Covered(Passed(code, visited) \cup {call.blk}, visited \cup {p}, PredsOf(edges),
                  {call} \cup ({rest} \cup Items(below)))
      BY <3>1, <3>4, Opened
    <3>6. Covered(Passed(code, visited) \cup {p}, visited \cup {p}, PredsOf(edges), Items(stack'))
      BY <2>1, <3>2, <3>5
    <3> QED
      BY <3>3, <3>6, CoversLess
  <2>3. DefinitionsIn(code, visited \cup {p}) = DefinitionsIn(code, visited)
    <3>1. visited \in SUBSET Blocks /\ LastDefinition(code[p]) = 0
      BY <1>2, <1>12 DEF GatherType
    <3> QED
      BY <3>1, DefinitionsAre
  <2>4. GatherWalking'
    <3>1. \A c \in Items(stack') :
            c.blk \in R /\ LastDefinition(code[c.blk]) = 0 /\ c.todo \subseteq Preds(edges, c.blk)
      <4>1. call.blk = p /\ call.todo = Preds(edges, p)
        OBVIOUS
      <4>2. p \in R /\ LastDefinition(code[p]) = 0
        BY <1>8, <1>12
      <4> HIDE DEF rest, below, call, R
      <4> QED
        BY <1>7, <2>1, <4>1, <4>2
    <3> HIDE DEF h, rest, below, call, d
    <3> QED
      BY <1>1, <1>2, <1>9, <1>12, <2>2, <2>3, <3>1 DEF GatherWalking
  <2>5. GatherType'
    BY <1>1, <1>2, <1>9, <1>12, <2>1 DEF GatherType
  <2> HIDE DEF h, rest, below, call, d
  <2> QED
    BY <1>1, <1>2, <1>12, <2>1, <2>4, <2>5 DEF GatherInv
<1>13. ASSUME p \notin visited, d # 0
       PROVE  /\ d \in Nat \ {0} /\ <<p, d>> \notin Items(defs) /\ <<p, d>> \in Reaching(code, edges)
              /\ DefinitionsIn(code, visited \cup {p}) = Items(defs) \cup {<<p, d>>}
  <2>1. code[p] \in Seq(Instructions)
    BY <1>2, <1>5, CodesAssumption DEF GatherType, Instructions
  <2>2. d \in Nat \ {0}
    BY <1>13, <2>1, NoDefinition
  <2>3. visited \in SUBSET Blocks /\ Items(defs) = DefinitionsIn(code, visited)
    BY <1>2 DEF GatherType, GatherWalking
  <2>4. <<p, d>> \notin Items(defs)
    <3> HIDE DEF d
    <3>1. p \in Blocks \ visited
      BY <1>5, <1>13
    <3> QED
      BY <2>3, <3>1, DefinitionsAre
  <2>5. <<p, d>> \in Reaching(code, edges)
    BY <1>8, <1>13, ReachedIs, DefinitionsAre DEF Reaching
  <2>6. DefinitionsIn(code, visited \cup {p}) = Items(defs) \cup {<<p, d>>}
    <3>1. DefinitionsIn(code, visited \cup {p}) =
            IF d = 0 THEN DefinitionsIn(code, visited)
            ELSE DefinitionsIn(code, visited) \cup {<<p, d>>}
      BY <2>3, DefinitionsAre
    <3> QED
      BY <1>13, <2>3, <3>1, Zenon
  <2> QED
    BY <2>2, <2>4, <2>5, <2>6
<1>14. CASE /\ p \notin visited /\ d # 0
            /\ stack' = <<rest>> \o below /\ visited' = visited \cup {p}
            /\ defs' = Append(defs, <<p, d>>) /\ answer' = "none"
  <2>1. /\ defs' \in Seq(Blocks \X (Nat \ {0})) /\ Items(defs') = Items(defs) \cup {<<p, d>>}
        /\ Distinct(defs') /\ Len(defs') = Len(defs) + 1
    <3> DEFINE X == Blocks \X (Nat \ {0})
               x == <<p, d>>
    <3>1. defs \in Seq(X) /\ x \in X /\ defs' = Append(defs, x) /\ x \notin Items(defs)
      BY <1>2, <1>5, <1>13, <1>14 DEF GatherType
    <3>2. Distinct(defs)
      BY <1>2
    <3> HIDE DEF X, x
    <3>3. /\ Append(defs, x) \in Seq(X) /\ Items(Append(defs, x)) = Items(defs) \cup {x}
          /\ Distinct(Append(defs, x)) /\ Len(Append(defs, x)) = Len(defs) + 1
      BY <3>1, <3>2, AppendedIs
    <3> QED
      BY <3>1, <3>3, Zenon DEF X, x
  <2>2. Cardinality(Items(defs')) = Len(defs')
    <3>1. Cardinality(Items(defs)) = Len(defs) /\ IsFiniteSet(Items(defs)) /\ <<p, d>> \notin Items(defs)
      BY <1>2, <1>13, <1>14, DefinitionsAre DEF GatherType, GatherWalking
    <3> HIDE DEF d
    <3>2. Cardinality(Items(defs) \cup {<<p, d>>}) = Cardinality(Items(defs)) + 1
      BY <3>1, FS_AddElement
    <3> QED
      BY <2>1, <3>1, <3>2
  <2>3. Covered(Passed(code, visited \cup {p}), visited \cup {p}, PredsOf(edges), {rest} \cup Items(below))
    <3>1. Passed(code, visited \cup {p}) \subseteq Passed(code, visited)
      BY <1>14 DEF Passed
    <3>2. Covered(Passed(code, visited), visited \cup {p}, PredsOf(edges), {rest} \cup Items(below))
      BY <1>10
    <3> HIDE DEF rest, below
    <3> QED
      BY <3>1, <3>2, CoversLess
  <2>4. GatherWalking'
    <3>1. Items(defs') = DefinitionsIn(code, visited \cup {p})
      BY <1>13, <1>14, <2>1
    <3> HIDE DEF h, rest, below, d
    <3> QED
      BY <1>1, <1>2, <1>6, <1>7, <1>9, <1>14, <2>2, <2>3, <3>1 DEF GatherWalking
  <2>5. GatherType'
    BY <1>1, <1>2, <1>6, <1>9, <1>14, <2>1 DEF GatherType
  <2>6. Items(defs') \subseteq Reaching(code, edges)
    BY <1>2, <1>13, <1>14, <2>1
  <2> HIDE DEF h, rest, below, d
  <2> QED
    BY <1>1, <1>6, <1>14, <2>1, <2>4, <2>5, <2>6 DEF GatherInv
<1>15. CASE /\ p \notin visited /\ d # 0 /\ ~(Len(defs) + 1 < cap)
            /\ visited' = visited \cup {p} /\ stack' = <<>> /\ answer' = "false" /\ defs' = defs
  <2>1. Cardinality(Reaching(code, edges)) >= cap
    <3> DEFINE x == <<p, d>>
               n == Len(defs)
    <3>1. IsFiniteSet(Reaching(code, edges))
      BY ReachedIs, DefinitionsAre DEF Reaching
    <3>2. /\ Items(defs) \subseteq Reaching(code, edges) /\ Cardinality(Items(defs)) = n
          /\ n \in Nat /\ cap \in Nat
      BY <1>2 DEF GatherType, GatherWalking
    <3>3. x \in Reaching(code, edges) /\ x \notin Items(defs) /\ ~(n + 1 < cap)
      BY <1>13, <1>15
    <3> HIDE DEF x, n
    <3> QED
      BY <3>1, <3>2, <3>3, DoesNotFit
  <2>2. GatherType'
    BY <1>1, <1>2, <1>9, <1>15 DEF GatherType
  <2> HIDE DEF h, rest, below, d
  <2> QED
    BY <1>1, <1>2, <1>15, <2>1, <2>2 DEF GatherInv
<1> QED
  BY <1>1, <1>6, <1>11, <1>12, <1>14, <1>15, Zenon

\* A call that has gone through its predecessors returns; the outermost answers.
LEMMA GatherLeave == GatherInv /\ Gather!Leave => GatherInv'
<1> DEFINE Entry == [blk : Blocks, todo : SUBSET Blocks]
           h == Head(stack)
           below == Tail(stack)
<1>1. SUFFICES ASSUME GatherInv, answer = "none", stack # <<>>, h.todo = {},
                      code' = code, edges' = edges, cap' = cap, visited' = visited, defs' = defs,
                      stack' = below, answer' = IF Len(stack) = 1 THEN "true" ELSE "none"
               PROVE  GatherInv'
  BY DEF Gather!Leave, Gather!program
<1>2. /\ GatherType /\ GatherWalking
      /\ Items(defs) \subseteq Reaching(code, edges) /\ Distinct(defs)
  BY <1>1 DEF GatherInv
<1>3. /\ below \in Seq(Entry)
      /\ Len(stack) = 1 <=> below = <<>>
      /\ Items(stack) = {h} \cup Items(below)
  <2>1. stack \in Seq(Entry)
    BY <1>2 DEF GatherType
  <2> HIDE DEF Entry
  <2> QED
    BY <1>1, <2>1, ItemsOf
<1>4. Covered(Passed(code, visited), visited, PredsOf(edges), Items(below))
  <2> HIDE DEF h, below
  <2> QED
    BY <1>1, <1>2, <1>3, Returned DEF GatherWalking
<1>5. GatherType'
  BY <1>1, <1>2, <1>3 DEF GatherType
<1>6. CASE below # <<>>
  <2>1. GatherWalking'
    BY <1>1, <1>2, <1>3, <1>4 DEF GatherWalking
  <2> QED
    BY <1>1, <1>2, <1>3, <1>5, <1>6, <2>1 DEF GatherInv
<1>7. CASE below = <<>>
  <2>1. \A b \in visited \cup {Here} : LastDefinition(code[b]) = 0 => Preds(edges, b) \subseteq visited
    <3>1. Items(below) = {}
      BY <1>7, NoItems
    <3> QED
      BY <1>2, <1>4, <3>1, HereThere DEF Covered, Passed, PredsOf, GatherType, Here_There
  <2>2. Reached(code, edges) \subseteq visited \cup {Here}
    <3>1. visited \cup {Here} \in SUBSET Blocks
      BY <1>2, HereThere DEF GatherType, Here_There
    <3> QED
      BY <2>1, <3>1, ReachedIs
  <2>3. Reaching(code, edges) \subseteq Items(defs)
    <3>1. DefinitionsIn(code, visited \cup {Here}) = DefinitionsIn(code, visited)
      BY <1>2, DefinitionsAre DEF GatherType, GatherWalking
    <3>2. Reaching(code, edges) \subseteq DefinitionsIn(code, visited \cup {Here})
      BY <2>2 DEF Reaching, DefinitionsIn
    <3> QED
      BY <1>2, <3>1, <3>2 DEF GatherWalking
  <2>4. answer' = "true" /\ stack' = <<>>
    BY <1>1, <1>3, <1>7
  <2> QED
    BY <1>1, <1>2, <1>5, <2>3, <2>4 DEF GatherInv
<1> QED
  BY <1>6, <1>7

-----------------------------------------------------------------------------
(* find_definition_size.                                                     *)

\* What is looked at of a predecessor: its definition before the tail.
Body(c, b) == DefinitionBefore(c[b], Len(c[b]))
\* The size reported of that definition.
SizeAt(c, b) == Find!Reported(c[b][Body(c, b)])

\* The blocks that are looked at: those on a way without a definition.
StepsOf(c, e) == [b \in Blocks |-> IF Body(c, b) = 0 THEN Preds(e, b) ELSE {}]
LookedAt(c, e) == Closure(Preds(e, Here), StepsOf(c, e))

\* An open call, with the size it was told.
FindEntry == [blk : Blocks, todo : SUBSET Blocks, defsize : Nat]

\* The types of this walk's variables.
FindType ==
  /\ code \in [Blocks -> SizeCodes] /\ use \in Nat
  /\ visited \in SUBSET Blocks
  /\ stack \in Seq(FindEntry)
  /\ size \in Nat /\ answer \in {"none", "true", "false"}

\* The blocks whose predecessors the walk asks.
Asked(c, V) == {b \in V : b = Here \/ Body(c, b) = 0}
\* A definition was found in another block.
SomeFound(c, V) == \E b \in V \ {Here} : Body(c, b) # 0

\* What holds with the blocks V visited and some calls open: a block has
\* predecessors or a definition, each predecessor asked for is behind the walk
\* or before it, and a size that was found is kept in a call that is open.
FindState(c, e, V, calls, sizes) ==
  /\ Here \in V /\ V \ {Here} \subseteq LookedAt(c, e)
  /\ \A b \in V : Preds(e, b) # {} \/ Body(c, b) # 0
  /\ \A k \in calls : k.blk \in Asked(c, V) /\ k.todo \subseteq Preds(e, k.blk)
  /\ Covered(Asked(c, V), V \ {Here}, PredsOf(e), calls)
  /\ \A b \in V \ {Here} :
       Body(c, b) # 0 => SizeAt(c, b) \in sizes \/ \E k \in calls : k.defsize = SizeAt(c, b)

\* While the walk is on, a size has been told to a call, or is to be asked for yet.
FindWalking ==
  /\ DefinitionBefore(code[Here], use) = 0
  /\ FindState(code, edges, visited, Items(stack), {NoSize})
  /\ SomeFound(code, visited) \/ Head(stack).todo # {}

\* What an answer `true` with size sz has to mean.
FindRight(c, e, u, V, sz) ==
  IF DefinitionBefore(c[Here], u) # 0 THEN Find!Reported(c[Here][DefinitionBefore(c[Here], u)]) = sz
  ELSE /\ \E b \in LookedAt(c, e) : Body(c, b) # 0
       /\ \A b \in LookedAt(c, e) : Body(c, b) # 0 => SizeAt(c, b) \in {sz, NoSize}
       /\ \A b \in V : Preds(e, b) # {} \/ Body(c, b) # 0

\* While it is on it is walking; an answer `true` is right.
FindInv ==
  /\ FindType
  /\ answer = "none" /\ stack # <<>> => FindWalking
  /\ answer = "true" => FindRight(code, edges, use, visited, size)

\* The operators of the instance are those of Flow.
LEMMA FindSame ==
  /\ \A e, b : Find!Preds(e, b) = Preds(e, b)
  /\ \A c, n : Find!DefinitionBefore(c, n) = DefinitionBefore(c, n)
  /\ \A from, step : Find!Closure(from, step) = Closure(from, step)
<1>1. \A e, b : Find!Preds(e, b) = Preds(e, b)
  BY DEF Find!Preds, Preds
<1>2. \A c, n : Find!DefinitionBefore(c, n) = DefinitionBefore(c, n)
  BY DEF Find!DefinitionBefore, DefinitionBefore, Find!Max0, Max0, Find!Defines, Defines
<1>3. \A from, step : Find!Closure(from, step) = Closure(from, step)
  BY DEF Find!Closure, Closure, Find!Closed, Closed
<1> QED
  BY <1>1, <1>2, <1>3

\* What is looked at is closed under passing through blocks without a definition.
LEMMA LookedAtIs ==
  ASSUME NEW c, NEW e
  PROVE  /\ LookedAt(c, e) \in SUBSET Blocks /\ Preds(e, Here) \subseteq LookedAt(c, e)
         /\ \A b \in LookedAt(c, e) : Body(c, b) = 0 => Preds(e, b) \subseteq LookedAt(c, e)
         /\ \A V \in SUBSET Blocks :
              /\ Preds(e, Here) \subseteq V /\ \A b \in V : Body(c, b) = 0 => Preds(e, b) \subseteq V
              => LookedAt(c, e) \subseteq V
<1>1. Preds(e, Here) \in SUBSET Blocks /\ StepsOf(c, e) \in [Blocks -> SUBSET Blocks]
  BY DEF StepsOf, Preds
<1>2. /\ LookedAt(c, e) \in SUBSET Blocks /\ Preds(e, Here) \subseteq LookedAt(c, e)
      /\ \A b \in LookedAt(c, e) : StepsOf(c, e)[b] \subseteq LookedAt(c, e)
      /\ \A V \in SUBSET Blocks : Closed(V, Preds(e, Here), StepsOf(c, e)) => LookedAt(c, e) \subseteq V
  BY <1>1, ClosureIs DEF LookedAt
<1>3. \A b \in Blocks : Body(c, b) = 0 => StepsOf(c, e)[b] = Preds(e, b)
  BY DEF StepsOf
<1>4. \A b \in Blocks : Body(c, b) # 0 => StepsOf(c, e)[b] = {}
  BY DEF StepsOf
<1>5. ASSUME NEW V \in SUBSET Blocks, Preds(e, Here) \subseteq V,
             \A b \in V : Body(c, b) = 0 => Preds(e, b) \subseteq V
      PROVE  LookedAt(c, e) \subseteq V
  <2>1. \A b \in V : StepsOf(c, e)[b] \subseteq V
    BY <1>3, <1>4, <1>5
  <2> QED
    BY <1>2, <1>5, <2>1 DEF Closed
<1> QED
  BY <1>2, <1>3, <1>5

\* A size is reported of a definition that is found.
LEMMA SizeIs ==
  ASSUME NEW c \in Seq(Instructions), NEW n \in Nat, DefinitionBefore(c, n) # 0
  PROVE  Find!Reported(c[DefinitionBefore(c, n)]) \in Nat
<1>1. DefinitionBefore(c, n) \in 1..Len(c)
  BY DefinitionIs
<1>2. c[DefinitionBefore(c, n)] \in Instructions
  BY <1>1
<1> QED
  BY <1>2 DEF Instructions, Find!Reported

\* A call that returns a size to the topmost of `below`.
Told(sz, below) ==
  /\ size' = sz
  /\ \/ below = <<>> /\ stack' = <<>> /\ answer' = "true"
     \/ /\ below # <<>> /\ Head(below).defsize = NoSize /\ answer' = answer
        /\ stack' = <<[Head(below) EXCEPT !.defsize = sz]>> \o Tail(below)
     \/ below # <<>> /\ Head(below).defsize = sz /\ stack' = below /\ answer' = answer
     \/ below # <<>> /\ stack' = <<>> /\ answer' = "false"

\* That is what Tell does.
LEMMA TellIs == \A sz, below : Find!Tell(sz, below) => Told(sz, below)
BY Zenon DEF Find!Tell, Told

\* It leaves that call with its size, which it has for nothing or had before.
LEMMA ToldIs ==
  ASSUME NEW below \in Seq(FindEntry), below # <<>>, NEW sz \in Nat, Told(sz, below)
  PROVE  \/ stack' = <<>> /\ answer' = "false"
         \/ /\ stack' \in Seq(FindEntry) /\ stack' # <<>> /\ answer' = answer
            /\ \E k \in FindEntry :
                 /\ Head(stack') = k /\ Items(stack') = {k} \cup Items(Tail(below))
                 /\ k.blk = Head(below).blk /\ k.todo = Head(below).todo /\ k.defsize = sz
                 /\ Head(below).defsize \in {NoSize, sz}
<1>1. /\ Head(below) \in FindEntry /\ Tail(below) \in Seq(FindEntry)
      /\ Items(below) = {Head(below)} \cup Items(Tail(below))
  <2> HIDE DEF FindEntry
  <2> QED
    BY ItemsOf
<1>2. CASE stack' = <<[Head(below) EXCEPT !.defsize = sz]>> \o Tail(below) /\ answer' = answer
           /\ Head(below).defsize = NoSize
  <2> DEFINE k == [Head(below) EXCEPT !.defsize = sz]
  <2>1. /\ k \in FindEntry /\ k.blk = Head(below).blk /\ k.todo = Head(below).todo
        /\ k.defsize = sz
    BY <1>1 DEF FindEntry
  <2>2. /\ <<k>> \o Tail(below) \in Seq(FindEntry) /\ <<k>> \o Tail(below) # <<>>
        /\ Items(<<k>> \o Tail(below)) = {k} \cup Items(Tail(below))
        /\ Head(<<k>> \o Tail(below)) = k
    <3> DEFINE t == Tail(below)
    <3>1. t \in Seq(FindEntry) /\ k \in FindEntry
      BY <1>1, <2>1
    <3> HIDE DEF k, t, FindEntry
    <3>2. /\ <<k>> \o t \in Seq(FindEntry) /\ <<k>> \o t # <<>>
          /\ Items(<<k>> \o t) = {k} \cup Items(t)
          /\ Head(<<k>> \o t) = k
      BY <3>1, ItemsOf
    <3> QED
      BY <3>2 DEF t
  <2> HIDE DEF k, FindEntry
  <2>3. stack' = <<k>> \o Tail(below)
    BY <1>2 DEF k
  <2> QED
    BY <1>2, <2>1, <2>2, <2>3
<1>3. CASE stack' = below /\ answer' = answer /\ Head(below).defsize = sz
  BY <1>1, <1>3
<1> QED
  BY <1>2, <1>3 DEF Told

\* A walk not yet begun, with whatever is in the pool.
LEMMA FindInit == Find!Init => FindInv
<1>1. SUFFICES ASSUME code \in [Blocks -> SizeCodes], use \in 1..Len(code[Here]),
                      stack = <<>>, visited \in LeftOver, size = NoSize, answer = "none"
               PROVE  FindInv
  BY DEF Find!Init
<1>2. use \in Nat
  <2>1. code[Here] \in Seq(Instructions)
    BY <1>1, HereThere, CodesAssumption DEF Here_There, Instructions
  <2> QED
    BY <1>1, <2>1
<1>3. FindType
  BY <1>1, <1>2, PoolsAssumption, CodesAssumption DEF FindType
<1> QED
  BY <1>1, <1>3 DEF FindInv

\* The walk goes on, or ends well, whenever a call returns the size of what it
\* found.
LEMMA FindReturn ==
  ASSUME FindType, answer = "none", DefinitionBefore(code[Here], use) = 0,
         code' = code, edges' = edges, use' = use, visited' \in SUBSET Blocks,
         NEW below \in Seq(FindEntry), NEW sz \in Nat, Told(sz, below),
         FindState(code, edges, visited', Items(below), {NoSize, sz}),
         SomeFound(code, visited')
  PROVE  FindInv'
<1>1. CASE below = <<>>
  <2>1. size' = sz /\ stack' = <<>> /\ answer' = "true"
    BY <1>1 DEF Told
  <2>2. FindType'
    BY <2>1 DEF FindType
  <2> DEFINE V == visited'
  <2>3. Items(below) = {}
    BY <1>1, NoItems
  <2>4. /\ Here \in V /\ V \ {Here} \subseteq LookedAt(code, edges)
        /\ \A b \in V : Preds(edges, b) # {} \/ Body(code, b) # 0
        /\ \A b \in Asked(code, V) : PredsOf(edges)[b] \subseteq V \ {Here}
        /\ \A b \in V \ {Here} : Body(code, b) # 0 => SizeAt(code, b) \in {sz, NoSize}
    BY <2>3 DEF FindState, Covered
  <2>5. LookedAt(code, edges) \subseteq V \ {Here}
    <3>1. V \ {Here} \in SUBSET Blocks /\ Here \in Asked(code, V) /\ Here \in Blocks
      BY <2>4, HereThere DEF Asked, Here_There
    <3>2. Preds(edges, Here) \subseteq V \ {Here}
      BY <2>4, <3>1 DEF PredsOf
    <3>3. \A b \in V \ {Here} : Body(code, b) = 0 => Preds(edges, b) \subseteq V \ {Here}
      BY <2>4, <3>1 DEF PredsOf, Asked
    <3> HIDE DEF V
    <3> QED
      BY <3>1, <3>2, <3>3, LookedAtIs
  <2>6. \E b \in LookedAt(code, edges) : Body(code, b) # 0
    BY <2>4 DEF SomeFound
  <2>7. \A b \in LookedAt(code, edges) : Body(code, b) # 0 => SizeAt(code, b) \in {sz, NoSize}
    BY <2>4, <2>5
  <2>8. FindRight(code, edges, use, V, sz)
    BY <2>4, <2>6, <2>7, Zenon DEF FindRight
  <2> QED
    BY <2>1, <2>2, <2>8 DEF FindInv
<1>2. CASE below # <<>>
  <2>1. size' = sz
    BY DEF Told
  <2>2. CASE stack' = <<>> /\ answer' = "false"
    <3>1. FindType'
      BY <2>1, <2>2 DEF FindType
    <3> QED
      BY <2>2, <3>1 DEF FindInv
  <2>3. ASSUME stack' \in Seq(FindEntry), stack' # <<>>, answer' = answer,
               NEW k \in FindEntry, Head(stack') = k, Items(stack') = {k} \cup Items(Tail(below)),
               k.blk = Head(below).blk, k.todo = Head(below).todo, k.defsize = sz,
               Head(below).defsize \in {NoSize, sz}
        PROVE  FindInv'
    <3> DEFINE h == Head(below)
               T == Items(Tail(below))
               V == visited'
    <3>1. Items(below) = {h} \cup T
      <4> HIDE DEF FindEntry
      <4> QED
        BY <1>2, ItemsOf
    <3>2. \A c \in {k} \cup T : c.blk \in Asked(code, V) /\ c.todo \subseteq Preds(edges, c.blk)
      BY <2>3, <3>1 DEF FindState
    <3>3. Covered(Asked(code, V), V \ {Here}, PredsOf(edges), {k} \cup T)
      <4>1. Covered(Asked(code, V), V \ {Here}, PredsOf(edges), {h} \cup T)
        BY <3>1 DEF FindState
      <4> HIDE DEF h, T, V
      <4>2. k.blk = h.blk /\ k.todo = h.todo
        BY <2>3 DEF h
      <4> QED
        BY <4>1, <4>2 DEF Covered
    <3>4. ASSUME NEW b \in V \ {Here}, Body(code, b) # 0
          PROVE  SizeAt(code, b) \in {NoSize} \/ \E c \in {k} \cup T : c.defsize = SizeAt(code, b)
      <4>1. SizeAt(code, b) \in {NoSize, sz} \/ \E c \in {h} \cup T : c.defsize = SizeAt(code, b)
        BY <3>1, <3>4 DEF FindState
      <4> HIDE DEF T, V
      <4> QED
        BY <2>3, <4>1
    <3>5. FindState(code, edges, V, {k} \cup T, {NoSize})
      BY <3>2, <3>3, <3>4 DEF FindState
    <3>6. FindWalking'
      BY <2>3, <3>5 DEF FindWalking
    <3>7. FindType'
      BY <2>1, <2>3 DEF FindType
    <3> QED
      BY <2>3, <3>6, <3>7 DEF FindInv
  <2> QED
    BY <1>2, <2>2, <2>3, ToldIs
<1> QED
  BY <1>1, <1>2

\* The instruction's own block has the definition, no predecessor, or is gone through.
LEMMA FindBegin == FindInv /\ Find!Begin => FindInv'
<1> DEFINE own == DefinitionBefore(code[Here], use)
           call == [blk |-> Here, todo |-> Preds(edges, Here), defsize |-> NoSize]
<1>1. SUFFICES ASSUME FindInv, answer = "none", stack = <<>>,
                      code' = code, edges' = edges, use' = use, visited' = {} \cup {Here},
                      \/ own # 0 /\ Told(Find!Reported(code[Here][own]), <<>>)
                      \/ own = 0 /\ Preds(edges, Here) = {} /\ stack' = <<>> /\ answer' = "false" /\ size' = size
                      \/ /\ own = 0 /\ Preds(edges, Here) # {}
                         /\ stack' = <<call>> \o <<>> /\ size' = size /\ answer' = answer
               PROVE  FindInv'
  BY FindSame, TellIs, Zenon DEF Find!Begin, Find!Enter, Find!program, Find!Open, Find!Fail
<1>2. FindType /\ visited' = {Here} /\ visited' \in SUBSET Blocks /\ Here \in Blocks
  BY <1>1, HereThere DEF FindInv, Here_There
<1>3. CASE own # 0 /\ Told(Find!Reported(code[Here][own]), <<>>)
  <2>1. Find!Reported(code[Here][own]) \in Nat
    <3>1. code[Here] \in Seq(Instructions) /\ use \in Nat
      BY <1>2, CodesAssumption DEF FindType, Instructions
    <3> QED
      BY <1>3, <3>1, SizeIs
  <2>2. size' = Find!Reported(code[Here][own]) /\ stack' = <<>> /\ answer' = "true"
    BY <1>3 DEF Told
  <2>3. FindType'
    BY <1>1, <1>2, <2>1, <2>2 DEF FindType
  <2>4. FindRight(code, edges, use, visited', size')
    BY <1>3, <2>2, Zenon DEF FindRight
  <2> QED
    BY <1>1, <2>2, <2>3, <2>4 DEF FindInv
<1>4. CASE stack' = <<>> /\ answer' = "false" /\ size' = size
  <2>1. FindType'
    BY <1>1, <1>2, <1>4 DEF FindType
  <2> QED
    BY <1>4, <2>1 DEF FindInv
<1>5. CASE /\ own = 0 /\ Preds(edges, Here) # {}
           /\ stack' = <<call>> \o <<>> /\ size' = size /\ answer' = answer
  <2>1. call \in FindEntry
    BY <1>2, CodesAssumption DEF FindEntry, Preds
  <2>2. stack' \in Seq(FindEntry) /\ stack' # <<>> /\ Items(stack') = {call} /\ Head(stack') = call
    <3>1. Head(<<call>> \o <<>>) = call
      OBVIOUS
    <3> HIDE DEF call, FindEntry
    <3> QED
      BY <1>5, <2>1, <3>1, FirstItem
  <2>3. FindState(code, edges, {Here}, {call}, {NoSize})
    <3>1. Covered(Asked(code, {Here}), {Here} \ {Here}, PredsOf(edges), {call})
      BY <1>2 DEF Covered, Asked, PredsOf
    <3> QED
      BY <1>2, <1>5, <3>1 DEF FindState, Asked
  <2>4. FindWalking'
    <3>1. Head(stack').todo # {}
      BY <1>5, <2>2
    <3> HIDE DEF call
    <3> QED
      BY <1>1, <1>2, <1>5, <2>2, <2>3, <3>1 DEF FindWalking
  <2>5. FindType'
    BY <1>1, <1>2, <1>5, <2>2 DEF FindType
  <2> HIDE DEF call
  <2> QED
    BY <1>1, <1>5, <2>2, <2>4, <2>5 DEF FindInv
<1> QED
  BY <1>1, <1>3, <1>4, <1>5

\* A predecessor met before fails the walk; another is looked at up to its tail.
LEMMA FindVisit == FindInv /\ Find!Visit => FindInv'
<1> DEFINE h == Head(stack)
           below == Tail(stack)
           d(p) == DefinitionBefore(code[p], Len(code[p]))
<1>1. SUFFICES ASSUME FindInv, answer = "none", stack # <<>>,
                      code' = code, edges' = edges, use' = use,
                      NEW p \in h.todo,
                      \/ /\ p \in visited /\ visited' = visited
                         /\ stack' = <<>> /\ answer' = "false" /\ size' = size
                      \/ /\ p \notin visited /\ visited' = visited \cup {p} /\ d(p) # 0
                         /\ Told(Find!Reported(code[p][d(p)]), <<[h EXCEPT !.todo = @ \ {p}]>> \o below)
                      \/ /\ p \notin visited /\ visited' = visited \cup {p} /\ d(p) = 0 /\ Preds(edges, p) = {}
                         /\ stack' = <<>> /\ answer' = "false" /\ size' = size
                      \/ /\ p \notin visited /\ visited' = visited \cup {p} /\ d(p) = 0 /\ Preds(edges, p) # {}
                         /\ stack' = <<[blk |-> p, todo |-> Preds(edges, p), defsize |-> NoSize]>>
                                     \o (<<[h EXCEPT !.todo = @ \ {p}]>> \o below)
                         /\ size' = size /\ answer' = answer
               PROVE  FindInv'
  BY FindSame, TellIs, Zenon DEF Find!Visit, Find!Enter, Find!program, Find!Open, Find!Fail
<1> DEFINE rest == [h EXCEPT !.todo = @ \ {p}]
           call == [blk |-> p, todo |-> Preds(edges, p), defsize |-> NoSize]
           V == visited \cup {p}
<1>2. FindType /\ FindWalking
  BY <1>1 DEF FindInv
<1>3. /\ h \in FindEntry /\ below \in Seq(FindEntry)
      /\ Items(stack) = {h} \cup Items(below)
  <2>1. stack \in Seq(FindEntry)
    BY <1>2 DEF FindType
  <2> HIDE DEF FindEntry
  <2> QED
    BY <1>1, <2>1, ItemsOf
<1>4. rest \in FindEntry /\ rest.blk = h.blk /\ rest.todo = h.todo \ {p} /\ rest.defsize = h.defsize
  BY <1>3 DEF FindEntry
<1>5. p \in Blocks /\ p \in Preds(edges, h.blk) /\ h.blk \in Asked(code, visited) /\ call \in FindEntry
  BY <1>1, <1>2, <1>3, CodesAssumption DEF FindWalking, FindState, Preds, FindEntry
<1>6. V \in SUBSET Blocks
  BY <1>2, <1>5 DEF FindType
<1>7. /\ <<rest>> \o below \in Seq(FindEntry) /\ <<rest>> \o below # <<>>
      /\ Items(<<rest>> \o below) = {rest} \cup Items(below)
  <2> HIDE DEF FindEntry, rest, below
  <2> QED
    BY <1>3, <1>4, ItemsOf
<1>8. CASE visited' \in SUBSET Blocks /\ stack' = <<>> /\ answer' = "false" /\ size' = size
  <2>1. FindType'
    BY <1>1, <1>2, <1>8 DEF FindType
  <2> QED
    BY <1>8, <2>1 DEF FindInv
<1>9. p \in LookedAt(code, edges)
  <2>1. h.blk = Here \/ (h.blk \in LookedAt(code, edges) /\ Body(code, h.blk) = 0)
    BY <1>2, <1>5 DEF FindWalking, FindState, Asked
  <2> HIDE DEF h
  <2> QED
    BY <1>5, <2>1, LookedAtIs
<1>10. ASSUME p \notin visited, NEW sizes, NoSize \in sizes,
              Body(code, p) # 0 => SizeAt(code, p) \in sizes,
              Body(code, p) = 0 => Preds(edges, p) # {},
              NEW calls, IF Body(code, p) = 0 THEN calls = {call} \cup ({rest} \cup Items(below))
                         ELSE calls = {rest} \cup Items(below)
       PROVE  FindState(code, edges, V, calls, sizes)
  <2>1. FindState(code, edges, visited, {h} \cup Items(below), {NoSize})
    BY <1>2, <1>3 DEF FindWalking
  <2>2. p # Here
    BY <1>10, <2>1 DEF FindState
  <2>3. Here \in V /\ V \ {Here} \subseteq LookedAt(code, edges)
    BY <1>9, <2>1 DEF FindState
  <2>4. \A b \in V : Preds(edges, b) # {} \/ Body(code, b) # 0
    BY <1>10, <2>1 DEF FindState
  <2>5. /\ Asked(code, visited) \subseteq Asked(code, V)
        /\ Asked(code, V) \subseteq Asked(code, visited) \cup {p}
        /\ Body(code, p) # 0 => Asked(code, V) \subseteq Asked(code, visited)
        /\ Body(code, p) = 0 => p \in Asked(code, V)
    BY <2>2 DEF Asked
  <2>6. \A k \in {rest} \cup Items(below) : k.blk \in Asked(code, V) /\ k.todo \subseteq Preds(edges, k.blk)
    <3> HIDE DEF h, rest, below, V
    <3> QED
      BY <1>4, <2>1, <2>5 DEF FindState
  <2>7. \A k \in calls : k.blk \in Asked(code, V) /\ k.todo \subseteq Preds(edges, k.blk)
    <3>1. call.blk = p /\ call.todo = Preds(edges, p)
      OBVIOUS
    <3> HIDE DEF h, rest, below, V, call
    <3> QED
      BY <1>10, <2>5, <2>6, <3>1
  <2>8. Covered(Asked(code, visited), V \ {Here}, PredsOf(edges), {rest} \cup Items(below))
    <3>1. Covered(Asked(code, visited), V \ {Here}, PredsOf(edges), {h} \cup Items(below))
      <4>1. visited \ {Here} \subseteq V \ {Here}
        OBVIOUS
      <4> HIDE DEF V, h, below
      <4> QED
        BY <2>1, <4>1, CoversLess DEF FindState
    <3>2. p \in V \ {Here}
      BY <2>2
    <3> HIDE DEF h, rest, below, V
    <3> QED
      BY <1>4, <3>1, <3>2, StruckOff
  <2>9. Covered(Asked(code, V), V \ {Here}, PredsOf(edges), calls)
    <3>1. CASE Body(code, p) # 0
      <4> HIDE DEF rest, below, V
      <4> QED
        BY <1>10, <2>5, <2>8, <3>1, CoversLess
    <3>2. CASE Body(code, p) = 0
      <4>1. call.blk = p /\ call.todo = PredsOf(edges)[call.blk]
        BY <1>5 DEF PredsOf
      <4> HIDE DEF h, rest, below, V, call
      <4>2. call.todo = PredsOf(edges)[call.blk]
        BY <4>1
      <4>3. Covered(Asked(code, visited) \cup {call.blk}, V \ {Here}, PredsOf(edges),
                    {call} \cup ({rest} \cup Items(below)))
        BY <2>8, <4>2, Opened
      <4>4. Covered(Asked(code, visited) \cup {p}, V \ {Here}, PredsOf(edges), calls)
        BY <1>10, <3>2, <4>1, <4>3
      <4> QED
        BY <2>5, <4>4, CoversLess
    <3> QED
      BY <3>1, <3>2
  <2>10. ASSUME NEW b \in V \ {Here}, Body(code, b) # 0
         PROVE  SizeAt(code, b) \in sizes \/ \E k \in calls : k.defsize = SizeAt(code, b)
    <3>1. CASE b = p
      BY <1>10, <2>10, <3>1
    <3>2. CASE b # p
      <4>1. SizeAt(code, b) = NoSize \/ \E k \in {h} \cup Items(below) : k.defsize = SizeAt(code, b)
        BY <2>1, <2>10, <3>2 DEF FindState
      <4>2. {rest} \cup Items(below) \subseteq calls
        BY <1>10
      <4> HIDE DEF h, rest, below, V, call
      <4> QED
        BY <1>4, <1>10, <4>1, <4>2
    <3> QED
      BY <3>1, <3>2
  <2> HIDE DEF V, h, rest, below, call
  <2> QED
    BY <2>3, <2>4, <2>7, <2>9, <2>10 DEF FindState
<1>11. CASE /\ p \notin visited /\ visited' = V /\ Body(code, p) # 0
            /\ Told(SizeAt(code, p), <<rest>> \o below)
  <2>1. SizeAt(code, p) \in Nat
    <3>1. code[p] \in Seq(Instructions)
      BY <1>2, <1>5, CodesAssumption DEF FindType, Instructions
    <3>2. Len(code[p]) \in Nat
      BY <3>1
    <3> QED
      BY <1>11, <3>1, <3>2, SizeIs DEF SizeAt, Body
  <2>2. FindState(code, edges, V, {rest} \cup Items(below), {NoSize, SizeAt(code, p)})
    BY <1>10, <1>11
  <2>3. SomeFound(code, V)
    <3>1. p # Here
      BY <1>2, <1>11 DEF FindWalking, FindState
    <3> QED
      BY <1>11, <3>1 DEF SomeFound
  <2>4. DefinitionBefore(code[Here], use) = 0
    BY <1>2 DEF FindWalking
  <2> DEFINE lower == <<rest>> \o below
  <2>5. lower \in Seq(FindEntry) /\ Told(SizeAt(code, p), lower) /\ Items(lower) = {rest} \cup Items(below)
    BY <1>7, <1>11
  <2> HIDE DEF lower, V, rest, below, h
  <2>6. FindState(code, edges, visited', Items(lower), {NoSize, SizeAt(code, p)})
    BY <1>11, <2>2, <2>5
  <2>7. SomeFound(code, visited') /\ visited' \in SUBSET Blocks
    BY <1>6, <1>11, <2>3
  <2> QED
    BY <1>1, <1>2, <2>1, <2>4, <2>5, <2>6, <2>7, FindReturn
<1>12. CASE /\ p \notin visited /\ visited' = V /\ Body(code, p) = 0 /\ Preds(edges, p) # {}
            /\ stack' = <<call>> \o (<<rest>> \o below) /\ size' = size /\ answer' = answer
  <2>1. /\ stack' \in Seq(FindEntry) /\ stack' # <<>> /\ Head(stack') = call
        /\ Items(stack') = {call} \cup ({rest} \cup Items(below))
    <3> DEFINE lower == <<rest>> \o below
    <3>1. lower \in Seq(FindEntry) /\ call \in FindEntry /\ Items(lower) = {rest} \cup Items(below)
      BY <1>5, <1>7
    <3> HIDE DEF lower, call, FindEntry
    <3>2. /\ <<call>> \o lower \in Seq(FindEntry) /\ <<call>> \o lower # <<>>
          /\ Head(<<call>> \o lower) = call /\ Items(<<call>> \o lower) = {call} \cup Items(lower)
      BY <3>1, ItemsOf
    <3> QED
      BY <1>12, <3>1, <3>2 DEF lower
  <2>2. FindState(code, edges, V, Items(stack'), {NoSize})
    <3> HIDE DEF V, rest, below, h, call
    <3> QED
      BY <1>10, <1>12, <2>1
  <2>3. Head(stack').todo # {}
    BY <1>12, <2>1
  <2>4. FindWalking'
    <3> HIDE DEF V, rest, below, h, call
    <3> QED
      BY <1>1, <1>2, <1>12, <2>2, <2>3 DEF FindWalking
  <2>5. FindType'
    BY <1>1, <1>2, <1>6, <1>12, <2>1 DEF FindType
  <2> HIDE DEF V, rest, below, h, call
  <2> QED
    BY <1>1, <1>12, <2>1, <2>4, <2>5 DEF FindInv
<1>13. visited \in SUBSET Blocks
  BY <1>2 DEF FindType
<1> QED
  BY <1>1, <1>6, <1>8, <1>11, <1>12, <1>13, Zenon DEF Body, SizeAt

\* A call that has asked all its predecessors returns the size it was told.
LEMMA FindLeave == FindInv /\ Find!Leave => FindInv'
<1> DEFINE h == Head(stack)
           below == Tail(stack)
<1>1. SUFFICES ASSUME FindInv, answer = "none", stack # <<>>, h.todo = {},
                      code' = code, edges' = edges, use' = use, visited' = visited,
                      Told(h.defsize, below)
               PROVE  FindInv'
  BY TellIs, Zenon DEF Find!Leave, Find!program
<1>2. FindType /\ FindWalking
  BY <1>1 DEF FindInv
<1>3. /\ h \in FindEntry /\ below \in Seq(FindEntry)
      /\ Items(stack) = {h} \cup Items(below)
  <2>1. stack \in Seq(FindEntry)
    BY <1>2 DEF FindType
  <2> HIDE DEF FindEntry
  <2> QED
    BY <1>1, <2>1, ItemsOf
<1>4. FindState(code, edges, visited, {h} \cup Items(below), {NoSize})
  BY <1>2, <1>3 DEF FindWalking
<1>5. Covered(Asked(code, visited), visited \ {Here}, PredsOf(edges), Items(below))
  <2> HIDE DEF h, below
  <2> QED
    BY <1>1, <1>4, Returned DEF FindState
<1>6. FindState(code, edges, visited, Items(below), {NoSize, h.defsize})
  <2> HIDE DEF h, below
  <2> QED
    BY <1>4, <1>5 DEF FindState
<1>7. SomeFound(code, visited) /\ DefinitionBefore(code[Here], use) = 0
  BY <1>1, <1>2 DEF FindWalking
<1>8. h.defsize \in Nat /\ visited \in SUBSET Blocks
  BY <1>2, <1>3 DEF FindType, FindEntry
<1> HIDE DEF h, below
<1> QED
  BY <1>1, <1>2, <1>3, <1>6, <1>7, <1>8, FindReturn

-----------------------------------------------------------------------------
(* gather_uses.                                                              *)

\* What InOrder has after n of the order.
Collects(f, order, S) ==
  /\ f[0] = <<>>
  /\ \A n \in 0..(Len(order) - 1) :
       f[n + 1] = IF order[n + 1] \in S THEN Append(f[n], order[n + 1]) ELSE f[n]

\* The recursion of InOrder has a solution.
LEMMA InOrderIs ==
  ASSUME NEW X, NEW order \in Seq(X), NEW S
  PROVE  \E f : Collects(f, order, S) /\ InOrder(order, S) = f[Len(order)]
<1> DEFINE k == Len(order)
           F == [p \in Nat \X Seq(X) |->
                   IF p[1] + 1 \in 1..k /\ order[p[1] + 1] \in S
                   THEN Append(p[2], order[p[1] + 1]) ELSE p[2]]
           Eq(f) == f = [n \in 0..k |->
                           IF n = 0 THEN <<>>
                           ELSE IF order[n] \in S THEN Append(f[n - 1], order[n]) ELSE f[n - 1]]
<1>1. k \in Nat /\ <<>> \in Seq(X) /\ \A n \in 1..k : order[n] \in X
  OBVIOUS
<1>2. F \in [Nat \X Seq(X) -> Seq(X)]
  BY <1>1
<1>3. PICK f : /\ f \in [0..k -> Seq(X)] /\ f[0] = <<>>
               /\ \A n \in 0..(k - 1) : f[n + 1] = F[<<n, f[n]>>]
  <2> HIDE DEF F, k
  <2>1. PICK f : Unrolls(f, Seq(X), <<>>, F, k)
    BY <1>1, <1>2, Recursion
  <2> QED
    BY <2>1 DEF Unrolls
<1>4. Eq(f)
  <2>1. ASSUME NEW n \in 0..k, n # 0
        PROVE  f[n] = IF order[n] \in S THEN Append(f[n - 1], order[n]) ELSE f[n - 1]
    <3>1. /\ n - 1 \in 0..(k - 1) /\ n - 1 \in Nat /\ (n - 1) + 1 = n /\ n \in 1..k
          /\ f[n - 1] \in Seq(X)
      BY <1>1, <1>3, <2>1
    <3>2. f[(n - 1) + 1] = F[<<n - 1, f[n - 1]>>]
      BY <1>3, <3>1
    <3> QED
      BY <3>1, <3>2
  <2>2. f = [n \in 0..k |-> f[n]]
    BY <1>3
  <2> HIDE DEF F
  <2> QED
    BY <2>1, <1>3, <2>2
<1>5. PICK g : Eq(g) /\ InOrder(order, S) = g[k]
  <2> DEFINE c == CHOOSE g : Eq(g)
  <2>1. Eq(c)
    <3> HIDE DEF Eq
    <3> QED
      BY <1>4
  <2>2. InOrder(order, S) = c[k]
    BY DEF InOrder
  <2> QED
    BY <2>1, <2>2
<1>6. g[0] = <<>>
  BY <1>1, <1>5
<1>7. ASSUME NEW n \in 0..(k - 1)
      PROVE  g[n + 1] = IF order[n + 1] \in S THEN Append(g[n], order[n + 1]) ELSE g[n]
  <2>1. n + 1 \in 0..k /\ n + 1 # 0 /\ (n + 1) - 1 = n
    BY <1>1
  <2> QED
    BY <1>5, <2>1
<1>8. Collects(g, order, S)
  <2> HIDE DEF Eq, F
  <2> QED
    BY <1>6, <1>7 DEF Collects
<1> HIDE DEF Eq, F
<1> QED
  BY <1>5, <1>8

\* It collects members of the order, each once if the order has them once.
LEMMA CollectsOnce ==
  ASSUME NEW X, NEW order \in Seq(X), Distinct(order), NEW S, NEW f, Collects(f, order, S)
  PROVE  f[Len(order)] \in Seq(X) /\ Distinct(f[Len(order)])
<1> DEFINE k == Len(order)
           Good == {n \in 0..k : /\ f[n] \in Seq(X) /\ Distinct(f[n])
                                 /\ \A u \in Items(f[n]) : \E m \in 1..n : u = order[m]}
<1>0. k \in Nat
  OBVIOUS
<1>1. 0 \in Good
  <2>1. f[0] = <<>>
    BY DEF Collects
  <2>2. Distinct(<<>>) /\ Items(<<>>) = {} /\ <<>> \in Seq(X) /\ 0 \in 0..k
    BY <1>0, NoItems DEF Distinct
  <2> QED
    BY <2>1, <2>2
<1>2. ASSUME NEW n \in 0..(k - 1), n \in Good PROVE n + 1 \in Good
  <2>1. /\ n \in 0..k /\ n + 1 \in 0..k /\ n + 1 \in 1..k /\ n + 1 \notin 1..n
        /\ \A m \in 1..n : m \in 1..(n + 1) /\ m \in 1..k
        /\ n + 1 \in 1..(n + 1)
    BY <1>0
  <2>2. f[n] \in Seq(X) /\ order[n + 1] \in X
    BY <1>2, <2>1
  <2>3. f[n + 1] = IF order[n + 1] \in S THEN Append(f[n], order[n + 1]) ELSE f[n]
    BY DEF Collects
  <2>4. Distinct(f[n]) /\ \A u \in Items(f[n]) : \E m \in 1..n : u = order[m]
    BY <1>2
  <2>5. order[n + 1] \notin Items(f[n])
    BY <2>1, <2>4 DEF Distinct
  <2>6. CASE order[n + 1] \in S
    <3> DEFINE q == f[n]
               x == order[n + 1]
    <3>1. q \in Seq(X) /\ x \in X /\ Distinct(q) /\ x \notin Items(q)
      BY <2>2, <2>4, <2>5
    <3>2. f[n + 1] = Append(q, x)
      BY <2>3, <2>6
    <3> HIDE DEF q, x
    <3>3. Append(q, x) \in Seq(X) /\ Items(Append(q, x)) = Items(q) \cup {x} /\ Distinct(Append(q, x))
      BY <3>1, AppendedIs
    <3>4. /\ f[n + 1] \in Seq(X) /\ Distinct(f[n + 1])
          /\ Items(f[n + 1]) = Items(f[n]) \cup {order[n + 1]}
      BY <3>2, <3>3 DEF q, x
    <3>5. \A u \in Items(f[n + 1]) : \E m \in 1..(n + 1) : u = order[m]
      BY <2>1, <2>4, <3>4
    <3> QED
      BY <2>1, <3>4, <3>5
  <2>7. CASE order[n + 1] \notin S
    <3>1. f[n + 1] = f[n]
      BY <2>3, <2>7
    <3>2. \A u \in Items(f[n + 1]) : \E m \in 1..(n + 1) : u = order[m]
      BY <2>1, <2>4, <3>1
    <3> QED
      BY <2>1, <2>2, <2>4, <3>1, <3>2
  <2> QED
    BY <2>6, <2>7
<1>3. 0..k \subseteq Good
  <2> HIDE DEF Good, k
  <2> QED
    BY <1>0, <1>1, <1>2, IntervalInduction
<1>4. k \in 0..k
  BY <1>0
<1> QED
  BY <1>3, <1>4

\* The uses found in a block are positions of it, each once.
LEMMA UsesFromIs ==
  ASSUME NEW c \in Seq(Instructions), NEW dir, NEW pos
  PROVE  UsesFrom(c, dir, pos) \in Seq(1..Len(c)) /\ Distinct(UsesFrom(c, dir, pos))
<1> DEFINE k == Len(c)
           order == [n \in 1..k |-> IF dir THEN k + 1 - n ELSE n]
<1>1. k \in Nat
  OBVIOUS
<1>2. order \in Seq(1..k) /\ Distinct(order)
  <2>1. CASE dir
    BY <1>1, <2>1 DEF Distinct
  <2>2. CASE ~dir
    BY <1>1, <2>2 DEF Distinct
  <2> QED
    BY <2>1, <2>2
<1>3. UsesFrom(c, dir, pos) = InOrder(order, UsesAhead(c, dir, pos))
  BY DEF UsesFrom
<1> HIDE DEF order, k
<1>4. PICK f : /\ Collects(f, order, UsesAhead(c, dir, pos))
               /\ InOrder(order, UsesAhead(c, dir, pos)) = f[Len(order)]
  BY <1>2, InOrderIs
<1>5. f[Len(order)] \in Seq(1..k) /\ Distinct(f[Len(order)])
  BY <1>2, <1>4, CollectsOnce
<1> QED
  BY <1>3, <1>4, <1>5 DEF k

\* The smaller of two numbers.
LEMMA SmallerIs ==
  ASSUME NEW a \in Nat, NEW b \in Nat
  PROVE  /\ Min0({a, b}) \in Nat /\ Min0({a, b}) <= a /\ Min0({a, b}) <= b
         /\ Min0({a, b}) = a \/ Min0({a, b}) = b
<1>1. \E m \in {a, b} : \A n \in {a, b} : m <= n
  <2>1. a <= b \/ b <= a
    OBVIOUS
  <2> QED
    BY <2>1
<1>2. {a, b} # {}
  OBVIOUS
<1>3. Min0({a, b}) \in {a, b} /\ \A n \in {a, b} : Min0({a, b}) <= n
  BY <1>1, <1>2 DEF Min0
<1> QED
  BY <1>3

\* No use is in the vector twice but those of the block the walk starts in.
OnceBut(q) == \A m, n \in 1..Len(q) : m # n /\ q[m] = q[n] => q[m][1] = Here

\* What is appended of the uses found in a block: as many as there is room for.
LEMMA AppendedFit ==
  ASSUME NEW X, NEW q \in Seq(X), NEW f \in Seq(X), NEW room \in Nat
  PROVE  LET e == q \o SubSeq(f, 1, Min0({room, Len(f)}))
         IN  /\ e \in Seq(X) /\ Items(q) \subseteq Items(e) /\ Items(e) \subseteq Items(q) \cup Items(f)
             /\ Len(e) >= Len(q) /\ Len(e) <= Len(q) + room
             /\ Len(e) < Len(q) + room => Len(f) <= room /\ Items(e) = Items(q) \cup Items(f)
             /\ \A b : /\ OnceBut(q) /\ Distinct(f) /\ \A x \in Items(f) : x[1] = b
                       /\ b = Here \/ \A x \in Items(q) : x[1] # b
                       => OnceBut(e)
<1> DEFINE k == Min0({room, Len(f)})
           t == SubSeq(f, 1, k)
           e == q \o t
<1>1. k \in Nat /\ k <= room /\ k <= Len(f) /\ (k = room \/ k = Len(f))
  <2>1. Len(f) \in Nat
    OBVIOUS
  <2> QED
    BY <2>1, SmallerIs
<1> HIDE DEF k
<1>2. t \in Seq(X) /\ Len(t) = k /\ \A n \in 1..k : t[n] = f[n]
  BY <1>1
<1> HIDE DEF t
<1>3. /\ e \in Seq(X) /\ Len(e) = Len(q) + k /\ Len(q) \in Nat
      /\ \A n \in 1..Len(q) : e[n] = q[n]
      /\ \A n \in 1..k : e[Len(q) + n] = t[n]
  BY <1>1, <1>2
<1> HIDE DEF e
<1>4. ASSUME NEW n \in 1..Len(e)
      PROVE  n \in 1..Len(q) \/ (n - Len(q) \in 1..k /\ e[n] = f[n - Len(q)] /\ n - Len(q) \in 1..Len(f))
  <2>1. CASE n \in 1..Len(q)
    BY <2>1
  <2>2. CASE n \notin 1..Len(q)
    <3>1. n - Len(q) \in 1..k /\ n - Len(q) \in 1..Len(f) /\ Len(q) + (n - Len(q)) = n
      BY <1>1, <1>3, <2>2
    <3> QED
      BY <1>2, <1>3, <3>1
  <2> QED
    BY <2>1, <2>2
<1>5. Items(q) \subseteq Items(e)
  <2>1. ASSUME NEW n \in 1..Len(q) PROVE q[n] \in Items(e)
    <3>1. n \in 1..Len(e) /\ q[n] = e[n]
      BY <1>1, <1>3
    <3> QED
      BY <3>1 DEF Items
  <2> QED
    BY <2>1 DEF Items
<1>6. Items(e) \subseteq Items(q) \cup Items(f)
  <2>1. ASSUME NEW n \in 1..Len(e) PROVE e[n] \in Items(q) \cup Items(f)
    <3>1. CASE n \in 1..Len(q)
      BY <1>3, <3>1 DEF Items
    <3>2. CASE n \notin 1..Len(q)
      BY <1>4, <3>2 DEF Items
    <3> QED
      BY <3>1, <3>2
  <2> QED
    BY <2>1 DEF Items
<1>7. ASSUME Len(e) < Len(q) + room
      PROVE  Len(f) <= room /\ Items(e) = Items(q) \cup Items(f)
  <2>1. k = Len(f)
    BY <1>1, <1>3, <1>7
  <2>2. ASSUME NEW n \in 1..Len(f) PROVE f[n] \in Items(e)
    <3>1. Len(q) + n \in 1..Len(e) /\ e[Len(q) + n] = f[n]
      BY <1>1, <1>2, <1>3, <2>1
    <3> QED
      BY <3>1 DEF Items
  <2>3. Items(f) \subseteq Items(e)
    BY <2>2 DEF Items
  <2> QED
    BY <1>1, <1>5, <1>6, <2>1, <2>3
<1>8. ASSUME NEW b, OnceBut(q), Distinct(f), \A x \in Items(f) : x[1] = b,
             b = Here \/ \A x \in Items(q) : x[1] # b
      PROVE  OnceBut(e)
  <2>1. SUFFICES ASSUME NEW m \in 1..Len(e), NEW n \in 1..Len(e), m # n, e[m] = e[n], e[m][1] # Here
                 PROVE  FALSE
    BY DEF OnceBut
  <2>2. \A j \in 1..Len(f) : f[j][1] = b
    BY <1>8 DEF Items
  <2>3. \A j \in 1..Len(q) : b = Here \/ q[j][1] # b
    BY <1>8 DEF Items
  <2>4. CASE m \in 1..Len(q) /\ n \in 1..Len(q)
    BY <1>3, <1>8, <2>1, <2>4 DEF OnceBut
  <2>5. CASE m \in 1..Len(q) /\ n \notin 1..Len(q)
    BY <1>3, <1>4, <2>1, <2>2, <2>3, <2>5
  <2>6. CASE m \notin 1..Len(q) /\ n \in 1..Len(q)
    BY <1>3, <1>4, <2>1, <2>2, <2>3, <2>6
  <2>7. CASE m \notin 1..Len(q) /\ n \notin 1..Len(q)
    <3>1. /\ m - Len(q) \in 1..Len(f) /\ n - Len(q) \in 1..Len(f)
          /\ f[m - Len(q)] = f[n - Len(q)]
      BY <1>4, <2>1, <2>7
    <3>2. m - Len(q) = n - Len(q)
      BY <1>8, <3>1 DEF Distinct
    <3> QED
      BY <1>3, <2>1, <3>2
  <2> QED
    BY <2>4, <2>5, <2>6, <2>7
<1>9. Len(e) >= Len(q) /\ Len(e) <= Len(q) + room
  BY <1>1, <1>3
<1> QED
  BY <1>3, <1>5, <1>6, <1>7, <1>8, <1>9 DEF e, t, k

\* The neighbours in the direction of the walk.
Nbrs(e, dir, b) == IF dir THEN Preds(e, b) ELSE Succs(e, b)
NbrsOf(e, dir) == [b \in Blocks |-> Nbrs(e, dir, b)]

\* The uses in a block from a position on, and whether the walk goes on there.
UsesAt(c, dir, b, pos) ==
  LET at == UsesFrom(c[b], dir, pos) IN [n \in 1..Len(at) |-> <<b, at[n]>>]
\* Whether the walk goes on behind a block, and to where.
Onward(c, dir, b, pos) == pos = 0 \/ UsesEnd(c[b], dir, pos) # 0
PastOf(c, e, dir, b, pos) == IF Onward(c, dir, b, pos) THEN Nbrs(e, dir, b) ELSE {}

\* The blocks that lie behind redefinitions.
StepsPast(c, e, dir) == [b \in Blocks |-> PastOf(c, e, dir, b, HeadOf(c[b]))]
Behind(c, e, dir, st) == Closure(PastOf(c, e, dir, Here, st), StepsPast(c, e, dir))

\* The uses of the first block and of the blocks V.
Had(c, dir, st, V) ==
  (IF st = 0 THEN {} ELSE Items(UsesAt(c, dir, Here, st))) \cup UNION {Items(UsesAt(c, dir, b, 1)) : b \in V}

\* The blocks the walk goes on from.
Going(c, dir, st, V) ==
  {b \in V : Onward(c, dir, b, HeadOf(c[b]))} \cup (IF Onward(c, dir, Here, st) THEN {Here} ELSE {})

\* An open call, and the places a use can have.
UseEntry == [blk : Blocks, todo : SUBSET Blocks]
Positions == Blocks \X (Nat \ {0})

\* The operators of the instance are those of Flow.
LEMMA CollectSame ==
  /\ \A dir, e, b : (IF dir THEN Collect!Preds(e, b) ELSE Collect!Succs(e, b)) = Nbrs(e, dir, b)
  /\ \A c, dir, pos : Collect!UsesFrom(c, dir, pos) = UsesFrom(c, dir, pos)
  /\ \A c, dir, pos : Collect!UsesEnd(c, dir, pos) = UsesEnd(c, dir, pos)
  /\ \A c : Collect!HeadOf(c) = HeadOf(c)
  /\ \A S : Collect!Min0(S) = Min0(S)
  /\ \A from, step : Collect!Closure(from, step) = Closure(from, step)
<1>1. \A dir, e, b : (IF dir THEN Collect!Preds(e, b) ELSE Collect!Succs(e, b)) = Nbrs(e, dir, b)
  BY DEF Collect!Preds, Collect!Succs, Preds, Succs, Nbrs
<1>2. \A c, dir, pos : Collect!UsesEnd(c, dir, pos) = UsesEnd(c, dir, pos)
  BY DEF Collect!UsesEnd, UsesEnd, Collect!DefinitionBefore, DefinitionBefore, Collect!Max0, Max0,
         Collect!Min0, Min0, Collect!Defines, Defines, Collect!Uses, Uses
<1>3. \A c, dir, pos : Collect!UsesAhead(c, dir, pos) = UsesAhead(c, dir, pos)
  BY <1>2 DEF Collect!UsesAhead, UsesAhead, Collect!Uses, Uses
<1>4. \A order, S : Collect!InOrder(order, S) = InOrder(order, S)
  BY DEF Collect!InOrder, InOrder
<1>5. \A c, dir, pos : Collect!UsesFrom(c, dir, pos) = UsesFrom(c, dir, pos)
  BY <1>3, <1>4 DEF Collect!UsesFrom, UsesFrom
<1>6. \A c : Collect!HeadOf(c) = HeadOf(c)
  BY DEF Collect!HeadOf, HeadOf
<1>7. \A S : Collect!Min0(S) = Min0(S)
  BY DEF Collect!Min0, Min0
<1>8. \A from, step : Collect!Closure(from, step) = Closure(from, step)
  BY DEF Collect!Closure, Closure, Collect!Closed, Closed
<1> QED
  BY <1>1, <1>2, <1>5, <1>6, <1>7, <1>8

\* The uses in a block are there once each, and none is in an empty block.
LEMMA UsesAtIs ==
  ASSUME NEW c \in [Blocks -> UseCodes], NEW b \in Blocks, NEW dir, NEW pos
  PROVE  /\ UsesAt(c, dir, b, pos) \in Seq(Positions) /\ Distinct(UsesAt(c, dir, b, pos))
         /\ \A x \in Items(UsesAt(c, dir, b, pos)) : x[1] = b
         /\ Len(UsesAt(c, dir, b, pos)) = Len(UsesFrom(c[b], dir, pos))
         /\ \A n \in 1..Len(UsesFrom(c[b], dir, pos)) :
              UsesAt(c, dir, b, pos)[n] = <<b, UsesFrom(c[b], dir, pos)[n]>>
         /\ HeadOf(c[b]) = 0 => Items(UsesAt(c, dir, b, pos)) = {}
<1> DEFINE at == UsesFrom(c[b], dir, pos)
           f == UsesAt(c, dir, b, pos)
<1>1. c[b] \in Seq(Instructions)
  BY CodesAssumption DEF Instructions
<1>2. at \in Seq(1..Len(c[b])) /\ Distinct(at) /\ Len(c[b]) \in Nat
  BY <1>1, UsesFromIs
<1>3. f = [n \in 1..Len(at) |-> <<b, at[n]>>]
  BY DEF UsesAt
<1> HIDE DEF at, f
<1>4. Len(at) \in Nat /\ \A n \in 1..Len(at) : at[n] \in 1..Len(c[b]) /\ at[n] \in Nat \ {0}
  BY <1>2
<1>5. f \in Seq(Positions) /\ Len(f) = Len(at) /\ \A n \in 1..Len(at) : f[n] = <<b, at[n]>>
  BY <1>3, <1>4 DEF Positions
<1>6. Distinct(f)
  BY <1>2, <1>5 DEF Distinct
<1>7. \A x \in Items(f) : x[1] = b
  BY <1>5 DEF Items
<1>8. ASSUME HeadOf(c[b]) = 0 PROVE Items(f) = {}
  <2>1. Len(c[b]) = 0
    BY <1>1, <1>8 DEF HeadOf
  <2>2. Len(at) = 0
    BY <1>4, <2>1
  <2> QED
    BY <1>5, <2>2 DEF Items
<1> QED
  BY <1>5, <1>6, <1>7, <1>8 DEF at, f

\* What lies behind is closed under going on.
LEMMA BehindIs ==
  ASSUME NEW c, NEW e, NEW dir, NEW st
  PROVE  /\ Behind(c, e, dir, st) \in SUBSET Blocks
         /\ PastOf(c, e, dir, Here, st) \subseteq Behind(c, e, dir, st)
         /\ \A b \in Behind(c, e, dir, st) : PastOf(c, e, dir, b, HeadOf(c[b])) \subseteq Behind(c, e, dir, st)
         /\ \A V \in SUBSET Blocks :
              /\ PastOf(c, e, dir, Here, st) \subseteq V
              /\ \A b \in V : PastOf(c, e, dir, b, HeadOf(c[b])) \subseteq V
              => Behind(c, e, dir, st) \subseteq V
<1> DEFINE from == PastOf(c, e, dir, Here, st)
           B == Behind(c, e, dir, st)
<1>1. from \in SUBSET Blocks /\ StepsPast(c, e, dir) \in [Blocks -> SUBSET Blocks]
  BY DEF PastOf, StepsPast, Nbrs, Preds, Succs
<1>2. /\ B \in SUBSET Blocks /\ from \subseteq B
      /\ \A b \in B : StepsPast(c, e, dir)[b] \subseteq B
      /\ \A V \in SUBSET Blocks : Closed(V, from, StepsPast(c, e, dir)) => B \subseteq V
  <2> HIDE DEF from
  <2> QED
    BY <1>1, ClosureIs DEF Behind, from
<1>3. \A b \in Blocks : StepsPast(c, e, dir)[b] = PastOf(c, e, dir, b, HeadOf(c[b]))
  BY DEF StepsPast
<1>4. ASSUME NEW V \in SUBSET Blocks, from \subseteq V,
             \A b \in V : PastOf(c, e, dir, b, HeadOf(c[b])) \subseteq V
      PROVE  B \subseteq V
  <2>1. \A b \in V : StepsPast(c, e, dir)[b] \subseteq V
    BY <1>3, <1>4
  <2> HIDE DEF B, from
  <2> QED
    BY <1>2, <1>4, <2>1 DEF Closed
<1>5. \A b \in B : PastOf(c, e, dir, b, HeadOf(c[b])) \subseteq B
  <2> HIDE DEF B
  <2> QED
    BY <1>2, <1>3
<1> QED
  BY <1>2, <1>4, <1>5

\* What is gathered is what is behind.
LEMMA GatheredIs ==
  ASSUME NEW c \in [Blocks -> UseCodes], NEW e, NEW dir, NEW st
  PROVE  Collect!GatheredUses(c, e, dir, Here, st) = Had(c, dir, st, Behind(c, e, dir, st))
<1> DEFINE FoundIn(b, pos) == LET at == Collect!UsesFrom(c[b], dir, pos)
                              IN {<<b, at[n]>> : n \in 1..Len(at)}
           Past(b, pos) == IF pos = 0 \/ Collect!UsesEnd(c[b], dir, pos) # 0
                           THEN IF dir THEN Collect!Preds(e, b) ELSE Collect!Succs(e, b)
                           ELSE {}
           step == [b \in Blocks |-> Past(b, Collect!HeadOf(c[b]))]
<1>1. Collect!GatheredUses(c, e, dir, Here, st) =
        (IF st = 0 THEN {} ELSE FoundIn(Here, st)) \cup
           UNION {FoundIn(b, 1) : b \in Collect!Closure(Past(Here, st), step)}
  BY DEF Collect!GatheredUses
<1>2. ASSUME NEW b \in Blocks, NEW pos PROVE FoundIn(b, pos) = Items(UsesAt(c, dir, b, pos))
  <2> DEFINE at == UsesFrom(c[b], dir, pos)
             f == UsesAt(c, dir, b, pos)
  <2>1. Len(f) = Len(at) /\ \A n \in 1..Len(at) : f[n] = <<b, at[n]>>
    BY UsesAtIs
  <2>2. FoundIn(b, pos) = {<<b, at[n]>> : n \in 1..Len(at)}
    BY CollectSame
  <2> HIDE DEF at, f
  <2>3. Items(f) = {<<b, at[n]>> : n \in 1..Len(at)}
    BY <2>1 DEF Items
  <2> QED
    BY <2>2, <2>3 DEF f
<1>3. \A b, pos : Past(b, pos) = PastOf(c, e, dir, b, pos)
  BY CollectSame DEF PastOf, Onward
<1>4. step = StepsPast(c, e, dir)
  BY <1>3, CollectSame DEF StepsPast
<1>5. Collect!Closure(Past(Here, st), step) = Behind(c, e, dir, st)
  <2> HIDE DEF Past, step
  <2> QED
    BY <1>3, <1>4, CollectSame DEF Behind
<1>6. Here \in Blocks /\ Behind(c, e, dir, st) \in SUBSET Blocks
  BY HereThere, BehindIs DEF Here_There
<1>7. UNION {FoundIn(b, 1) : b \in Behind(c, e, dir, st)} =
        UNION {Items(UsesAt(c, dir, b, 1)) : b \in Behind(c, e, dir, st)}
  <2> HIDE DEF FoundIn
  <2> QED
    BY <1>2, <1>6
<1> HIDE DEF FoundIn, Past, step
<1> QED
  BY <1>1, <1>2, <1>5, <1>6, <1>7 DEF Had

\* The types of this walk's variables.
CollectType ==
  /\ code \in [Blocks -> UseCodes] /\ cap \in Nat \ {0} /\ start \in Nat
  /\ visited \in SUBSET Blocks
  /\ stack \in Seq(UseEntry)
  /\ uses \in Seq(Positions)
  /\ answer \in {"none", "true"}

\* What holds with the blocks V visited and some calls open: all that is in the
\* vector comes from them, and while it has room, all that they have is in it,
\* and each neighbour of those gone on from is behind the walk or before it.
CollectState(c, e, dir, st, k, V, us, calls) ==
  /\ V \subseteq Behind(c, e, dir, st)
  /\ \A call \in calls : call.todo \subseteq Behind(c, e, dir, st)
  /\ Items(us) \subseteq Had(c, dir, st, V) /\ OnceBut(us) /\ Len(us) + 1 <= k
  /\ Len(us) + 1 < k =>
       /\ Had(c, dir, st, V) \subseteq Items(us)
       /\ Covered(Going(c, dir, st, V), V, NbrsOf(e, dir), calls)

\* What has to be in the vector at the end: all that is behind, if it had room.
CollectRight(c, e, dir, st, k, us) ==
  /\ Items(us) \subseteq Had(c, dir, st, Behind(c, e, dir, st)) /\ OnceBut(us)
  /\ Len(us) + 1 < k => Items(us) = Had(c, dir, st, Behind(c, e, dir, st))

\* Before the walk the vector is empty; then the two above.
CollectInv ==
  /\ CollectType
  /\ answer = "none" /\ stack = <<>> => uses = <<>>
  /\ answer = "none" /\ stack # <<>> =>
       CollectState(code, edges, prior, start, cap, visited, uses, Items(stack))
  /\ answer = "true" => CollectRight(code, edges, prior, start, cap, uses)

\* A walk not yet begun, with an empty vector.
LEMMA CollectInit == Collect!Init => CollectInv
<1>1. SUFFICES ASSUME code \in [Blocks -> UseCodes], cap \in UseSizes, start \in 0..Len(code[Here]),
                      stack = <<>>, visited \in LeftOver, uses = <<>>, answer = "none"
               PROVE  CollectInv
  BY DEF Collect!Init
<1>2. start \in Nat
  <2>1. code[Here] \in Seq(Instructions)
    BY <1>1, HereThere, CodesAssumption DEF Here_There, Instructions
  <2> QED
    BY <1>1, <2>1
<1>3. CollectType
  BY <1>1, <1>2, PoolsAssumption, SizesAssumption DEF CollectType
<1> QED
  BY <1>1, <1>3 DEF CollectInv

\* Once no call is open, all that is behind has been visited.
LEMMA CollectEnd ==
  ASSUME NEW c, NEW e, NEW dir, NEW st, NEW k, NEW V \in SUBSET Blocks, NEW us,
         CollectState(c, e, dir, st, k, V, us, {})
  PROVE  CollectRight(c, e, dir, st, k, us)
<1> DEFINE B == Behind(c, e, dir, st)
<1>1. V \subseteq B /\ Items(us) \subseteq Had(c, dir, st, V) /\ OnceBut(us)
  BY DEF CollectState
<1>2. Had(c, dir, st, V) \subseteq Had(c, dir, st, B)
  <2> HIDE DEF B
  <2> QED
    BY <1>1 DEF Had
<1>3. ASSUME Len(us) + 1 < k PROVE Items(us) = Had(c, dir, st, B)
  <2>1. /\ Had(c, dir, st, V) \subseteq Items(us)
        /\ \A b \in Going(c, dir, st, V) : NbrsOf(e, dir)[b] \subseteq V
    BY <1>3 DEF CollectState, Covered
  <2>2. \A b \in Going(c, dir, st, V) : Nbrs(e, dir, b) \subseteq V
    <3>1. Going(c, dir, st, V) \subseteq Blocks
      BY HereThere DEF Going, Here_There
    <3> QED
      BY <2>1, <3>1 DEF NbrsOf
  <2>3. PastOf(c, e, dir, Here, st) \subseteq V
    BY <2>2 DEF PastOf, Going
  <2>4. \A b \in V : PastOf(c, e, dir, b, HeadOf(c[b])) \subseteq V
    BY <2>2 DEF PastOf, Going
  <2>5. B = V
    BY <1>1, <2>3, <2>4, BehindIs
  <2> QED
    BY <1>1, <2>1, <2>5
<1> QED
  BY <1>1, <1>2, <1>3 DEF CollectRight

\* A call on block b from position pos: what it takes, and where it goes on.
Entered(b, pos, below) ==
  \/ /\ pos = 0 /\ uses' = uses /\ answer' = answer
     /\ stack' = <<[blk |-> b, todo |-> Nbrs(edges, prior, b)]>> \o below
  \/ /\ pos # 0
     /\ uses' = uses \o SubSeq(UsesAt(code, prior, b, pos), 1,
                               Min0({cap - 1 - Len(uses), Len(UsesAt(code, prior, b, pos))}))
     /\ \/ /\ Len(UsesAt(code, prior, b, pos)) <= cap - 1 - Len(uses)
           /\ UsesEnd(code[b], prior, pos) # 0 /\ answer' = answer
           /\ stack' = <<[blk |-> b, todo |-> Nbrs(edges, prior, b)]>> \o below
        \/ /\ ~(/\ Len(UsesAt(code, prior, b, pos)) <= cap - 1 - Len(uses)
                /\ UsesEnd(code[b], prior, pos) # 0)
           /\ stack' = below
           /\ answer' = IF below = <<>> THEN "true" ELSE answer

\* That is what Enter does.
LEMMA EnteredIs == \A b, pos, below : Collect!Enter(b, pos, below) => Entered(b, pos, below)
<1> TAKE b, pos, below
<1>1. Collect!Found(b, pos) = UsesAt(code, prior, b, pos)
  BY CollectSame DEF Collect!Found, UsesAt
<1>2. Collect!Fitting(Collect!Found(b, pos)) =
        SubSeq(UsesAt(code, prior, b, pos), 1,
               Min0({cap - 1 - Len(uses), Len(UsesAt(code, prior, b, pos))}))
  BY <1>1, CollectSame DEF Collect!Fitting, Collect!Room
<1>3. Collect!Open(b) = [blk |-> b, todo |-> Nbrs(edges, prior, b)]
  BY CollectSame DEF Collect!Open, Collect!Neighbours
<1>4. Collect!GoesOn(b, pos) <=>
        /\ Len(UsesAt(code, prior, b, pos)) <= cap - 1 - Len(uses)
        /\ UsesEnd(code[b], prior, pos) # 0
  BY <1>1, CollectSame DEF Collect!GoesOn, Collect!Room, Collect!Ended
<1> QED
  BY <1>2, <1>3, <1>4, Zenon DEF Collect!Enter, Entered

\* What is so when it begins, the blocks visited before it having given `had` and
\* the walk going on from `from` of them.
Entering(b, pos, below, had, from) ==
  /\ CollectType /\ answer = "none"
  /\ code' = code /\ edges' = edges /\ cap' = cap /\ prior' = prior /\ start' = start
  /\ visited' \in SUBSET Blocks
  /\ b \in Blocks /\ pos \in Nat /\ below \in Seq(UseEntry)
  /\ visited' \subseteq Behind(code, edges, prior, start)
  /\ \A call \in Items(below) : call.todo \subseteq Behind(code, edges, prior, start)
  /\ Onward(code, prior, b, pos) => Nbrs(edges, prior, b) \subseteq Behind(code, edges, prior, start)
  /\ Had(code, prior, start, visited') =
       had \cup (IF pos = 0 THEN {} ELSE Items(UsesAt(code, prior, b, pos)))
  /\ Items(uses) \subseteq had /\ OnceBut(uses) /\ Len(uses) + 1 <= cap
  /\ b = Here \/ \A x \in Items(uses) : x[1] # b
  /\ Going(code, prior, start, visited') \subseteq
       from \cup (IF Onward(code, prior, b, pos) THEN {b} ELSE {})
  /\ Len(uses) + 1 < cap =>
       had \subseteq Items(uses) /\ Covered(from, visited', NbrsOf(edges, prior), Items(below))

\* A call leaves the walk as it should be, whether it goes on or returns.
LEMMA CollectEntered ==
  ASSUME NEW b, NEW pos, NEW below, NEW had, NEW from,
         Entering(b, pos, below, had, from), Entered(b, pos, below)
  PROVE  CollectInv'
<1> DEFINE f == UsesAt(code, prior, b, pos)
           room == cap - 1 - Len(uses)
           call == [blk |-> b, todo |-> Nbrs(edges, prior, b)]
           B == Behind(code, edges, prior, start)
           all == Had(code, prior, start, visited')
<1> USE DEF Entering
<1>1. /\ code \in [Blocks -> UseCodes] /\ cap \in Nat \ {0} /\ uses \in Seq(Positions)
      /\ room \in Nat /\ Len(uses) \in Nat
  <2>1. code \in [Blocks -> UseCodes] /\ cap \in Nat \ {0} /\ uses \in Seq(Positions) /\ Len(uses) \in Nat
    BY DEF CollectType
  <2> QED
    BY <2>1
<1>2. /\ f \in Seq(Positions) /\ Distinct(f) /\ \A x \in Items(f) : x[1] = b
  BY <1>1, UsesAtIs
<1>3. /\ uses' \in Seq(Positions) /\ Items(uses') \subseteq all /\ OnceBut(uses') /\ Len(uses') + 1 <= cap
      /\ Len(uses') + 1 < cap => /\ Len(uses) + 1 < cap /\ all \subseteq Items(uses')
                                 /\ pos # 0 => Len(f) <= room
  <2>1. CASE pos = 0
    <3>1. uses' = uses /\ all = had
      BY <2>1 DEF Entered
    <3> QED
      BY <1>1, <2>1, <3>1
  <2>2. CASE pos # 0
    <3> DEFINE e == uses \o SubSeq(f, 1, Min0({room, Len(f)}))
    <3>1. uses' = e /\ all = had \cup Items(f)
      BY <2>2 DEF Entered
    <3> HIDE DEF f, room, all
    <3>2. /\ e \in Seq(Positions) /\ Items(e) \subseteq Items(uses) \cup Items(f)
          /\ Len(e) >= Len(uses) /\ Len(e) <= Len(uses) + room
          /\ Len(e) < Len(uses) + room => Len(f) <= room /\ Items(e) = Items(uses) \cup Items(f)
          /\ \A bb : /\ OnceBut(uses) /\ Distinct(f) /\ \A x \in Items(f) : x[1] = bb
                     /\ bb = Here \/ \A x \in Items(uses) : x[1] # bb
                     => OnceBut(e)
      BY <1>1, <1>2, AppendedFit
    <3>3. OnceBut(e)
      <4> HIDE DEF e
      <4> QED
        BY <1>2, <3>2
    <3>4. Len(e) \in Nat
      BY <3>2
    <3> HIDE DEF e
    <3>5. Len(e) + 1 <= cap /\ (Len(e) + 1 < cap => Len(e) < Len(uses) + room /\ Len(uses) + 1 < cap)
      BY <1>1, <3>2, <3>4 DEF room
    <3> QED
      BY <3>1, <3>2, <3>3, <3>5
  <2> QED
    BY <2>1, <2>2
<1> HIDE DEF room, all
<1>4. CASE stack' = <<call>> \o below /\ answer' = answer /\ (pos = 0 \/ UsesEnd(code[b], prior, pos) # 0)
  <2>1. Onward(code, prior, b, pos) /\ call \in UseEntry
    BY <1>4 DEF Onward, UseEntry, Nbrs, Preds, Succs
  <2>2. stack' \in Seq(UseEntry) /\ stack' # <<>> /\ Items(stack') = {call} \cup Items(below)
    <3> HIDE DEF call, UseEntry
    <3> QED
      BY <1>4, <2>1, ItemsOf
  <2>3. \A k \in {call} \cup Items(below) : k.todo \subseteq B
    BY <2>1
  <2>4. ASSUME Len(uses') + 1 < cap
        PROVE  Covered(Going(code, prior, start, visited'), visited', NbrsOf(edges, prior),
                       {call} \cup Items(below))
    <3>1. Covered(from, visited', NbrsOf(edges, prior), Items(below))
      BY <1>3, <2>4
    <3>2. call.blk = b /\ call.todo = NbrsOf(edges, prior)[call.blk]
      BY DEF NbrsOf
    <3> HIDE DEF call
    <3>3. Covered(from \cup {call.blk}, visited', NbrsOf(edges, prior), {call} \cup Items(below))
      BY <3>1, <3>2, Opened
    <3>4. Going(code, prior, start, visited') \subseteq from \cup {call.blk}
      BY <2>1, <3>2
    <3> QED
      BY <3>3, <3>4, CoversLess
  <2>5. CollectState(code, edges, prior, start, cap, visited', uses', Items(stack'))
    <3> HIDE DEF call
    <3> QED
      BY <1>3, <2>2, <2>3, <2>4, Zenon DEF CollectState, all
  <2>6. CollectType'
    BY <1>1, <1>3, <1>4, <2>2 DEF CollectType
  <2> HIDE DEF call
  <2> QED
    BY <1>4, <2>2, <2>5, <2>6 DEF CollectInv
<1>5. CASE /\ pos # 0 /\ ~(Len(f) <= room /\ UsesEnd(code[b], prior, pos) # 0)
           /\ stack' = below /\ answer' = IF below = <<>> THEN "true" ELSE answer
  <2>1. ASSUME Len(uses') + 1 < cap
        PROVE  Covered(Going(code, prior, start, visited'), visited', NbrsOf(edges, prior), Items(below))
    <3>1. ~Onward(code, prior, b, pos)
      BY <1>3, <1>5, <2>1 DEF Onward
    <3>2. Covered(from, visited', NbrsOf(edges, prior), Items(below))
      BY <1>3, <2>1
    <3>3. Going(code, prior, start, visited') \subseteq from
      BY <3>1
    <3> QED
      BY <3>2, <3>3, CoversLess
  <2>2. CollectState(code, edges, prior, start, cap, visited', uses', Items(below))
    BY <1>3, <2>1, Zenon DEF CollectState, all
  <2>3. CollectType'
    BY <1>1, <1>3, <1>5 DEF CollectType
  <2>4. CASE below # <<>>
    BY <1>5, <2>2, <2>3, <2>4 DEF CollectInv
  <2>5. CASE below = <<>>
    <3>1. CollectState(code, edges, prior, start, cap, visited', uses', {})
      BY <2>2, <2>5, NoItems
    <3>2. CollectRight(code, edges, prior, start, cap, uses')
      BY <3>1, CollectEnd
    <3> QED
      BY <1>5, <2>3, <2>5, <3>2 DEF CollectInv
  <2> QED
    BY <2>4, <2>5
<1> QED
  BY <1>4, <1>5, Zenon DEF Entered, room

\* The block the walk starts in, which is not marked.
LEMMA CollectBegin == CollectInv /\ Collect!Begin => CollectInv'
<1>1. SUFFICES ASSUME CollectInv, answer = "none", stack = <<>>, visited' = {},
                      Entered(Here, start, <<>>),
                      code' = code, edges' = edges, cap' = cap, prior' = prior, start' = start
               PROVE  CollectInv'
  BY EnteredIs, Zenon DEF Collect!Begin, Collect!program
<1>2. CollectType /\ uses = <<>>
  BY <1>1 DEF CollectInv
<1>3. /\ Here \in Blocks /\ start \in Nat /\ cap \in Nat \ {0} /\ visited' \in SUBSET Blocks
      /\ visited' \subseteq Behind(code, edges, prior, start)
  BY <1>1, <1>2, HereThere DEF CollectType, Here_There
<1>4. Onward(code, prior, Here, start) => Nbrs(edges, prior, Here) \subseteq Behind(code, edges, prior, start)
  BY BehindIs DEF PastOf
<1>5. Had(code, prior, start, visited') =
        {} \cup (IF start = 0 THEN {} ELSE Items(UsesAt(code, prior, Here, start)))
  BY <1>1 DEF Had
<1>6. Going(code, prior, start, visited') \subseteq
        {} \cup (IF Onward(code, prior, Here, start) THEN {Here} ELSE {})
  BY <1>1 DEF Going
<1>7. /\ Items(uses) \subseteq {} /\ OnceBut(uses) /\ Len(uses) + 1 <= cap
      /\ Covered({}, visited', NbrsOf(edges, prior), Items(<<>>))
  BY <1>2, <1>3, NoItems DEF OnceBut, Covered
<1> DEFINE none == <<>>
<1>8. none \in Seq(UseEntry) /\ (\A call \in Items(none) : call.todo \subseteq Behind(code, edges, prior, start))
  BY NoItems
<1>9. Entered(Here, start, none) /\ Covered({}, visited', NbrsOf(edges, prior), Items(none))
  BY <1>1, <1>7
<1> HIDE DEF none
<1>10. Entering(Here, start, none, {}, {})
  BY <1>1, <1>2, <1>3, <1>4, <1>5, <1>6, <1>7, <1>8, <1>9 DEF Entering
<1> QED
  BY <1>9, <1>10, CollectEntered

\* A neighbour is skipped, or marked and looked at from its head.
LEMMA CollectVisit == CollectInv /\ Collect!Visit => CollectInv'
<1> DEFINE h == Head(stack)
           below == Tail(stack)
           B == Behind(code, edges, prior, start)
<1>1. SUFFICES ASSUME CollectInv, answer = "none", stack # <<>>,
                      code' = code, edges' = edges, cap' = cap, prior' = prior, start' = start,
                      NEW s \in h.todo,
                      \/ /\ s \in visited
                         /\ stack' = <<[h EXCEPT !.todo = @ \ {s}]>> \o below
                         /\ visited' = visited /\ uses' = uses /\ answer' = answer
                      \/ /\ s \notin visited /\ visited' = visited \cup {s}
                         /\ Entered(s, HeadOf(code[s]), <<[h EXCEPT !.todo = @ \ {s}]>> \o below)
               PROVE  CollectInv'
  BY CollectSame, EnteredIs, Zenon DEF Collect!Visit, Collect!program, Collect!Marked
<1> DEFINE rest == [h EXCEPT !.todo = @ \ {s}]
           lower == <<rest>> \o below
<1>2. CollectType /\ CollectState(code, edges, prior, start, cap, visited, uses, Items(stack))
  BY <1>1 DEF CollectInv
<1>3. /\ h \in UseEntry /\ below \in Seq(UseEntry)
      /\ Items(stack) = {h} \cup Items(below)
  <2>1. stack \in Seq(UseEntry)
    BY <1>2 DEF CollectType
  <2> QED
    BY <1>1, <2>1, ItemsOf
<1>4. rest \in UseEntry /\ rest.blk = h.blk /\ rest.todo = h.todo \ {s} /\ s \in Blocks
  BY <1>1, <1>3 DEF UseEntry
<1>5. lower \in Seq(UseEntry) /\ lower # <<>> /\ Items(lower) = {rest} \cup Items(below)
  <2> HIDE DEF rest, below
  <2> QED
    BY <1>3, <1>4, ItemsOf
<1>6. s \in B /\ \A call \in Items(lower) : call.todo \subseteq B
  BY <1>1, <1>2, <1>3, <1>4, <1>5 DEF CollectState
<1>7. ASSUME NEW seen, visited \subseteq seen, s \in seen, Len(uses) + 1 < cap
      PROVE  Covered(Going(code, prior, start, visited), seen, NbrsOf(edges, prior), Items(lower))
  <2>1. Covered(Going(code, prior, start, visited), visited, NbrsOf(edges, prior), {h} \cup Items(below))
    BY <1>2, <1>3, <1>7 DEF CollectState
  <2>2. Covered(Going(code, prior, start, visited), seen, NbrsOf(edges, prior), {h} \cup Items(below))
    <3> HIDE DEF h, below
    <3> QED
      BY <1>7, <2>1, CoversLess
  <2>3. Covered(Going(code, prior, start, visited), seen, NbrsOf(edges, prior), {rest} \cup Items(below))
    <3> HIDE DEF h, rest, below
    <3> QED
      BY <1>4, <1>7, <2>2, StruckOff
  <2> QED
    BY <1>5, <2>3
<1>8. CASE s \in visited /\ stack' = lower /\ visited' = visited /\ uses' = uses /\ answer' = answer
  <2>1. CollectState(code, edges, prior, start, cap, visited, uses, Items(lower))
    <3>1. Len(uses) + 1 < cap =>
            Covered(Going(code, prior, start, visited), visited, NbrsOf(edges, prior), Items(lower))
      BY <1>7, <1>8
    <3> HIDE DEF lower
    <3> QED
      BY <1>2, <1>6, <3>1 DEF CollectState
  <2> HIDE DEF h, rest, below, lower
  <2>2. CollectType'
    BY <1>1, <1>2, <1>5, <1>8 DEF CollectType
  <2> QED
    BY <1>1, <1>5, <1>8, <2>1, <2>2 DEF CollectInv
<1>9. CASE s \notin visited /\ visited' = visited \cup {s} /\ Entered(s, HeadOf(code[s]), lower)
  <2> DEFINE pos == HeadOf(code[s])
             had == Had(code, prior, start, visited)
             from == Going(code, prior, start, visited)
  <2>1. pos \in Nat /\ (pos = 0 \/ pos = 1)
    BY DEF HeadOf
  <2>2. /\ visited' \in SUBSET Blocks /\ visited' \subseteq B
    BY <1>2, <1>4, <1>6, <1>9 DEF CollectType, CollectState
  <2>3. Onward(code, prior, s, pos) => Nbrs(edges, prior, s) \subseteq B
    BY <1>6, BehindIs DEF PastOf
  <2>4. Had(code, prior, start, visited') =
          had \cup (IF pos = 0 THEN {} ELSE Items(UsesAt(code, prior, s, pos)))
    <3>1. Had(code, prior, start, visited') = had \cup Items(UsesAt(code, prior, s, 1))
      BY <1>9 DEF Had
    <3>2. code \in [Blocks -> UseCodes]
      BY <1>2 DEF CollectType
    <3>3. pos = 0 => Items(UsesAt(code, prior, s, 1)) = {}
      BY <1>4, <3>2, UsesAtIs
    <3> HIDE DEF pos
    <3> QED
      BY <2>1, <3>1, <3>3
  <2>5. /\ Items(uses) \subseteq had /\ OnceBut(uses) /\ Len(uses) + 1 <= cap
        /\ Len(uses) + 1 < cap => had \subseteq Items(uses)
    BY <1>2 DEF CollectState
  <2>6. s = Here \/ \A x \in Items(uses) : x[1] # s
    <3>1. code \in [Blocks -> UseCodes] /\ visited \subseteq Blocks
      BY <1>2 DEF CollectType
    <3>2. \A b \in Blocks : \A at : \A x \in Items(UsesAt(code, prior, b, at)) : x[1] = b
      BY <3>1, UsesAtIs
    <3>3. \A x \in had : x[1] = Here \/ x[1] \in visited
      BY <3>1, <3>2, HereThere DEF Had, Here_There
    <3> HIDE DEF had
    <3> QED
      BY <1>9, <2>5, <3>3
  <2>7. Going(code, prior, start, visited') \subseteq from \cup (IF Onward(code, prior, s, pos) THEN {s} ELSE {})
    BY <1>9 DEF Going
  <2>8. Len(uses) + 1 < cap => Covered(from, visited', NbrsOf(edges, prior), Items(lower))
    BY <1>7, <1>9
  <2>9. Entered(s, pos, lower)
    BY <1>9
  <2> HIDE DEF pos, had, from, lower, h, below, rest
  <2>10. Entering(s, pos, lower, had, from)
    BY <1>1, <1>2, <1>4, <1>5, <1>6, <1>9, <2>1, <2>2, <2>3, <2>4, <2>5, <2>6, <2>7, <2>8 DEF Entering
  <2> QED
    BY <2>9, <2>10, CollectEntered
<1> QED
  BY <1>1, <1>8, <1>9

\* A call that has gone through its neighbours returns; the outermost answers.
LEMMA CollectLeave == CollectInv /\ Collect!Leave => CollectInv'
<1> DEFINE h == Head(stack)
           below == Tail(stack)
<1>1. SUFFICES ASSUME CollectInv, answer = "none", stack # <<>>, h.todo = {},
                      code' = code, edges' = edges, cap' = cap, prior' = prior, start' = start,
                      visited' = visited, uses' = uses,
                      stack' = below, answer' = IF Len(stack) = 1 THEN "true" ELSE "none"
               PROVE  CollectInv'
  BY DEF Collect!Leave, Collect!program
<1>2. CollectType /\ CollectState(code, edges, prior, start, cap, visited, uses, Items(stack))
  BY <1>1 DEF CollectInv
<1>3. /\ below \in Seq(UseEntry)
      /\ Len(stack) = 1 <=> below = <<>>
      /\ Items(stack) = {h} \cup Items(below)
  <2>1. stack \in Seq(UseEntry)
    BY <1>2 DEF CollectType
  <2> QED
    BY <1>1, <2>1, ItemsOf
<1>4. CollectState(code, edges, prior, start, cap, visited, uses, Items(below))
  <2>1. Len(uses) + 1 < cap =>
          Covered(Going(code, prior, start, visited), visited, NbrsOf(edges, prior), {h} \cup Items(below))
    BY <1>2, <1>3 DEF CollectState
  <2> HIDE DEF h, below
  <2>2. Len(uses) + 1 < cap =>
          Covered(Going(code, prior, start, visited), visited, NbrsOf(edges, prior), Items(below))
    BY <1>1, <2>1, Returned
  <2> QED
    BY <1>2, <1>3, <2>2 DEF CollectState
<1>5. CollectType'
  BY <1>1, <1>2, <1>3 DEF CollectType
<1>6. CASE below # <<>>
  <2> HIDE DEF h, below
  <2> QED
    BY <1>1, <1>3, <1>4, <1>5, <1>6 DEF CollectInv
<1>7. CASE below = <<>>
  <2>1. CollectState(code, edges, prior, start, cap, visited, uses, {})
    BY <1>4, <1>7, NoItems
  <2>2. CollectRight(code, edges, prior, start, cap, uses)
    BY <1>2, <2>1, CollectEnd DEF CollectType
  <2>3. answer' = "true" /\ stack' = <<>>
    BY <1>1, <1>3, <1>7
  <2> HIDE DEF h, below
  <2> QED
    BY <1>1, <1>5, <2>2, <2>3 DEF CollectInv
<1> QED
  BY <1>6, <1>7

-----------------------------------------------------------------------------
(* The walks together: one of the four is on, and it is as it should be.      *)

\* The walk that is on is as it should be.
Inv ==
  /\ walk \in {"gather", "clear", "find", "collect"}
  /\ walk = "gather" => GatherInv
  /\ walk = "clear" => ClearInv
  /\ walk = "find" => FindInv
  /\ walk = "collect" => CollectInv

\* A rule calls one of the walks.
LEMMA InvInit == Init => Inv
BY GatherInit, ClearInit, FindInit, CollectInit, Zenon DEF Init, Inv

\* Nothing the walk depends on changes in a step that is not its own.
LEMMA InvStays == Inv /\ UNCHANGED vars => Inv'
<1>1. SUFFICES ASSUME Inv, UNCHANGED vars PROVE Inv'
  OBVIOUS
<1>2. walk' = walk
  BY <1>1 DEF vars
<1>3. ASSUME GatherInv PROVE GatherInv'
  BY <1>1, <1>3, Zenon DEF vars, GatherInv, GatherType, GatherWalking
<1>4. ASSUME ClearInv PROVE ClearInv'
  BY <1>1, <1>4, Zenon DEF vars, ClearInv, ClearType, ClearWalking
<1>5. ASSUME FindInv PROVE FindInv'
  BY <1>1, <1>5, Zenon DEF vars, FindInv, FindType, FindWalking
<1>6. ASSUME CollectInv PROVE CollectInv'
  BY <1>1, <1>6, Zenon DEF vars, CollectInv, CollectType
<1> QED
  BY <1>1, <1>2, <1>3, <1>4, <1>5, <1>6, Zenon DEF Inv

\* A step of the walk that is on keeps it as it should be.
LEMMA InvStep == Inv /\ [Next]_vars => Inv'
<1>1. SUFFICES ASSUME Inv, Next PROVE Inv'
  BY InvStays, Zenon
<1>2. walk' = walk
  BY <1>1, Zenon DEF Next
<1>3. CASE walk = "gather"
  <2>1. GatherInv /\ Gather!Next
    BY <1>1, <1>3 DEF Inv, Next
  <2>2. GatherInv'
    BY <2>1, GatherBegin, GatherVisit, GatherLeave, Zenon DEF Gather!Next
  <2> QED
    BY <1>2, <1>3, <2>2 DEF Inv
<1>4. CASE walk = "clear"
  <2>1. ClearInv /\ Clear!Next
    BY <1>1, <1>4 DEF Inv, Next
  <2>2. ClearInv'
    BY <2>1, ClearBegin, ClearVisit, ClearLeave, Zenon DEF Clear!Next
  <2> QED
    BY <1>2, <1>4, <2>2 DEF Inv
<1>5. CASE walk = "find"
  <2>1. FindInv /\ Find!Next
    BY <1>1, <1>5 DEF Inv, Next
  <2>2. FindInv'
    BY <2>1, FindBegin, FindVisit, FindLeave, Zenon DEF Find!Next
  <2> QED
    BY <1>2, <1>5, <2>2 DEF Inv
<1>6. CASE walk = "collect"
  <2>1. CollectInv /\ Collect!Next
    BY <1>1, <1>6 DEF Inv, Next
  <2>2. CollectInv'
    BY <2>1, CollectBegin, CollectVisit, CollectLeave, Zenon DEF Collect!Next
  <2> QED
    BY <1>2, <1>6, <2>2 DEF Inv
<1> QED
  BY <1>1, <1>3, <1>4, <1>5, <1>6, Zenon DEF Inv

\* The strengthened invariant of every walk, on every function.
THEOREM Invariance == Spec => []Inv
<1> QED
  BY InvInit, InvStep, PTL DEF Spec

\* The variables of the walks keep their types.
THEOREM TypeCorrect == Spec => []TypeOK
<1>1. Inv => TypeOK
  <2>1. ASSUME GatherInv PROVE Gather!TypeOK
    BY <2>1, Zenon DEF GatherInv, GatherType, Gather!TypeOK
  <2>2. ASSUME ClearInv PROVE Clear!TypeOK
    BY <2>2, Zenon DEF ClearInv, ClearType, Clear!TypeOK
  <2>3. ASSUME FindInv PROVE Find!TypeOK
    BY <2>3, Zenon DEF FindInv, FindType, FindEntry, Find!TypeOK
  <2>4. ASSUME CollectInv PROVE Collect!TypeOK
    BY <2>4, Zenon DEF CollectInv, CollectType, UseEntry, Positions, Collect!TypeOK
  <2> QED
    BY <2>1, <2>2, <2>3, <2>4, Zenon DEF Inv, TypeOK
<1> QED
  BY <1>1, Invariance, PTL

\* no_redef_in_path answers true exactly if no way from the instruction to the
\* later block has a write on it, on every graph and whatever the pool held.
THEOREM AnswersRight == Spec => []AnswerRight
<1>1. Inv => AnswerRight
  <2>1. ASSUME ClearInv PROVE Clear!AnswerRight
    BY <2>1, ClearAnswer, Zenon DEF ClearInv, Clear!AnswerRight
  <2> QED
    BY <2>1, Zenon DEF Inv, AnswerRight
<1> QED
  BY <1>1, Invariance, PTL

\* no_redef_in_path goes on only from blocks that do not write and never from the
\* later one.
THEOREM GoesOnFromClear == Spec => []VisitedClear
<1>1. Inv => VisitedClear
  <2>1. ASSUME ClearInv PROVE Clear!VisitedClear
    <3>1. SUFFICES ASSUME answer = "none", stack # <<>>
                   PROVE  /\ \A b \in visited :
                               b # There /\ RedefinitionAfter(code[b], IF b = Here THEN start ELSE 0) = 0
                          /\ \A n \in 1..Len(stack) : stack[n].blk \in visited
      BY ClearSame, Zenon DEF Clear!VisitedClear
    <3>2. ClearWalking
      BY <2>1, <3>1 DEF ClearInv
    <3>3. \A c \in Items(stack) : c.blk \in visited
      BY <3>2 DEF ClearWalking
    <3>4. \A n \in 1..Len(stack) : stack[n] \in Items(stack)
      BY DEF Items
    <3> QED
      BY <3>2, <3>3, <3>4 DEF ClearWalking
  <2> QED
    BY <2>1, Zenon DEF Inv, VisitedClear
<1> QED
  BY <1>1, Invariance, PTL

\* gather_defs collects only definitions that reach the block, each once; true
\* says that all of them are there, false that they do not fit.
THEOREM GathersDefs == Spec => []DefsGathered
<1>1. Inv => DefsGathered
  <2>1. ASSUME GatherInv PROVE Gather!Sound /\ Gather!AnswerTellsComplete
    <3>1. Gather!Collected = Items(defs)
      BY DEF Gather!Collected, Items
    <3>2. Gather!ReachingEnd(code, edges, Here) = Reaching(code, edges)
      BY GatherSame DEF Reaching
    <3>3. Gather!Sound
      BY <2>1, <3>1, <3>2, Zenon DEF GatherInv, Gather!Sound, Distinct
    <3>4. \A S : Gather!Cardinality(S) = Cardinality(S)
      BY Zenon DEF Gather!Cardinality, Cardinality
    <3>5. Gather!AnswerTellsComplete
      BY <2>1, <3>1, <3>2, <3>4, Zenon DEF GatherInv, Gather!AnswerTellsComplete
    <3> QED
      BY <3>3, <3>5, Zenon
  <2> QED
    BY <2>1, Zenon DEF Inv, DefsGathered
<1> QED
  BY <1>1, Invariance, PTL

\* What find_definition_size looks at are the definitions of the instruction's own
\* block or else those of the blocks looked at.
LEMMA SeenIs ==
  ASSUME FindType
  PROVE  Find!SeenFrom(1) =
           IF DefinitionBefore(code[Here], use) # 0
           THEN {<<Here, DefinitionBefore(code[Here], use)>>}
           ELSE {<<b, Body(code, b)>> : b \in {x \in LookedAt(code, edges) : Body(code, x) # 0}}
<1>1. \A b \in Blocks : Find!InBody(b, 1) = Body(code, b)
  <2>1. \A b \in Blocks : Len(code[b]) + 1 - 1 = Len(code[b])
    BY CodesAssumption DEF FindType
  <2> QED
    BY <2>1, FindSame DEF Find!InBody, Body
<1>2. [b \in Blocks |-> IF Find!InBody(b, 1) = 0 THEN Find!Preds(edges, b) ELSE {}] = StepsOf(code, edges)
  BY <1>1, FindSame DEF StepsOf
<1>3. Find!Closure(Find!Preds(edges, Here), StepsOf(code, edges)) = LookedAt(code, edges)
  BY FindSame DEF LookedAt
<1>4. Find!SeenFrom(1) =
        IF DefinitionBefore(code[Here], use) # 0
        THEN {<<Here, DefinitionBefore(code[Here], use)>>}
        ELSE {<<b, Find!InBody(b, 1)>> : b \in {x \in LookedAt(code, edges) : Find!InBody(x, 1) # 0}}
  BY <1>2, <1>3, FindSame, Zenon DEF Find!SeenFrom
<1>5. LookedAt(code, edges) \in SUBSET Blocks
  BY LookedAtIs
<1>6. {x \in LookedAt(code, edges) : Find!InBody(x, 1) # 0} =
        {x \in LookedAt(code, edges) : Body(code, x) # 0}
  BY <1>1, <1>5
<1>7. {<<b, Find!InBody(b, 1)>> : b \in {x \in LookedAt(code, edges) : Body(code, x) # 0}} =
        {<<b, Body(code, b)>> : b \in {x \in LookedAt(code, edges) : Body(code, x) # 0}}
  BY <1>1, <1>5
<1> QED
  BY <1>4, <1>6, <1>7, Zenon

\* What is reported of an instruction is a number of bytes it leaves.
LEMMA ReportedLeft == \A i : Find!Leaves(i, Find!Reported(i))
BY DEF Find!Leaves, Find!Reported

\* find_definition_size answers true with a size only if each definition it looked
\* at leaves that many bytes, a zero extension to eight those of its source, or has
\* no size.
THEOREM SizesAgree == Spec => []SizeAgrees
<1>1. ASSUME FindInv, answer = "true"
      PROVE  /\ Find!SeenFrom(1) # {}
             /\ \A d \in Find!SeenFrom(1) :
                  \E n \in {size, NoSize} : Find!Leaves(code[d[1]][d[2]], n)
             /\ DefinitionBefore(code[Here], use) = 0 =>
                  \A b \in visited : Preds(edges, b) # {} \/ Body(code, b) # 0
  <2>1. FindType /\ FindRight(code, edges, use, visited, size)
    BY <1>1, Zenon DEF FindInv
  <2> DEFINE own == DefinitionBefore(code[Here], use)
             seen == Find!SeenFrom(1)
  <2>2. seen = IF own # 0 THEN {<<Here, own>>}
               ELSE {<<b, Body(code, b)>> : b \in {x \in LookedAt(code, edges) : Body(code, x) # 0}}
    BY <2>1, SeenIs
  <2>3. (\A d \in seen : Find!Reported(code[d[1]][d[2]]) \in {size, NoSize}) =>
          \A d \in seen : \E n \in {size, NoSize} : Find!Leaves(code[d[1]][d[2]], n)
    BY ReportedLeft
  <2> HIDE DEF seen
  <2>4. CASE own # 0
    <3>1. Find!Reported(code[Here][own]) = size
      BY <2>1, <2>4 DEF FindRight
    <3> HIDE DEF own
    <3>2. seen = {<<Here, own>>}
      BY <2>2, <2>4
    <3>3. \A d \in seen : Find!Reported(code[d[1]][d[2]]) \in {size, NoSize}
      BY <3>1, <3>2
    <3> QED
      BY <2>3, <2>4, <3>2, <3>3 DEF seen, own
  <2>5. CASE own = 0
    <3>1. /\ \E b \in LookedAt(code, edges) : Body(code, b) # 0
          /\ \A b \in LookedAt(code, edges) : Body(code, b) # 0 => SizeAt(code, b) \in {size, NoSize}
          /\ \A b \in visited : Preds(edges, b) # {} \/ Body(code, b) # 0
      BY <2>1, <2>5 DEF FindRight
    <3>2. seen = {<<b, Body(code, b)>> : b \in {x \in LookedAt(code, edges) : Body(code, x) # 0}}
      BY <2>2, <2>5
    <3>3. \A d \in seen : Find!Reported(code[d[1]][d[2]]) \in {size, NoSize}
      BY <3>1, <3>2 DEF SizeAt
    <3>4. seen # {}
      BY <3>1, <3>2
    <3> QED
      BY <2>3, <3>1, <3>3, <3>4 DEF seen
  <2> QED
    BY <2>4, <2>5
<1>2. ASSUME FindInv, answer = "true", NEW b \in visited
      PROVE  Find!InBody(b, 1) = Body(code, b)
  <2>1. code \in [Blocks -> SizeCodes] /\ b \in Blocks
    BY <1>2 DEF FindInv, FindType
  <2>2. Len(code[b]) + 1 - 1 = Len(code[b])
    BY <2>1, CodesAssumption
  <2> QED
    BY <2>2, FindSame DEF Find!InBody, Body
<1>3. Inv => SizeAgrees
  <2>1. ASSUME FindInv PROVE Find!SizeAgrees
    BY <1>1, <1>2, <2>1, FindSame, Zenon DEF Find!SizeAgrees
  <2> QED
    BY <2>1, Zenon DEF Inv, SizeAgrees
<1> QED
  BY <1>3, Invariance, PTL

\* gather_uses collects only what lies behind redefinitions, all of it if its
\* vector has room left, and a use twice only in the block it starts in.
THEOREM GathersUses == Spec => []GathersPastRedefinitions
<1>1. ASSUME CollectInv
      PROVE  /\ Items(uses) \subseteq Had(code, prior, start, Behind(code, edges, prior, start))
             /\ OnceBut(uses)
             /\ answer # "none" /\ Len(uses) + 1 < cap =>
                  Items(uses) = Had(code, prior, start, Behind(code, edges, prior, start))
  <2>1. CASE answer = "none" /\ stack = <<>>
    <3>1. uses = <<>>
      BY <1>1, <2>1 DEF CollectInv
    <3> QED
      BY <2>1, <3>1, NoItems DEF OnceBut
  <2>2. CASE answer = "none" /\ stack # <<>>
    <3>1. CollectState(code, edges, prior, start, cap, visited, uses, Items(stack))
      BY <1>1, <2>2 DEF CollectInv
    <3>2. Had(code, prior, start, visited) \subseteq Had(code, prior, start, Behind(code, edges, prior, start))
      <4>1. visited \subseteq Behind(code, edges, prior, start)
        BY <3>1 DEF CollectState
      <4> DEFINE B == Behind(code, edges, prior, start)
      <4> HIDE DEF B
      <4> QED
        BY <4>1 DEF Had, B
    <3> QED
      BY <2>2, <3>1, <3>2 DEF CollectState
  <2>3. CASE answer = "true"
    BY <1>1, <2>3 DEF CollectInv, CollectRight
  <2>4. answer \in {"none", "true"}
    BY <1>1 DEF CollectInv, CollectType
  <2> QED
    BY <2>1, <2>2, <2>3, <2>4
<1>2. Inv => GathersPastRedefinitions
  <2>1. ASSUME CollectInv PROVE Collect!GathersPastRedefinitions
    <3>1. Collect!Collected = Items(uses)
      BY DEF Collect!Collected, Items
    <3>2. code \in [Blocks -> UseCodes]
      BY <2>1 DEF CollectInv, CollectType
    <3>3. Collect!Gathered = Had(code, prior, start, Behind(code, edges, prior, start))
      BY <3>2, GatheredIs, Zenon DEF Collect!Gathered
    <3> QED
      BY <1>1, <2>1, <3>1, <3>3, Zenon DEF Collect!GathersPastRedefinitions, OnceBut
  <2> QED
    BY <2>1, Zenon DEF Inv, GathersPastRedefinitions
<1> QED
  BY <1>2, Invariance, PTL
=============================================================================
