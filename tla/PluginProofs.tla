---------------------------- MODULE PluginProofs ----------------------------
(***************************************************************************)
(* Proofs about Plugin and about the filter it installs, MicroFilter: for any *)
(* functions, number of instructions and bound on modifications, and for any  *)
(* programs.  IInv is the inductive invariant of the first: what the           *)
(* registries hold in each state of the plugin, what the loop of a handler has *)
(* left behind it, and how long a request lives.  FilterInv and TellsInv are    *)
(* those of the second: where the recursion guard is up and how far each       *)
(* function is, and that what was generated does what the function does so far. *)
(***************************************************************************)
EXTENDS Plugin, MicroFilter, IndFacts, FiniteSetTheorems

\* Every callback of the arrays, and the one init() registers.
Callbacks == {"common", "arch", "prepostprocess_run", "thunks", "nullsubs", "bmi1",
              "late_if_inversion", "dump_microcode_"}

\* f[n]: what std::list::remove keeps of the first n entries.
Keeps(f, list, cb) ==
  /\ f \in [0..Len(list) -> Seq(Callbacks)]
  /\ f[0] = <<>>
  /\ \A n \in 0..(Len(list) - 1) :
       f[n + 1] = IF list[n + 1] = cb THEN f[n] ELSE Append(f[n], list[n + 1])

\* f[n]: registry r when the toggle has walked over n callbacks of its array.
WalksArray(f, a, on, r) ==
  /\ f \in [0..Len(Toggled(a)[r]) -> Seq(Callbacks)]
  /\ f[0] = cbs[r]
  /\ \A n \in 0..(Len(Toggled(a)[r]) - 1) :
       f[n + 1] = Changed(r, f[n], Toggled(a)[r][n + 1], on)

\* What the list's remove keeps, one entry after the other.
LEMMA RemovedIs ==
  ASSUME NEW list \in Seq(Callbacks), NEW cb
  PROVE  \E f : Keeps(f, list, cb) /\ Removed(list, cb) = f[Len(list)]
<1> DEFINE C == Callbacks
           F == [p \in Nat \X Seq(C) |->
                   IF p[1] + 1 \in 1..Len(list) /\ list[p[1] + 1] # cb
                   THEN Append(p[2], list[p[1] + 1]) ELSE p[2]]
           Eq(f) == f = [n \in 0..Len(list) |->
                           IF n = 0 THEN <<>>
                           ELSE IF list[n] = cb THEN f[n - 1] ELSE Append(f[n - 1], list[n])]
<1> HIDE DEF C
<1>0. <<>> \in Seq(C) /\ Len(list) \in Nat /\ list \in Seq(C)
  BY DEF C
<1>1. F \in [Nat \X Seq(C) -> Seq(C)]
  BY <1>0
<1>2. PICK f : /\ f \in [0..Len(list) -> Seq(C)] /\ f[0] = <<>>
               /\ \A n \in 0..(Len(list) - 1) : f[n + 1] = F[<<n, f[n]>>]
  <2> HIDE DEF F, Eq
  <2>1. PICK f : Unrolls(f, Seq(C), <<>>, F, Len(list))
    BY <1>0, <1>1, Recursion
  <2> QED
    BY <2>1 DEF Unrolls
<1>3. Eq(f)
  <2>1. ASSUME NEW n \in 0..Len(list), n # 0
        PROVE  f[n] = IF list[n] = cb THEN f[n - 1] ELSE Append(f[n - 1], list[n])
    <3>1. /\ n - 1 \in 0..(Len(list) - 1) /\ n - 1 \in Nat /\ (n - 1) + 1 = n
          /\ f[n - 1] \in Seq(C)
      BY <1>0, <1>2, <2>1
    <3>2. f[(n - 1) + 1] = F[<<n - 1, f[n - 1]>>]
      BY <1>2, <3>1
    <3> QED
      BY <3>1, <3>2, <1>0
  <2>2. f = [n \in 0..Len(list) |-> f[n]]
    BY <1>2, SMTT(30)
  <2> HIDE DEF F
  <2> QED
    BY <2>1, <1>2, <2>2
<1>4. PICK g : Eq(g) /\ Removed(list, cb) = g[Len(list)]
  <2> DEFINE c == CHOOSE g : Eq(g)
  <2>1. Eq(c)
    <3> HIDE DEF Eq
    <3> QED
      BY <1>3
  <2>2. Removed(list, cb) = c[Len(list)]
    BY DEF Removed
  <2> QED
    BY <2>1, <2>2
<1>5. g[0] = <<>>
  BY <1>0, <1>4
<1>6. ASSUME NEW n \in 0..(Len(list) - 1)
      PROVE  g[n + 1] = IF list[n + 1] = cb THEN g[n] ELSE Append(g[n], list[n + 1])
  <2>1. n + 1 \in 0..Len(list) /\ n + 1 # 0 /\ (n + 1) - 1 = n
    BY <1>0
  <2> QED
    BY <1>4, <2>1
<1> HIDE DEF Eq, F
<1> DEFINE S == {n \in 0..Len(list) : g[n] \in Seq(C)}
<1>7. 0..Len(list) \subseteq S
  <2>1. 0 \in S
    <3>1. g[0] \in Seq(C)
      BY <1>0, <1>5, Zenon
    <3>2. 0 \in 0..Len(list)
      BY <1>0
    <3> QED
      BY <3>1, <3>2
  <2>2. ASSUME NEW n \in 0..(Len(list) - 1), n \in S PROVE n + 1 \in S
    <3>1. n + 1 \in 1..Len(list) /\ n + 1 \in 0..Len(list)
      BY <1>0
    <3>2. g[n] \in Seq(C) /\ list[n + 1] \in C
      BY <1>0, <2>2, <3>1
    <3>3. g[n + 1] = IF list[n + 1] = cb THEN g[n] ELSE Append(g[n], list[n + 1])
      BY <1>6, Zenon
    <3>4. g[n + 1] \in Seq(C)
      BY <3>2, <3>3
    <3> QED
      BY <3>1, <3>4
  <2> HIDE DEF S
  <2> QED
    BY <1>0, <2>1, <2>2, IntervalInduction
<1>8. g \in [0..Len(list) -> Seq(C)]
  BY <1>4, <1>7 DEF Eq
<1>9. Keeps(g, list, cb)
  BY <1>5, <1>6, <1>8 DEF C, Keeps
<1> QED
  BY <1>4, <1>9

\* Append adds its element behind the last.
LEMMA LastOfAppend ==
  ASSUME NEW C, NEW list \in Seq(C), NEW d \in C
  PROVE  Append(list, d) \in Seq(C) /\ Append(list, d)[Len(list) + 1] = d
OBVIOUS

\* Two installs give a list of two.
LEMMA AppendSecond ==
  ASSUME NEW C, NEW c \in C, NEW s \in Seq(C), NEW d \in C, s = <<c>>
  PROVE  Append(s, d) = <<c, d>>
<1> DEFINE both == Append(s, d)
           t == <<c, d>>
<1>1. both \in Seq(C) /\ t \in Seq(C)
  BY LastOfAppend
<1>2. Len(s) = 1 /\ s[1] = c
  OBVIOUS
<1>3. Len(both) = 2 /\ both[1] = c
  BY <1>2
<1>4. both[2] = d
  BY <1>2, LastOfAppend
<1>5. Len(t) = 2 /\ t[1] = c /\ t[2] = d
  OBVIOUS
<1> HIDE DEF both, t
<1>6. both = t
  BY <1>1, <1>3, <1>4, <1>5
<1> QED
  BY <1>6 DEF both, t

\* Removing the only callback empties a list.
LEMMA RemoveOnly ==
  ASSUME NEW c \in Callbacks
  PROVE  Removed(<<c>>, c) = <<>>
<1> DEFINE list == <<c>>
<1>1. list \in Seq(Callbacks) /\ Len(list) = 1 /\ list[1] = c
  OBVIOUS
<1> HIDE DEF list
<1>2. PICK f : Keeps(f, list, c) /\ Removed(list, c) = f[Len(list)]
  BY <1>1, RemovedIs
<1>3. f[0] = <<>> /\ f[0 + 1] = f[0]
  BY <1>1, <1>2 DEF Keeps
<1>4. Removed(list, c) = <<>>
  BY <1>1, <1>2, <1>3
<1> QED
  BY <1>4 DEF list

\* Removing the first of two callbacks leaves the second.
LEMMA RemoveOneOfTwo ==
  ASSUME NEW c \in Callbacks, NEW d \in Callbacks \ {c}
  PROVE  Removed(<<c, d>>, c) = <<d>>
<1> DEFINE list == <<c, d>>
<1>1. list \in Seq(Callbacks) /\ Len(list) = 2 /\ list[1] = c /\ list[2] = d
  OBVIOUS
<1> HIDE DEF list
<1>2. PICK f : Keeps(f, list, c) /\ Removed(list, c) = f[Len(list)]
  BY <1>1, RemovedIs
<1>3. f[0] = <<>> /\ f[0 + 1] = f[0]
  BY <1>1, <1>2 DEF Keeps
<1>4. f[1 + 1] = Append(f[1], d)
  <2>1. list[1 + 1] = d /\ d # c /\ 1 \in 0..(Len(list) - 1)
    BY <1>1
  <2> QED
    BY <1>2, <2>1 DEF Keeps
<1>5. Removed(list, c) = Append(<<>>, d)
  BY <1>1, <1>2, <1>3, <1>4
<1> QED
  BY <1>5 DEF list

\* The arrays hold callbacks.
LEMMA ToggledTyped ==
  ASSUME NEW a \in Archs, NEW r \in Registries
  PROVE  Toggled(a)[r] \in Seq(Callbacks)
<1>1. /\ <<"common", "arch">> \in Seq(Callbacks) /\ <<"common">> \in Seq(Callbacks)
      /\ <<"thunks">> \in Seq(Callbacks) /\ <<"nullsubs">> \in Seq(Callbacks)
      /\ <<"bmi1">> \in Seq(Callbacks) /\ <<"late_if_inversion">> \in Seq(Callbacks)
      /\ <<"prepostprocess_run">> \in Seq(Callbacks) /\ <<>> \in Seq(Callbacks)
  BY DEF Callbacks
<1>2. Toggled(a)[r] \in {<<"common", "arch">>, <<"common">>, <<"thunks">>, <<"nullsubs">>,
                         <<"bmi1">>, <<"late_if_inversion">>, <<"prepostprocess_run">>, <<>>}
  BY DEF Toggled, Registries
<1> QED
  BY <1>1, <1>2

\* Toggling walks the array of each registry.
LEMMA ToggleIs ==
  ASSUME NEW a \in Archs, NEW on, NEW r \in Registries,
         cbs[r] \in Seq(Callbacks)
  PROVE  \E f : WalksArray(f, a, on, r) /\ Toggle(a, on)[r] = f[Len(Toggled(a)[r])]
<1> DEFINE C == Callbacks
           T == Toggled(a)[r]
           N == Len(T)
           F == [p \in Nat \X Seq(C) |->
                   IF p[1] + 1 \in 1..N THEN Changed(r, p[2], T[p[1] + 1], on) ELSE p[2]]
           Eq(f) == f = [n \in 0..N |->
                           IF n = 0 THEN cbs[r] ELSE Changed(r, f[n - 1], T[n], on)]
<1>0a. T \in Seq(C)
  BY ToggledTyped
<1>0b. Toggle(a, on)[r] = LET f == CHOOSE f : Eq(f) IN f[N]
  BY DEF Toggle
<1> HIDE DEF C, T
<1>0. cbs[r] \in Seq(C) /\ N \in Nat
  BY <1>0a DEF C
<1>0c. ASSUME NEW list \in Seq(C), NEW n \in 1..N PROVE Changed(r, list, T[n], on) \in Seq(C)
  <2>1. T[n] \in C
    BY <1>0a
  <2>2. Removed(list, T[n]) \in Seq(C)
    <3>1. PICK f : Keeps(f, list, T[n]) /\ Removed(list, T[n]) = f[Len(list)]
      BY RemovedIs DEF C
    <3> QED
      BY <3>1 DEF C, Keeps
  <2>3. Append(list, T[n]) \in Seq(C)
    BY <2>1
  <2> QED
    BY <2>2, <2>3 DEF Changed, Install
<1>1. F \in [Nat \X Seq(C) -> Seq(C)]
  BY <1>0c
<1> HIDE DEF N
<1>2. PICK f : /\ f \in [0..N -> Seq(C)] /\ f[0] = cbs[r]
               /\ \A n \in 0..(N - 1) : f[n + 1] = F[<<n, f[n]>>]
  <2> HIDE DEF F, Eq
  <2>1. PICK f : Unrolls(f, Seq(C), cbs[r], F, N)
    BY <1>0, <1>1, Recursion
  <2> QED
    BY <2>1 DEF Unrolls
<1>3. Eq(f)
  <2>1. ASSUME NEW n \in 0..N, n # 0
        PROVE  f[n] = Changed(r, f[n - 1], T[n], on)
    <3>1. /\ n - 1 \in 0..(N - 1) /\ n - 1 \in Nat /\ (n - 1) + 1 = n
          /\ f[n - 1] \in Seq(C) /\ n \in 1..N
      BY <1>0, <1>2, <2>1
    <3>2. f[(n - 1) + 1] = F[<<n - 1, f[n - 1]>>]
      BY <1>2, <3>1
    <3> QED
      BY <3>1, <3>2, <1>0
  <2>2. f = [n \in 0..N |-> f[n]]
    BY <1>2
  <2> HIDE DEF F
  <2> QED
    BY <2>1, <1>2, <2>2
<1>4. PICK g : Eq(g) /\ Toggle(a, on)[r] = g[N]
  <2> DEFINE c == CHOOSE g : Eq(g)
  <2>1. Eq(c)
    <3> HIDE DEF Eq
    <3> QED
      BY <1>3
  <2>2. Toggle(a, on)[r] = c[N]
    BY <1>0b
  <2> QED
    BY <2>1, <2>2
<1>5. g[0] = cbs[r]
  BY <1>0, <1>4
<1>6. ASSUME NEW n \in 0..(N - 1)
      PROVE  g[n + 1] = Changed(r, g[n], T[n + 1], on)
  <2>1. n + 1 \in 0..N /\ n + 1 # 0 /\ (n + 1) - 1 = n
    BY <1>0
  <2> QED
    BY <1>4, <2>1
<1> HIDE DEF Eq, F
<1> DEFINE S == {n \in 0..N : g[n] \in Seq(C)}
<1>7. 0..N \subseteq S
  <2>1. 0 \in S
    BY <1>0, <1>5
  <2>2. ASSUME NEW n \in 0..(N - 1), n \in S PROVE n + 1 \in S
    <3>1. n + 1 \in 1..N /\ n + 1 \in 0..N
      BY <1>0
    <3>2. Changed(r, g[n], T[n + 1], on) \in Seq(C)
      BY <1>0c, <2>2, <3>1
    <3> QED
      BY <3>1, <3>2, <1>6
  <2> HIDE DEF S
  <2> QED
    BY <1>0, <2>1, <2>2, IntervalInduction, Zenon
<1>8. g \in [0..N -> Seq(C)]
  BY <1>4, <1>7 DEF Eq
<1>9. WalksArray(g, a, on, r)
  BY <1>5, <1>6, <1>8 DEF C, T, N, WalksArray
<1> QED
  BY <1>4, <1>9 DEF N, T

-----------------------------------------------------------------------------
\* What a registry holds, given the plugin's architecture and whether it is on.
Registered(a, on, r) ==
  (IF r = "glbopt" THEN <<"dump_microcode_">> ELSE <<>>)
    \o (IF on THEN Toggled(a)[r] ELSE <<>>)

\* A registry is one of five lists, of two callbacks at most.
LEMMA RegisteredIs ==
  ASSUME NEW a \in Archs, NEW on, NEW r \in Registries
  PROVE  /\ Registered(a, on, r) \in Seq(Callbacks)
         /\ Registered(a, on, r) =
              IF r = "glbopt" THEN <<"dump_microcode_">> ELSE IF on THEN Toggled(a)[r] ELSE <<>>
         /\ \/ r = "glbopt" /\ Toggled(a)[r] = <<>>
            \/ r # "glbopt" /\ \/ Toggled(a)[r] = <<>>
                               \/ \E c \in Callbacks : Toggled(a)[r] = <<c>>
                               \/ \E c \in Callbacks : \E d \in Callbacks \ {c} : r = "combine" /\ Toggled(a)[r] = <<c, d>>
<1>1. \/ r = "glbopt" /\ Toggled(a)[r] = <<>>
      \/ r # "glbopt" /\ \/ Toggled(a)[r] = <<>>
                         \/ \E c \in Callbacks : Toggled(a)[r] = <<c>>
                         \/ \E c \in Callbacks : \E d \in Callbacks \ {c} : r = "combine" /\ Toggled(a)[r] = <<c, d>>
  <2>1. CASE r = "combine"
    <3>1. Toggled(a)[r] \in {<<"common", "arch">>, <<"common">>}
      BY <2>1 DEF Toggled, Registries
    <3>2. "common" \in Callbacks /\ "arch" \in Callbacks \ {"common"}
      BY DEF Callbacks
    <3> QED
      BY <2>1, <3>1, <3>2
  <2>2. CASE r = "glbopt"
    BY <2>2 DEF Toggled, Registries
  <2>3. CASE r \notin {"combine", "glbopt"}
    <3>1. Toggled(a)[r] \in {<<"prepostprocess_run">>, <<"thunks">>, <<"nullsubs">>,
                             <<"bmi1">>, <<"late_if_inversion">>, <<>>}
      BY <2>3 DEF Toggled, Registries
    <3>2. {"prepostprocess_run", "thunks", "nullsubs", "bmi1", "late_if_inversion"} \subseteq Callbacks
      BY DEF Callbacks
    <3> QED
      BY <2>3, <3>1, <3>2
  <2> QED
    BY <2>1, <2>2, <2>3
<1>2. <<>> \o <<>> = <<>>
  OBVIOUS
<1>3. Toggled(a)[r] \in Seq(Callbacks) /\ <<>> \o Toggled(a)[r] = Toggled(a)[r]
  <2>1. ASSUME NEW list \in Seq(Callbacks) PROVE <<>> \o list = list
    OBVIOUS
  <2>2. Toggled(a)[r] \in Seq(Callbacks)
    BY ToggledTyped
  <2> QED
    BY <2>1, <2>2
<1>4. <<"dump_microcode_">> \o <<>> = <<"dump_microcode_">> /\ <<"dump_microcode_">> \in Seq(Callbacks)
  BY DEF Callbacks
<1>5. <<>> \in Seq(Callbacks)
  OBVIOUS
<1>6. Registered(a, on, r) =
        IF r = "glbopt" THEN <<"dump_microcode_">> ELSE IF on THEN Toggled(a)[r] ELSE <<>>
  BY <1>1, <1>2, <1>3, <1>4 DEF Registered
<1> QED
  BY <1>1, <1>3, <1>4, <1>5, <1>6

\* A toggle takes each registry from the one to the other.
LEMMA Toggles ==
  ASSUME NEW a \in Archs, NEW on, NEW r \in Registries,
         cbs[r] = Registered(a, ~on, r)
  PROVE  Toggle(a, on)[r] = Registered(a, on, r)
<1> DEFINE T == Toggled(a)[r]
<1>1. cbs[r] \in Seq(Callbacks)
  BY RegisteredIs
<1>2. PICK f : WalksArray(f, a, on, r) /\ Toggle(a, on)[r] = f[Len(T)]
  BY <1>1, ToggleIs
<1>3. cbs[r] = IF r = "glbopt" THEN <<"dump_microcode_">> ELSE IF on THEN <<>> ELSE T
  BY RegisteredIs
<1>4. Registered(a, on, r) = IF r = "glbopt" THEN <<"dump_microcode_">> ELSE IF on THEN T ELSE <<>>
  BY RegisteredIs
<1> HIDE DEF T
<1>5. f[0] = cbs[r] /\ \A n \in 0..(Len(T) - 1) : f[n + 1] = Changed(r, f[n], T[n + 1], on)
  BY <1>2 DEF WalksArray, T
<1>6. CASE T = <<>>
  <2>1. Len(T) = 0
    BY <1>6
  <2> QED
    BY <1>2, <1>3, <1>4, <1>5, <1>6, <2>1
<1>7. CASE r # "glbopt" /\ \E c \in Callbacks : T = <<c>>
  <2>1. PICK c \in Callbacks : T = <<c>>
    BY <1>7
  <2>2. Len(T) = 1 /\ T[1] = c
    BY <2>1
  <2>3. f[0 + 1] = Changed(r, cbs[r], c, on)
    BY <1>5, <2>2
  <2>4. CASE on
    <3>1. Install(r, <<>>, c) = <<c>>
      BY DEF Install, Contains
    <3> QED
      BY <1>2, <1>3, <1>4, <1>7, <2>1, <2>2, <2>3, <2>4, <3>1 DEF Changed
  <2>5. CASE ~on
    BY <1>2, <1>3, <1>4, <1>7, <2>1, <2>2, <2>3, <2>5, RemoveOnly DEF Changed
  <2> QED
    BY <2>4, <2>5
<1>8. CASE \E c \in Callbacks : \E d \in Callbacks \ {c} : r = "combine" /\ T = <<c, d>>
  <2>0. PICK c \in Callbacks : \E d \in Callbacks \ {c} : r = "combine" /\ T = <<c, d>>
    BY <1>8
  <2>1. PICK d \in Callbacks \ {c} : r = "combine" /\ T = <<c, d>>
    BY <2>0
  <2>2. Len(T) = 2 /\ T[1] = c /\ T[2] = d
    BY <2>1
  <2>3. f[0 + 1] = Changed(r, cbs[r], c, on) /\ f[1 + 1] = Changed(r, f[1], d, on)
    BY <1>5, <2>2
  <2>4. CASE on
    <3>1. Install(r, <<>>, c) = <<c>> /\ Install(r, <<c>>, d) = <<c, d>>
      <4>1. Append(<<>>, c) = <<c>>
        OBVIOUS
      <4>2. r \notin {"filter", "ctree"}
        BY <2>1
      <4>3. Append(<<c>>, d) = <<c, d>>
        <5>1. <<c>> \in Seq(Callbacks)
          OBVIOUS
        <5> QED
          BY <5>1, AppendSecond
      <4> QED
        BY <4>1, <4>2, <4>3, Zenon DEF Install
    <3> QED
      BY <1>2, <1>3, <1>4, <2>1, <2>2, <2>3, <2>4, <3>1 DEF Changed
  <2>5. CASE ~on
    <3>1. Removed(<<c, d>>, c) = <<d>> /\ Removed(<<d>>, d) = <<>>
      BY RemoveOneOfTwo, RemoveOnly
    <3>2. f[1] = <<d>>
      BY <1>3, <2>1, <2>3, <2>5, <3>1 DEF Changed
    <3> QED
      BY <1>2, <1>4, <2>1, <2>2, <2>3, <2>5, <3>1, <3>2 DEF Changed
  <2> QED
    BY <2>4, <2>5
<1> QED
  BY <1>6, <1>7, <1>8, RegisteredIs DEF T

-----------------------------------------------------------------------------
\* Before init() and after term() nothing is registered.
LifeInv ==
  /\ loaded = "no" => ~installed /\ \A r \in Registries : cbs[r] = <<>>
  /\ loaded = "kept" => \A r \in Registries : cbs[r] = Registered(arch, installed, r)
  /\ ~Idle => loaded = "kept"

\* What the loop of a handler has passed has nothing waiting: AskPreopt starts
\* over when something changed, AskCombine remembers that it did.
AskedInv ==
  /\ stage = "in preopt" =>
       \A p \in 1..Len(cbs["preopt"]) : p < pos => <<cbs["preopt"][p], 0>> \notin todo
  /\ stage = "in glbopt" /\ ~modified => \A i \in Insns : i < pos => ~Fires(i)

\* A request lives as long as the call that made it.
RequestInv ==
  /\ Idle => reqmat = "none" /\ output = NoMba
  /\ stage = "cancelled" => reqmat # "none"
  /\ CaughtAtFixpoint

\* The inductive invariant.
IInv == TypeOK /\ LifeInv /\ AskedInv /\ RequestInv

\* What pos and left are counted with.
LEMMA Counting ==
  /\ 0 \in 0..MaxLeft /\ MaxLeft \in 0..MaxLeft
  /\ \A n \in 0..MaxLeft : n > 0 => n - 1 \in 0..MaxLeft
  /\ 0 \in Nat /\ 1 \in Nat /\ \A n \in Nat : n + 1 \in Nat
BY MaxLeftAssumption

\* The initial states are typed.
LEMMA TypeInit ==
  ASSUME Init PROVE TypeOK
BY Counting, Zenon DEF Init, TypeOK, Mats, Registries

\* A callback's modification keeps todo and left typed.
LEMMA ChangesType ==
  ASSUME TypeOK, Changes PROVE todo' \subseteq Work /\ left' \in 0..MaxLeft
<1>1. left' \in 0..MaxLeft
  BY Counting, Zenon DEF TypeOK, Changes
<1>2. todo' \subseteq Work
  BY DEF Changes
<1> QED
  BY <1>1, <1>2

\* Every step keeps the types.
LEMMA TypeStep ==
  ASSUME TypeOK, [Next]_vars PROVE TypeOK'
<1> USE DEF TypeOK, lifeVars, askVars, mbaVars, handlerVars
<1>1. ASSUME InitSkip PROVE TypeOK'
  BY <1>1 DEF InitSkip
<1>2. ASSUME NEW supported \in BOOLEAN, InitHook(supported) PROVE TypeOK'
  BY <1>2 DEF InitHook
<1>3. ASSUME Run PROVE TypeOK'
  BY <1>3 DEF Run, Toggle
<1>4. ASSUME Term PROVE TypeOK'
  BY <1>4 DEF Term
<1>5. ASSUME NEW f \in Funcs, Start(f), reqmat' \in Mats \cup {"none"} PROVE TypeOK'
  BY <1>5, Counting, Zenon DEF Start
<1>6. ASSUME NEW i \in Insns, Combine(i) PROVE TypeOK'
  BY <1>6, ChangesType DEF Combine
<1>7. ASSUME Prolog PROVE TypeOK'
  BY <1>7 DEF Prolog
<1>8. ASSUME Preoptimized PROVE TypeOK'
  BY <1>8 DEF Preoptimized, Mats
<1>9. ASSUME AskPreopt PROVE TypeOK'
  <2>1. todo' \subseteq Work /\ left' \in 0..MaxLeft
    BY <1>9, ChangesType DEF AskPreopt
  <2>2. pos' \in Nat
    BY <1>9, Counting, Zenon DEF AskPreopt
  <2> QED
    BY <1>9, <2>1, <2>2 DEF AskPreopt
<1>10. ASSUME PreoptReturn PROVE TypeOK'
  BY <1>10 DEF PreoptReturn, Answer
<1>11. ASSUME Locopt PROVE TypeOK'
  BY <1>11 DEF Locopt, Answer, Mats
<1>12. ASSUME Glbopt PROVE TypeOK'
  BY <1>12 DEF Glbopt, Mats
<1>13. ASSUME AskCombine PROVE TypeOK'
  <2>1. todo' \subseteq Work /\ left' \in 0..MaxLeft
    BY <1>13, ChangesType DEF AskCombine
  <2>2. pos' \in Nat
    BY <1>13, Counting, Zenon DEF AskCombine
  <2> QED
    BY <1>13, <2>1, <2>2 DEF AskCombine
<1>14. ASSUME GlboptReturn PROVE TypeOK'
  BY <1>14 DEF GlboptReturn, Answer
<1>15. ASSUME Return PROVE TypeOK'
  BY <1>15, Counting, Zenon DEF Return
<1>16. ASSUME UNCHANGED vars PROVE TypeOK'
  BY <1>16 DEF vars
<1>17. ASSUME NEW f \in Funcs, Decompile(f) PROVE TypeOK'
  BY <1>5, <1>17 DEF Decompile
<1>18. ASSUME NEW f \in Funcs, NEW mat \in Mats, GenMicrocodeEx(f, mat) PROVE TypeOK'
  BY <1>5, <1>18 DEF GenMicrocodeEx
<1> QED
  BY <1>1, <1>2, <1>3, <1>4, <1>6, <1>7, <1>8, <1>9, <1>10, <1>11, <1>12, <1>13, <1>14,
     <1>15, <1>16, <1>17, <1>18 DEF Next, Event

\* The variables of the plugin and of a decompilation keep their types.
THEOREM TypeCorrect == Spec => []TypeOK
<1>1. Init => TypeOK
  BY TypeInit
<1>2. TypeOK /\ [Next]_vars => TypeOK'
  BY TypeStep
<1> QED
  BY <1>1, <1>2, PTL DEF Spec

\* LifeInv holds before the plugin is loaded.
LEMMA LifeInit ==
  ASSUME Init PROVE LifeInv
BY DEF Init, LifeInv, Idle, Registries

\* LifeInv is kept: init, the toggle and term are the only steps on registries.
LEMMA LifeStep ==
  ASSUME TypeOK, LifeInv, [Next]_vars PROVE LifeInv'
<1>1. CASE InitSkip
  BY <1>1, Zenon DEF InitSkip, LifeInv, Idle
<1>2. ASSUME NEW supported \in BOOLEAN, InitHook(supported) PROVE LifeInv'
  <2>1. /\ loaded = "no" /\ Idle /\ ~installed /\ \A r \in Registries : cbs[r] = <<>>
        /\ UNCHANGED <<arch, installed, stage>> /\ arch \in Archs
        /\ DOMAIN cbs = Registries
    BY <1>2, Zenon DEF InitHook, LifeInv, TypeOK
  <2>2. CASE supported
    <3>1. loaded' = "kept" /\ cbs' = [cbs EXCEPT !["glbopt"] = Append(@, "dump_microcode_")]
      BY <1>2, <2>2, Zenon DEF InitHook
    <3>2. ASSUME NEW r \in Registries PROVE cbs'[r] = Registered(arch, installed, r)
      <4>1. Append(<<>>, "dump_microcode_") = <<"dump_microcode_">>
        OBVIOUS
      <4>2. Registered(arch, installed, r) = IF r = "glbopt" THEN <<"dump_microcode_">> ELSE <<>>
        BY <2>1, RegisteredIs
      <4>3. CASE r = "glbopt"
        BY <2>1, <3>1, <4>1, <4>2, <4>3, Zenon
      <4>4. CASE r # "glbopt"
        BY <2>1, <3>1, <4>2, <4>4, Zenon
      <4> QED
        BY <4>3, <4>4
    <3> QED
      BY <2>1, <3>1, <3>2, Zenon DEF LifeInv, Idle
  <2>3. CASE ~supported
    BY <1>2, <2>1, <2>3, Zenon DEF InitHook, LifeInv, Idle
  <2> QED
    BY <2>2, <2>3
<1>3. CASE Run
  <2>1. /\ loaded = "kept" /\ Idle /\ \A r \in Registries : cbs[r] = Registered(arch, installed, r)
        /\ cbs' = Toggle(arch, ~installed) /\ installed' = ~installed
        /\ UNCHANGED <<loaded, arch, stage>> /\ arch \in Archs
    BY <1>3, Zenon DEF Run, LifeInv, TypeOK
  <2>2. ASSUME NEW r \in Registries PROVE cbs'[r] = Registered(arch, ~installed, r)
    <3>1. Registered(arch, installed, r) = Registered(arch, ~(~installed), r)
      BY Zenon DEF Registered
    <3> QED
      BY <2>1, <3>1, Toggles, Zenon
  <2> QED
    BY <2>1, <2>2, Zenon DEF LifeInv, Idle
<1>4. CASE Term
  BY <1>4, Zenon DEF Term, LifeInv, Idle
<1>5. ASSUME UNCHANGED lifeVars, loaded = "kept" PROVE LifeInv'
  BY <1>5, Zenon DEF LifeInv, lifeVars
<1>6. ASSUME NEW f \in Funcs, Start(f) PROVE LifeInv'
  BY <1>5, <1>6, Zenon DEF Start
<1>7. ASSUME NEW i \in Insns, Combine(i) PROVE LifeInv'
  BY <1>5, <1>7, Zenon DEF Combine, LifeInv, Idle
<1>8. CASE Event
  <2>1. UNCHANGED lifeVars /\ ~Idle
    BY <1>8, Zenon DEF Event, Prolog, Preoptimized, AskPreopt, PreoptReturn, Locopt, Glbopt, AskCombine,
          GlboptReturn, Return, Idle
  <2> QED
    BY <1>5, <2>1, Zenon DEF LifeInv
<1>9. CASE UNCHANGED vars
  BY <1>9, Zenon DEF vars, lifeVars, LifeInv, Idle
<1> QED
  BY <1>1, <1>2, <1>3, <1>4, <1>6, <1>7, <1>8, <1>9 DEF Next, Decompile, GenMicrocodeEx

\* A loop that goes on by one has passed one position more.
LEMMA OneFurther ==
  ASSUME NEW pos0 \in Nat, NEW last \in Nat
  PROVE  \A i \in 1..last : i < pos0 + 1 => i < pos0 \/ i = pos0
OBVIOUS

\* A loop behind the last position has passed all.
LEMMA PastTheLast ==
  ASSUME NEW pos0 \in Nat, NEW last \in Nat, pos0 > last
  PROVE  \A i \in 1..last : i < pos0
OBVIOUS

\* While a function is decompiled each registry is a sequence.
LEMMA RegistryTyped ==
  ASSUME TypeOK, LifeInv, ~Idle, NEW r \in Registries
  PROVE  cbs[r] \in Seq(Callbacks) /\ Len(cbs[r]) \in Nat /\ DOMAIN cbs[r] = 1..Len(cbs[r])
<1>1. cbs[r] = Registered(arch, installed, r) /\ arch \in Archs
  BY Zenon DEF LifeInv, TypeOK
<1>2. Registered(arch, installed, r) \in Seq(Callbacks)
  BY <1>1, RegisteredIs, Zenon
<1>3. \A list \in Seq(Callbacks) : Len(list) \in Nat /\ DOMAIN list = 1..Len(list)
  OBVIOUS
<1> QED
  BY <1>1, <1>2, <1>3, Zenon

\* AskedInv is kept, by the modifications a callback makes too.
LEMMA AskedStep ==
  ASSUME TypeOK, LifeInv, AskedInv, [Next]_vars PROVE AskedInv'
<1>1. ASSUME stage' \notin {"in preopt", "in glbopt"} PROVE AskedInv'
  BY <1>1, Zenon DEF AskedInv
<1>2. ASSUME loaded = "no" PROVE Idle
  BY <1>2, Zenon DEF LifeInv
<1>3. ASSUME InitSkip \/ (\E supported \in BOOLEAN : InitHook(supported)) \/ Run \/ Term
      PROVE  AskedInv'
  BY <1>1, <1>2, <1>3 DEF InitSkip, InitHook, Run, Term, Idle
<1>4. ASSUME NEW f \in Funcs, Start(f) PROVE AskedInv'
  BY <1>1, <1>4 DEF Start
<1>5. ASSUME NEW i \in Insns, Combine(i) PROVE AskedInv'
  BY <1>1, <1>5 DEF Combine
<1>6. ASSUME Prolog \/ PreoptReturn \/ Locopt \/ GlboptReturn \/ Return PROVE AskedInv'
  BY <1>1, <1>6 DEF Prolog, PreoptReturn, Locopt, GlboptReturn, Return, Answer
<1>7. CASE Preoptimized \/ Glbopt
  <2>1. \A p : p \in 1..Len(cbs'["preopt"]) \/ p \in Insns => ~(p < 1)
    BY DEF Insns
  <2>2. pos' = 1
    BY <1>7, Zenon DEF Preoptimized, Glbopt
  <2> QED
    BY <2>1, <2>2, Zenon DEF AskedInv
<1>8. CASE AskPreopt
  <2>1. stage = "in preopt" /\ UNCHANGED <<stage, cbs>> /\ pos \in Nat
    BY <1>8, Zenon DEF AskPreopt, lifeVars, TypeOK
  <2>2. CASE <<cbs["preopt"][pos], 0>> \in todo
    <3>1. \A p : p \in 1..Len(cbs["preopt"]) => ~(p < 1)
      OBVIOUS
    <3>2. pos' = 1
      BY <1>8, <2>2, Zenon DEF AskPreopt
    <3> QED
      BY <2>1, <3>1, <3>2 DEF AskedInv
  <2>3. CASE <<cbs["preopt"][pos], 0>> \notin todo
    <3>1. pos' = pos + 1 /\ todo' = todo
      BY <1>8, <2>3, Zenon DEF AskPreopt, mbaVars
    <3>2. \A p \in 1..Len(cbs["preopt"]) : p < pos + 1 => p < pos \/ p = pos
      <4>1. Len(cbs["preopt"]) \in Nat
        BY <2>1, RegistryTyped DEF Idle, Registries
      <4> QED
        BY <2>1, <4>1, OneFurther, Zenon
    <3> QED
      BY <2>1, <2>3, <3>1, <3>2 DEF AskedInv
  <2> QED
    BY <2>2, <2>3
<1>9. CASE AskCombine
  <2>1. /\ stage = "in glbopt" /\ UNCHANGED <<stage, cbs>> /\ pos \in Nat /\ pos' = pos + 1
        /\ modified \in BOOLEAN
    BY <1>9, Zenon DEF AskCombine, lifeVars, TypeOK
  <2>2. CASE Fires(pos)
    BY <1>9, <2>1, <2>2 DEF AskCombine, AskedInv
  <2>3. CASE ~Fires(pos)
    <3>1. modified' = modified /\ todo' = todo
      BY <1>9, <2>3, Zenon DEF AskCombine, mbaVars
    <3>2. \A i \in Insns : i < pos + 1 => i < pos \/ i = pos
      <4>1. NInsns \in Nat
        BY NInsnsAssumption
      <4> QED
        BY <2>1, <4>1, OneFurther, Zenon DEF Insns
    <3>3. \A i : Fires(i)' <=> Fires(i)
      BY <2>1, <3>1 DEF Fires
    <3>4. ASSUME ~modified, NEW i \in Insns, i < pos + 1 PROVE ~Fires(i)
      BY <2>1, <2>3, <3>2, <3>4, Zenon DEF AskedInv
    <3> QED
      BY <2>1, <3>1, <3>3, <3>4 DEF AskedInv
  <2> QED
    BY <2>2, <2>3
<1>10. CASE UNCHANGED vars
  <2>1. UNCHANGED <<stage, cbs, pos, todo, modified>>
    BY <1>10, Zenon DEF vars, lifeVars, mbaVars, handlerVars
  <2> QED
    BY <2>1 DEF AskedInv, Fires
<1> QED
  BY <1>3, <1>4, <1>5, <1>6, <1>7, <1>8, <1>9, <1>10 DEF Next, Event, Decompile, GenMicrocodeEx

\* Nothing is asked for or caught at first.
LEMMA RequestInit ==
  ASSUME Init PROVE AskedInv /\ RequestInv
BY DEF Init, AskedInv, RequestInv, CaughtAtFixpoint, Idle, NoMba

\* Where no request is answered: nothing is caught unless the decompilation
\* has been cancelled.
LEMMA NothingCaught ==
  ASSUME RequestInv, stage # "cancelled" PROVE output = NoMba
BY DEF RequestInv, CaughtAtFixpoint

\* test_at_reqmat answers with the function and maturity asked for.
LEMMA Answered ==
  ASSUME RequestInv, NEW mat \in Mats, NEW next, next \notin {"idle", "cancelled"},
         stage # "cancelled", Answer(mat, next), fn' = fn, UNCHANGED <<cbs, todo>>,
         mat = "preopt" => \A cb \in Range(cbs["preopt"]) : <<cb, 0>> \notin todo,
         mat = "glbopt" => \A i \in Insns : ~Fires(i)
  PROVE  RequestInv'
<1>1. output = NoMba
  BY NothingCaught
<1>2. \A i : Fires(i)' <=> Fires(i)
  BY DEF Fires
<1>3. CASE reqmat = mat
  <2>1. /\ output' = [fn |-> fn, mat |-> mat] /\ stage' = "cancelled" /\ reqmat' = mat
    BY <1>3, Zenon DEF Answer
  <2>2. "none" \notin Mats /\ "idle" # "cancelled"
    BY DEF Mats
  <2>3. CaughtAtFixpoint'
    BY <1>2, <2>1 DEF CaughtAtFixpoint
  <2> QED
    BY <2>1, <2>2, <2>3 DEF RequestInv, Idle
<1>4. CASE reqmat # mat
  BY <1>1, <1>4 DEF Answer, askVars, RequestInv, CaughtAtFixpoint, Idle
<1> QED
  BY <1>3, <1>4

\* RequestInv is kept: an answer cancels, and the return withdraws it.
LEMMA RequestStep ==
  ASSUME TypeOK, LifeInv, AskedInv, RequestInv, [Next]_vars PROVE RequestInv'
<1>1. ASSUME stage' \notin {"idle", "cancelled"}, output' = NoMba PROVE RequestInv'
  BY <1>1, Zenon DEF RequestInv, CaughtAtFixpoint, Idle
<1>2. ASSUME stage' = "idle", reqmat' = "none", output' = NoMba PROVE RequestInv'
  BY <1>2 DEF RequestInv, CaughtAtFixpoint, Idle
<1>3. ASSUME InitSkip \/ (\E supported \in BOOLEAN : InitHook(supported)) \/ Run \/ Term
      PROVE  RequestInv'
  <2>1. Idle
    BY <1>3, Zenon DEF InitSkip, InitHook, Run, Term, LifeInv
  <2>2. stage' = stage /\ reqmat' = reqmat /\ output' = output
    BY <1>3, Zenon DEF InitSkip, InitHook, Run, Term, askVars
  <2> QED
    BY <1>2, <2>1, <2>2, Zenon DEF RequestInv, Idle
<1>4. ASSUME NEW f \in Funcs, Decompile(f) \/ \E mat \in Mats : GenMicrocodeEx(f, mat)
      PROVE  RequestInv'
  <2>1. Idle /\ stage' = "started"
    BY <1>4, Zenon DEF Decompile, GenMicrocodeEx, Start
  <2>2. output' = NoMba
    BY <1>4, <2>1, Zenon DEF Decompile, GenMicrocodeEx, askVars, RequestInv
  <2> QED
    BY <1>1, <2>1, <2>2
<1>5. ASSUME Prolog \/ Preoptimized \/ AskPreopt \/ Glbopt \/ AskCombine
             \/ \E i \in Insns : Combine(i)
      PROVE  RequestInv'
  <2>1. /\ stage # "cancelled" /\ stage' \notin {"idle", "cancelled"} /\ output' = output
    BY <1>5 DEF Prolog, Preoptimized, AskPreopt, Glbopt, AskCombine, Combine, askVars
  <2> QED
    BY <1>1, <2>1, NothingCaught
<1>6. CASE PreoptReturn
  <2>1. stage = "in preopt" /\ pos > Len(cbs["preopt"]) /\ Answer("preopt", "preoptimized")
        /\ fn' = fn /\ UNCHANGED <<cbs, todo>> /\ pos \in Nat
    BY <1>6, Zenon DEF PreoptReturn, lifeVars, mbaVars, TypeOK
  <2>2. ASSUME NEW cb \in Range(cbs["preopt"]) PROVE <<cb, 0>> \notin todo
    <3>1. /\ DOMAIN cbs["preopt"] = 1..Len(cbs["preopt"]) /\ Len(cbs["preopt"]) \in Nat
      BY <2>1, RegistryTyped DEF Idle, Registries
    <3>2. PICK p \in 1..Len(cbs["preopt"]) : cb = cbs["preopt"][p]
      BY <2>2, <3>1 DEF Range
    <3>3. p < pos
      BY <2>1, <3>1, <3>2, PastTheLast, Zenon
    <3> QED
      BY <2>1, <3>2, <3>3, Zenon DEF AskedInv
  <2>3. "preopt" \in Mats /\ "preoptimized" \notin {"idle", "cancelled"} /\ stage # "cancelled"
        /\ "preopt" # "glbopt"
    BY <2>1 DEF Mats
  <2> QED
    BY <2>1, <2>2, <2>3, Answered
<1>7. CASE Locopt
  <2>1. stage = "preoptimized" /\ Answer("locopt", "locopted") /\ fn' = fn /\ UNCHANGED <<cbs, todo>>
    BY <1>7, Zenon DEF Locopt, lifeVars, mbaVars
  <2>2. "locopt" \in Mats /\ "locopted" \notin {"idle", "cancelled"} /\ stage # "cancelled"
        /\ "locopt" \notin {"preopt", "glbopt"}
    BY <2>1 DEF Mats
  <2> QED
    BY <2>1, <2>2, Answered
<1>8. CASE GlboptReturn
  <2>1. stage = "in glbopt" /\ pos > NInsns /\ fn' = fn /\ UNCHANGED <<cbs, todo>> /\ pos \in Nat
    BY <1>8, Zenon DEF GlboptReturn, lifeVars, mbaVars, TypeOK
  <2>2. CASE modified
    <3>1. stage' = "locopted" /\ output' = output
      BY <1>8, <2>2, Zenon DEF GlboptReturn, askVars
    <3> QED
      BY <1>1, <2>1, <3>1, NothingCaught
  <2>3. CASE ~modified
    <3>1. Answer("glbopt", "structuring")
      BY <1>8, <2>3, Zenon DEF GlboptReturn
    <3>2. \A i \in Insns : i < pos
      <4>1. NInsns \in Nat
        BY NInsnsAssumption
      <4> QED
        BY <2>1, <4>1, PastTheLast, Zenon DEF Insns
    <3>3. \A i \in Insns : ~Fires(i)
      BY <2>1, <2>3, <3>2, Zenon DEF AskedInv
    <3>4. "glbopt" \in Mats /\ "structuring" \notin {"idle", "cancelled"} /\ stage # "cancelled"
          /\ "glbopt" # "preopt"
      BY <2>1 DEF Mats
    <3> QED
      BY <2>1, <3>1, <3>3, <3>4, Answered
  <2> QED
    BY <2>2, <2>3
<1>9. CASE Return
  <2>1. output # NoMba => reqmat # "none"
    <3>1. output # NoMba => stage = "cancelled"
      BY NothingCaught
    <3> QED
      BY <3>1 DEF RequestInv
  <2> QED
    BY <1>2, <1>9, <2>1, Zenon DEF Return
<1>10. CASE UNCHANGED vars
  BY <1>10 DEF vars, lifeVars, askVars, mbaVars, RequestInv, CaughtAtFixpoint, Idle, Fires
<1> QED
  BY <1>3, <1>4, <1>5, <1>6, <1>7, <1>8, <1>9, <1>10 DEF Next, Event

\* The inductive invariant holds in every reachable state.
THEOREM Invariance == Spec => []IInv
<1>1. Init => IInv
  BY TypeInit, LifeInit, RequestInit DEF IInv
<1>2. IInv /\ [Next]_vars => IInv'
  BY TypeStep, LifeStep, AskedStep, RequestStep DEF IInv
<1> QED
  BY <1>1, <1>2, PTL DEF Spec

\* However often the plugin is loaded, toggled and unloaded with decompilations in
\* between, no callback is registered twice and none stays behind.
THEOREM TogglesCleanly == Spec => []RegistryFollowsToggle
<1>1. IInv => RegistryFollowsToggle
  BY Zenon DEF IInv, LifeInv, RegistryFollowsToggle, Registered
<1> QED
  BY <1>1, Invariance, PTL

\* What gen_microcode_ex is handed is the microcode of the function and maturity
\* it asked for, and no enabled callback of that maturity had work left on it.
THEOREM CatchesAtFixpoint == Spec => []CaughtAtFixpoint
<1>1. IInv => CaughtAtFixpoint
  BY DEF IInv, RequestInv
<1> QED
  BY <1>1, Invariance, PTL

\* No request outlives its call, so that no later decompilation is cancelled.
THEOREM RequestsEnd == Spec => RequestEnds
<1> DEFINE A == /\ Idle' => reqmat' = "none" /\ output' = NoMba
                /\ stage' = "cancelled" => reqmat # "none"
<1>1. IInv /\ IInv' /\ [Next]_vars => [A]_vars
  <2> SUFFICES ASSUME IInv, IInv', [Next]_vars, ~UNCHANGED vars PROVE A
    OBVIOUS
  <2>1. Idle' => reqmat' = "none" /\ output' = NoMba
    BY Zenon DEF IInv, RequestInv
  <2>2. ASSUME stage' = "cancelled" PROVE reqmat # "none"
    <3>1. CASE stage = "cancelled"
      BY <3>1, Zenon DEF IInv, RequestInv
    <3>2. CASE stage # "cancelled"
      <4>1. PreoptReturn \/ Locopt \/ GlboptReturn
        BY <2>2, <3>2 DEF Next, Event, InitSkip, InitHook, Run, Term, Decompile, GenMicrocodeEx, Start,
              Combine, Prolog, Preoptimized, AskPreopt, Glbopt, AskCombine, Return
      <4>2. reqmat \in Mats
        BY <2>2, <4>1 DEF PreoptReturn, Locopt, GlboptReturn, Answer, Mats
      <4> QED
        BY <4>2 DEF Mats
    <3> QED
      BY <3>1, <3>2
  <2> QED
    BY <2>1, <2>2
<1>2. Spec => [][A]_vars
  BY <1>1, Invariance, PTL DEF Spec
<1> QED
  BY <1>2 DEF RequestEnds

-----------------------------------------------------------------------------
(* What a rewriter makes of an instruction.                                  *)

\* The functions that settle instructions.
Makers == [Instructions -> Instructions]

\* The kinds that are no call of a function; an instruction of one of them has
\* nothing to lead on to.
OtherKinds == {"cond", "past", "jmp", "stop", "bmi", "op", "nop", "ret", "junk", "hang"}

\* The kinds of instructions and what they lead to.
LEMMA InsnIs ==
  ASSUME NEW i
  PROVE  i \in Instructions <=>
           /\ i = Insn(i.kind, i.to, i.size) /\ i.size \in Nat
           /\ \/ i.kind = "near" /\ i.to \in Fns
              \/ i.kind = "mem" /\ i.to \in Ptrs
              \/ i.kind \in OtherKinds /\ i.to \in Fns \cup {None}
BY DEF Instructions, Insn, OtherKinds

\* An instruction put together.
LEMMA MadeIs ==
  ASSUME NEW k, NEW t, NEW s \in Nat
  PROVE  /\ Insn(k, t, s) = [kind |-> k, to |-> t, size |-> s]
         /\ Insn(k, t, s).kind = k /\ Insn(k, t, s).to = t /\ Insn(k, t, s).size = s
         /\ k = "near" /\ t \in Fns => Insn(k, t, s) \in Instructions
         /\ k = "mem" /\ t \in Ptrs => Insn(k, t, s) \in Instructions
         /\ k \in OtherKinds /\ t \in Fns \cup {None} => Insn(k, t, s) \in Instructions
BY DEF Instructions, Insn, OtherKinds

\* What the world says of a function.
LEMMA FnIs ==
  ASSUME NEW w, IsWorld(w), NEW f \in Fns
  PROVE  /\ w.fns[f].body \in Seq(Instructions) /\ Len(w.fns[f].body) \in Nat \ {0}
         /\ w.fns[f].via \in Ptrs \cup {None} /\ w.fns[f].thunk \in Fns \cup {None}
         /\ w.fns[f].nullsub \in BOOLEAN
         /\ w.fns[f].body[1] \in Instructions
         /\ \A n \in 1..Len(w.fns[f].body) : /\ w.fns[f].body[n] \in Instructions
                                            /\ w.fns[f].body[n].size \in Nat \ {0}
<1> DEFINE I == Instructions
           b == w.fns[f].body
<1>1. w.fns \in [Fns -> [body : Seq(I), thunk : Fns \cup {None}, via : Ptrs \cup {None},
                         nullsub : BOOLEAN, noret : BOOLEAN]]
  BY Zenon DEF IsWorld
<1>2. Len(b) > 0 /\ \A n \in 1..Len(b) : b[n].size > 0
  BY Zenon DEF IsWorld
<1>i. \A i \in I : i.size \in Nat
  BY DEF Instructions
<1> HIDE DEF I
<1>3. /\ b \in Seq(I) /\ w.fns[f].via \in Ptrs \cup {None} /\ w.fns[f].thunk \in Fns \cup {None}
      /\ w.fns[f].nullsub \in BOOLEAN
  BY <1>1
<1> HIDE DEF b
<1>4. Len(b) \in Nat \ {0} /\ \A n \in 1..Len(b) : b[n] \in I
  BY <1>2, <1>3
<1>5. b[1] \in I /\ \A n \in 1..Len(b) : b[n] \in I /\ b[n].size \in Nat \ {0}
  BY <1>2, <1>4, <1>i
<1> QED
  BY <1>3, <1>4, <1>5 DEF b, I

\* What the world says of a pointer.
LEMMA PtrIs ==
  ASSUME NEW w, IsWorld(w), NEW p \in Ptrs
  PROVE  w.ptrs[p].const \in BOOLEAN /\ w.ptrs[p].to \in Fns
<1>1. w.ptrs \in [Ptrs -> [const : BOOLEAN, to : Fns]]
  BY Zenon DEF IsWorld
<1> QED
  BY <1>1

\* A conditional jump to where the debugger is tested for goes, one that is
\* followed by that is always taken, and other instructions than these and
\* calls stay as they are.
LEMMA OtherRewritten ==
  ASSUME NEW w, NEW i \in Instructions, NEW pre, i.kind \in OtherKinds
  PROVE  Rewritten(w, i, pre) = IF i.kind = "cond" THEN Insn("nop", i.to, i.size)
                                ELSE IF i.kind = "past" THEN Insn("jmp", i.to, i.size)
                                ELSE i
<1>1. i = Insn(i.kind, i.to, i.size) /\ i.kind \notin {"near", "mem"}
  BY InsnIs DEF OtherKinds
<1>2. NullsubCall(w, i) = i /\ ResolvedThunk(w, i) = i /\ OperationThenRet(w, i, pre) = i
  BY <1>1, Zenon DEF NullsubCall, ResolvedThunk, OperationThenRet
<1>3. Rewritten(w, i, pre) = IF UnderDebugger(i) # i THEN UnderDebugger(i) ELSE i
  BY <1>2, Zenon DEF Rewritten
<1>4. UnderDebugger(i) = IF i.kind = "cond" THEN Insn("nop", i.to, i.size)
                         ELSE IF i.kind = "past" THEN Insn("jmp", i.to, i.size) ELSE i
  BY <1>1 DEF UnderDebugger, Insn
<1>5. i.kind = "cond" => Insn("nop", i.to, i.size) # i
  BY <1>1 DEF Insn
<1>6. i.kind = "past" => Insn("jmp", i.to, i.size) # i
  BY <1>1 DEF Insn
<1> QED
  BY <1>3, <1>4, <1>5, <1>6

\* A call through a pointer becomes a call of what it always leads to.
LEMMA MemRewritten ==
  ASSUME NEW w, IsWorld(w), NEW p \in Ptrs, NEW s \in Nat, NEW pre
  PROVE  Rewritten(w, Insn("mem", p, s), pre) =
           IF w.ptrs[p].const THEN Insn("near", w.ptrs[p].to, s) ELSE Insn("mem", p, s)
<1> DEFINE i == Insn("mem", p, s)
           j == Insn("near", w.ptrs[p].to, s)
<1>1. i.kind = "mem" /\ i.to = p /\ i.size = s /\ i # j
  BY DEF Insn
<1>2. UnderDebugger(i) = i /\ NullsubCall(w, i) = i /\ OperationThenRet(w, i, pre) = i
  BY <1>1 DEF UnderDebugger, NullsubCall, OperationThenRet
<1> HIDE DEF i, j
<1>4. ResolvedThunk(w, i) = IF w.ptrs[p].const THEN j ELSE i
  BY <1>1 DEF ResolvedThunk, j
<1> QED
  BY <1>1, <1>2, <1>4, Zenon DEF Rewritten, i, j

\* What a call of f with size s is rewritten to: nothing if f is a nullsub, a
\* call of what f leads to, or the operation that f is.
LEMMA NearRewritten ==
  ASSUME NEW w, IsWorld(w), NEW f \in Fns, NEW s \in Nat, NEW pre
  PROVE  Rewritten(w, Insn("near", f, s), pre) =
           IF w.fns[f].nullsub THEN Insn("nop", None, s)
           ELSE IF w.fns[f].via # None THEN Insn("mem", w.fns[f].via, s)
           ELSE IF w.fns[f].thunk # None /\ w.fns[f].thunk # f THEN Insn("near", w.fns[f].thunk, s)
           ELSE OperationThenRet(w, Insn("near", f, s), pre)
<1> DEFINE i == Insn("near", f, s)
           g == w.fns[f]
<1>1. i.kind = "near" /\ i.to = f /\ i.size = s
  BY DEF Insn
<1>5. /\ Insn("nop", None, s) # i /\ Insn("mem", g.via, s) # i
      /\ (Insn("near", g.thunk, s) = i <=> g.thunk = f)
  BY DEF Insn
<1> HIDE DEF i
<1>2. UnderDebugger(i) = i
  BY <1>1 DEF UnderDebugger
<1>3. NullsubCall(w, i) = IF g.nullsub THEN Insn("nop", None, s) ELSE i
  BY <1>1 DEF NullsubCall
<1>4. ResolvedThunk(w, i) = IF g.via # None THEN Insn("mem", g.via, s)
                            ELSE IF g.thunk # None THEN Insn("near", g.thunk, s) ELSE i
  BY <1>1 DEF ResolvedThunk
<1> QED
  BY <1>2, <1>3, <1>4, <1>5, Zenon DEF Rewritten, i

\* What is taken for a call of f if x is what its first instruction comes to.
TakesFirst(w, f, x) ==
  /\ Last(w.fns[f].body).kind = "ret"
  /\ \/ x = Hang
     \/ x.size + Last(w.fns[f].body).size = SizeOf(w.fns[f].body) /\ OkayToInline(x)

\* The resolver of operations asks only for what the first instruction comes to.
LEMMA OperationIs ==
  ASSUME NEW w, NEW f, NEW s, NEW pre
  PROVE  OperationThenRet(w, Insn("near", f, s), pre) =
           IF TakesFirst(w, f, pre[w.fns[f].body[1]]) THEN pre[w.fns[f].body[1]] ELSE Insn("near", f, s)
<1> DEFINE i == Insn("near", f, s)
           x == pre[w.fns[f].body[1]]
<1>1. i.kind = "near" /\ i.to = f
  BY DEF Insn
<1> HIDE DEF i
<1> QED
  BY <1>1, Zenon DEF OperationThenRet, TakesFirst, i

\* What is taken is an instruction no rewriter changes.
LEMMA TakenIs ==
  ASSUME NEW w, NEW f, NEW x \in Instructions, TakesFirst(w, f, x)
  PROVE  x.kind \in OtherKinds \ {"cond", "past"}
<1>1. CASE x = Hang
  <2>1. x.kind = "hang"
    BY <1>1 DEF Hang, Insn
  <2> QED
    BY <2>1 DEF OtherKinds
<1>2. CASE x # Hang
  <2>1. OkayToInline(x)
    BY <1>2, Zenon DEF TakesFirst
  <2> QED
    BY <2>1 DEF OkayToInline, OtherKinds
<1> QED
  BY <1>1, <1>2

\* Rewriters make instructions of instructions.
LEMMA RewrittenType ==
  ASSUME NEW w, IsWorld(w), NEW i \in Instructions, NEW pre \in Makers
  PROVE  Rewritten(w, i, pre) \in Instructions
<1>1. i = Insn(i.kind, i.to, i.size) /\ i.size \in Nat
  BY InsnIs
<1>2. CASE i.kind = "near" /\ i.to \in Fns
  <2> DEFINE f == i.to
             s == i.size
             x == pre[w.fns[f].body[1]]
  <2>1. f \in Fns /\ i = Insn("near", f, s) /\ s \in Nat
    BY <1>1, <1>2
  <2>2. x \in Instructions
    BY <2>1, FnIs DEF Makers
  <2>3. w.fns[f].via \in Ptrs \cup {None} /\ w.fns[f].thunk \in Fns \cup {None}
    BY <2>1, FnIs
  <2>4. OperationThenRet(w, i, pre) \in {x, i}
    <3> HIDE DEF f, s
    <3>1. OperationThenRet(w, Insn("near", f, s), pre) =
            IF TakesFirst(w, f, x) THEN x ELSE Insn("near", f, s)
      BY OperationIs, Zenon
    <3> HIDE DEF x
    <3> QED
      BY <2>1, <3>1
  <2>5. Rewritten(w, i, pre) \in {Insn("nop", None, s), x, i}
          \cup (IF w.fns[f].via # None THEN {Insn("mem", w.fns[f].via, s)} ELSE {})
          \cup (IF w.fns[f].thunk # None THEN {Insn("near", w.fns[f].thunk, s)} ELSE {})
    <3> HIDE DEF f, s, x
    <3>1. Rewritten(w, Insn("near", f, s), pre) =
            IF w.fns[f].nullsub THEN Insn("nop", None, s)
            ELSE IF w.fns[f].via # None THEN Insn("mem", w.fns[f].via, s)
            ELSE IF w.fns[f].thunk # None /\ w.fns[f].thunk # f THEN Insn("near", w.fns[f].thunk, s)
            ELSE OperationThenRet(w, Insn("near", f, s), pre)
      BY <2>1, NearRewritten
    <3> QED
      BY <2>1, <2>4, <3>1
  <2>6. /\ Insn("nop", None, s) \in Instructions
        /\ w.fns[f].via # None => Insn("mem", w.fns[f].via, s) \in Instructions
        /\ w.fns[f].thunk # None => Insn("near", w.fns[f].thunk, s) \in Instructions
    <3>1. "nop" \in OtherKinds
      BY DEF OtherKinds
    <3> HIDE DEF f, s
    <3>2. None \in Fns \cup {None}
      OBVIOUS
    <3>3. Insn("nop", None, s) \in Instructions
      BY <2>1, <3>1, <3>2, MadeIs
    <3>4. w.fns[f].via # None => Insn("mem", w.fns[f].via, s) \in Instructions
      BY <2>1, <2>3, MadeIs
    <3>5. w.fns[f].thunk # None => Insn("near", w.fns[f].thunk, s) \in Instructions
      BY <2>1, <2>3, MadeIs
    <3> QED
      BY <3>3, <3>4, <3>5
  <2> HIDE DEF x, f, s
  <2> QED
    BY <2>2, <2>5, <2>6
<1>3. CASE i.kind = "mem" /\ i.to \in Ptrs
  <2>1. i = Insn("mem", i.to, i.size)
    BY <1>1, <1>3
  <2>2. Rewritten(w, i, pre) = IF w.ptrs[i.to].const THEN Insn("near", w.ptrs[i.to].to, i.size) ELSE i
    BY <1>1, <1>3, <2>1, MemRewritten, Zenon
  <2>3. w.ptrs[i.to].to \in Fns
    BY <1>3, PtrIs
  <2>4. Insn("near", w.ptrs[i.to].to, i.size) \in Instructions
    BY <1>1, <2>3, MadeIs
  <2> QED
    BY <2>2, <2>4
<1>4. CASE i.kind \in OtherKinds /\ i.to \in Fns \cup {None}
  <2>1. "nop" \in OtherKinds /\ "jmp" \in OtherKinds
    BY DEF OtherKinds
  <2>2. Insn("nop", i.to, i.size) \in Instructions /\ Insn("jmp", i.to, i.size) \in Instructions
    BY <1>1, <1>4, <2>1, MadeIs
  <2>3. Rewritten(w, i, pre) \in {i, Insn("nop", i.to, i.size), Insn("jmp", i.to, i.size)}
    <3>1. Rewritten(w, i, pre) = IF i.kind = "cond" THEN Insn("nop", i.to, i.size)
                                 ELSE IF i.kind = "past" THEN Insn("jmp", i.to, i.size) ELSE i
      BY <1>4, OtherRewritten, Zenon
    <3> QED
      BY <3>1
  <2> QED
    BY <2>2, <2>3
<1> QED
  BY <1>2, <1>3, <1>4, InsnIs

\* What a round comes to.
LEMMA RoundIs ==
  ASSUME NEW w, IsWorld(w), NEW pre \in Makers
  PROVE  /\ Round(w, pre) \in Makers
         /\ \A i \in Instructions :
              Round(w, pre)[i] = IF Rewritten(w, i, pre) = i THEN i ELSE pre[Rewritten(w, i, pre)]
<1>1. \A i \in Instructions :
        Round(w, pre)[i] = IF Rewritten(w, i, pre) = i THEN i ELSE pre[Rewritten(w, i, pre)]
  BY Zenon DEF Round
<1>2. ASSUME NEW i \in Instructions PROVE Round(w, pre)[i] \in Instructions
  <2>1. Rewritten(w, i, pre) \in Instructions
    BY RewrittenType
  <2>2. pre[Rewritten(w, i, pre)] \in Instructions
    BY <2>1 DEF Makers
  <2> QED
    BY <1>1, <2>2, Zenon
<1>3. Round(w, pre) = [i \in Instructions |-> Round(w, pre)[i]]
  BY Zenon DEF Round
<1> HIDE DEF Round
<1> QED
  <2> DEFINE r == Round(w, pre)
  <2>1. r \in Makers
    <3> HIDE DEF r
    <3>1. \A i \in Instructions : r[i] \in Instructions
      BY <1>2 DEF r
    <3>2. r = [i \in Instructions |-> r[i]]
      BY <1>3 DEF r
    <3> QED
      BY <3>1, <3>2 DEF Makers
  <2> QED
    BY <1>1, <2>1

-----------------------------------------------------------------------------
(* The rounds come to an end.                                                *)

\* g[n]: what n rounds come to.
Series(w, g, k) ==
  /\ g \in [0..k -> Makers]
  /\ \A n \in 0..(k - 1) : g[n + 1] = Round(w, g[n])

\* From round c on, i has settled.
Stays(g, k, i, c) == \A n \in c..(k - 1) : g[n + 1][i] = g[n][i]

\* What one more round makes of an instruction.
LEMMA NextRound ==
  ASSUME NEW w, IsWorld(w), NEW k \in Nat, NEW g, Series(w, g, k), NEW n \in 1..k,
         NEW i \in Instructions
  PROVE  /\ g[n - 1] \in Makers
         /\ g[n][i] = IF Rewritten(w, i, g[n - 1]) = i THEN i ELSE g[n - 1][Rewritten(w, i, g[n - 1])]
<1> DEFINE m == n - 1
<1>1. m \in 0..(k - 1) /\ m \in 0..k /\ m + 1 = n
  OBVIOUS
<1> HIDE DEF m
<1>2. g[m] \in Makers /\ g[m + 1] = Round(w, g[m])
  BY <1>1 DEF Series
<1> DEFINE pre == g[m]
<1> HIDE DEF pre
<1>3. Round(w, pre)[i] = IF Rewritten(w, i, pre) = i THEN i ELSE pre[Rewritten(w, i, pre)]
  BY <1>2, RoundIs DEF pre
<1>4. g[n] = Round(w, pre)
  BY <1>1, <1>2 DEF pre
<1>5. pre \in Makers /\ pre = g[n - 1]
  BY <1>2 DEF pre, m
<1> QED
  BY <1>3, <1>4, <1>5, Zenon

\* An instruction no rewriter changes stays from the first round on.
LEMMA FixedStays ==
  ASSUME NEW w, IsWorld(w), NEW k \in Nat, NEW g, Series(w, g, k), NEW n \in 1..k,
         NEW i \in Instructions, i.kind \in OtherKinds \ {"cond", "past"}
  PROVE  g[n][i] = i
<1>1. Rewritten(w, i, g[n - 1]) = i
  BY OtherRewritten
<1> QED
  BY <1>1, NextRound

\* One that is no call, from the second on.
LEMMA OtherStays ==
  ASSUME NEW w, IsWorld(w), NEW k \in Nat, NEW g, Series(w, g, k),
         NEW i \in Instructions, i.kind \in OtherKinds
  PROVE  Stays(g, k, i, 2)
<1> SUFFICES ASSUME NEW n \in 2..(k - 1) PROVE g[n + 1][i] = g[n][i]
  BY DEF Stays
<1>1. n \in 1..k /\ n + 1 \in 1..k /\ (n + 1) - 1 = n /\ n - 1 \in 1..k /\ n \in Nat
  OBVIOUS
<1>2. CASE i.kind \notin {"cond", "past"}
  BY <1>1, <1>2, FixedStays
<1>3. ASSUME NEW q \in OtherKinds \ {"cond", "past"}, q \in {"nop", "jmp"},
             i.kind = "cond" => q = "nop", i.kind = "past" => q = "jmp", i.kind \in {"cond", "past"}
      PROVE  \A m \in 2..k : g[m][i] = Insn(q, i.to, i.size)
  <2> TAKE m \in 2..k
  <2>1. m \in 1..k /\ m - 1 \in 1..k
    OBVIOUS
  <2> DEFINE j == Insn(q, i.to, i.size)
  <2>2. Rewritten(w, i, g[m - 1]) = j
    <3>1. Rewritten(w, i, g[m - 1]) = IF i.kind = "cond" THEN Insn("nop", i.to, i.size)
                                ELSE IF i.kind = "past" THEN Insn("jmp", i.to, i.size) ELSE i
      BY OtherRewritten, Zenon
    <3> QED
      BY <1>3, <3>1
  <2>3. j \in Instructions /\ j.kind = q
    <3>1. i.size \in Nat /\ i.to \in Fns \cup {None}
      <4>1. "near" \notin OtherKinds /\ "mem" \notin OtherKinds
        BY DEF OtherKinds
      <4> QED
        BY InsnIs, <4>1
    <3> QED
      BY <3>1, MadeIs
  <2>4. j # i
    BY <2>3, <1>3
  <2> HIDE DEF j
  <2>5. g[m - 1][j] = j
    BY <2>1, <2>3, FixedStays
  <2>6. g[m][i] = g[m - 1][j]
    <3>1. g[m][i] = IF Rewritten(w, i, g[m - 1]) = i THEN i ELSE g[m - 1][Rewritten(w, i, g[m - 1])]
      BY <2>1, NextRound
    <3> QED
      BY <2>2, <2>4, <3>1
  <2> QED
    BY <2>5, <2>6 DEF j
<1>4. CASE i.kind = "cond"
  <2>1. "nop" \in OtherKinds \ {"cond", "past"}
    BY DEF OtherKinds
  <2>2. \A m \in 2..k : g[m][i] = Insn("nop", i.to, i.size)
    BY <1>3, <1>4, <2>1
  <2>3. n \in 2..k /\ n + 1 \in 2..k
    OBVIOUS
  <2> QED
    BY <2>2, <2>3
<1>5. CASE i.kind = "past"
  <2>1. "jmp" \in OtherKinds \ {"cond", "past"}
    BY DEF OtherKinds
  <2>2. \A m \in 2..k : g[m][i] = Insn("jmp", i.to, i.size)
    BY <1>3, <1>5, <2>1
  <2>3. n \in 2..k /\ n + 1 \in 2..k
    OBVIOUS
  <2> QED
    BY <2>2, <2>3
<1> QED
  BY <1>2, <1>4, <1>5

\* A call through a pointer, one round after what the pointer always leads to.
LEMMA MemStays ==
  ASSUME NEW w, IsWorld(w), NEW k \in Nat, NEW g, Series(w, g, k), NEW c \in Nat,
         NEW p \in Ptrs, NEW s \in Nat,
         w.ptrs[p].const => Stays(g, k, Insn("near", w.ptrs[p].to, s), c)
  PROVE  Stays(g, k, Insn("mem", p, s), c + 1)
<1> DEFINE i == Insn("mem", p, s)
           j == Insn("near", w.ptrs[p].to, s)
<1>0. i \in Instructions /\ i # j
  <2>1. i.kind = "mem" /\ j.kind = "near"
    BY DEF Insn
  <2> QED
    BY <2>1, MadeIs
<1>1. \A pre : Rewritten(w, i, pre) = IF w.ptrs[p].const THEN j ELSE i
  BY MemRewritten
<1>2. w.ptrs[p].const => Stays(g, k, j, c)
  OBVIOUS
<1> HIDE DEF i, j
<1> SUFFICES ASSUME NEW n \in (c + 1)..(k - 1) PROVE g[n + 1][i] = g[n][i]
  BY DEF Stays, i
<1>3. n \in 1..k /\ n + 1 \in 1..k /\ (n + 1) - 1 = n /\ n - 1 \in c..(k - 1) /\ (n - 1) + 1 = n
  OBVIOUS
<1>4. /\ g[n + 1][i] = IF Rewritten(w, i, g[n]) = i THEN i ELSE g[n][Rewritten(w, i, g[n])]
      /\ g[n][i] = IF Rewritten(w, i, g[n - 1]) = i THEN i ELSE g[n - 1][Rewritten(w, i, g[n - 1])]
  BY <1>0, <1>3, NextRound
<1>5. CASE w.ptrs[p].const
  <2>1. g[n][j] = g[n - 1][j]
    BY <1>2, <1>3, <1>5 DEF Stays
  <2> QED
    BY <1>0, <1>1, <1>4, <1>5, <2>1
<1>6. CASE ~w.ptrs[p].const
  BY <1>1, <1>4, <1>6
<1> QED
  BY <1>5, <1>6

\* From later on, too.
LEMMA StaysLater ==
  ASSUME NEW k \in Nat, NEW g, NEW i, NEW c \in Nat, NEW d \in Nat, c <= d, Stays(g, k, i, c)
  PROVE  Stays(g, k, i, d)
<1>1. \A n \in d..(k - 1) : n \in c..(k - 1)
  OBVIOUS
<1> QED
  BY <1>1 DEF Stays

\* A call of a function settles two rounds after those of the functions it may
\* lead on to.
LEMMA NearStays ==
  ASSUME NEW w, IsWorld(w), NEW k \in Nat, NEW g, Series(w, g, k), NEW c \in Nat \ {0},
         NEW E \in SUBSET Fns,
         \A e \in E : \A s \in Nat : Stays(g, k, Insn("near", e, s), c),
         NEW f \in Fns, Onward(w, f) \subseteq E, NEW s \in Nat
  PROVE  Stays(g, k, Insn("near", f, s), c + 2)
<1> DEFINE i == Insn("near", f, s)
           b == w.fns[f].body[1]
           via == w.fns[f].via
           to == w.fns[f].thunk
<1>0. i \in Instructions /\ b \in Instructions /\ i.kind = "near"
      /\ via \in Ptrs \cup {None} /\ to \in Fns \cup {None}
  <2>1. i.kind = "near"
    BY DEF Insn
  <2> QED
    BY <2>1, MadeIs, FnIs
<1>1. \A e \in E : Stays(g, k, Insn("near", e, s), c + 1)
  BY StaysLater
<1>2. CASE to = f
  <2>1. f \in E
    BY <1>2, FnsAssumption DEF Onward
  <2> QED
    BY <2>1, StaysLater
<1>3. CASE to # f
  <2> SUFFICES ASSUME NEW n \in (c + 2)..(k - 1) PROVE g[n + 1][i] = g[n][i]
    BY DEF Stays
  <2>1. /\ n \in 1..k /\ n + 1 \in 1..k /\ (n + 1) - 1 = n /\ (n - 1) + 1 = n /\ n - 1 \in 1..k
        /\ n - 1 \in (c + 1)..(k - 1)
    OBVIOUS
  <2> DEFINE Made(pre) == Rewritten(w, i, pre)
  <2>2. /\ g[n + 1][i] = IF Made(g[n]) = i THEN i ELSE g[n][Made(g[n])]
        /\ g[n][i] = IF Made(g[n - 1]) = i THEN i ELSE g[n - 1][Made(g[n - 1])]
        /\ g[n] \in Makers /\ g[n - 1] \in Makers
    BY <1>0, <2>1, NextRound
  <2>3. ASSUME NEW pre
        PROVE  Made(pre) = IF w.fns[f].nullsub THEN Insn("nop", None, s)
                           ELSE IF via # None THEN Insn("mem", via, s)
                           ELSE IF to # None THEN Insn("near", to, s)
                           ELSE IF TakesFirst(w, f, pre[b]) THEN pre[b] ELSE i
    <3>1. Rewritten(w, Insn("near", f, s), pre) =
            IF w.fns[f].nullsub THEN Insn("nop", None, s)
            ELSE IF w.fns[f].via # None THEN Insn("mem", w.fns[f].via, s)
            ELSE IF w.fns[f].thunk # None /\ w.fns[f].thunk # f THEN Insn("near", w.fns[f].thunk, s)
            ELSE OperationThenRet(w, Insn("near", f, s), pre)
      BY NearRewritten
    <3>2. OperationThenRet(w, Insn("near", f, s), pre) =
            IF TakesFirst(w, f, pre[w.fns[f].body[1]]) THEN pre[w.fns[f].body[1]] ELSE Insn("near", f, s)
      BY OperationIs, Zenon
    <3> HIDE DEF Made
    <3> QED
      BY <1>3, <3>1, <3>2, Zenon DEF Made
  <2>4. ASSUME NEW j \in Instructions, \A pre : Made(pre) = j,
               j # i => g[n][j] = g[n - 1][j]
        PROVE  g[n + 1][i] = g[n][i]
    BY <2>2, <2>4
  <2> HIDE DEF Made
  <2>5. CASE w.fns[f].nullsub
    <3> DEFINE j == Insn("nop", None, s)
    <3>1. j \in Instructions /\ j.kind \in OtherKinds \ {"cond", "past"}
      <4>1. j.kind = "nop" /\ "nop" \in OtherKinds
        BY DEF Insn, OtherKinds
      <4> QED
        BY <4>1, MadeIs
    <3> HIDE DEF j
    <3>2. g[n][j] = j /\ g[n - 1][j] = j
      BY <2>1, <3>1, FixedStays
    <3>3. \A pre : Made(pre) = j
      BY <2>3, <2>5 DEF j
    <3> QED
      BY <2>4, <3>1, <3>2, <3>3
  <2>6. CASE ~w.fns[f].nullsub /\ via # None
    <3> DEFINE j == Insn("mem", via, s)
    <3>1. j \in Instructions
      BY <1>0, <2>6, MadeIs, SMTT(30)
    <3>2. w.ptrs[via].const => w.ptrs[via].to \in E
      BY <2>6 DEF Onward, Leads, Insn
    <3>3. Stays(g, k, j, c + 1)
      BY <1>0, <2>6, <3>2, MemStays
    <3> HIDE DEF j
    <3>4. g[n][j] = g[n - 1][j]
      BY <2>1, <3>3 DEF Stays
    <3>5. \A pre : Made(pre) = j
      BY <2>3, <2>6 DEF j
    <3> QED
      BY <2>4, <3>1, <3>4, <3>5
  <2>7. CASE ~w.fns[f].nullsub /\ via = None /\ to # None
    <3> DEFINE j == Insn("near", to, s)
    <3>1. j \in Instructions
      BY <1>0, <2>7, MadeIs
    <3>2. to \in E
      BY <2>7 DEF Onward
    <3>3. Stays(g, k, j, c + 1)
      BY <1>1, <3>2
    <3> HIDE DEF j
    <3>4. g[n][j] = g[n - 1][j]
      BY <2>1, <3>3 DEF Stays
    <3>5. \A pre : Made(pre) = j
      BY <2>3, <2>7 DEF j
    <3> QED
      BY <2>4, <3>1, <3>4, <3>5
  <2>8. CASE ~w.fns[f].nullsub /\ via = None /\ to = None
    <3>1. ASSUME NEW pre PROVE Made(pre) = IF TakesFirst(w, f, pre[b]) THEN pre[b] ELSE i
      BY <2>3, <2>8
    <3>2. CASE Last(w.fns[f].body).kind # "ret"
      <4>1. \A x : ~TakesFirst(w, f, x)
        BY <3>2 DEF TakesFirst
      <4> QED
        BY <2>2, <3>1, <4>1
    <3>3. CASE Last(w.fns[f].body).kind = "ret"
      <4>1. Leads(w, b) \subseteq E
        BY <3>3 DEF Onward
      <4>2. Stays(g, k, b, c + 1)
        <5>1. CASE b.kind = "near" /\ b.to \in Fns
          <6>1. b.to \in E
            BY <4>1, <5>1 DEF Leads
          <6>2. b = Insn("near", b.to, b.size) /\ b.size \in Nat
            BY <1>0, <5>1, InsnIs
          <6>3. Stays(g, k, Insn("near", b.to, b.size), c)
            BY <6>1, <6>2
          <6> HIDE DEF b
          <6>4. Stays(g, k, b, c)
            BY <6>2, <6>3, Zenon
          <6> QED
            BY <6>4, StaysLater
        <5>2. CASE b.kind = "mem" /\ b.to \in Ptrs
          <6>1. w.ptrs[b.to].const => w.ptrs[b.to].to \in E
            BY <4>1, <5>2 DEF Leads
          <6>2. b = Insn("mem", b.to, b.size) /\ b.size \in Nat
            BY <1>0, <5>2, InsnIs
          <6> HIDE DEF b
          <6>3. w.ptrs[b.to].const => Stays(g, k, Insn("near", w.ptrs[b.to].to, b.size), c)
            BY <6>1, <6>2
          <6>4. Stays(g, k, Insn("mem", b.to, b.size), c + 1)
            BY <5>2, <6>2, <6>3, MemStays
          <6> QED
            BY <6>2, <6>4, Zenon
        <5>3. CASE b.kind \in OtherKinds
          <6>1. Stays(g, k, b, 2)
            BY <1>0, <5>3, OtherStays
          <6> QED
            BY <6>1, StaysLater
        <5> QED
          BY <1>0, <5>1, <5>2, <5>3, InsnIs
      <4>3. g[n][b] = g[n - 1][b]
        BY <2>1, <4>2 DEF Stays
      <4> DEFINE x == g[n][b]
      <4>4. x \in Instructions
        BY <1>0, <2>2 DEF Makers
      <4>5. Made(g[n]) = (IF TakesFirst(w, f, x) THEN x ELSE i)
            /\ Made(g[n - 1]) = (IF TakesFirst(w, f, x) THEN x ELSE i)
        BY <3>1, <4>3
      <4> HIDE DEF x
      <4>6. CASE TakesFirst(w, f, x)
        <5>1. x.kind \in OtherKinds \ {"cond", "past"}
          BY <4>4, <4>6, TakenIs
        <5>2. g[n][x] = x /\ g[n - 1][x] = x
          BY <2>1, <4>4, <5>1, FixedStays
        <5> QED
          BY <2>2, <4>5, <4>6, <5>2
      <4>7. CASE ~TakesFirst(w, f, x)
        BY <2>2, <4>5, <4>7
      <4> QED
        BY <4>6, <4>7
    <3> QED
      BY <3>2, <3>3
  <2> QED
    BY <2>5, <2>6, <2>7, <2>8
<1> QED
  BY <1>2, <1>3

\* e[n]: the functions from which no way goes on for n steps.
Endings(w, e) ==
  /\ e \in [0..Cardinality(Fns) -> SUBSET Fns]
  /\ e[0] = {} /\ e[Cardinality(Fns)] = Fns
  /\ \A n \in 0..(Cardinality(Fns) - 1) : e[n + 1] = {f \in Fns : Onward(w, f) \subseteq e[n]}

\* What NoCircle says.
LEMMA EndingsAre ==
  ASSUME NEW w, NoCircle(w)
  PROVE  Cardinality(Fns) \in Nat /\ \E e : Endings(w, e)
<1> DEFINE l == Cardinality(Fns)
           X == SUBSET Fns
           F == [p \in Nat \X X |-> {f \in Fns : Onward(w, f) \subseteq p[2]}]
           ending[n \in 0..l] == IF n = 0 THEN {} ELSE {f \in Fns : Onward(w, f) \subseteq ending[n - 1]}
<1>0. l \in Nat
  BY FnsAssumption, FS_CardinalityType
<1>1. {} \in X /\ F \in [Nat \X X -> X]
  OBVIOUS
<1>2. PICK e : Unrolls(e, X, {}, F, l)
  <2> HIDE DEF l, X, F
  <2> QED
    BY <1>0, <1>1, Recursion
<1>3. /\ e \in [0..l -> X] /\ e[0] = {}
      /\ \A n \in 0..(l - 1) : e[n + 1] = F[<<n, e[n]>>]
  BY <1>2 DEF Unrolls
<1>4. ASSUME NEW n \in 0..(l - 1) PROVE e[n + 1] = {f \in Fns : Onward(w, f) \subseteq e[n]}
  <2>1. n \in Nat /\ e[n] \in X
    BY <1>0, <1>3
  <2>2. F[<<n, e[n]>>] = {f \in Fns : Onward(w, f) \subseteq e[n]}
    BY <2>1
  <2> QED
    BY <1>3, <2>2
<1>5. e = [n \in 0..l |-> IF n = 0 THEN {} ELSE {f \in Fns : Onward(w, f) \subseteq e[n - 1]}]
  <2>1. ASSUME NEW n \in 0..l
        PROVE  e[n] = IF n = 0 THEN {} ELSE {f \in Fns : Onward(w, f) \subseteq e[n - 1]}
    <3>1. CASE n = 0
      BY <1>3, <3>1
    <3>2. CASE n # 0
      <4> DEFINE m == n - 1
      <4>1. m \in 0..(l - 1) /\ m + 1 = n
        BY <1>0, <3>2
      <4> HIDE DEF m
      <4>2. e[m + 1] = {f \in Fns : Onward(w, f) \subseteq e[m]}
        BY <1>4, <4>1
      <4> QED
        BY <3>2, <4>1, <4>2, Zenon DEF m
    <3> QED
      BY <3>1, <3>2
  <2>2. e = [n \in 0..l |-> e[n]]
    BY <1>3
  <2> QED
    BY <2>1, <2>2, Zenon
<1> DEFINE Eq(h) == h = [n \in 0..l |-> IF n = 0 THEN {} ELSE {f \in Fns : Onward(w, f) \subseteq h[n - 1]}]
<1>6. Eq(ending)
  <2>1. ending = CHOOSE h : Eq(h)
    BY Zenon
  <2>2. Eq(e)
    BY <1>5
  <2> HIDE DEF Eq, ending
  <2> QED
    BY <2>1, <2>2, Zenon
<1>7. ending[l] = Fns
  BY Zenon DEF NoCircle
<1> HIDE DEF ending, F, X
<1>8. \A n \in 0..l : ending[n] = IF n = 0 THEN {} ELSE {f \in Fns : Onward(w, f) \subseteq ending[n - 1]}
  BY <1>6, Zenon
<1>9. \A n \in 0..l : ending[n] = e[n]
  <2> DEFINE S == {n \in 0..l : ending[n] = e[n]}
  <2>1. 0 \in S
    <3>1. 0 \in 0..l
      BY <1>0
    <3> QED
      BY <1>3, <1>8, <3>1, Zenon
  <2>2. ASSUME NEW n \in 0..(l - 1), n \in S PROVE n + 1 \in S
    <3>1. n + 1 \in 0..l /\ n + 1 # 0 /\ (n + 1) - 1 = n
      BY <1>0
    <3>2. ending[n + 1] = {f \in Fns : Onward(w, f) \subseteq ending[n]}
      BY <1>8, <3>1
    <3> QED
      BY <1>4, <2>2, <3>1, <3>2
  <2> HIDE DEF S, l
  <2>3. 0..l \subseteq S
    BY <1>0, <2>1, <2>2, IntervalInduction
  <2> QED
    BY <2>3 DEF S
<1>10. e[l] = Fns
  BY <1>0, <1>7, <1>9
<1> QED
  BY <1>0, <1>3, <1>4, <1>10 DEF Endings, X

\* What the rounds are.
LEMMA RoundsAre ==
  ASSUME NEW w, IsWorld(w)
  PROVE  \E g : Series(w, g, Rounds) /\ PreprocessedIn(w) = g[Rounds]
<1> DEFINE l == Rounds
           X == Makers
           x0 == [i \in Instructions |-> Hang]
           F == [p \in Nat \X X |-> Round(w, p[2])]
           Eq(h) == h = [n \in 0..l |-> IF n = 0 THEN x0 ELSE Round(w, h[n - 1])]
<1>0. l \in Nat
  BY RoundsAssumption
<1>1. x0 \in X /\ F \in [Nat \X X -> X]
  <2>1. Hang \in Instructions
    <3>1. "hang" \in OtherKinds /\ None \in Fns \cup {None} /\ 0 \in Nat
      BY DEF OtherKinds
    <3> QED
      BY <3>1, MadeIs DEF Hang
  <2>2. x0 \in X
    BY <2>1 DEF Makers
  <2>3. \A pre \in X : Round(w, pre) \in X
    BY RoundIs
  <2> HIDE DEF X
  <2> QED
    BY <2>2, <2>3
<1> HIDE DEF x0
<1>2. PICK g : Unrolls(g, X, x0, F, l)
  <2> HIDE DEF l, X, F
  <2> QED
    BY <1>0, <1>1, Recursion
<1>3. /\ g \in [0..l -> X] /\ g[0] = x0
      /\ \A n \in 0..(l - 1) : g[n + 1] = F[<<n, g[n]>>]
  BY <1>2 DEF Unrolls
<1>4. ASSUME NEW n \in 0..(l - 1) PROVE g[n + 1] = Round(w, g[n])
  <2> HIDE DEF X
  <2>1. n \in Nat /\ g[n] \in X
    BY <1>0, <1>3
  <2>2. F[<<n, g[n]>>] = Round(w, g[n])
    BY <2>1
  <2> QED
    BY <1>3, <2>2
<1>5. Eq(g)
  <2>1. ASSUME NEW n \in 0..l
        PROVE  g[n] = IF n = 0 THEN x0 ELSE Round(w, g[n - 1])
    <3>1. CASE n = 0
      BY <1>3, <3>1
    <3>2. CASE n # 0
      <4> DEFINE m == n - 1
      <4>1. m \in 0..(l - 1) /\ m + 1 = n
        BY <1>0, <3>2
      <4> HIDE DEF m
      <4>2. g[m + 1] = Round(w, g[m])
        BY <1>4, <4>1
      <4> QED
        BY <3>2, <4>1, <4>2, Zenon DEF m
    <3> QED
      BY <3>1, <3>2
  <2>2. g = [n \in 0..l |-> g[n]]
    BY <1>3
  <2> QED
    BY <2>1, <2>2, Zenon
<1> DEFINE after == CHOOSE h : Eq(h)
<1>6. PreprocessedIn(w) = after[l]
  BY Zenon DEF PreprocessedIn, x0
<1>7. Eq(after)
  <2> HIDE DEF Eq
  <2> QED
    BY <1>5, Zenon
<1> HIDE DEF after
<1>8. \A n \in 0..l : after[n] = IF n = 0 THEN x0 ELSE Round(w, after[n - 1])
  BY <1>7, Zenon
<1> HIDE DEF F, X, Eq
<1>9. \A n \in 0..l : after[n] = g[n]
  <2> DEFINE S == {n \in 0..l : after[n] = g[n]}
  <2>1. 0 \in S
    <3>1. 0 \in 0..l
      BY <1>0
    <3> QED
      BY <1>3, <1>8, <3>1, Zenon
  <2>2. ASSUME NEW n \in 0..(l - 1), n \in S PROVE n + 1 \in S
    <3>1. n + 1 \in 0..l /\ n + 1 # 0 /\ (n + 1) - 1 = n
      BY <1>0
    <3>2. after[n + 1] = Round(w, after[n])
      BY <1>8, <3>1
    <3> QED
      BY <1>4, <2>2, <3>1, <3>2
  <2> HIDE DEF S, l
  <2>3. 0..l \subseteq S
    BY <1>0, <2>1, <2>2, IntervalInduction
  <2> QED
    BY <2>3 DEF S
<1> QED
  <2>1. Series(w, g, l)
    BY <1>3, <1>4 DEF Series, X
  <2>2. PreprocessedIn(w) = g[l]
    BY <1>0, <1>6, <1>9
  <2> QED
    BY <2>1, <2>2

\* What is preprocessed: an instruction the rewriters leave alone as it is, and
\* one they change as what they make of it.
LEMMA Preprocesses ==
  ASSUME NEW w, IsWorld(w), NoCircle(w)
  PROVE  /\ PreprocessedIn(w) \in Makers
         /\ \A i \in Instructions :
              /\ Rewritten(w, i, PreprocessedIn(w)) \in Instructions
              /\ PreprocessedIn(w)[i] = IF Rewritten(w, i, PreprocessedIn(w)) = i THEN i
                                        ELSE PreprocessedIn(w)[Rewritten(w, i, PreprocessedIn(w))]
<1> DEFINE l == Cardinality(Fns)
           k == Rounds + 1
<1>0. l \in Nat /\ Rounds \in Nat /\ Rounds >= 2 * l + 2
  BY EndingsAre, RoundsAssumption
<1>1. PICK h : Series(w, h, Rounds) /\ PreprocessedIn(w) = h[Rounds]
  BY RoundsAre
<1> DEFINE pre == PreprocessedIn(w)
           g == [n \in 0..k |-> IF n = k THEN Round(w, pre) ELSE h[n]]
<1>2. pre \in Makers /\ Round(w, pre) \in Makers
  <2>1. h[Rounds] \in Makers
    BY <1>0, <1>1 DEF Series
  <2>2. pre \in Makers
    BY <1>1, <2>1
  <2> HIDE DEF pre
  <2> QED
    BY <2>2, RoundIs
<1>3. Series(w, g, k) /\ g[Rounds] = pre /\ g[Rounds + 1] = Round(w, pre)
  <2>1. \A n \in 0..Rounds : h[n] \in Makers
    BY <1>1 DEF Series
  <2>2. \A n \in 0..(Rounds - 1) : h[n + 1] = Round(w, h[n])
    BY <1>1 DEF Series
  <2>3. /\ \A n \in 0..Rounds : n \in 0..k /\ n # k
        /\ \A n \in 0..k : n = k \/ n \in 0..Rounds
        /\ \A n \in 0..(k - 1) : n \in 0..Rounds /\ (n = Rounds \/ (n \in 0..(Rounds - 1) /\ n + 1 \in 0..Rounds))
        /\ Rounds \in 0..Rounds /\ k \in 0..k /\ Rounds + 1 = k
    BY <1>0
  <2> HIDE DEF pre, k
  <2>4. \A n \in 0..k : g[n] = IF n = k THEN Round(w, pre) ELSE h[n]
    OBVIOUS
  <2>5. g \in [0..k -> Makers]
    BY <1>2, <2>1, <2>3
  <2> HIDE DEF g
  <2>6. \A n \in 0..Rounds : g[n] = h[n]
    BY <2>3, <2>4
  <2>7. g[k] = Round(w, pre) /\ h[Rounds] = pre
    BY <1>1, <2>3, <2>4 DEF pre
  <2>8. \A n \in 0..(k - 1) : g[n + 1] = Round(w, g[n])
    <3> TAKE n \in 0..(k - 1)
    <3>1. CASE n = Rounds
      BY <3>1, <2>3, <2>6, <2>7
    <3>2. CASE n # Rounds
      <4>1. n \in 0..Rounds /\ n \in 0..(Rounds - 1) /\ n + 1 \in 0..Rounds
        BY <2>3, <3>2
      <4> QED
        BY <2>2, <2>6, <4>1
    <3> QED
      BY <3>1, <3>2
  <2> QED
    BY <2>3, <2>5, <2>6, <2>7, <2>8 DEF Series
<1> HIDE DEF g, pre
<1>4. PICK e : Endings(w, e)
  BY EndingsAre
<1>5. \A n \in 0..l : \A f \in e[n] : \A s \in Nat : Stays(g, k, Insn("near", f, s), 2 * n + 1)
  <2> DEFINE S == {n \in 0..l : \A f \in e[n] : \A s \in Nat : Stays(g, k, Insn("near", f, s), 2 * n + 1)}
  <2>1. 0 \in S
    BY <1>0, <1>4 DEF Endings
  <2>2. ASSUME NEW n \in 0..(l - 1), n \in S PROVE n + 1 \in S
    <3> DEFINE c == 2 * n + 1
               E == e[n]
    <3>1. /\ n + 1 \in 0..l /\ n \in 0..l /\ c \in Nat \ {0} /\ c + 2 = 2 * (n + 1) + 1 /\ k \in Nat
      BY <1>0
    <3>2. E \in SUBSET Fns /\ \A f \in e[n + 1] : f \in Fns /\ Onward(w, f) \subseteq E
      BY <1>4, <3>1 DEF Endings
    <3>3. \A f \in E : \A s \in Nat : Stays(g, k, Insn("near", f, s), c)
      BY <2>2
    <3> HIDE DEF E, c, k
    <3>4. ASSUME NEW f \in e[n + 1], NEW s \in Nat PROVE Stays(g, k, Insn("near", f, s), c + 2)
      <4>1. f \in Fns /\ Onward(w, f) \subseteq E
        BY <3>2
      <4> QED
        BY <1>3, <3>1, <3>2, <3>3, <4>1, NearStays
    <3> QED
      BY <3>1, <3>4
  <2> HIDE DEF S, l
  <2>3. 0..l \subseteq S
    BY <1>0, <2>1, <2>2, IntervalInduction
  <2> QED
    BY <2>3 DEF S
<1>6. \A f \in Fns : \A s \in Nat : Stays(g, k, Insn("near", f, s), 2 * l + 1)
  <2>1. e[l] = Fns /\ l \in 0..l
    BY <1>0, <1>4 DEF Endings
  <2> HIDE DEF l
  <2> QED
    BY <1>5, <2>1
<1>7. ASSUME NEW i \in Instructions PROVE Stays(g, k, i, 2 * l + 2)
  <2>0. 2 * l + 1 \in Nat /\ 2 * l + 2 \in Nat /\ 2 * l + 1 <= 2 * l + 2 /\ 2 <= 2 * l + 2
        /\ (2 * l + 1) + 1 = 2 * l + 2 /\ k \in Nat
    BY <1>0
  <2>1. i = Insn(i.kind, i.to, i.size) /\ i.size \in Nat
    BY InsnIs
  <2> HIDE DEF l, k
  <2>2. CASE i.kind = "near" /\ i.to \in Fns
    <3>1. Stays(g, k, Insn("near", i.to, i.size), 2 * l + 1)
      BY <1>6, <2>1, <2>2
    <3>2. Stays(g, k, Insn("near", i.to, i.size), 2 * l + 2)
      BY <2>0, <3>1, StaysLater
    <3> QED
      BY <2>1, <2>2, <3>2
  <2>3. CASE i.kind = "mem" /\ i.to \in Ptrs
    <3>1. Stays(g, k, Insn("near", w.ptrs[i.to].to, i.size), 2 * l + 1)
      BY <1>6, <2>1, <2>3, PtrIs
    <3>2. Stays(g, k, Insn("mem", i.to, i.size), (2 * l + 1) + 1)
      BY <1>3, <2>0, <2>1, <2>3, <3>1, MemStays
    <3> QED
      BY <2>0, <2>1, <2>3, <3>2
  <2>4. CASE i.kind \in OtherKinds
    <3>1. Stays(g, k, i, 2)
      BY <1>3, <2>0, <2>4, OtherStays
    <3> QED
      BY <2>0, <3>1, StaysLater
  <2> QED
    BY <2>2, <2>3, <2>4, InsnIs
<1>8. ASSUME NEW i \in Instructions PROVE Round(w, pre)[i] = pre[i]
  <2>1. Rounds \in (2 * l + 2)..(k - 1)
    BY <1>0
  <2>2. Stays(g, k, i, 2 * l + 2)
    BY <1>7
  <2> HIDE DEF l, k
  <2>3. g[Rounds + 1][i] = g[Rounds][i]
    BY <2>1, <2>2 DEF Stays
  <2> QED
    BY <1>3, <2>3
<1>9. ASSUME NEW i \in Instructions
      PROVE  /\ Rewritten(w, i, pre) \in Instructions
             /\ pre[i] = IF Rewritten(w, i, pre) = i THEN i ELSE pre[Rewritten(w, i, pre)]
  <2> DEFINE j == Rewritten(w, i, pre)
  <2>1. j \in Instructions
    BY <1>2, RewrittenType
  <2>2. Round(w, pre)[i] = IF j = i THEN i ELSE pre[j]
    BY <1>2, RoundIs
  <2>3. pre[i] = IF j = i THEN i ELSE pre[j]
    BY <1>8, <2>2
  <2> QED
    BY <2>1, <2>3
<1> QED
  BY <1>2, <1>9, Zenon DEF pre

-----------------------------------------------------------------------------
(* Where instructions end.                                                   *)

\* Each instruction of a body ends by its size behind the one before.
LEMMA OffsetsAre ==
  ASSUME NEW b, Len(b) \in Nat, \A n \in 1..Len(b) : b[n].size \in Nat
  PROVE  /\ Offsets(b)[0] = 0 /\ \A n \in 0..Len(b) : Offsets(b)[n] \in Nat
         /\ \A n \in 0..(Len(b) - 1) : Offsets(b)[n + 1] = Offsets(b)[n] + b[n + 1].size
<1> DEFINE l == Len(b)
           F == [p \in Nat \X Nat |-> IF p[1] + 1 \in 1..l THEN p[2] + b[p[1] + 1].size ELSE 0]
           Eq(h) == h = [n \in 0..l |-> IF n = 0 THEN 0 ELSE h[n - 1] + b[n].size]
<1>0. l \in Nat /\ \A n \in 1..l : b[n].size \in Nat
  OBVIOUS
<1> HIDE DEF l
<1>1. F \in [Nat \X Nat -> Nat]
  BY <1>0
<1>2. PICK g : Unrolls(g, Nat, 0, F, l)
  <2> HIDE DEF F
  <2> QED
    BY <1>0, <1>1, Recursion
<1>3. /\ g \in [0..l -> Nat] /\ g[0] = 0
      /\ \A n \in 0..(l - 1) : g[n + 1] = F[<<n, g[n]>>]
  BY <1>2 DEF Unrolls
<1>4. ASSUME NEW n \in 0..(l - 1) PROVE g[n + 1] = g[n] + b[n + 1].size
  <2>1. n \in Nat /\ g[n] \in Nat /\ n + 1 \in 1..l
    BY <1>0, <1>3
  <2>2. F[<<n, g[n]>>] = g[n] + b[n + 1].size
    BY <2>1
  <2> QED
    BY <1>3, <2>2
<1>5. Eq(g)
  <2>1. ASSUME NEW n \in 0..l
        PROVE  g[n] = IF n = 0 THEN 0 ELSE g[n - 1] + b[n].size
    <3>1. CASE n = 0
      BY <1>3, <3>1
    <3>2. CASE n # 0
      <4> DEFINE m == n - 1
      <4>1. m \in 0..(l - 1) /\ m + 1 = n
        BY <1>0, <3>2
      <4> HIDE DEF m
      <4>2. g[m + 1] = g[m] + b[m + 1].size
        BY <1>4, <4>1
      <4> QED
        BY <3>2, <4>1, <4>2, Zenon DEF m
    <3> QED
      BY <3>1, <3>2
  <2>2. g = [n \in 0..l |-> g[n]]
    BY <1>3
  <2> QED
    BY <2>1, <2>2, Zenon
<1> DEFINE after == CHOOSE h : Eq(h)
<1>6. Offsets(b) = after
  BY Zenon DEF Offsets, l
<1>7. Eq(after)
  <2> HIDE DEF Eq
  <2> QED
    BY <1>5, Zenon
<1> HIDE DEF after
<1>8. \A n \in 0..l : after[n] = IF n = 0 THEN 0 ELSE after[n - 1] + b[n].size
  BY <1>7, Zenon
<1> HIDE DEF F, Eq
<1>9. \A n \in 0..l : after[n] = g[n]
  <2> DEFINE S == {n \in 0..l : after[n] = g[n]}
  <2>1. 0 \in S
    <3>1. 0 \in 0..l
      BY <1>0
    <3> QED
      BY <1>3, <1>8, <3>1, Zenon
  <2>2. ASSUME NEW n \in 0..(l - 1), n \in S PROVE n + 1 \in S
    <3>1. n + 1 \in 0..l /\ n + 1 # 0 /\ (n + 1) - 1 = n
      BY <1>0
    <3>2. after[n + 1] = after[n] + b[n + 1].size
      BY <1>8, <3>1
    <3> QED
      BY <1>4, <2>2, <3>1, <3>2
  <2> HIDE DEF S
  <2>3. 0..l \subseteq S
    BY <1>0, <2>1, <2>2, IntervalInduction
  <2> QED
    BY <2>3 DEF S
<1>10. \A n \in 0..(l - 1) : after[n + 1] = after[n] + b[n + 1].size
  <2> TAKE n \in 0..(l - 1)
  <2>1. n \in 0..l /\ n + 1 \in 0..l
    BY <1>0
  <2> QED
    BY <1>4, <1>9, <2>1
<1>11. after[0] = 0 /\ \A n \in 0..l : after[n] \in Nat
  BY <1>0, <1>3, <1>9
<1> QED
  BY <1>6, <1>10, <1>11 DEF l

\* Where sizes are positive, only the last instruction ends where the body does.
LEMMA EndsLast ==
  ASSUME NEW b, Len(b) \in Nat, \A n \in 1..Len(b) : b[n].size \in Nat \ {0}, NEW m \in 0..Len(b)
  PROVE  Offsets(b)[m] = SizeOf(b) <=> m = Len(b)
<1> DEFINE l == Len(b)
           o == Offsets(b)
<1>1. /\ o[0] = 0 /\ \A n \in 0..l : o[n] \in Nat
      /\ \A n \in 0..(l - 1) : o[n + 1] = o[n] + b[n + 1].size
  BY OffsetsAre
<1>2. SizeOf(b) = o[l] /\ l \in Nat /\ \A n \in 1..l : b[n].size \in Nat \ {0}
  BY DEF SizeOf
<1> HIDE DEF l, o
<1> DEFINE S == {n \in 0..l : n > m => o[m] < o[n]}
<1>3. 0 \in S
  BY <1>2
<1>4. ASSUME NEW n \in 0..(l - 1), n \in S PROVE n + 1 \in S
  <2>1. n \in 0..l /\ n + 1 \in 0..l /\ n + 1 \in 1..l
    BY <1>2
  <2>2. o[n + 1] = o[n] + b[n + 1].size /\ b[n + 1].size \in Nat \ {0} /\ o[n] \in Nat /\ o[m] \in Nat
    BY <1>1, <1>2, <2>1 DEF l
  <2> DEFINE z == b[n + 1].size
  <2> HIDE DEF z
  <2>3. o[n + 1] = o[n] + z /\ z \in Nat \ {0} /\ o[n] \in Nat /\ o[m] \in Nat
    BY <2>2 DEF z
  <2>4. CASE n > m
    BY <1>4, <2>1, <2>3, <2>4
  <2>5. CASE n = m
    BY <2>1, <2>3, <2>5
  <2>6. CASE n < m
    BY <2>1, <2>6 DEF l
  <2> QED
    BY <2>1, <2>4, <2>5, <2>6 DEF l
<1> HIDE DEF S
<1>5. l \in S
  <2>1. 0..l \subseteq S
    BY <1>2, <1>3, <1>4, IntervalInduction
  <2> QED
    BY <1>2, <2>1
<1>6. CASE m = l
  BY <1>2, <1>6 DEF l, o
<1>7. CASE m # l
  <2>1. l > m
    BY <1>2, <1>7 DEF l
  <2>2. o[m] < o[l] /\ o[m] \in Nat /\ o[l] \in Nat
    BY <1>1, <1>2, <1>5, <2>1 DEF S, l
  <2> QED
    BY <1>2, <1>7, <2>2 DEF l, o
<1> QED
  BY <1>6, <1>7

-----------------------------------------------------------------------------
(* The inductive invariant of the filter.                                    *)

\* Calls that wait for one they have made: inlining, and a filter's default.
\* At most one of them is guarded, which is what g says.
Under(r, g) ==
  /\ \E X : r \in Seq(X)
  /\ \A n \in 1..Len(r) : r[n].proc \in {"inline", "guarded"}
  /\ \A m, n \in 1..Len(r) : r[m].proc = "guarded" /\ r[n].proc = "guarded" => m = n
  /\ g <=> \E n \in 1..Len(r) : r[n].proc = "guarded"

\* Open calls, of which all but the innermost wait, and whether one is guarded.
Stack(s, g) ==
  IF s = <<>> THEN ~g
  ELSE /\ Under(Tail(s), g /\ Head(s).proc # "guarded")
       /\ Head(s).proc = "guarded" => g

\* What filter a settled instruction is given to.
MatchingOf(w, i) ==
  CASE i.kind = "near" /\ Inlinable(w, i.to) -> "inliner"
    [] i.kind = "bmi" -> "bmi1"
    [] OTHER -> None

\* In f nothing is inlined and every instruction keeps its size.
Straight(w, f) ==
  /\ \A n \in 1..Len(w.fns[f].body) :
       LET i == PreprocessedIn(w)[w.fns[f].body[n]]
       IN i.size = w.fns[f].body[n].size /\ ~(i.kind = "near" /\ Inlinable(w, i.to))

\* The program, and where in it the decompiler is.
Placed ==
  /\ IsWorld(world) /\ NoCircle(world) /\ guard \in BOOLEAN /\ thrown \in BOOLEAN
  /\ \/ cur = None /\ calls = <<>> /\ rc = "running" /\ dispatched = 0
     \/ cur \in Fns /\ at \in 1..(Len(world.fns[cur].body) + 1)

\* The guard is up exactly under the one call it guards, and a filter's default
\* is not applied under it.
GuardHeld ==
  /\ Stack(calls, guard)
  /\ calls # <<>> /\ Head(calls).proc = "apply" /\ selected = None => ~guard

\* The frames of one open call: gen_micro, apply, and apply of none under guard.
Gen == [proc |-> "gen_micro"]
App == [proc |-> "apply"]
Gua == [proc |-> "guarded"]

\* Instruction at - 1 is being generated, rewritten so far to insn.
AtInsn ==
  /\ at >= 2 /\ insn \in Instructions
  /\ PreprocessedIn(world)[insn] = PreprocessedIn(world)[world.fns[cur].body[at - 1]]
  /\ ea = Base(cur) + Offset(world.fns[cur].body, at - 1)

\* What the filter goes by at the end of the function has been brought up to
\* date, and the end has not come.
NotYet == expectedEnd = EndOf(cur) => dispatched = 0

\* insn has been matched, and currEnd is where it ends.
Matched ==
  /\ AtInsn /\ NotYet /\ currMba = mba
  /\ Rewritten(world, insn, PreprocessedIn(world)) = insn
  /\ currEnd = ea + insn.size
  /\ selected = MatchingOf(world, insn)

\* Before the first instruction; before, in and after matching; between two.
Fresh == calls = <<>> /\ at = 1 /\ rc = "running" /\ ~guard /\ dispatched = 0
Asked ==
  /\ calls = <<Gen>> /\ rc = "running" /\ ~guard
  /\ AtInsn /\ NotYet /\ (currMba = mba \/ dispatched = 0)
Applied == calls = <<App>> /\ rc = "running" /\ ~guard /\ Matched
Again == calls = <<Gen, Gua>> /\ rc = "running" /\ guard /\ Matched /\ selected = None
Back == calls = <<Gua>> /\ rc \in {"ok", "error"} /\ guard /\ Matched
Between ==
  /\ calls = <<>> /\ rc \in {"ok", "error"} /\ ~guard /\ currMba = mba
  /\ expectedEnd = EndOf(cur) =>
       dispatched = IF at = Len(world.fns[cur].body) + 1 THEN 1 ELSE 0

\* A function nothing is inlined into is generated instruction by instruction.
Smooth == Fresh \/ Asked \/ Applied \/ Again \/ Back \/ Between

\* Where the decompiler is; and, as long as no exception has left the guard up,
\* where the guard is up, and how far a function is that nothing is inlined into.
FilterInv ==
  /\ Placed
  /\ ~thrown => GuardHeld
  /\ cur # None /\ ~thrown /\ Straight(world, cur) => Smooth

-----------------------------------------------------------------------------
(* Calls open and close.                                                     *)

\* With a call put on top of others.
LEMMA PutOn ==
  ASSUME NEW X, NEW r \in Seq(X), NEW x, NEW y
  PROVE  /\ <<x>> \o r # <<>> /\ Head(<<x>> \o r) = x /\ Tail(<<x>> \o r) = r
         /\ <<x, y>> \o r # <<>> /\ Head(<<x, y>> \o r) = x
         /\ Tail(<<x, y>> \o r) = <<y>> \o r
         /\ <<x>> \o r \in Seq(X \cup {x}) /\ Len(<<x>> \o r) = Len(r) + 1
         /\ (<<x>> \o r)[1] = x /\ \A n \in 1..Len(r) : (<<x>> \o r)[n + 1] = r[n]
<1> DEFINE Y == X \cup {x, y}
<1>1. r \in Seq(Y) /\ <<x>> \in Seq(Y) /\ <<x, y>> \in Seq(Y) /\ <<y>> \in Seq(Y)
  OBVIOUS
<1>2. /\ <<x>> \o r \in Seq(Y) /\ Len(<<x>> \o r) = Len(r) + 1
      /\ \A n \in 1..(Len(r) + 1) : (<<x>> \o r)[n] = IF n = 1 THEN x ELSE r[n - 1]
  BY <1>1
<1>3. /\ <<y>> \o r \in Seq(Y) /\ Len(<<y>> \o r) = Len(r) + 1
      /\ \A n \in 1..(Len(r) + 1) : (<<y>> \o r)[n] = IF n = 1 THEN y ELSE r[n - 1]
  BY <1>1
<1>4. /\ <<x, y>> \o r \in Seq(Y) /\ Len(<<x, y>> \o r) = Len(r) + 2
      /\ \A n \in 1..(Len(r) + 2) : (<<x, y>> \o r)[n] = IF n = 1 THEN x ELSE IF n = 2 THEN y ELSE r[n - 2]
  BY <1>1
<1> DEFINE a == <<x>> \o r
           b == <<y>> \o r
           c == <<x, y>> \o r
<1> HIDE DEF a, b, c, Y
<1>5. a # <<>> /\ Head(a) = x /\ Tail(a) \in Seq(Y) /\ Len(Tail(a)) = Len(r)
      /\ \A n \in 1..Len(r) : Tail(a)[n] = r[n]
  BY <1>1, <1>2 DEF a
<1>6. Tail(a) = r
  BY <1>1, <1>5, SameSeq
<1>7. c # <<>> /\ Head(c) = x /\ Tail(c) \in Seq(Y) /\ Len(Tail(c)) = Len(r) + 1
      /\ \A n \in 1..(Len(r) + 1) : Tail(c)[n] = IF n = 1 THEN y ELSE r[n - 1]
  BY <1>1, <1>4 DEF c
<1>8. Tail(c) = b
  <2>1. b \in Seq(Y) /\ Len(Tail(c)) = Len(b) /\ \A n \in 1..Len(b) : Tail(c)[n] = b[n]
    BY <1>3, <1>7 DEF b
  <2> QED
    BY <1>7, <2>1, SameSeq
<1>9. a[1] = x /\ Len(a) = Len(r) + 1 /\ \A n \in 1..Len(r) : a[n + 1] = r[n]
  BY <1>1, <1>2 DEF a
<1>10. <<x>> \o r \in Seq(X \cup {x})
  OBVIOUS
<1> QED
  BY <1>5, <1>6, <1>7, <1>8, <1>9, <1>10 DEF a, b, c

\* The open calls without the innermost.
LEMMA Popped ==
  ASSUME NEW s, NEW g \in BOOLEAN, Stack(s, g), s # <<>>
  PROVE  /\ Under(Tail(s), g /\ Head(s).proc # "guarded")
         /\ Head(s).proc = "guarded" => g
         /\ Stack(Tail(s), g /\ Head(s).proc # "guarded")
         /\ Tail(s) # <<>> => Head(Tail(s)).proc \in {"inline", "guarded"}
<1> DEFINE r == Tail(s)
           h == g /\ Head(s).proc # "guarded"
<1>1. Under(r, h) /\ (Head(s).proc = "guarded" => g)
  BY Zenon DEF Stack
<1>2. h \in BOOLEAN
  OBVIOUS
<1> HIDE DEF r, h
<1>3. PICK X : r \in Seq(X)
  BY <1>1, Zenon DEF Under
<1>4. CASE r = <<>>
  <2>1. Len(r) = 0
    BY <1>4
  <2>2. ~h
    BY <1>1, <2>1 DEF Under
  <2> QED
    BY <1>1, <1>4, <2>2 DEF Stack, r, h
<1>5. CASE r # <<>>
  <2> DEFINE t == Tail(r)
  <2>1. /\ t \in Seq(X) /\ Len(r) \in Nat \ {0} /\ Len(t) = Len(r) - 1 /\ Head(r) = r[1]
        /\ \A n \in 1..Len(t) : t[n] = r[n + 1]
    BY <1>3, <1>5
  <2> HIDE DEF t
  <2>2. \A n \in 1..Len(t) : n + 1 \in 1..Len(r)
    BY <2>1
  <2>3. \A n \in 1..Len(r) : n = 1 \/ (n - 1 \in 1..Len(t) /\ r[n] = t[n - 1])
    BY <2>1
  <2>4. 1 \in 1..Len(r)
    BY <2>1
  <2>5. /\ \A n \in 1..Len(r) : r[n].proc \in {"inline", "guarded"}
        /\ \A m, n \in 1..Len(r) : r[m].proc = "guarded" /\ r[n].proc = "guarded" => m = n
        /\ h <=> \E n \in 1..Len(r) : r[n].proc = "guarded"
    BY <1>1, Zenon DEF Under
  <2>6. \A n \in 1..Len(t) : t[n].proc \in {"inline", "guarded"}
    BY <2>1, <2>2, <2>5
  <2>7. \A m, n \in 1..Len(t) : t[m].proc = "guarded" /\ t[n].proc = "guarded" => m = n
    <3> TAKE m, n \in 1..Len(t)
    <3> HAVE t[m].proc = "guarded" /\ t[n].proc = "guarded"
    <3>1. r[m + 1].proc = "guarded" /\ r[n + 1].proc = "guarded"
      BY <2>1
    <3>2. m + 1 = n + 1
      BY <2>2, <2>5, <3>1
    <3> QED
      BY <3>2
  <2>8. (h /\ Head(r).proc # "guarded") <=> \E n \in 1..Len(t) : t[n].proc = "guarded"
    <3>1. CASE Head(r).proc = "guarded"
      <4>1. \A n \in 1..Len(t) : t[n].proc # "guarded"
        <5> TAKE n \in 1..Len(t)
        <5>1. n + 1 # 1 /\ n + 1 \in 1..Len(r) /\ t[n] = r[n + 1]
          BY <2>1, <2>2
        <5> QED
          BY <2>1, <2>4, <2>5, <3>1, <5>1
      <4> QED
        BY <3>1, <4>1
    <3>2. CASE Head(r).proc # "guarded"
      <4>1. ASSUME h PROVE \E n \in 1..Len(t) : t[n].proc = "guarded"
        <5>1. PICK n \in 1..Len(r) : r[n].proc = "guarded"
          BY <2>5, <4>1
        <5>2. n # 1
          BY <2>1, <3>2, <5>1
        <5> QED
          BY <2>3, <5>1, <5>2
      <4>2. ASSUME NEW n \in 1..Len(t), t[n].proc = "guarded" PROVE h
        BY <2>1, <2>2, <2>5, <4>2
      <4> QED
        BY <1>2, <3>2, <4>1, <4>2
    <3> QED
      BY <3>1, <3>2
  <2>9. Under(t, h /\ Head(r).proc # "guarded")
    BY <2>1, <2>6, <2>7, <2>8 DEF Under
  <2>10. Head(r).proc \in {"inline", "guarded"} /\ (Head(r).proc = "guarded" => h)
    BY <2>1, <2>4, <2>5
  <2>11. Stack(r, h)
    BY <1>5, <2>9, <2>10, Zenon DEF Stack, t
  <2> QED
    BY <1>1, <2>10, <2>11 DEF r, h
<1> QED
  BY <1>4, <1>5

\* One that waits put on top of others that wait.
LEMMA Waits ==
  ASSUME NEW r, NEW g \in BOOLEAN, Under(r, g), NEW y, y.proc \in {"inline", "guarded"},
         y.proc = "guarded" => ~g
  PROVE  Under(<<y>> \o r, g \/ y.proc = "guarded")
<1> DEFINE t == <<y>> \o r
<1>1. PICK X : r \in Seq(X)
  BY Zenon DEF Under
<1>2. t \in Seq(X \cup {y}) /\ Len(t) = Len(r) + 1 /\ t[1] = y /\ \A n \in 1..Len(r) : t[n + 1] = r[n]
  BY <1>1, PutOn
<1>3. Len(r) \in Nat
  BY <1>1
<1>4. /\ \A n \in 1..Len(r) : r[n].proc \in {"inline", "guarded"}
      /\ \A m, n \in 1..Len(r) : r[m].proc = "guarded" /\ r[n].proc = "guarded" => m = n
      /\ g <=> \E n \in 1..Len(r) : r[n].proc = "guarded"
  BY Zenon DEF Under
<1> HIDE DEF t
<1>5. \A n \in 1..Len(t) : n = 1 \/ (n - 1 \in 1..Len(r) /\ t[n] = r[n - 1])
  <2> TAKE n \in 1..Len(t)
  <2>1. CASE n # 1
    <3> DEFINE m == n - 1
    <3>1. m \in 1..Len(r) /\ m + 1 = n
      BY <1>2, <1>3, <2>1
    <3> HIDE DEF m
    <3>2. t[m + 1] = r[m]
      BY <1>2, <3>1
    <3> QED
      BY <3>1, <3>2 DEF m
  <2> QED
    BY <2>1
<1>6. \A n \in 1..Len(t) : t[n].proc \in {"inline", "guarded"}
  BY <1>2, <1>4, <1>5
<1>7. \A m, n \in 1..Len(t) : t[m].proc = "guarded" /\ t[n].proc = "guarded" => m = n
  <2> TAKE m, n \in 1..Len(t)
  <2> HAVE t[m].proc = "guarded" /\ t[n].proc = "guarded"
  <2>1. CASE m = 1 /\ n = 1
    BY <2>1
  <2>2. CASE m # 1 /\ n # 1
    <3>1. m - 1 = n - 1
      BY <1>4, <1>5, <2>2
    <3> QED
      BY <3>1, <1>2, <1>3
  <2>3. CASE (m = 1 /\ n # 1) \/ (m # 1 /\ n = 1)
    <3>1. g
      BY <1>4, <1>5, <2>3
    <3>2. y.proc = "guarded"
      BY <1>2, <2>3
    <3> QED
      BY <3>1, <3>2
  <2> QED
    BY <2>1, <2>2, <2>3
<1>8. (g \/ y.proc = "guarded") <=> \E n \in 1..Len(t) : t[n].proc = "guarded"
  <2>1. 1 \in 1..Len(t) /\ \A n \in 1..Len(r) : n + 1 \in 1..Len(t)
    BY <1>2, <1>3
  <2>2. ASSUME y.proc = "guarded" PROVE \E n \in 1..Len(t) : t[n].proc = "guarded"
    BY <1>2, <2>1, <2>2
  <2>3. ASSUME g PROVE \E n \in 1..Len(t) : t[n].proc = "guarded"
    BY <1>2, <1>4, <2>1, <2>3
  <2>4. ASSUME NEW n \in 1..Len(t), t[n].proc = "guarded" PROVE g \/ y.proc = "guarded"
    BY <1>2, <1>4, <1>5, <2>4
  <2> QED
    BY <2>2, <2>3, <2>4
<1> QED
  BY <1>2, <1>6, <1>7, <1>8 DEF Under, t

\* One at work put on top.
LEMMA Works ==
  ASSUME NEW r, NEW g \in BOOLEAN, Under(r, g), NEW x, x.proc # "guarded", NEW y
  PROVE  /\ Stack(<<x>> \o r, g) /\ Head(<<x>> \o r) = x
         /\ y.proc = "inline" => Stack(<<x, y>> \o r, g) /\ Head(<<x, y>> \o r) = x
         /\ y.proc = "guarded" /\ ~g => Stack(<<x, y>> \o r, TRUE) /\ Head(<<x, y>> \o r) = x
<1>1. PICK X : r \in Seq(X)
  BY Zenon DEF Under
<1>2. /\ <<x>> \o r # <<>> /\ Head(<<x>> \o r) = x /\ Tail(<<x>> \o r) = r
      /\ <<x, y>> \o r # <<>> /\ Head(<<x, y>> \o r) = x
      /\ Tail(<<x, y>> \o r) = <<y>> \o r
  BY <1>1, PutOn
<1> DEFINE a == <<x>> \o r
           c == <<x, y>> \o r
           b == <<y>> \o r
<1>3. ASSUME y.proc = "inline" PROVE Under(b, g)
  <2>1. Under(b, g \/ y.proc = "guarded")
    BY <1>3, Waits
  <2>2. (g \/ y.proc = "guarded") = g
    BY <1>3
  <2> HIDE DEF b
  <2> QED
    BY <2>1, <2>2
<1>4. ASSUME y.proc = "guarded", ~g PROVE Under(b, TRUE)
  <2>1. Under(b, g \/ y.proc = "guarded")
    BY <1>4, Waits
  <2>2. (g \/ y.proc = "guarded") = TRUE
    BY <1>4
  <2> HIDE DEF b
  <2> QED
    BY <2>1, <2>2
<1>5. a # <<>> /\ Head(a) = x /\ Tail(a) = r /\ c # <<>> /\ Head(c) = x /\ Tail(c) = b
  BY <1>2
<1> HIDE DEF a, b, c
<1>6. (g /\ x.proc # "guarded") = g /\ (TRUE /\ x.proc # "guarded") = TRUE
  OBVIOUS
<1>7. Stack(a, g)
  BY <1>5, <1>6 DEF Stack
<1>8. y.proc = "inline" => Stack(c, g)
  BY <1>3, <1>5, <1>6 DEF Stack
<1>9. y.proc = "guarded" /\ ~g => Stack(c, TRUE)
  BY <1>4, <1>5, <1>6 DEF Stack
<1> QED
  BY <1>5, <1>7, <1>8, <1>9 DEF a, c

-----------------------------------------------------------------------------
(* The guard.                                                                *)

\* The innermost call returns; the guard goes down with the call it guards.
LEMMA Returned ==
  ASSUME guard \in BOOLEAN, GuardHeld, calls # <<>>, calls' = Tail(calls),
         guard' = (guard /\ Head(calls).proc # "guarded")
  PROVE  GuardHeld'
<1>1. Stack(calls, guard)
  BY Zenon DEF GuardHeld
<1>2. /\ Stack(Tail(calls), guard /\ Head(calls).proc # "guarded")
      /\ Tail(calls) # <<>> => Head(Tail(calls)).proc \in {"inline", "guarded"}
  BY <1>1, Popped
<1>3. Stack(calls', guard')
  BY <1>2, Zenon
<1>4. calls' # <<>> => Head(calls').proc # "apply"
  BY <1>2
<1> QED
  BY <1>3, <1>4, Zenon DEF GuardHeld

\* The innermost call makes way for another.
LEMMA MadeWay ==
  ASSUME guard \in BOOLEAN, GuardHeld, calls # <<>>, Head(calls).proc # "guarded",
         NEW x, x.proc # "guarded", NEW y,
         x.proc = "apply" /\ selected' = None => ~guard',
         \/ calls' = <<x>> \o Tail(calls) /\ guard' = guard
         \/ calls' = <<x, y>> \o Tail(calls) /\ y.proc = "inline" /\ guard' = guard
         \/ calls' = <<x, y>> \o Tail(calls) /\ y.proc = "guarded" /\ guard' = TRUE /\ ~guard
  PROVE  GuardHeld'
<1>1. Stack(calls, guard)
  BY Zenon DEF GuardHeld
<1> DEFINE r == Tail(calls)
<1>2. Under(r, guard)
  <2>1. Under(r, guard /\ Head(calls).proc # "guarded")
    BY <1>1, Popped
  <2>2. (guard /\ Head(calls).proc # "guarded") = guard
    OBVIOUS
  <2> HIDE DEF r
  <2> QED
    BY <2>1, <2>2
<1> HIDE DEF r
<1>3. /\ Stack(<<x>> \o r, guard) /\ Head(<<x>> \o r) = x
      /\ y.proc = "inline" => Stack(<<x, y>> \o r, guard) /\ Head(<<x, y>> \o r) = x
      /\ y.proc = "guarded" /\ ~guard => Stack(<<x, y>> \o r, TRUE) /\ Head(<<x, y>> \o r) = x
  BY <1>2, Works
<1>4. Stack(calls', guard') /\ Head(calls') = x
  <2>1. CASE calls' = <<x>> \o r /\ guard' = guard
    BY <1>3, <2>1, Zenon
  <2>2. CASE calls' = <<x, y>> \o r /\ y.proc = "inline" /\ guard' = guard
    BY <1>3, <2>2, Zenon
  <2>3. CASE calls' = <<x, y>> \o r /\ y.proc = "guarded" /\ guard' = TRUE /\ ~guard
    BY <1>3, <2>3, Zenon
  <2> QED
    BY <2>1, <2>2, <2>3 DEF r
<1> QED
  BY <1>4, Zenon DEF GuardHeld

\* No step raises the guard but over the call it guards.
LEMMA GuardKept ==
  ASSUME Placed, ~thrown => GuardHeld, FilterNext, ~thrown'
  PROVE  GuardHeld'
<1>0. guard \in BOOLEAN /\ thrown \in BOOLEAN
  BY DEF Placed
<1>t. thrown' = thrown \/ thrown' = (thrown \/ guard)
  BY Zenon DEF FilterNext, FilterWork, NextInsn, Finish, Rewrite, Match, ApplyBmi1, ApplyNone,
     ReturnGuarded, ApplyInliner, InlineNext, StartFunction, Throw
<1>1. ~thrown /\ GuardHeld
  BY <1>0, <1>t
<1>e. Stack(<<>>, FALSE)
  BY DEF Stack
<1>2. CASE NextInsn
  <2>1. calls = <<>> /\ calls' = <<Gen>> /\ guard' = guard
    BY <1>2 DEF NextInsn, filterVars, Gen
  <2>2. ~guard
    BY <1>1, <2>1 DEF GuardHeld, Stack
  <2>3. <<>> \in Seq({}) /\ Len(<<>>) = 0
    OBVIOUS
  <2>4. Under(<<>>, FALSE)
    BY <2>3 DEF Under
  <2>5. Gen.proc = "gen_micro"
    BY DEF Gen
  <2>6. Stack(<<Gen>> \o <<>>, FALSE) /\ Head(<<Gen>> \o <<>>) = Gen
    BY <2>4, <2>5, Works
  <2>7. <<Gen>> \o <<>> = <<Gen>>
    OBVIOUS
  <2>8. Stack(calls', guard') /\ Head(calls').proc = "gen_micro"
    <3>1. guard' = FALSE
      BY <1>0, <2>1, <2>2
    <3> QED
      BY <2>1, <2>5, <2>6, <2>7, <3>1, Zenon
  <2> QED
    BY <2>8 DEF GuardHeld
<1>3. CASE Finish
  <2>1. calls = <<>> /\ calls' = <<>> /\ guard' = guard
    BY <1>3 DEF Finish, Done, Failed, GiveUp, filterVars
  <2> QED
    BY <1>1, <2>1 DEF GuardHeld, Stack
<1>4. CASE Rewrite
  BY <1>1, <1>4 DEF Rewrite, GuardHeld, filterVars
<1>5. CASE Match
  <2>1. calls # <<>> /\ Head(calls).proc = "gen_micro" /\ guard' = guard
        /\ selected' = Matching
    BY <1>5 DEF Match, InMatch
  <2>2. \/ calls' = Tail(calls)
        \/ calls' = <<App>> \o Tail(calls) /\ ~(Matching = None /\ guard)
    BY <1>5, Zenon DEF Match, Standard, App
  <2>3. CASE calls' = Tail(calls)
    <3>1. guard' = (guard /\ Head(calls).proc # "guarded")
      BY <1>0, <2>1
    <3> QED
      BY <1>0, <1>1, <2>1, <2>3, <3>1, Returned
  <2>4. CASE calls' = <<App>> \o Tail(calls) /\ ~(Matching = None /\ guard)
    <3>1. App.proc # "guarded" /\ Head(calls).proc # "guarded"
      BY <2>1 DEF App
    <3>2. App.proc = "apply" /\ selected' = None => ~guard'
      <4> DEFINE z == Matching
      <4>1. selected' = z /\ ~(z = None /\ guard) /\ guard' = guard
        BY <2>1, <2>4, Zenon
      <4> HIDE DEF z
      <4> QED
        BY <4>1
    <3> HIDE DEF App
    <3> QED
      BY <1>0, <1>1, <2>1, <2>4, <3>1, <3>2, MadeWay
  <2> QED
    BY <2>2, <2>3, <2>4
<1>6. CASE ApplyBmi1
  <2>1. calls # <<>> /\ Head(calls).proc = "apply" /\ guard' = guard /\ calls' = Tail(calls)
    BY <1>6 DEF ApplyBmi1, Top, ApplyReturn, filterVars
  <2>2. guard' = (guard /\ Head(calls).proc # "guarded")
    BY <1>0, <2>1
  <2> QED
    BY <1>0, <1>1, <2>1, <2>2, Returned
<1>7. CASE ApplyNone
  <2>1. calls # <<>> /\ Head(calls).proc = "apply" /\ guard' = TRUE /\ selected = None
        /\ calls' = <<Gen, Gua>> \o Tail(calls)
    BY <1>7 DEF ApplyNone, Top, Guarded, Gen, Gua
  <2>2. ~guard
    BY <1>1, <2>1 DEF GuardHeld
  <2>3. Gen.proc = "gen_micro" /\ Gua.proc = "guarded" /\ Head(calls).proc # "guarded"
    BY <2>1 DEF Gen, Gua
  <2> HIDE DEF Gen, Gua
  <2> QED
    BY <1>0, <1>1, <2>1, <2>2, <2>3, MadeWay
<1>8. CASE ReturnGuarded
  <2>1. calls # <<>> /\ Head(calls).proc = "guarded" /\ guard' = FALSE /\ calls' = Tail(calls)
    BY <1>8 DEF ReturnGuarded, Top, GuardAfter, ApplyReturn
  <2>2. guard' = (guard /\ Head(calls).proc # "guarded")
    BY <1>0, <2>1
  <2> QED
    BY <1>0, <1>1, <2>1, <2>2, Returned
<1>9. ASSUME NEW call, NEW start, NEW off, Inlined(call, start, off), guard' = guard,
             calls # <<>>, Head(calls).proc # "guarded"
      PROVE  GuardHeld'
  <2> DEFINE i == Settled(world, Decoded(world.fns[call.to].body, off))
             y == Inlining(call, start, off + i.size)
  <2>1. calls' = Tail(calls) \/ calls' = <<Gen, y>> \o Tail(calls)
    BY <1>9, Zenon DEF Inlined, ApplyReturn, Gen
  <2>2. Gen.proc = "gen_micro" /\ y.proc = "inline"
    BY DEF Gen, Inlining
  <2> HIDE DEF Gen, y
  <2>3. CASE calls' = Tail(calls)
    <3>1. guard' = (guard /\ Head(calls).proc # "guarded")
      BY <1>0, <1>9
    <3> QED
      BY <1>0, <1>1, <1>9, <2>3, <3>1, Returned
  <2>4. CASE calls' = <<Gen, y>> \o Tail(calls)
    BY <1>0, <1>1, <1>9, <2>2, <2>4, MadeWay
  <2> QED
    BY <2>1, <2>3, <2>4
<1>10. CASE ApplyInliner
  <2>1. calls # <<>> /\ Head(calls).proc = "apply" /\ guard' = guard /\ Inlined(insn, ea, 0)
    BY <1>10 DEF ApplyInliner, Top, filterVars
  <2> QED
    BY <1>9, <2>1
<1>11. CASE InlineNext
  <2>1. calls # <<>> /\ Head(calls).proc = "inline" /\ guard' = guard
        /\ (calls' = Tail(calls) \/ Inlined(Head(calls).call, Head(calls).ea, Head(calls).next))
    BY <1>11 DEF InlineNext, Top, ApplyReturn, filterVars
  <2>2. CASE calls' = Tail(calls)
    <3>1. guard' = (guard /\ Head(calls).proc # "guarded")
      BY <1>0, <2>1
    <3> QED
      BY <1>0, <1>1, <2>1, <2>2, <3>1, Returned
  <2> QED
    BY <1>9, <2>1, <2>2
<1>12. CASE Throw
  <2>1. calls' = <<>> /\ guard' = guard /\ thrown' = (thrown \/ guard)
    BY <1>12 DEF Throw, GiveUp, filterVars
  <2> QED
    BY <1>0, <2>1 DEF GuardHeld, Stack
<1>13. CASE \E f \in Mains, m \in Mbas : StartFunction(f, m)
  <2>1. UNCHANGED <<calls, guard, selected>>
    BY <1>13 DEF StartFunction, filterVars
  <2> QED
    BY <1>1, <2>1 DEF GuardHeld
<1> QED
  BY <1>2, <1>3, <1>4, <1>5, <1>6, <1>7, <1>8, <1>10, <1>11, <1>12, <1>13 DEF FilterNext, FilterWork

-----------------------------------------------------------------------------
(* The end of a function.                                                    *)

\* The stacks of a function nothing is inlined into.
LEMMA Shapes ==
  /\ Gen.proc = "gen_micro" /\ App.proc = "apply" /\ Gua.proc = "guarded"
  /\ <<Gen>> # <<>> /\ Head(<<Gen>>) = Gen /\ Tail(<<Gen>>) = <<>>
  /\ <<App>> # <<>> /\ Head(<<App>>) = App /\ Tail(<<App>>) = <<>>
  /\ <<Gua>> # <<>> /\ Head(<<Gua>>) = Gua /\ Tail(<<Gua>>) = <<>>
  /\ <<Gen, Gua>> # <<>> /\ Head(<<Gen, Gua>>) = Gen /\ Tail(<<Gen, Gua>>) = <<Gua>>
  /\ <<App>> \o <<>> = <<App>> /\ <<Gen, Gua>> \o <<>> = <<Gen, Gua>>
<1>1. Gen.proc = "gen_micro" /\ App.proc = "apply" /\ Gua.proc = "guarded"
  BY DEF Gen, App, Gua
<1> HIDE DEF Gen, App, Gua
<1> QED
  BY <1>1

\* Which stack is which.
LEMMA Which ==
  ASSUME Smooth
  PROVE  /\ calls = <<>> => Fresh \/ Between
         /\ calls # <<>> /\ Head(calls).proc = "gen_micro" => Asked \/ Again
         /\ calls # <<>> /\ Head(calls).proc = "apply" => Applied
         /\ calls # <<>> /\ Head(calls).proc = "guarded" => Back
         /\ calls # <<>> => Head(calls).proc # "inline"
<1> DEFINE h == Head(calls).proc
<1>1. /\ Fresh \/ Between => calls = <<>>
      /\ Asked \/ Again => calls # <<>> /\ h = "gen_micro"
      /\ Applied => calls # <<>> /\ h = "apply"
      /\ Back => calls # <<>> /\ h = "guarded"
  <2>1. Fresh \/ Between => calls = <<>>
    BY Zenon DEF Fresh, Between
  <2>2. Asked \/ Again => calls = <<Gen>> \/ calls = <<Gen, Gua>>
    BY Zenon DEF Asked, Again
  <2>3. (Applied => calls = <<App>>) /\ (Back => calls = <<Gua>>)
    BY Zenon DEF Applied, Back
  <2>4. calls = <<Gen>> \/ calls = <<Gen, Gua>> => calls # <<>> /\ h = "gen_micro"
    BY Shapes, Zenon
  <2>5. calls = <<App>> => calls # <<>> /\ h = "apply"
    BY Shapes, Zenon
  <2>6. calls = <<Gua>> => calls # <<>> /\ h = "guarded"
    BY Shapes, Zenon
  <2> HIDE DEF h
  <2> QED
    BY <2>1, <2>2, <2>3, <2>4, <2>5, <2>6, Zenon
<1>2. Fresh \/ Asked \/ Applied \/ Again \/ Back \/ Between
  BY Zenon DEF Smooth
<1> DEFINE none == calls = <<>>
<1> HIDE DEF none, h
<1>3. /\ Fresh \/ Between => none
      /\ Asked \/ Again => ~none /\ h = "gen_micro"
      /\ Applied => ~none /\ h = "apply"
      /\ Back => ~none /\ h = "guarded"
  BY <1>1, Zenon DEF none
<1>4. /\ none => Fresh \/ Between
      /\ ~none /\ h = "gen_micro" => Asked \/ Again
      /\ ~none /\ h = "apply" => Applied
      /\ ~none /\ h = "guarded" => Back
      /\ ~none => h # "inline"
  BY <1>2, <1>3
<1> QED
  BY <1>4, Zenon DEF none, h

\* Where a function's instruction is matched that nothing is inlined for.
LEMMA MatchedIs ==
  ASSUME IsWorld(world), NoCircle(world), cur \in Fns, at \in 1..(Len(world.fns[cur].body) + 1),
         Straight(world, cur), Matched
  PROVE  /\ at - 1 \in 1..Len(world.fns[cur].body)
         /\ insn.size = world.fns[cur].body[at - 1].size
         /\ selected # "inliner"
<1> DEFINE b == world.fns[cur].body
           pre == PreprocessedIn(world)
           n == at - 1
<1>1. b \in Seq(Instructions) /\ Len(b) \in Nat \ {0}
  BY FnIs
<1>2. at >= 2 /\ insn \in Instructions /\ pre[insn] = pre[b[n]]
  BY Zenon DEF Matched, AtInsn
<1>3. Rewritten(world, insn, pre) = insn /\ selected = MatchingOf(world, insn)
  BY Zenon DEF Matched
<1>4. n \in 1..Len(b)
  BY <1>1, <1>2
<1>5. pre[insn] = insn
  BY <1>2, <1>3, Preprocesses, Zenon
<1> HIDE DEF b, pre, n
<1>6. insn.size = b[n].size /\ ~(insn.kind = "near" /\ Inlinable(world, insn.to))
  <2>1. LET i == pre[b[n]] IN i.size = b[n].size /\ ~(i.kind = "near" /\ Inlinable(world, i.to))
    BY <1>4, Zenon DEF Straight, b, pre
  <2> QED
    BY <1>2, <1>5, <2>1, Zenon
<1>7. selected # "inliner"
  <2>1. MatchingOf(world, insn) = "bmi1" \/ MatchingOf(world, insn) = None
    BY <1>6 DEF MatchingOf
  <2> QED
    BY <1>3, <2>1, FiltersAssumption DEF Filters
<1> QED
  BY <1>4, <1>6, <1>7 DEF b, n

\* The end is noticed with the last instruction and with no other.
LEMMA Completed ==
  ASSUME IsWorld(world), NoCircle(world), cur \in Fns, at \in 1..(Len(world.fns[cur].body) + 1),
         Straight(world, cur), Matched,
         dispatched' = IF currEnd = expectedEnd THEN dispatched + 1 ELSE dispatched
  PROVE  expectedEnd = EndOf(cur) =>
           dispatched' = IF at = Len(world.fns[cur].body) + 1 THEN 1 ELSE 0
<1> DEFINE b == world.fns[cur].body
           o == Offsets(b)
           n == at - 1
           base == Base(cur)
<1>1. Len(b) \in Nat \ {0} /\ \A m \in 1..Len(b) : b[m].size \in Nat \ {0}
  BY FnIs
<1>2. n \in 1..Len(b) /\ insn.size = b[n].size
  BY MatchedIs
<1>3. ea = base + Offset(b, n) /\ NotYet /\ currEnd = ea + insn.size
  BY Zenon DEF Matched, AtInsn
<1>4. base \in Nat
  BY FnsAssumption DEF Base
<1> HIDE DEF b, o, base, n
<1>5. /\ \A m \in 0..Len(b) : o[m] \in Nat
      /\ \A m \in 0..(Len(b) - 1) : o[m + 1] = o[m] + b[m + 1].size
  BY <1>1, OffsetsAre DEF o
<1>6. o[n] = o[n - 1] + b[n].size /\ o[n - 1] \in Nat /\ o[n] \in Nat
  <2> DEFINE m == n - 1
  <2>1. m \in 0..(Len(b) - 1) /\ m \in 0..Len(b) /\ m + 1 = n /\ n \in 0..Len(b)
    BY <1>1, <1>2
  <2> HIDE DEF m
  <2>2. o[m + 1] = o[m] + b[m + 1].size
    BY <1>5, <2>1
  <2> QED
    BY <1>5, <2>1, <2>2 DEF m
<1>7. o[n] = SizeOf(b) <=> n = Len(b)
  <2>1. n \in 0..Len(b)
    BY <1>1, <1>2
  <2> QED
    BY <1>1, <2>1, EndsLast DEF o
<1>8. SizeOf(b) \in Nat
  <2>1. Len(b) \in 0..Len(b)
    BY <1>1
  <2> QED
    BY <1>5, <2>1 DEF SizeOf, o
<1>9. currEnd = base + o[n]
  <2>1. Offset(b, n) = o[n - 1]
    BY DEF Offset, o
  <2> DEFINE x == o[n - 1]
             y == o[n]
             z == b[n].size
  <2>2. z \in Nat
    BY <1>1, <1>2
  <2>3. y = x + z /\ x \in Nat /\ y \in Nat
    BY <1>6
  <2>4. currEnd = (base + x) + z
    BY <1>2, <1>3, <2>1
  <2> HIDE DEF x, y, z
  <2>5. currEnd = base + y
    BY <1>4, <2>2, <2>3, <2>4
  <2> QED
    BY <2>5 DEF y
<1>10. EndOf(cur) = base + SizeOf(b)
  BY Zenon DEF EndOf, base, b
<1> HAVE expectedEnd = EndOf(cur)
<1>11. dispatched = 0
  BY <1>3 DEF NotYet
<1>12. currEnd = expectedEnd <=> n = Len(b)
  BY <1>4, <1>6, <1>7, <1>8, <1>9, <1>10
<1>13. n = Len(b) <=> at = Len(b) + 1
  BY <1>1, <1>2 DEF n
<1> QED
  BY <1>11, <1>12, <1>13 DEF b

\* Every step keeps to the program, and to a place in the function.
LEMMA PlacedKept ==
  ASSUME Placed, [FilterNext]_allVars
  PROVE  Placed'
<1> DEFINE L(w, f) == Len(w.fns[f].body)
<1>0. /\ IsWorld(world) /\ NoCircle(world) /\ guard \in BOOLEAN /\ thrown \in BOOLEAN
      /\ \/ cur = None /\ calls = <<>> /\ rc = "running" /\ dispatched = 0
         \/ cur \in Fns /\ at \in 1..(L(world, cur) + 1)
  BY Zenon DEF Placed
<1>1. /\ world' = world
      /\ guard' \in {guard, TRUE, FALSE} /\ (thrown' = thrown \/ thrown' = (thrown \/ guard))
  BY Zenon DEF FilterNext, FilterWork, NextInsn, Finish, Rewrite, Match, ApplyBmi1, ApplyNone, ReturnGuarded,
     ApplyInliner, InlineNext, StartFunction, Throw, GiveUp, filterVars, kernel, allVars, Guarded, GuardAfter
<1>2. guard' \in BOOLEAN /\ thrown' \in BOOLEAN
  BY <1>0, <1>1
<1>3. \A f \in Fns : L(world, f) \in Nat \ {0}
  BY <1>0, FnIs
<1>4. \/ cur' = None /\ calls' = <<>> /\ rc' = "running" /\ dispatched' = 0
      \/ cur' \in Fns /\ at' \in 1..(L(world, cur') + 1)
  <2>1. CASE NextInsn
    <3>1. cur # None /\ at <= L(world, cur) /\ at' = at + 1 /\ cur' = cur
      BY <2>1 DEF NextInsn, Body
    <3> HIDE DEF L
    <3>2. cur \in Fns /\ at \in 1..(L(world, cur) + 1)
      BY <1>0, <3>1
    <3> QED
      BY <1>3, <3>1, <3>2
  <2>2. CASE Finish \/ Throw
    BY <2>2 DEF Finish, Throw, GiveUp
  <2>3. CASE \E f \in Mains, m \in Mbas : StartFunction(f, m)
    <3>1. PICK f \in Mains : cur' = f /\ at' = 1
      BY <2>3 DEF StartFunction
    <3>2. f \in Fns
      BY <3>1, WorldsAssumption
    <3> HIDE DEF L
    <3> QED
      BY <1>3, <3>1, <3>2
  <2>4. CASE allVars' = allVars
    <3>1. cur' = cur /\ at' = at /\ calls' = calls /\ rc' = rc /\ dispatched' = dispatched
      BY <2>4 DEF allVars, kernel
    <3> HIDE DEF L
    <3> QED
      BY <1>0, <3>1
  <2>5. CASE Rewrite \/ Match \/ ApplyBmi1 \/ ApplyNone \/ ReturnGuarded \/ ApplyInliner \/ InlineNext
    <3>1. calls # <<>> /\ cur' = cur /\ at' = at
      BY <2>5, Zenon DEF Rewrite, Match, ApplyBmi1, ApplyNone, ReturnGuarded, ApplyInliner, InlineNext,
         InMatch, Top, kernel
    <3> HIDE DEF L
    <3> QED
      BY <1>0, <3>1
  <2> QED
    BY <2>1, <2>2, <2>3, <2>4, <2>5 DEF FilterNext, FilterWork
<1>5. world' = world
  BY <1>1
<1> QED
  BY <1>0, <1>2, <1>4, <1>5, Zenon DEF Placed

\* Where the instruction stays, what has been brought up to date does.
LEMMA MatchedKept ==
  ASSUME Matched, UNCHANGED <<world, cur, at, mba, insn, ea, selected, currMba, expectedEnd, currEnd, dispatched>>
  PROVE  Matched'
<1>1. AtInsn /\ NotYet /\ currMba = mba /\ Rewritten(world, insn, PreprocessedIn(world)) = insn
      /\ currEnd = ea + insn.size /\ selected = MatchingOf(world, insn)
  BY Zenon DEF Matched
<1>2. AtInsn'
  BY <1>1, Zenon DEF AtInsn
<1>3. EndOf(cur)' = EndOf(cur)
  BY Zenon DEF EndOf
<1>4. NotYet'
  BY <1>1, <1>3, Zenon DEF NotYet
<1> QED
  BY <1>1, <1>2, <1>4, Zenon DEF Matched

\* A function nothing is inlined into goes on instruction by instruction.
LEMMA SmoothKept ==
  ASSUME Placed, GuardHeld, cur # None => (Straight(world, cur) => Smooth), FilterNext,
         cur' # None, ~thrown', Straight(world, cur)'
  PROVE  Smooth'
<1>0. /\ IsWorld(world) /\ NoCircle(world) /\ guard \in BOOLEAN
      /\ \/ cur = None /\ calls = <<>> /\ rc = "running" /\ dispatched = 0
         \/ cur \in Fns /\ at \in 1..(Len(world.fns[cur].body) + 1)
  BY Zenon DEF Placed
<1> DEFINE b == world.fns[cur].body
           pre == PreprocessedIn(world)
<1>1. world' = world
  BY Zenon DEF FilterNext, FilterWork, NextInsn, Finish, Rewrite, Match, ApplyBmi1, ApplyNone, ReturnGuarded,
     ApplyInliner, InlineNext, StartFunction, Throw, GiveUp, kernel
<1>2. CASE \E f \in Mains, m \in Mbas : StartFunction(f, m)
  <2>1. cur = None /\ at' = 1 /\ calls' = calls /\ rc' = rc /\ guard' = guard /\ dispatched' = dispatched
    BY <1>2 DEF StartFunction, filterVars
  <2>2. calls = <<>> /\ rc = "running" /\ dispatched = 0
    BY <1>0, <2>1, FnsAssumption
  <2>3. ~guard
    BY <2>2 DEF GuardHeld, Stack
  <2>4. Fresh'
    BY <2>1, <2>2, <2>3 DEF Fresh
  <2> QED
    BY <2>4, Zenon DEF Smooth
<1>3. ASSUME cur' = cur
      PROVE  /\ cur \in Fns /\ at \in 1..(Len(b) + 1) /\ Straight(world, cur) /\ Smooth
             /\ EndOf(cur') = EndOf(cur)
  <2>1. cur # None /\ Straight(world, cur)
    BY <1>1, <1>3, Zenon
  <2>2. EndOf(cur') = EndOf(cur)
    BY <1>3, Zenon
  <2> QED
    BY <1>0, <2>1, <2>2, Zenon
<1>e. ASSUME cur' = cur PROVE EndOf(cur)' = EndOf(cur)
  BY <1>1, <1>e, Zenon DEF EndOf
<1>4. CASE NextInsn
  <2>1. /\ calls = <<>> /\ at <= Len(b) /\ insn' = b[at] /\ ea' = Base(cur) + Offset(b, at)
        /\ at' = at + 1 /\ rc' = "running" /\ calls' = <<Gen>> /\ cur' = cur /\ mba' = mba
        /\ guard' = guard /\ currMba' = currMba /\ expectedEnd' = expectedEnd /\ dispatched' = dispatched
    BY <1>4 DEF NextInsn, Body, filterVars, Gen
  <2>2. cur \in Fns /\ at \in 1..(Len(b) + 1) /\ Smooth
    BY <1>3, <2>1
  <2>3. Fresh \/ Between
    BY <2>1, <2>2, Which
  <2>4. Len(b) \in Nat /\ \A n \in 1..Len(b) : b[n] \in Instructions
    BY <1>0, <2>2, FnIs
  <2> DEFINE l == Len(b)
  <2>5. at \in 1..l /\ at' >= 2 /\ at' - 1 = at /\ at # l + 1
    BY <2>1, <2>2, <2>4
  <2>6. AtInsn'
    <3>1. insn' \in Instructions
      BY <2>1, <2>4, <2>5
    <3>2. PreprocessedIn(world)[insn'] = PreprocessedIn(world)[world.fns[cur].body[at' - 1]]
      BY <2>1, <2>5
    <3>3. ea' = Base(cur) + Offset(world.fns[cur].body, at' - 1)
      BY <2>1, <2>5
    <3> HIDE DEF b, l
    <3>4. world' = world /\ cur' = cur /\ at' >= 2
      BY <1>1, <2>1, <2>5
    <3> QED
      BY <3>1, <3>2, <3>3, <3>4, Zenon DEF AtInsn
  <2> HIDE DEF b, l
  <2>7. ~guard /\ (expectedEnd = EndOf(cur) => dispatched = 0) /\ (currMba = mba \/ dispatched = 0)
    <3>1. CASE Fresh
      BY <3>1 DEF Fresh
    <3>2. CASE Between
      <4>1. ~guard /\ currMba = mba
            /\ (expectedEnd = EndOf(cur) => dispatched = IF at = l + 1 THEN 1 ELSE 0)
        BY <3>2, Zenon DEF Between, l, b
      <4> QED
        BY <2>5, <4>1
    <3> QED
      BY <2>3, <3>1, <3>2
  <2>8. NotYet'
    BY <1>e, <2>1, <2>7, Zenon DEF NotYet
  <2>9. Asked'
    BY <2>1, <2>6, <2>7, <2>8, Zenon DEF Asked
  <2> QED
    BY <2>9, Zenon DEF Smooth
<1>5. CASE Rewrite
  <2> DEFINE j == Rewritten(world, insn, pre)
  <2>1. /\ calls # <<>> /\ Head(calls).proc = "gen_micro" /\ j # insn /\ insn' = j
        /\ cur' = cur /\ at' = at /\ mba' = mba /\ ea' = ea /\ calls' = calls /\ rc' = rc /\ guard' = guard
        /\ currMba' = currMba /\ expectedEnd' = expectedEnd /\ dispatched' = dispatched
    BY <1>5, Zenon DEF Rewrite, InMatch, Preprocessed, kernel, filterVars
  <2>2. Asked \/ Again
    BY <1>3, <2>1, Which
  <2>3. ~Again
    BY <2>1, Zenon DEF Again, Matched
  <2>4. calls = <<Gen>> /\ rc = "running" /\ ~guard /\ AtInsn /\ NotYet /\ (currMba = mba \/ dispatched = 0)
    BY <2>2, <2>3, Zenon DEF Asked
  <2>5. at >= 2 /\ insn \in Instructions /\ pre[insn] = pre[b[at - 1]] /\ ea = Base(cur) + Offset(b, at - 1)
    BY <2>4, Zenon DEF AtInsn
  <2> HIDE DEF j
  <2>6. j \in Instructions /\ pre[insn] = IF j = insn THEN insn ELSE pre[j]
    BY <1>0, <2>5, Preprocesses DEF j
  <2>7. AtInsn'
    <3>1. pre[insn'] = pre[b[at - 1]] /\ insn' \in Instructions
      BY <2>1, <2>5, <2>6
    <3> QED
      BY <1>1, <2>1, <2>5, <3>1, Zenon DEF AtInsn
  <2>8. NotYet'
    BY <1>e, <2>1, <2>4, Zenon DEF NotYet
  <2>9. Asked'
    BY <2>1, <2>4, <2>7, <2>8, Zenon DEF Asked
  <2> QED
    BY <2>9, Zenon DEF Smooth
<1>6. CASE Match
  <2>1. /\ calls # <<>> /\ Head(calls).proc = "gen_micro" /\ Rewritten(world, insn, pre) = insn
        /\ cur' = cur /\ at' = at /\ mba' = mba /\ insn' = insn /\ ea' = ea
        /\ guard' = guard /\ dispatched' = dispatched /\ currEnd' = ea + insn.size
        /\ selected' = MatchingOf(world, insn)
    BY <1>6, Zenon DEF Match, InMatch, Preprocessed, kernel, cdg, UpdateFromCodegen, Matching, MatchingOf
  <2>2. IF mba = currMba THEN currMba' = currMba /\ expectedEnd' = expectedEnd
        ELSE currMba' = mba /\ expectedEnd' = EndOf(cur)
    BY <1>6, Zenon DEF Match, UpdateFromCodegen
  <2>3. IF MatchingOf(world, insn) = None /\ guard
        THEN calls' = Tail(calls) /\ rc' \in {"ok", "error"}
        ELSE calls' = <<App>> \o Tail(calls) /\ rc' = rc
    <3>1. IF Matching = None /\ guard
          THEN calls' = Tail(calls) /\ (rc' = "ok" \/ rc' = "error")
          ELSE calls' = <<App>> \o Tail(calls) /\ rc' = rc
      BY <1>6, Zenon DEF Match, Standard, App
    <3>2. Matching = MatchingOf(world, insn)
      BY Zenon DEF Matching, MatchingOf
    <3> QED
      BY <3>1, <3>2
  <2>4. Asked \/ Again
    BY <1>3, <2>1, Which
  <2>5. CASE Asked
    <3>1. calls = <<Gen>> /\ rc = "running" /\ ~guard /\ AtInsn /\ NotYet /\ (currMba = mba \/ dispatched = 0)
      BY <2>5, Zenon DEF Asked
    <3>2. calls' = <<App>> /\ rc' = "running" /\ ~guard'
      BY <2>1, <2>3, <3>1, Shapes, Zenon
    <3>3. AtInsn'
      BY <1>1, <2>1, <3>1, Zenon DEF AtInsn
    <3>4. currMba' = mba' /\ NotYet'
      <4>1. CASE mba = currMba
        <5>1. currMba' = currMba /\ expectedEnd' = expectedEnd
          BY <2>2, <4>1
        <5>2. NotYet'
          BY <1>e, <2>1, <3>1, <5>1, Zenon DEF NotYet
        <5> QED
          BY <2>1, <4>1, <5>1, <5>2
      <4>2. CASE mba # currMba
        <5>1. currMba' = mba /\ dispatched' = 0
          BY <2>1, <2>2, <3>1, <4>2
        <5>2. NotYet'
          BY <5>1 DEF NotYet
        <5> QED
          BY <2>1, <5>1, <5>2
      <4> QED
        BY <4>1, <4>2
    <3>5. Matched'
      BY <1>1, <2>1, <3>3, <3>4, Zenon DEF Matched
    <3>6. Applied'
      BY <3>2, <3>5, Zenon DEF Applied
    <3> QED
      BY <3>6, Zenon DEF Smooth
  <2>6. CASE Again
    <3>1. calls = <<Gen, Gua>> /\ guard /\ Matched /\ selected = None
      BY <2>6, Zenon DEF Again
    <3>2. currMba = mba /\ currEnd = ea + insn.size /\ selected = MatchingOf(world, insn)
      BY <3>1, Zenon DEF Matched
    <3>3. /\ currMba' = currMba /\ expectedEnd' = expectedEnd /\ currEnd' = currEnd /\ selected' = selected
          /\ calls' = <<Gua>> /\ rc' \in {"ok", "error"}
      BY <2>1, <2>2, <2>3, <3>1, <3>2, Shapes, Zenon
    <3>4. Matched'
      BY <1>1, <2>1, <3>1, <3>3, MatchedKept
    <3>5. guard'
      BY <2>1, <3>1, Zenon
    <3>6. Back'
      BY <3>3, <3>4, <3>5, Zenon DEF Back
    <3> QED
      BY <3>6, Zenon DEF Smooth
  <2> QED
    BY <2>4, <2>5, <2>6
<1>7. ASSUME cur' = cur, at' = at, mba' = mba, currMba' = currMba, expectedEnd' = expectedEnd,
             Matched, calls' = <<>>, rc' \in {"ok", "error"}, ~guard',
             dispatched' = IF currEnd = expectedEnd THEN dispatched + 1 ELSE dispatched
      PROVE  Smooth'
  <2>1. cur \in Fns /\ at \in 1..(Len(b) + 1) /\ Straight(world, cur)
    BY <1>3, <1>7
  <2>2. expectedEnd = EndOf(cur) =>
           dispatched' = IF at = Len(world.fns[cur].body) + 1 THEN 1 ELSE 0
    BY <1>0, <1>7, <2>1, Completed
  <2>3. currMba = mba
    BY <1>7, Zenon DEF Matched
  <2>4. Between'
    BY <1>1, <1>7, <1>e, <2>2, <2>3, Zenon DEF Between
  <2> QED
    BY <2>4, Zenon DEF Smooth
<1>8. CASE ApplyBmi1
  <2>1. /\ calls # <<>> /\ Head(calls).proc = "apply" /\ cur' = cur /\ at' = at /\ mba' = mba
        /\ currMba' = currMba /\ expectedEnd' = expectedEnd /\ calls' = Tail(calls) /\ rc' = "ok" /\ guard' = guard
        /\ dispatched' = IF currEnd = expectedEnd THEN dispatched + 1 ELSE dispatched
    BY <1>8, Zenon DEF ApplyBmi1, Top, ApplyReturn, kernel, filterVars
  <2>2. calls = <<App>> /\ ~guard /\ Matched
    <3>1. Applied
      BY <1>3, <2>1, Which
    <3> QED
      BY <3>1, Zenon DEF Applied
  <2>3. calls' = <<>> /\ ~guard' /\ rc' \in {"ok", "error"}
    BY <2>1, <2>2, Shapes
  <2> QED
    BY <1>7, <2>1, <2>2, <2>3
<1>9. CASE ApplyNone
  <2>1. /\ calls # <<>> /\ Head(calls).proc = "apply" /\ selected = None /\ guard' = TRUE
        /\ calls' = <<Gen, Gua>> \o Tail(calls) /\ rc' = rc
        /\ UNCHANGED <<world, cur, at, mba, insn, ea, selected, currMba, expectedEnd, currEnd, dispatched>>
    BY <1>9, Zenon DEF ApplyNone, Top, Guarded, Gen, Gua, kernel, cdg
  <2>2. calls = <<App>> /\ rc = "running" /\ Matched
    <3>1. Applied
      BY <1>3, <2>1, Which
    <3> QED
      BY <3>1, Zenon DEF Applied
  <2>3. calls' = <<Gen, Gua>> /\ rc' = "running" /\ selected' = None
    BY <2>1, <2>2, Shapes, Zenon
  <2>4. Matched'
    BY <2>1, <2>2, MatchedKept
  <2>5. Again'
    BY <2>1, <2>3, <2>4, Zenon DEF Again
  <2> QED
    BY <2>5, Zenon DEF Smooth
<1>10. CASE ReturnGuarded
  <2>1. /\ calls # <<>> /\ Head(calls).proc = "guarded" /\ cur' = cur /\ at' = at /\ mba' = mba
        /\ currMba' = currMba /\ expectedEnd' = expectedEnd /\ calls' = Tail(calls) /\ rc' = rc /\ guard' = FALSE
        /\ dispatched' = IF currEnd = expectedEnd THEN dispatched + 1 ELSE dispatched
    BY <1>10, Zenon DEF ReturnGuarded, Top, ApplyReturn, GuardAfter, kernel, cdg
  <2>2. calls = <<Gua>> /\ rc \in {"ok", "error"} /\ Matched
    <3>1. Back
      BY <1>3, <2>1, Which
    <3> QED
      BY <3>1, Zenon DEF Back
  <2>3. calls' = <<>> /\ ~guard' /\ rc' \in {"ok", "error"}
    BY <2>1, <2>2, Shapes
  <2> QED
    BY <1>7, <2>1, <2>2, <2>3
<1>11. CASE ApplyInliner
  <2>1. calls # <<>> /\ Head(calls).proc = "apply" /\ selected = "inliner" /\ cur' = cur
    BY <1>11, Zenon DEF ApplyInliner, Top, kernel
  <2>2. Matched
    <3>1. Applied
      BY <1>3, <2>1, Which
    <3> QED
      BY <3>1, Zenon DEF Applied
  <2>3. cur \in Fns /\ at \in 1..(Len(b) + 1) /\ Straight(world, cur)
    BY <1>3, <2>1
  <2>4. selected # "inliner"
    BY <1>0, <2>2, <2>3, MatchedIs
  <2> QED
    BY <2>1, <2>4
<1>12. CASE InlineNext
  <2>1. calls # <<>> /\ Head(calls).proc = "inline" /\ cur' = cur
    BY <1>12, Zenon DEF InlineNext, Top, kernel
  <2> QED
    BY <1>3, <2>1, Which
<1>13. CASE Finish \/ Throw
  BY <1>13 DEF Finish, Throw, GiveUp
<1> QED
  BY <1>2, <1>4, <1>5, <1>6, <1>8, <1>9, <1>10, <1>11, <1>12, <1>13 DEF FilterNext, FilterWork

\* It holds to begin with.
LEMMA FilterInvInit == FilterInit => FilterInv
<1> SUFFICES ASSUME FilterInit PROVE FilterInv
  OBVIOUS
<1>1. world \in Worlds /\ NoCircle(world) /\ cur = None /\ calls = <<>> /\ rc = "running"
      /\ dispatched = 0 /\ guard = FALSE /\ thrown = FALSE
  BY DEF FilterInit
<1>2. Placed
  BY <1>1, WorldsAssumption, Zenon DEF Placed
<1>3. GuardHeld
  BY <1>1 DEF GuardHeld, Stack
<1> QED
  BY <1>1, <1>2, <1>3 DEF FilterInv

\* Each step keeps it.
LEMMA FilterInvNext == FilterInv /\ [FilterNext]_allVars => FilterInv'
<1> SUFFICES ASSUME FilterInv, [FilterNext]_allVars PROVE FilterInv'
  OBVIOUS
<1>1. Placed /\ (~thrown => GuardHeld) /\ (cur # None /\ ~thrown /\ Straight(world, cur) => Smooth)
  BY Zenon DEF FilterInv
<1>2. Placed'
  BY <1>1, PlacedKept
<1>3. CASE FilterNext
  <2>1. ~thrown' => GuardHeld'
    BY <1>1, <1>3, GuardKept
  <2>2. ASSUME ~thrown', (cur # None)', Straight(world, cur)' PROVE Smooth'
    <3>0. guard \in BOOLEAN /\ thrown \in BOOLEAN
      BY <1>1, Zenon DEF Placed
    <3>1. thrown' = thrown \/ thrown' = (thrown \/ guard)
      BY <1>3, Zenon DEF FilterNext, FilterWork, NextInsn, Finish, Rewrite, Match, ApplyBmi1, ApplyNone,
         ReturnGuarded, ApplyInliner, InlineNext, StartFunction, Throw
    <3>2. ~thrown
      BY <2>2, <3>0, <3>1
    <3> QED
      BY <1>1, <1>3, <2>2, <3>2, SmoothKept
  <2> QED
    BY <1>2, <2>1, <2>2, Zenon DEF FilterInv
<1>4. CASE allVars' = allVars
  <2>1. UNCHANGED <<world, cur, at, mba, insn, ea, calls, rc, selected, guard, currMba, expectedEnd,
                    currEnd, dispatched, thrown>>
    BY <1>4 DEF allVars, kernel, cdg, filterVars
  <2>2. GuardHeld => GuardHeld'
    BY <2>1, Zenon DEF GuardHeld
  <2>3. AtInsn => AtInsn'
    BY <2>1, Zenon DEF AtInsn
  <2>4. EndOf(cur)' = EndOf(cur)
    BY <2>1, Zenon DEF EndOf
  <2>5. NotYet => NotYet'
    BY <2>1, <2>4, Zenon DEF NotYet
  <2>6. Matched => Matched'
    BY <2>1, MatchedKept
  <2>7. Smooth => Smooth'
    <3>1. (Fresh => Fresh') /\ (Asked => Asked')
      BY <2>1, <2>3, <2>5, Zenon DEF Fresh, Asked
    <3>2. (Applied => Applied') /\ (Again => Again') /\ (Back => Back')
      BY <2>1, <2>6, Zenon DEF Applied, Again, Back
    <3>3. Between => Between'
      BY <2>1, <2>4, Zenon DEF Between
    <3> QED
      BY <3>1, <3>2, <3>3, Zenon DEF Smooth
  <2> QED
    BY <1>1, <1>2, <2>1, <2>2, <2>7, Zenon DEF FilterInv
<1> QED
  BY <1>3, <1>4

\* IInv says that the end of a function has been noticed once.
LEMMA Noticed == FilterInv => DispatchedAtEnd
<1> SUFFICES ASSUME FilterInv, Done, expectedEnd = EndOf(cur), ~thrown, CallsInlined(cur) = {}, ~OutOfStep(cur)
             PROVE  dispatched = 1
  BY Zenon DEF DispatchedAtEnd
<1> DEFINE b == world.fns[cur].body
           pre == PreprocessedIn(world)
<1>1. Placed /\ (cur # None /\ ~thrown /\ Straight(world, cur) => Smooth)
  BY Zenon DEF FilterInv
<1>2. cur # None /\ calls = <<>> /\ rc = "ok" /\ at > Len(b)
  BY DEF Done, Body
<1>3. /\ IsWorld(world) /\ cur \in Fns /\ at \in 1..(Len(b) + 1)
  BY <1>1, <1>2, Zenon DEF Placed
<1>4. Len(b) \in Nat /\ b \in Seq(Instructions)
  BY <1>3, FnIs
<1>5. Straight(world, cur)
  <2>1. ASSUME NEW n \in 1..Len(b)
        PROVE  /\ pre[b[n]].size = b[n].size
               /\ ~(pre[b[n]].kind = "near" /\ Inlinable(world, pre[b[n]].to))
    <3>1. pre[b[n]].size = b[n].size
      BY Zenon DEF OutOfStep, Preprocessed
    <3>2. b[n] \in ToSet(b)
      BY <1>4 DEF ToSet
    <3>3. {i \in {pre[j] : j \in ToSet(b)} : i.kind = "near" /\ Inlinable(world, i.to)} = {}
      BY Zenon DEF CallsInlined, Preprocessed
    <3> HIDE DEF b, pre
    <3>4. pre[b[n]] \in {pre[j] : j \in ToSet(b)}
      BY <3>2
    <3> QED
      BY <3>1, <3>3, <3>4, Zenon
  <2> QED
    BY <2>1, Zenon DEF Straight
<1>6. Fresh \/ Between
  BY <1>1, <1>2, <1>5, Which
<1>7. Between
  BY <1>2, <1>6 DEF Fresh
<1>8. dispatched = IF at = Len(b) + 1 THEN 1 ELSE 0
  BY <1>7, Zenon DEF Between
<1> QED
  BY <1>2, <1>3, <1>4, <1>8

\* The end of a function is noticed, once: dispatch_microcode_generated runs at
\* its last instruction and at no other (micro_filter_api_t::match, apply).
THEOREM FilterNoticesEnd == FilterSpec => []DispatchedAtEnd
<1>1. FilterSpec => []FilterInv
  BY FilterInvInit, FilterInvNext, PTL DEF FilterSpec
<1> QED
  BY <1>1, Noticed, PTL

\* As long as no exception has left it up, m_recursion_guard is set exactly
\* while a call of gen_micro that apply has made runs under it, there is one
\* such call at most, and no second is made under it (micro_filter_api_t::apply).
THEOREM GuardOverOneCall == FilterSpec => [](thrown \/ GuardHeld)
<1>1. FilterSpec => []FilterInv
  BY FilterInvInit, FilterInvNext, PTL DEF FilterSpec
<1>2. FilterInv => thrown \/ GuardHeld
  BY Zenon DEF FilterInv
<1> QED
  BY <1>1, <1>2, PTL

-----------------------------------------------------------------------------
(* What instructions do, one after the other.                                *)

\* FlattenSeq puts the sequences of a sequence together, from the first on.
LEMMA FlattenIs ==
  ASSUME NEW X, NEW s \in Seq(Seq(X)), s # <<>>
  PROVE  \E g : /\ g \in [1..Len(s) -> Seq(X)] /\ g[1] = s[1]
                /\ \A n \in 1..(Len(s) - 1) : g[n + 1] = g[n] \o s[n + 1]
                /\ FlattenSeq(s) = g[Len(s)]
<1> DEFINE l == Len(s)
           Y == Seq(X)
           F == [p \in Nat \X Y |-> IF p[1] + 2 \in 1..l THEN p[2] \o s[p[1] + 2] ELSE p[2]]
           Eq(h) == h = [i \in 1..l |-> IF i = 1 THEN s[i] ELSE h[i - 1] \o s[i]]
<1>0. l \in Nat \ {0} /\ l - 1 \in Nat /\ 1 \in 1..l /\ l \in 1..l /\ \A n \in 1..l : s[n] \in Y
  OBVIOUS
<1> HIDE DEF l
<1>1. s[1] \in Y /\ F \in [Nat \X Y -> Y]
  <2>1. \A n \in 1..l, t \in Y : t \o s[n] \in Y
    BY <1>0
  <2> HIDE DEF Y
  <2> QED
    BY <1>0, <2>1
<1>2. PICK u : Unrolls(u, Y, s[1], F, l - 1)
  <2> HIDE DEF F, Y
  <2> QED
    BY <1>0, <1>1, Recursion
<1>3. /\ u \in [0..(l - 1) -> Y] /\ u[0] = s[1]
      /\ \A n \in 0..((l - 1) - 1) : u[n + 1] = F[<<n, u[n]>>]
  BY <1>2 DEF Unrolls
<1> DEFINE g == [i \in 1..l |-> u[i - 1]]
<1>4. g \in [1..l -> Y] /\ g[1] = s[1]
  <2>1. \A i \in 1..l : i - 1 \in 0..(l - 1)
    BY <1>0
  <2> HIDE DEF Y
  <2> QED
    BY <1>0, <1>3, <2>1
<1>5. ASSUME NEW n \in 1..(l - 1) PROVE g[n + 1] = g[n] \o s[n + 1]
  <2> DEFINE m == n - 1
  <2>1. /\ n \in 1..l /\ n + 1 \in 1..l /\ (n + 1) - 1 = m + 1 /\ m \in 0..((l - 1) - 1) /\ m \in 0..(l - 1)
        /\ m \in Nat /\ m + 2 = n + 1
    BY <1>0
  <2> HIDE DEF Y
  <2>2. g[n + 1] = u[(n + 1) - 1] /\ g[n] = u[m]
    BY <2>1
  <2> HIDE DEF m, g
  <2>3. u[m] \in Y /\ u[m + 1] = F[<<m, u[m]>>]
    BY <1>3, <2>1
  <2>4. F[<<m, u[m]>>] = u[m] \o s[m + 2]
    BY <2>1, <2>3
  <2> QED
    BY <2>1, <2>2, <2>3, <2>4
<1> HIDE DEF F, Y
<1>6. Eq(g)
  <2>1. ASSUME NEW i \in 1..l
        PROVE  g[i] = IF i = 1 THEN s[i] ELSE g[i - 1] \o s[i]
    <3> HIDE DEF g
    <3>1. CASE i = 1
      BY <1>4, <3>1
    <3>2. CASE i # 1
      <4> DEFINE m == i - 1
      <4>1. m \in 1..(l - 1) /\ m + 1 = i
        BY <1>0, <3>2
      <4> HIDE DEF m
      <4>2. g[m + 1] = g[m] \o s[m + 1]
        BY <1>5, <4>1
      <4> QED
        BY <3>2, <4>1, <4>2, Zenon DEF m
    <3> QED
      BY <3>1, <3>2
  <2>2. g = [i \in 1..l |-> g[i]]
    BY <1>4
  <2> HIDE DEF g
  <2> QED
    BY <2>1, <2>2, Zenon
<1> HIDE DEF g
<1> DEFINE flat == CHOOSE h : Eq(h)
<1>7. FlattenSeq(s) = flat[l]
  BY <1>0, Zenon DEF FlattenSeq, l
<1>8. Eq(flat)
  <2> HIDE DEF Eq
  <2> QED
    BY <1>6, Zenon
<1> HIDE DEF flat
<1>9. \A i \in 1..l : flat[i] = IF i = 1 THEN s[i] ELSE flat[i - 1] \o s[i]
  BY <1>8, Zenon
<1> HIDE DEF Eq
<1>10. \A i \in 1..l : flat[i] = g[i]
  <2> DEFINE S == {n \in 0..(l - 1) : flat[n + 1] = g[n + 1]}
  <2>1. 0 \in S
    BY <1>0, <1>4, <1>9
  <2>2. ASSUME NEW n \in 0..((l - 1) - 1), n \in S PROVE n + 1 \in S
    <3>1. n + 1 \in 0..(l - 1) /\ (n + 1) + 1 \in 1..l /\ (n + 1) + 1 # 1 /\ ((n + 1) + 1) - 1 = n + 1
          /\ n + 1 \in 1..(l - 1)
      BY <1>0
    <3>2. flat[(n + 1) + 1] = flat[n + 1] \o s[(n + 1) + 1]
      BY <1>9, <3>1
    <3>3. g[(n + 1) + 1] = g[n + 1] \o s[(n + 1) + 1]
      BY <1>5, <3>1
    <3> QED
      BY <2>2, <3>1, <3>2, <3>3
  <2> HIDE DEF S
  <2>3. 0..(l - 1) \subseteq S
    BY <1>0, <2>1, <2>2, IntervalInduction
  <2>4. \A i \in 1..l : i - 1 \in 0..(l - 1) /\ (i - 1) + 1 = i
    BY <1>0
  <2> QED
    BY <2>3, <2>4 DEF S
<1>11. FlattenSeq(s) = g[l]
  BY <1>0, <1>7, <1>10
<1> QED
  BY <1>4, <1>5, <1>11, Zenon DEF l, Y

\* One more sequence comes at the end.
LEMMA FlattenMore ==
  ASSUME NEW X, NEW s \in Seq(Seq(X)), NEW x \in Seq(X)
  PROVE  FlattenSeq(s) \in Seq(X) /\ FlattenSeq(Append(s, x)) = FlattenSeq(s) \o x
<1> DEFINE l == Len(s)
           t == Append(s, x)
           Y == Seq(X)
<1>0. /\ t \in Seq(Y) /\ t # <<>> /\ Len(t) = l + 1 /\ l \in Nat /\ t[l + 1] = x
      /\ \A n \in 1..l : t[n] = s[n]
  <2>1. s \in Seq(Y) /\ x \in Y
    OBVIOUS
  <2> HIDE DEF Y
  <2> QED
    BY <2>1
<1>1. PICK h : /\ h \in [1..Len(t) -> Y] /\ h[1] = t[1]
               /\ \A n \in 1..(Len(t) - 1) : h[n + 1] = h[n] \o t[n + 1]
               /\ FlattenSeq(t) = h[Len(t)]
  <2> HIDE DEF t
  <2> QED
    BY <1>0, FlattenIs
<1> HIDE DEF t
<1>2. CASE s = <<>>
  <2>1. l = 0 /\ FlattenSeq(s) = <<>>
    BY <1>2 DEF FlattenSeq
  <2>2. FlattenSeq(t) = x
    BY <1>0, <1>1, <2>1
  <2> QED
    BY <2>1, <2>2 DEF t
<1>3. CASE s # <<>>
  <2>1. PICK g : /\ g \in [1..l -> Y] /\ g[1] = s[1]
                 /\ \A n \in 1..(l - 1) : g[n + 1] = g[n] \o s[n + 1]
                 /\ FlattenSeq(s) = g[l]
    BY <1>3, FlattenIs
  <2>2. l # 0
    BY <1>3
  <2> HIDE DEF l, Y
  <2> DEFINE S == {n \in 0..(l - 1) : g[n + 1] = h[n + 1]}
  <2>3. 0 \in S
    BY <1>0, <1>1, <2>1, <2>2
  <2>4. ASSUME NEW n \in 0..((l - 1) - 1), n \in S PROVE n + 1 \in S
    <3>1. n + 1 \in 0..(l - 1) /\ n + 1 \in 1..(l - 1) /\ n + 1 \in 1..(Len(t) - 1) /\ (n + 1) + 1 \in 1..l
      BY <1>0, <2>2
    <3>2. g[(n + 1) + 1] = g[n + 1] \o s[(n + 1) + 1]
      BY <2>1, <3>1
    <3>3. h[(n + 1) + 1] = h[n + 1] \o t[(n + 1) + 1]
      BY <1>1, <3>1
    <3> QED
      BY <1>0, <2>4, <3>1, <3>2, <3>3
  <2> HIDE DEF S
  <2>a. l - 1 \in Nat /\ l - 1 \in 0..(l - 1) /\ (l - 1) + 1 = l /\ l \in 1..((l + 1) - 1)
    BY <1>0, <2>2
  <2>5. 0..(l - 1) \subseteq S
    BY <2>3, <2>4, <2>a, IntervalInduction
  <2>6. g[l] = h[l]
    BY <2>5, <2>a DEF S
  <2>7. h[l + 1] = h[l] \o t[l + 1]
    <3>1. Len(t) = l + 1
      BY <1>0
    <3> QED
      BY <1>1, <2>a, <3>1
  <2>8. g[l] \in Y
    BY <1>0, <2>1, <2>2
  <2> QED
    BY <1>0, <1>1, <2>1, <2>6, <2>7, <2>8 DEF t, Y
<1> QED
  BY <1>2, <1>3

\* What each instruction may do.
Deeds == [Instructions -> Seq(Instructions)]

\* No instruction does nothing, and one more does what it does after the others.
LEMMA InTurnMore ==
  ASSUME NEW D \in Deeds, NEW is \in Seq(Instructions), NEW i \in Instructions
  PROVE  /\ InTurn(D, <<>>) = <<>> /\ InTurn(D, is) \in Seq(Instructions)
         /\ InTurn(D, Append(is, i)) = InTurn(D, is) \o D[i]
<1> DEFINE X == Instructions
           Of(q) == [n \in 1..Len(q) |-> D[q[n]]]
<1> HIDE DEF X
<1>0. is \in Seq(X) /\ i \in X /\ \A j \in X : D[j] \in Seq(X)
  BY DEF Deeds, X
<1>1. Of(<<>>) = <<>> /\ FlattenSeq(<<>>) = <<>>
  BY DEF FlattenSeq
<1>2. Of(is) \in Seq(Seq(X)) /\ Of(Append(is, i)) = Append(Of(is), D[i])
  <2>1. Of(is) \in Seq(Seq(X)) /\ Len(Of(is)) = Len(is) /\ Len(is) \in Nat
    BY <1>0
  <2>2. /\ Append(is, i) \in Seq(X) /\ Len(Append(is, i)) = Len(is) + 1
        /\ \A n \in 1..(Len(is) + 1) : Append(is, i)[n] = IF n = Len(is) + 1 THEN i ELSE is[n]
    BY <1>0
  <2>3. /\ Of(Append(is, i)) \in Seq(Seq(X)) /\ Len(Of(Append(is, i))) = Len(is) + 1
        /\ \A n \in 1..(Len(is) + 1) : Of(Append(is, i))[n] = IF n = Len(is) + 1 THEN D[i] ELSE D[is[n]]
    BY <1>0, <2>2
  <2>4. \A n \in 1..Len(is) : Of(is)[n] = D[is[n]]
    OBVIOUS
  <2> DEFINE a == Of(is)
             c == Of(Append(is, i))
             d == D[i]
             l == Len(is)
  <2>5. /\ a \in Seq(Seq(X)) /\ c \in Seq(Seq(X)) /\ d \in Seq(X) /\ l \in Nat /\ Len(a) = l /\ Len(c) = l + 1
        /\ \A n \in 1..(l + 1) : c[n] = IF n = l + 1 THEN d ELSE a[n]
    BY <1>0, <2>1, <2>3, <2>4
  <2> HIDE DEF a, c, d, l
  <2>6. c = Append(a, d)
    <3> DEFINE Y == Seq(X)
    <3>1. a \in Seq(Y) /\ c \in Seq(Y) /\ d \in Y
      BY <2>5
    <3> HIDE DEF Y
    <3>2. Append(a, d) \in Seq(Y) /\ Len(Append(a, d)) = l + 1
          /\ \A n \in 1..(l + 1) : Append(a, d)[n] = IF n = l + 1 THEN d ELSE a[n]
      BY <2>5, <3>1
    <3> QED
      BY <2>5, <3>1, <3>2, SameSeq
  <2> QED
    BY <2>1, <2>6 DEF a, c, d
<1> HIDE DEF Of
<1>3. /\ FlattenSeq(Of(is)) \in Seq(X)
      /\ FlattenSeq(Append(Of(is), D[i])) = FlattenSeq(Of(is)) \o D[i]
  BY <1>0, <1>2, FlattenMore
<1> QED
  BY <1>1, <1>2, <1>3, Zenon DEF InTurn, Of, X

\* The beginnings of a body: one instruction more each.
LEMMA InTurnOn ==
  ASSUME NEW D \in Deeds, NEW b \in Seq(Instructions)
  PROVE  /\ InTurn(D, SubSeq(b, 1, 0)) = <<>>
         /\ \A n \in 0..Len(b) : InTurn(D, SubSeq(b, 1, n)) \in Seq(Instructions)
         /\ \A n \in 1..Len(b) :
              InTurn(D, SubSeq(b, 1, n)) = InTurn(D, SubSeq(b, 1, n - 1)) \o D[b[n]]
         /\ SubSeq(b, 1, Len(b)) = b
<1> DEFINE X == Instructions
<1> HIDE DEF X
<1>0. b \in Seq(X) /\ <<>> \in Seq(X)
  BY DEF X
<1>1. SubSeq(b, 1, 0) = <<>> /\ SubSeq(b, 1, Len(b)) = b
  BY <1>0
<1>2. \A n \in 0..Len(b) : SubSeq(b, 1, n) \in Seq(X)
  BY <1>0
<1>3. \A n \in 1..Len(b) : b[n] \in X /\ n - 1 \in 0..Len(b) /\ SubSeq(b, 1, n) = Append(SubSeq(b, 1, n - 1), b[n])
  BY <1>0
<1> HIDE DEF X
<1>4. \A n \in 1..Len(b) : InTurn(D, SubSeq(b, 1, n)) = InTurn(D, SubSeq(b, 1, n - 1)) \o D[b[n]]
  <2> TAKE n \in 1..Len(b)
  <2> DEFINE t == SubSeq(b, 1, n - 1)
  <2>1. t \in Seq(Instructions) /\ b[n] \in Instructions /\ SubSeq(b, 1, n) = Append(t, b[n])
    BY <1>2, <1>3 DEF X
  <2> HIDE DEF t
  <2>2. InTurn(D, Append(t, b[n])) = InTurn(D, t) \o D[b[n]]
    BY <2>1, InTurnMore
  <2> QED
    BY <2>1, <2>2 DEF t
<1>5. \A n \in 0..Len(b) : InTurn(D, SubSeq(b, 1, n)) \in Seq(Instructions)
  <2> TAKE n \in 0..Len(b)
  <2>1. SubSeq(b, 1, n) \in Seq(Instructions) /\ Hang \in Instructions
    <3>1. "hang" \in OtherKinds /\ None \in Fns \cup {None} /\ 0 \in Nat
      BY DEF OtherKinds
    <3> QED
      BY <1>2, <3>1, MadeIs DEF Hang, X
  <2> QED
    BY <2>1, InTurnMore
<1>6. InTurn(D, <<>>) = <<>>
  <2>1. <<>> \in Seq(Instructions) /\ Hang \in Instructions
    <3>1. "hang" \in OtherKinds /\ None \in Fns \cup {None} /\ 0 \in Nat
      BY DEF OtherKinds
    <3> QED
      BY <3>1, MadeIs DEF Hang
  <2> QED
    BY <2>1, InTurnMore
<1> QED
  BY <1>1, <1>4, <1>5, <1>6

\* What each kind of instruction does, where D says what others do.
LEMMA DeedIs ==
  ASSUME NEW w, IsWorld(w), NEW D \in Deeds
  PROVE  /\ \A i \in Instructions :
              /\ i.kind \in {"nop", "cond"} => Deed(w, D)[i] = <<>>
              /\ i.kind = "past" => Deed(w, D)[i] = <<Insn("jmp", i.to, 0)>>
              /\ i.kind \in OtherKinds \ {"nop", "cond", "past"} => Deed(w, D)[i] = <<Insn(i.kind, i.to, 0)>>
         /\ \A q \in Ptrs : \A s \in Nat :
              Deed(w, D)[Insn("mem", q, s)] =
                IF w.ptrs[q].const THEN D[Insn("near", w.ptrs[q].to, 0)] ELSE <<Insn("mem", q, 0)>>
         /\ \A f \in Fns : \A s \in Nat :
              Deed(w, D)[Insn("near", f, s)] =
                IF w.fns[f].via # None THEN D[Insn("mem", w.fns[f].via, 0)]
                ELSE IF w.fns[f].thunk # None THEN D[Insn("near", w.fns[f].thunk, 0)]
                ELSE InTurn(D, SubSeq(w.fns[f].body, 1, Len(w.fns[f].body) - 1))
<1> DEFINE of(i) ==
     IF i.kind \in {"nop", "cond"} THEN <<>>
     ELSE IF i.kind = "past" THEN <<Insn("jmp", i.to, 0)>>
     ELSE IF i.kind = "mem" /\ w.ptrs[i.to].const THEN D[Insn("near", w.ptrs[i.to].to, 0)]
     ELSE IF i.kind # "near" THEN <<Insn(i.kind, i.to, 0)>>
     ELSE IF w.fns[i.to].via # None THEN D[Insn("mem", w.fns[i.to].via, 0)]
     ELSE IF w.fns[i.to].thunk # None THEN D[Insn("near", w.fns[i.to].thunk, 0)]
     ELSE InTurn(D, SubSeq(w.fns[i.to].body, 1, Len(w.fns[i.to].body) - 1))
<1>1. \A i \in Instructions : Deed(w, D)[i] = of(i)
  BY Zenon DEF Deed, Front
<1>2. ASSUME NEW i \in Instructions
      PROVE  /\ i.kind \in {"nop", "cond"} => of(i) = <<>>
             /\ i.kind = "past" => of(i) = <<Insn("jmp", i.to, 0)>>
             /\ i.kind \in OtherKinds \ {"nop", "cond", "past"} => of(i) = <<Insn(i.kind, i.to, 0)>>
  BY DEF OtherKinds
<1>3. ASSUME NEW q \in Ptrs, NEW s \in Nat
      PROVE  /\ Insn("mem", q, s) \in Instructions
             /\ of(Insn("mem", q, s)) =
                  IF w.ptrs[q].const THEN D[Insn("near", w.ptrs[q].to, 0)] ELSE <<Insn("mem", q, 0)>>
  <2> DEFINE i == Insn("mem", q, s)
  <2>1. i \in Instructions /\ i.kind = "mem" /\ i.to = q
    BY MadeIs
  <2> HIDE DEF i
  <2>2. i.kind \notin {"nop", "cond"} /\ i.kind # "past" /\ i.kind # "near"
    BY <2>1
  <2> QED
    BY <2>1, <2>2, Zenon DEF i
<1>4. ASSUME NEW f \in Fns, NEW s \in Nat
      PROVE  /\ Insn("near", f, s) \in Instructions
             /\ of(Insn("near", f, s)) =
                  IF w.fns[f].via # None THEN D[Insn("mem", w.fns[f].via, 0)]
                  ELSE IF w.fns[f].thunk # None THEN D[Insn("near", w.fns[f].thunk, 0)]
                  ELSE InTurn(D, SubSeq(w.fns[f].body, 1, Len(w.fns[f].body) - 1))
  <2> DEFINE i == Insn("near", f, s)
  <2>1. i \in Instructions /\ i.kind = "near" /\ i.to = f
    BY MadeIs
  <2> HIDE DEF i
  <2>2. i.kind \notin {"nop", "cond"} /\ i.kind # "past" /\ i.kind # "mem"
    BY <2>1
  <2> QED
    BY <2>1, <2>2, Zenon DEF i
<1> HIDE DEF of
<1> QED
  BY <1>1, <1>2, <1>3, <1>4, Zenon

\* What instructions do are again sequences of instructions.
LEMMA DeedType ==
  ASSUME NEW w, IsWorld(w), NEW D \in Deeds
  PROVE  Deed(w, D) \in Deeds
<1> DEFINE E == Deed(w, D)
<1>1. ASSUME NEW i \in Instructions PROVE E[i] \in Seq(Instructions)
  <2>1. /\ i = Insn(i.kind, i.to, i.size) /\ i.size \in Nat
        /\ \/ i.kind = "near" /\ i.to \in Fns
           \/ i.kind = "mem" /\ i.to \in Ptrs
           \/ i.kind \in OtherKinds /\ i.to \in Fns \cup {None}
    BY InsnIs
  <2>0. \A j \in Instructions : D[j] \in Seq(Instructions) /\ <<j>> \in Seq(Instructions)
    BY DEF Deeds
  <2>2. CASE i.kind \in OtherKinds /\ i.to \in Fns \cup {None}
    <3>1. Insn(i.kind, i.to, 0) \in Instructions /\ Insn("jmp", i.to, 0) \in Instructions
      BY <2>2, MadeIs DEF OtherKinds
    <3>2. \/ E[i] = <<>>
          \/ E[i] = <<Insn("jmp", i.to, 0)>>
          \/ E[i] = <<Insn(i.kind, i.to, 0)>>
      BY <2>2, DeedIs
    <3>3. <<>> \in Seq(Instructions)
      OBVIOUS
    <3>4. /\ <<Insn("jmp", i.to, 0)>> \in Seq(Instructions)
          /\ <<Insn(i.kind, i.to, 0)>> \in Seq(Instructions)
      BY <2>0, <3>1, Zenon
    <3> HIDE DEF E
    <3> QED
      BY <3>2, <3>3, <3>4
  <2>3. CASE i.kind = "mem" /\ i.to \in Ptrs
    <3>1. Insn("mem", i.to, 0) \in Instructions /\ Insn("near", w.ptrs[i.to].to, 0) \in Instructions
      BY <2>3, PtrIs, MadeIs
    <3>a. E[Insn("mem", i.to, i.size)] =
            IF w.ptrs[i.to].const THEN D[Insn("near", w.ptrs[i.to].to, 0)] ELSE <<Insn("mem", i.to, 0)>>
      BY <2>1, <2>3, DeedIs
    <3>2. \/ E[Insn("mem", i.to, i.size)] = D[Insn("near", w.ptrs[i.to].to, 0)]
          \/ E[Insn("mem", i.to, i.size)] = <<Insn("mem", i.to, 0)>>
      BY <3>a, Zenon
    <3>3. i = Insn("mem", i.to, i.size)
      BY <2>1, <2>3
    <3> HIDE DEF E
    <3> QED
      BY <2>0, <3>1, <3>2, <3>3
  <2>4. CASE i.kind = "near" /\ i.to \in Fns
    <3> DEFINE g == w.fns[i.to]
               b == g.body
    <3>1. b \in Seq(Instructions) /\ Len(b) \in Nat \ {0} /\ g.via \in Ptrs \cup {None} /\ g.thunk \in Fns \cup {None}
      BY <2>4, FnIs
    <3>2. E[Insn("near", i.to, i.size)] = IF g.via # None THEN D[Insn("mem", g.via, 0)]
             ELSE IF g.thunk # None THEN D[Insn("near", g.thunk, 0)] ELSE InTurn(D, SubSeq(b, 1, Len(b) - 1))
      BY <2>1, <2>4, DeedIs
    <3>3. i = Insn("near", i.to, i.size)
      BY <2>1, <2>4
    <3> HIDE DEF E, b, g
    <3>4. /\ g.via # None => Insn("mem", g.via, 0) \in Instructions
          /\ g.thunk # None => Insn("near", g.thunk, 0) \in Instructions
      BY <3>1, MadeIs
    <3>5. Len(b) - 1 \in 0..Len(b)
      BY <3>1
    <3>6. InTurn(D, SubSeq(b, 1, Len(b) - 1)) \in Seq(Instructions)
      BY <3>1, <3>5, InTurnOn
    <3> QED
      BY <2>0, <3>2, <3>3, <3>4, <3>6
  <2> QED
    BY <2>1, <2>2, <2>3, <2>4
<1>2. E = [i \in Instructions |-> E[i]]
  BY Zenon DEF Deed
<1> QED
  BY <1>1, <1>2 DEF Deeds

\* The depths, up to Rounds.
LEMMA DoingIs ==
  ASSUME NEW w, IsWorld(w)
  PROVE  /\ \A n \in 0..Rounds : Doing(w)[n] \in Deeds
         /\ \A n \in 0..(Rounds - 1) : Doing(w)[n + 1] = Deed(w, Doing(w)[n])
<1> DEFINE l == Rounds
           X == Deeds
           x0 == [i \in Instructions |-> <<Hang>>]
           F == [p \in Nat \X X |-> Deed(w, p[2])]
           Eq(h) == h = [n \in 0..l |-> IF n = 0 THEN x0 ELSE Deed(w, h[n - 1])]
<1>0. l \in Nat
  BY RoundsAssumption
<1>1. x0 \in X /\ F \in [Nat \X X -> X]
  <2>1. Hang \in Instructions
    <3>1. "hang" \in OtherKinds /\ None \in Fns \cup {None} /\ 0 \in Nat
      BY DEF OtherKinds
    <3> QED
      BY <3>1, MadeIs DEF Hang
  <2>2. x0 \in X
    <3>1. <<Hang>> \in Seq(Instructions)
      BY <2>1
    <3> QED
      BY <3>1 DEF Deeds
  <2>3. \A D \in X : Deed(w, D) \in X
    BY DeedType
  <2> HIDE DEF X
  <2> QED
    BY <2>2, <2>3
<1> HIDE DEF x0
<1>2. PICK g : Unrolls(g, X, x0, F, l)
  <2> HIDE DEF l, X, F
  <2> QED
    BY <1>0, <1>1, Recursion
<1>3. /\ g \in [0..l -> X] /\ g[0] = x0
      /\ \A n \in 0..(l - 1) : g[n + 1] = F[<<n, g[n]>>]
  BY <1>2 DEF Unrolls
<1>4. ASSUME NEW n \in 0..(l - 1) PROVE g[n + 1] = Deed(w, g[n])
  <2> HIDE DEF X
  <2>1. n \in Nat /\ g[n] \in X
    BY <1>0, <1>3
  <2>2. F[<<n, g[n]>>] = Deed(w, g[n])
    BY <2>1
  <2> QED
    BY <1>3, <2>2
<1>5. Eq(g)
  <2>1. ASSUME NEW n \in 0..l
        PROVE  g[n] = IF n = 0 THEN x0 ELSE Deed(w, g[n - 1])
    <3>1. CASE n = 0
      BY <1>3, <3>1
    <3>2. CASE n # 0
      <4> DEFINE m == n - 1
      <4>1. m \in 0..(l - 1) /\ m + 1 = n
        BY <1>0, <3>2
      <4> HIDE DEF m
      <4>2. g[m + 1] = Deed(w, g[m])
        BY <1>4, <4>1
      <4> QED
        BY <3>2, <4>1, <4>2, Zenon DEF m
    <3> QED
      BY <3>1, <3>2
  <2>2. g = [n \in 0..l |-> g[n]]
    BY <1>3
  <2> QED
    BY <2>1, <2>2, Zenon
<1> DEFINE upTo == CHOOSE h : Eq(h)
<1>6. Doing(w) = upTo
  BY Zenon DEF Doing, x0
<1>7. Eq(upTo)
  <2> HIDE DEF Eq
  <2> QED
    BY <1>5, Zenon
<1> HIDE DEF upTo
<1>8. \A n \in 0..l : upTo[n] = IF n = 0 THEN x0 ELSE Deed(w, upTo[n - 1])
  BY <1>7, Zenon
<1> HIDE DEF F, X, Eq
<1>9. \A n \in 0..l : upTo[n] = g[n]
  <2> DEFINE S == {n \in 0..l : upTo[n] = g[n]}
  <2>1. 0 \in S
    <3>1. 0 \in 0..l
      BY <1>0
    <3> QED
      BY <1>3, <1>8, <3>1, Zenon
  <2>2. ASSUME NEW n \in 0..(l - 1), n \in S PROVE n + 1 \in S
    <3>1. n + 1 \in 0..l /\ n + 1 # 0 /\ (n + 1) - 1 = n
      BY <1>0
    <3>2. upTo[n + 1] = Deed(w, upTo[n])
      BY <1>8, <3>1
    <3> QED
      BY <1>4, <2>2, <3>1, <3>2
  <2> HIDE DEF S, l
  <2>3. 0..l \subseteq S
    BY <1>0, <2>1, <2>2, IntervalInduction
  <2> QED
    BY <2>3 DEF S
<1>10. \A n \in 0..(l - 1) : n \in 0..l /\ n + 1 \in 0..l
  BY <1>0
<1>11. \A n \in 0..(l - 1) : upTo[n + 1] = Deed(w, upTo[n])
  BY <1>4, <1>9, <1>10
<1>12. \A n \in 0..l : upTo[n] \in X
  BY <1>3, <1>9
<1> QED
  BY <1>6, <1>11, <1>12 DEF X

\* What instructions do does not depend on their sizes.
LEMMA DeedSized ==
  ASSUME NEW w, IsWorld(w), NEW D \in Deeds, NEW s \in Nat
  PROVE  /\ \A q \in Ptrs : Deed(w, D)[Insn("mem", q, s)] = Deed(w, D)[Insn("mem", q, 0)]
         /\ \A f \in Fns : Deed(w, D)[Insn("near", f, s)] = Deed(w, D)[Insn("near", f, 0)]
<1> DEFINE M(q) == IF w.ptrs[q].const THEN D[Insn("near", w.ptrs[q].to, 0)] ELSE <<Insn("mem", q, 0)>>
           N(f) == IF w.fns[f].via # None THEN D[Insn("mem", w.fns[f].via, 0)]
                   ELSE IF w.fns[f].thunk # None THEN D[Insn("near", w.fns[f].thunk, 0)]
                   ELSE InTurn(D, SubSeq(w.fns[f].body, 1, Len(w.fns[f].body) - 1))
<1>1. \A q \in Ptrs : \A t \in Nat : Deed(w, D)[Insn("mem", q, t)] = M(q)
  BY DeedIs, Zenon
<1>2. \A f \in Fns : \A t \in Nat : Deed(w, D)[Insn("near", f, t)] = N(f)
  BY DeedIs, Zenon
<1>3. 0 \in Nat
  OBVIOUS
<1> HIDE DEF M, N
<1> QED
  BY <1>1, <1>2, <1>3

\* Where calls go no deeper than Rounds, all instructions do is what those they
\* lead on to do.
LEMMA DoesIs ==
  ASSUME NEW w, IsWorld(w), Shallow(w)
  PROVE  Doing(w)[Rounds] \in Deeds /\ Deed(w, Doing(w)[Rounds]) = Doing(w)[Rounds]
<1> DEFINE k == Rounds - 1
           B == Doing(w)[k - 1]
           C == Doing(w)[k]
           D == Doing(w)[Rounds]
<1>0. /\ k \in 0..Rounds /\ k - 1 \in 0..Rounds /\ Rounds \in 0..Rounds
      /\ k \in 0..(Rounds - 1) /\ k - 1 \in 0..(Rounds - 1) /\ k + 1 = Rounds /\ (k - 1) + 1 = k
  <2>1. Cardinality(Fns) \in Nat
    BY FnsAssumption, FS_CardinalityType
  <2> QED
    BY <2>1, RoundsAssumption
<1> HIDE DEF k
<1>1. B \in Deeds /\ C \in Deeds /\ D \in Deeds /\ C = Deed(w, B) /\ D = Deed(w, C)
  BY <1>0, DoingIs
<1>2. \A i \in {Insn("near", f, 0) : f \in Fns} \cup {Insn("mem", p, 0) : p \in Ptrs} : C[i] = D[i]
  BY Zenon DEF Shallow, k
<1> HIDE DEF B, C, D
<1>3. ASSUME NEW i \in Instructions PROVE C[i] = D[i]
  <2>1. /\ i = Insn(i.kind, i.to, i.size) /\ i.size \in Nat
        /\ \/ i.kind = "near" /\ i.to \in Fns
           \/ i.kind = "mem" /\ i.to \in Ptrs
           \/ i.kind \in OtherKinds /\ i.to \in Fns \cup {None}
    BY InsnIs
  <2>2. CASE i.kind \in OtherKinds
    <3>1. /\ i.kind \in {"nop", "cond"} => C[i] = <<>>
          /\ i.kind = "past" => C[i] = <<Insn("jmp", i.to, 0)>>
          /\ i.kind \in OtherKinds \ {"nop", "cond", "past"} => C[i] = <<Insn(i.kind, i.to, 0)>>
      BY <1>1, DeedIs
    <3>2. /\ i.kind \in {"nop", "cond"} => D[i] = <<>>
          /\ i.kind = "past" => D[i] = <<Insn("jmp", i.to, 0)>>
          /\ i.kind \in OtherKinds \ {"nop", "cond", "past"} => D[i] = <<Insn(i.kind, i.to, 0)>>
      BY <1>1, DeedIs
    <3> QED
      BY <2>2, <3>1, <3>2
  <2>3. CASE i.kind = "mem" /\ i.to \in Ptrs
    <3>1. /\ C[Insn("mem", i.to, i.size)] = C[Insn("mem", i.to, 0)]
          /\ D[Insn("mem", i.to, i.size)] = D[Insn("mem", i.to, 0)]
      BY <1>1, <2>1, <2>3, DeedSized
    <3>2. C[Insn("mem", i.to, 0)] = D[Insn("mem", i.to, 0)]
      BY <1>2, <2>3, Zenon
    <3>3. i = Insn("mem", i.to, i.size)
      BY <2>1, <2>3
    <3> QED
      BY <3>1, <3>2, <3>3, Zenon
  <2>4. CASE i.kind = "near" /\ i.to \in Fns
    <3>1. /\ C[Insn("near", i.to, i.size)] = C[Insn("near", i.to, 0)]
          /\ D[Insn("near", i.to, i.size)] = D[Insn("near", i.to, 0)]
      BY <1>1, <2>1, <2>4, DeedSized
    <3>2. C[Insn("near", i.to, 0)] = D[Insn("near", i.to, 0)]
      BY <1>2, <2>4, Zenon
    <3>3. i = Insn("near", i.to, i.size)
      BY <2>1, <2>4
    <3> QED
      BY <3>1, <3>2, <3>3, Zenon
  <2> QED
    BY <2>1, <2>2, <2>3, <2>4
<1>4. C = D
  BY <1>1, <1>3 DEF Deeds
<1> QED
  BY <1>1, <1>4 DEF D

\* As in OutOfStep and Covers, of any world.
InStep(w, f) ==
  \A n \in 1..Len(w.fns[f].body) :
    PreprocessedIn(w)[w.fns[f].body[n]].size = w.fns[f].body[n].size
CoveredIn(w, f) ==
  /\ Len(w.fns[f].body) > 2
  /\ PreprocessedIn(w)[w.fns[f].body[1]].size + Last(w.fns[f].body).size = SizeOf(w.fns[f].body)

\* Preprocessing ends, no operation covers more than the call it replaces, and D
\* says what instructions do.
Telling(w, D) ==
  /\ IsWorld(w) /\ NoCircle(w)
  /\ D \in Deeds /\ Deed(w, D) = D
  /\ \A f \in Fns : ~CoveredIn(w, f)

\* y is what i comes to: it does the same, is a return or of no size only if i
\* is, and stays as it is.
SettlesTo(w, D, i, y) ==
  /\ y \in Instructions /\ Rewritten(w, y, PreprocessedIn(w)) = y
  /\ D[y] = D[i]
  /\ y.kind = "ret" => i.kind = "ret"
  /\ i.size > 0 => y.size > 0

\* What one step makes of an instruction has then only to settle itself.
LEMMA SettlesOn ==
  ASSUME NEW w, NEW D, Telling(w, D), NEW i \in Instructions, NEW j \in Instructions,
         Rewritten(w, i, PreprocessedIn(w)) = j, j # i,
         SettlesTo(w, D, j, PreprocessedIn(w)[j]),
         D[j] = D[i], j.kind = "ret" => i.kind = "ret", i.size > 0 => j.size > 0
  PROVE  SettlesTo(w, D, i, PreprocessedIn(w)[i])
<1>1. PreprocessedIn(w)[i] = PreprocessedIn(w)[j]
  <2>1. IsWorld(w) /\ NoCircle(w)
    BY DEF Telling
  <2>2. PreprocessedIn(w)[i] = IF Rewritten(w, i, PreprocessedIn(w)) = i THEN i
                               ELSE PreprocessedIn(w)[Rewritten(w, i, PreprocessedIn(w))]
    BY <2>1, Preprocesses
  <2> QED
    BY <2>2, Zenon
<1> DEFINE y == PreprocessedIn(w)[j]
<1>2. SettlesTo(w, D, j, y)
  OBVIOUS
<1> HIDE DEF y
<1>3. SettlesTo(w, D, i, y)
  BY <1>2 DEF SettlesTo
<1> QED
  BY <1>1, <1>3, Zenon DEF y

\* One no rewriter changes has settled.
LEMMA SettlesHere ==
  ASSUME NEW w, NEW D, Telling(w, D), NEW i \in Instructions,
         Rewritten(w, i, PreprocessedIn(w)) = i
  PROVE  PreprocessedIn(w)[i] = i /\ SettlesTo(w, D, i, PreprocessedIn(w)[i])
<1>1. PreprocessedIn(w)[i] = i
  <2>1. IsWorld(w) /\ NoCircle(w)
    BY DEF Telling
  <2>2. PreprocessedIn(w)[i] = IF Rewritten(w, i, PreprocessedIn(w)) = i THEN i
                               ELSE PreprocessedIn(w)[Rewritten(w, i, PreprocessedIn(w))]
    BY <2>1, Preprocesses
  <2> QED
    BY <2>2, Zenon
<1>2. SettlesTo(w, D, i, i)
  BY DEF SettlesTo
<1> QED
  BY <1>1, <1>2, Zenon

\* One that is no call: a jump that becomes a plain one or none does what it did.
LEMMA OtherSettles ==
  ASSUME NEW w, NEW D, Telling(w, D), NEW i \in Instructions, i.kind \in OtherKinds
  PROVE  SettlesTo(w, D, i, PreprocessedIn(w)[i])
<1> DEFINE pre == PreprocessedIn(w)
<1>0. IsWorld(w) /\ D \in Deeds /\ Deed(w, D) = D
  BY DEF Telling
<1>1. i.size \in Nat /\ i.to \in Fns \cup {None}
  <2>1. "near" \notin OtherKinds /\ "mem" \notin OtherKinds
    BY DEF OtherKinds
  <2> QED
    BY <2>1, InsnIs
<1>2. ASSUME NEW j \in Instructions, j.kind \in OtherKinds \ {"cond", "past"}
      PROVE  Rewritten(w, j, pre) = j
  <2>1. Rewritten(w, j, pre) = IF j.kind = "cond" THEN Insn("nop", j.to, j.size)
                               ELSE IF j.kind = "past" THEN Insn("jmp", j.to, j.size)
                               ELSE j
    BY <1>2, OtherRewritten
  <2> QED
    BY <1>2, <2>1
<1>3. CASE i.kind \in OtherKinds \ {"cond", "past"}
  BY <1>2, <1>3, SettlesHere
<1>4. ASSUME NEW k \in {"nop", "jmp"}, i.kind = "cond" => k = "nop", i.kind = "past" => k = "jmp",
             i.kind \in {"cond", "past"}
      PROVE  SettlesTo(w, D, i, pre[i])
  <2> DEFINE j == Insn(k, i.to, i.size)
  <2>1. j \in Instructions /\ j.kind = k /\ j.to = i.to /\ j.size = i.size /\ k \in OtherKinds \ {"cond", "past"}
    <3>1. k \in OtherKinds \ {"cond", "past"}
      BY DEF OtherKinds
    <3> QED
      BY <1>1, <3>1, MadeIs
  <2>2. Rewritten(w, i, pre) = j
    <3>1. Rewritten(w, i, pre) = IF i.kind = "cond" THEN Insn("nop", i.to, i.size)
                                 ELSE IF i.kind = "past" THEN Insn("jmp", i.to, i.size)
                                 ELSE i
      BY OtherRewritten
    <3> QED
      BY <1>4, <3>1
  <2> HIDE DEF j
  <2>3. SettlesTo(w, D, j, pre[j])
    BY <1>2, <2>1, SettlesHere
  <2>4. D[j] = D[i]
    <3>1. /\ i.kind = "cond" => D[i] = <<>>
          /\ i.kind = "past" => D[i] = <<Insn("jmp", i.to, 0)>>
      BY <1>0, DeedIs
    <3>2. /\ j.kind = "nop" => D[j] = <<>>
          /\ j.kind = "jmp" => D[j] = <<Insn("jmp", j.to, 0)>>
      <4>1. "jmp" \in OtherKinds \ {"nop", "cond", "past"}
        BY DEF OtherKinds
      <4> QED
        BY <1>0, <2>1, <4>1, DeedIs
    <3> QED
      BY <1>4, <2>1, <3>1, <3>2
  <2>5. j # i /\ j.kind # "ret"
    BY <1>4, <2>1
  <2> QED
    BY <2>1, <2>2, <2>3, <2>4, <2>5, SettlesOn
<1> QED
  BY <1>3, <1>4

\* A call through a pointer settles if that of the function it leads to does.
LEMMA MemSettles ==
  ASSUME NEW w, NEW D, Telling(w, D), NEW q \in Ptrs, NEW s \in Nat,
         w.ptrs[q].const =>
           SettlesTo(w, D, Insn("near", w.ptrs[q].to, s), PreprocessedIn(w)[Insn("near", w.ptrs[q].to, s)])
  PROVE  SettlesTo(w, D, Insn("mem", q, s), PreprocessedIn(w)[Insn("mem", q, s)])
<1> DEFINE i == Insn("mem", q, s)
           j == Insn("near", w.ptrs[q].to, s)
           pre == PreprocessedIn(w)
<1>0. IsWorld(w) /\ D \in Deeds /\ Deed(w, D) = D
  BY DEF Telling
<1>1. /\ i \in Instructions /\ j \in Instructions /\ i.kind = "mem" /\ j.kind = "near"
      /\ i.size = s /\ j.size = s /\ w.ptrs[q].to \in Fns
  BY <1>0, PtrIs, MadeIs
<1>2. Rewritten(w, i, pre) = IF w.ptrs[q].const THEN j ELSE i
  BY <1>0, MemRewritten
<1>3. w.ptrs[q].const => D[i] = D[j]
  <2>1. Deed(w, D)[Insn("mem", q, s)] =
          IF w.ptrs[q].const THEN D[Insn("near", w.ptrs[q].to, 0)] ELSE <<Insn("mem", q, 0)>>
    BY <1>0, DeedIs
  <2>2. Deed(w, D)[Insn("near", w.ptrs[q].to, s)] = Deed(w, D)[Insn("near", w.ptrs[q].to, 0)]
    BY <1>0, <1>1, DeedSized
  <2> QED
    BY <1>0, <2>1, <2>2, Zenon
<1>4. w.ptrs[q].const => SettlesTo(w, D, j, pre[j])
  OBVIOUS
<1> HIDE DEF i, j
<1>5. CASE w.ptrs[q].const
  <2>1. j # i
    BY <1>1
  <2>2. Rewritten(w, i, PreprocessedIn(w)) = j
    BY <1>2, <1>5
  <2> QED
    BY <1>1, <1>3, <1>4, <1>5, <2>1, <2>2, SettlesOn DEF i
<1>6. CASE ~w.ptrs[q].const
  BY <1>1, <1>2, <1>6, SettlesHere DEF i
<1> QED
  BY <1>5, <1>6

\* A call of a function settles if those of the functions it may lead on to do.
LEMMA NearSettles ==
  ASSUME NEW w, NEW D, Telling(w, D), NEW E \in SUBSET Fns,
         \A e \in E : \A s \in Nat :
           SettlesTo(w, D, Insn("near", e, s), PreprocessedIn(w)[Insn("near", e, s)]),
         NEW f \in Fns, Onward(w, f) \subseteq E, w.fns[f].thunk # f, NEW s \in Nat
  PROVE  SettlesTo(w, D, Insn("near", f, s), PreprocessedIn(w)[Insn("near", f, s)])
<1> DEFINE pre == PreprocessedIn(w)
           i == Insn("near", f, s)
           body == w.fns[f].body
           b == body[1]
           via == w.fns[f].via
           to == w.fns[f].thunk
<1>0. IsWorld(w) /\ NoCircle(w) /\ D \in Deeds /\ Deed(w, D) = D /\ ~CoveredIn(w, f)
  BY DEF Telling
<1>1. /\ i \in Instructions /\ b \in Instructions /\ i.kind = "near" /\ i.size = s
      /\ via \in Ptrs \cup {None} /\ to \in Fns \cup {None}
      /\ body \in Seq(Instructions) /\ Len(body) \in Nat \ {0} /\ b.size \in Nat \ {0}
  <2>1. 1 \in 1..Len(body)
    BY <1>0, FnIs
  <2> QED
    BY <1>0, <2>1, MadeIs, FnIs
<1>2. Rewritten(w, i, pre) =
        IF w.fns[f].nullsub THEN Insn("nop", None, s)
        ELSE IF via # None THEN Insn("mem", via, s)
        ELSE IF to # None THEN Insn("near", to, s)
        ELSE IF TakesFirst(w, f, pre[b]) THEN pre[b] ELSE i
  <2>1. Rewritten(w, Insn("near", f, s), pre) =
          IF w.fns[f].nullsub THEN Insn("nop", None, s)
          ELSE IF w.fns[f].via # None THEN Insn("mem", w.fns[f].via, s)
          ELSE IF w.fns[f].thunk # None /\ w.fns[f].thunk # f THEN Insn("near", w.fns[f].thunk, s)
          ELSE OperationThenRet(w, Insn("near", f, s), pre)
    BY <1>0, NearRewritten
  <2>2. OperationThenRet(w, Insn("near", f, s), pre) =
          IF TakesFirst(w, f, pre[w.fns[f].body[1]]) THEN pre[w.fns[f].body[1]] ELSE Insn("near", f, s)
    BY OperationIs, Zenon
  <2> HIDE DEF pre
  <2> QED
    BY <2>1, <2>2, Zenon
<1>3. D[i] = IF via # None THEN D[Insn("mem", via, 0)]
             ELSE IF to # None THEN D[Insn("near", to, 0)]
             ELSE InTurn(D, SubSeq(body, 1, Len(body) - 1))
  BY <1>0, DeedIs
<1> HIDE DEF i
<1>4. CASE w.fns[f].nullsub
  <2> DEFINE j == Insn("nop", None, s)
  <2>1. j \in Instructions /\ j.kind = "nop" /\ j.size = s /\ j.kind \in OtherKinds
    <3>1. "nop" \in OtherKinds /\ None \in Fns \cup {None}
      BY DEF OtherKinds
    <3> QED
      BY <3>1, MadeIs
  <2>2. Rewritten(w, i, pre) = j
    BY <1>2, <1>4
  <2> HIDE DEF j
  <2>3. SettlesTo(w, D, j, pre[j])
    BY <2>1, OtherSettles
  <2>4. D[j] = D[i]
    <3>1. Len(body) = 1 /\ to = None /\ via = None
      BY <1>0, <1>4 DEF IsWorld
    <3>2. InTurn(D, SubSeq(body, 1, 0)) = <<>>
      BY <1>0, <1>1, InTurnOn
    <3>3. D[i] = <<>>
      BY <1>3, <3>1, <3>2
    <3>4. D[j] = <<>>
      BY <1>0, <2>1, DeedIs
    <3> QED
      BY <3>3, <3>4
  <2> QED
    BY <1>1, <2>1, <2>2, <2>3, <2>4, SettlesOn DEF i
<1>5. CASE ~w.fns[f].nullsub /\ via # None
  <2> DEFINE j == Insn("mem", via, s)
  <2>1. j \in Instructions /\ j.kind = "mem" /\ j.size = s
    BY <1>1, <1>5, MadeIs, SMTT(30)
  <2>2. Rewritten(w, i, pre) = j
    BY <1>2, <1>5
  <2>3. SettlesTo(w, D, j, pre[j])
    <3>1. w.ptrs[via].const => w.ptrs[via].to \in E
      BY <1>5 DEF Onward, Leads, Insn
    <3> QED
      BY <1>1, <1>5, <3>1, MemSettles, SMTT(30)
  <2>4. D[j] = D[i]
    <3>1. Deed(w, D)[Insn("mem", via, s)] = Deed(w, D)[Insn("mem", via, 0)]
      BY <1>0, <1>1, <1>5, DeedSized
    <3> QED
      BY <1>0, <1>3, <1>5, <3>1
  <2> HIDE DEF j
  <2> QED
    BY <1>1, <2>1, <2>2, <2>3, <2>4, SettlesOn DEF i
<1>6. CASE ~w.fns[f].nullsub /\ via = None /\ to # None
  <2> DEFINE j == Insn("near", to, s)
  <2>1. j \in Instructions /\ j.kind = "near" /\ j.size = s /\ j.to = to
    BY <1>1, <1>6, MadeIs
  <2>2. Rewritten(w, i, pre) = j
    BY <1>2, <1>6
  <2>3. SettlesTo(w, D, j, pre[j])
    <3>1. to \in E
      BY <1>6 DEF Onward
    <3> QED
      BY <3>1
  <2>4. D[j] = D[i]
    <3>1. Deed(w, D)[Insn("near", to, s)] = Deed(w, D)[Insn("near", to, 0)]
      BY <1>0, <1>1, <1>6, DeedSized
    <3> QED
      BY <1>0, <1>3, <1>6, <3>1
  <2>5. i.to = f
    BY MadeIs DEF i
  <2> HIDE DEF j
  <2>6. j # i
    BY <2>1, <2>5
  <2> QED
    BY <1>1, <2>1, <2>2, <2>3, <2>4, <2>6, SettlesOn DEF i
<1>7. CASE ~w.fns[f].nullsub /\ via = None /\ to = None /\ ~TakesFirst(w, f, pre[b])
  BY <1>1, <1>2, <1>7, SettlesHere DEF i
<1>8. CASE ~w.fns[f].nullsub /\ via = None /\ to = None /\ TakesFirst(w, f, pre[b])
  <2> DEFINE y == pre[b]
  <2>1. Last(body).kind = "ret"
    BY <1>8 DEF TakesFirst
  <2>2. Leads(w, b) \subseteq E
    BY <2>1 DEF Onward
  <2>3. SettlesTo(w, D, b, y)
    <3>0. /\ b = Insn(b.kind, b.to, b.size) /\ b.size \in Nat
          /\ \/ b.kind = "near" /\ b.to \in Fns
             \/ b.kind = "mem" /\ b.to \in Ptrs
             \/ b.kind \in OtherKinds /\ b.to \in Fns \cup {None}
      BY <1>1, InsnIs
    <3>1. CASE b.kind = "near" /\ b.to \in Fns
      <4>1. b.to \in E
        BY <2>2, <3>1 DEF Leads
      <4>2. SettlesTo(w, D, Insn("near", b.to, b.size), pre[Insn("near", b.to, b.size)])
        BY <3>0, <4>1
      <4>3. b = Insn("near", b.to, b.size)
        BY <3>0, <3>1
      <4> HIDE DEF b, pre
      <4> QED
        BY <4>2, <4>3, Zenon
    <3>2. CASE b.kind = "mem" /\ b.to \in Ptrs
      <4>1. w.ptrs[b.to].const => w.ptrs[b.to].to \in E
        BY <2>2, <3>2 DEF Leads
      <4>2. b = Insn("mem", b.to, b.size)
        BY <3>0, <3>2
      <4> HIDE DEF b
      <4>3. SettlesTo(w, D, Insn("mem", b.to, b.size), pre[Insn("mem", b.to, b.size)])
        BY <3>0, <3>2, <4>1, MemSettles
      <4> HIDE DEF pre
      <4> QED
        BY <4>2, <4>3, Zenon
    <3>3. CASE b.kind \in OtherKinds
      BY <1>1, <3>3, OtherSettles
    <3> QED
      BY <3>0, <3>1, <3>2, <3>3
  <2>4. TakesFirst(w, f, y) /\ Rewritten(w, i, pre) = y
    BY <1>2, <1>8
  <2> HIDE DEF y
  <2>5. y \in Instructions /\ Rewritten(w, y, pre) = y /\ D[y] = D[b] /\ y.size > 0 /\ y.size \in Nat
    <3>1. y \in Instructions
      BY <2>3 DEF SettlesTo
    <3>2. y.size \in Nat
      BY <3>1, InsnIs
    <3> QED
      BY <1>1, <2>3, <3>2 DEF SettlesTo
  <2>6. y.kind \in OtherKinds \ {"cond", "past"} /\ y # Hang
    <3>1. Hang.size = 0
      BY MadeIs DEF Hang
    <3> QED
      BY <2>4, <2>5, <3>1, TakenIs
  <2>7. y.size + Last(body).size = SizeOf(body) /\ OkayToInline(y)
    BY <2>4, <2>6 DEF TakesFirst
  <2>8. D[b] = D[i]
    <3>1. ~(Len(body) > 2)
      BY <1>0, <2>7 DEF CoveredIn, y
    <3>2. Len(body) # 1
      <4>1. SUFFICES ASSUME Len(body) = 1 PROVE FALSE
        OBVIOUS
      <4>2. b.kind = "ret"
        BY <2>1, <4>1 DEF Last
      <4>3. b.kind \in OtherKinds \ {"cond", "past"}
        BY <4>2 DEF OtherKinds
      <4>4. Rewritten(w, b, pre) = b
        <5>1. Rewritten(w, b, pre) = IF b.kind = "cond" THEN Insn("nop", b.to, b.size)
                                     ELSE IF b.kind = "past" THEN Insn("jmp", b.to, b.size)
                                     ELSE b
          BY <1>1, <4>3, OtherRewritten
        <5> QED
          BY <4>3, <5>1
      <4>5. y = b
        BY <1>1, <4>4, SettlesHere DEF y
      <4> QED
        BY <2>7, <4>2, <4>5 DEF OkayToInline
    <3>3. Len(body) = 2
      <4>1. \A n \in Nat \ {0} : ~(n > 2) /\ n # 1 => n = 2
        BY SMTT(30)
      <4> QED
        BY <1>1, <3>1, <3>2, <4>1, Zenon
    <3>4. InTurn(D, SubSeq(body, 1, 1)) = InTurn(D, SubSeq(body, 1, 0)) \o D[body[1]]
          /\ InTurn(D, SubSeq(body, 1, 0)) = <<>>
      <4>1. 1 \in 1..Len(body) /\ 1 - 1 = 0
        BY <3>3
      <4>2. InTurn(D, SubSeq(body, 1, 1)) = InTurn(D, SubSeq(body, 1, 1 - 1)) \o D[body[1]]
        BY <1>0, <1>1, <4>1, InTurnOn
      <4> QED
        BY <1>0, <1>1, <4>1, <4>2, InTurnOn
    <3>5. D[b] \in Seq(Instructions)
      BY <1>0, <1>1 DEF Deeds
    <3>6. Len(body) - 1 = 1
      BY <3>3
    <3>7. D[i] = InTurn(D, SubSeq(body, 1, 1))
      BY <1>3, <1>8, <3>6
    <3>8. \A t \in Seq(Instructions) : <<>> \o t = t
      OBVIOUS
    <3> QED
      BY <3>4, <3>5, <3>7, <3>8, Zenon
  <2>9. PreprocessedIn(w)[y] = y /\ SettlesTo(w, D, y, PreprocessedIn(w)[y])
    BY <2>5, SettlesHere
  <2>10. y.kind # "ret" /\ y.kind # "near"
    BY <2>6, <2>7 DEF OkayToInline
  <2>11. y # i
    BY <1>1, <2>10
  <2> QED
    BY <1>1, <2>4, <2>5, <2>8, <2>9, <2>10, <2>11, SettlesOn DEF i
<1> QED
  BY <1>4, <1>5, <1>6, <1>7, <1>8

\* What every instruction comes to does what the instruction does.
LEMMA SettledDoes ==
  ASSUME NEW w, NEW D, Telling(w, D), NEW i \in Instructions
  PROVE  /\ SettlesTo(w, D, i, PreprocessedIn(w)[i])
         /\ \A f \in Fns : w.fns[f].thunk # f
<1> DEFINE pre == PreprocessedIn(w)
           l == Cardinality(Fns)
           Calls(f) == \A s \in Nat : SettlesTo(w, D, Insn("near", f, s), pre[Insn("near", f, s)])
<1>0. IsWorld(w) /\ NoCircle(w)
  BY DEF Telling
<1>1. PICK e : Endings(w, e)
  BY <1>0, EndingsAre
<1>2. l \in Nat
  BY <1>0, EndingsAre
<1>3. /\ \A n \in 0..l : e[n] \in SUBSET Fns
      /\ e[0] = {} /\ e[l] = Fns
      /\ \A n \in 0..(l - 1) : e[n + 1] = {f \in Fns : Onward(w, f) \subseteq e[n]}
  BY <1>1 DEF Endings
<1> HIDE DEF Calls, l
<1> DEFINE S == {n \in 0..l : \A f \in e[n] : Calls(f) /\ w.fns[f].thunk # f}
<1>4. 0 \in S
  BY <1>2, <1>3
<1>5. ASSUME NEW n \in 0..(l - 1), n \in S PROVE n + 1 \in S
  <2>1. n \in 0..l /\ n + 1 \in 0..l
    BY <1>2
  <2>2. ASSUME NEW f \in e[n + 1] PROVE Calls(f) /\ w.fns[f].thunk # f
    <3>1. f \in Fns /\ Onward(w, f) \subseteq e[n] /\ e[n] \in SUBSET Fns
      BY <1>3, <2>1
    <3>2. w.fns[f].thunk # f
      <4>1. SUFFICES ASSUME w.fns[f].thunk = f PROVE FALSE
        OBVIOUS
      <4>2. f \in Onward(w, f)
        BY <3>1, <4>1, FnsAssumption DEF Onward
      <4> QED
        BY <1>5, <3>1, <4>1, <4>2
    <3>3. \A d \in e[n] : \A s \in Nat : SettlesTo(w, D, Insn("near", d, s), pre[Insn("near", d, s)])
      BY <1>5 DEF Calls
    <3>4. \A s \in Nat : SettlesTo(w, D, Insn("near", f, s), pre[Insn("near", f, s)])
      BY <3>1, <3>2, <3>3, NearSettles
    <3> QED
      BY <3>2, <3>4 DEF Calls
  <2> QED
    BY <2>1, <2>2
<1> HIDE DEF S
<1>6. 0..l \subseteq S
  BY <1>2, <1>4, <1>5, IntervalInduction
<1>7. \A f \in Fns : Calls(f) /\ w.fns[f].thunk # f
  <2>1. l \in S
    BY <1>2, <1>6
  <2> QED
    BY <1>3, <2>1 DEF S
<1>8. /\ i = Insn(i.kind, i.to, i.size) /\ i.size \in Nat
      /\ \/ i.kind = "near" /\ i.to \in Fns
         \/ i.kind = "mem" /\ i.to \in Ptrs
         \/ i.kind \in OtherKinds /\ i.to \in Fns \cup {None}
  BY InsnIs
<1>9. CASE i.kind = "near" /\ i.to \in Fns
  <2>1. SettlesTo(w, D, Insn("near", i.to, i.size), pre[Insn("near", i.to, i.size)])
    BY <1>7, <1>8, <1>9 DEF Calls
  <2>2. i = Insn("near", i.to, i.size)
    BY <1>8, <1>9
  <2> HIDE DEF pre
  <2>3. SettlesTo(w, D, i, pre[i])
    BY <2>1, <2>2, Zenon
  <2> QED
    BY <1>7, <2>3 DEF pre
<1>10. CASE i.kind = "mem" /\ i.to \in Ptrs
  <2>1. w.ptrs[i.to].to \in Fns
    BY <1>0, <1>10, PtrIs
  <2>2. SettlesTo(w, D, Insn("near", w.ptrs[i.to].to, i.size), pre[Insn("near", w.ptrs[i.to].to, i.size)])
    BY <1>7, <1>8, <2>1 DEF Calls
  <2>3. SettlesTo(w, D, Insn("mem", i.to, i.size), pre[Insn("mem", i.to, i.size)])
    BY <1>8, <1>10, <2>2, MemSettles
  <2>4. i = Insn("mem", i.to, i.size)
    BY <1>8, <1>10
  <2> HIDE DEF pre
  <2>5. SettlesTo(w, D, i, pre[i])
    BY <2>3, <2>4, Zenon
  <2> QED
    BY <1>7, <2>5 DEF pre
<1>11. CASE i.kind \in OtherKinds
  BY <1>7, <1>11, OtherSettles
<1> QED
  BY <1>8, <1>9, <1>10, <1>11

-----------------------------------------------------------------------------
(* What the inliner goes through, of a callee that keeps its sizes.          *)

\* Each instruction starts after those before it.
LEMMA OffsetsGrow ==
  ASSUME NEW b, Len(b) \in Nat, \A n \in 1..Len(b) : b[n].size \in Nat \ {0}
  PROVE  \A n \in 0..Len(b) : /\ Offsets(b)[n] \in Nat /\ n <= Offsets(b)[n]
                              /\ \A m \in 0..(n - 1) : Offsets(b)[m] < Offsets(b)[n]
<1> DEFINE l == Len(b)
           o == Offsets(b)
           S == {n \in 0..l : n <= o[n] /\ \A m \in 0..(n - 1) : o[m] < o[n]}
<1>1. /\ o[0] = 0 /\ \A n \in 0..l : o[n] \in Nat
      /\ \A n \in 0..(l - 1) : o[n + 1] = o[n] + b[n + 1].size
  BY OffsetsAre
<1>2. l \in Nat
  OBVIOUS
<1> HIDE DEF o, l
<1>3. 0 \in S
  BY <1>1, <1>2
<1>4. ASSUME NEW n \in 0..(l - 1), n \in S PROVE n + 1 \in S
  <2>1. n \in 0..l /\ n + 1 \in 0..l /\ n + 1 \in 1..l
    BY <1>2
  <2>2. b[n + 1].size \in Nat \ {0}
    BY <2>1 DEF l
  <2>3. o[n] \in Nat /\ o[n + 1] = o[n] + b[n + 1].size /\ o[n + 1] \in Nat
    BY <1>1, <2>1
  <2>4. o[n] < o[n + 1] /\ n + 1 <= o[n + 1]
    <3>1. n <= o[n]
      BY <1>4
    <3> QED
      BY <2>2, <2>3, <3>1
  <2>5. ASSUME NEW m \in 0..((n + 1) - 1) PROVE o[m] < o[n + 1]
    <3>1. m \in 0..l /\ (m = n \/ m \in 0..(n - 1))
      BY <1>2
    <3>2. o[m] \in Nat
      BY <1>1, <3>1
    <3>3. m \in 0..(n - 1) => o[m] < o[n]
      BY <1>4
    <3> QED
      BY <2>3, <2>4, <3>1, <3>2, <3>3
  <2> QED
    BY <2>1, <2>4, <2>5
<1> HIDE DEF S
<1>5. 0..l \subseteq S
  BY <1>2, <1>3, <1>4, IntervalInduction
<1>6. \A n \in 0..l : /\ o[n] \in Nat /\ n <= o[n]
                      /\ \A m \in 0..(n - 1) : o[m] < o[n]
  BY <1>1, <1>5 DEF S
<1> QED
  BY <1>6 DEF o, l

\* Where an instruction starts, it is decoded.
LEMMA DecodedIs ==
  ASSUME NEW b, Len(b) \in Nat, \A n \in 1..Len(b) : b[n].size \in Nat \ {0}, NEW n \in 1..Len(b)
  PROVE  /\ Decoded(b, Offset(b, n)) = b[n] /\ Offset(b, n) < SizeOf(b)
         /\ Offset(b, n) = Offsets(b)[n - 1] /\ Offset(b, n + 1) = Offset(b, n) + b[n].size
<1> DEFINE l == Len(b)
           o == Offsets(b)
           off == Offset(b, n)
<1>1. \A k \in 0..l : o[k] \in Nat /\ \A m \in 0..(k - 1) : o[m] < o[k]
  BY OffsetsGrow
<1>2. n - 1 \in 0..l /\ l \in 0..l /\ n - 1 \in 0..(l - 1) /\ (n + 1) - 1 = (n - 1) + 1 /\ (n - 1) + 1 = n
  OBVIOUS
<1>3. o[n] = o[n - 1] + b[n].size
  <2>1. \A k \in 1..Len(b) : b[k].size \in Nat
    OBVIOUS
  <2>2. \A k \in 0..(Len(b) - 1) : Offsets(b)[k + 1] = Offsets(b)[k] + b[k + 1].size
    BY <2>1, OffsetsAre
  <2> QED
    BY <1>2, <2>2
<1>4. off = o[n - 1] /\ Offset(b, n + 1) = o[n]
  BY <1>2 DEF Offset
<1>5. o[n - 1] < o[l]
  BY <1>1, <1>2
<1>6. ASSUME NEW k \in 1..l, Offset(b, k) = off PROVE k = n
  <2> DEFINE p == k - 1
             q == n - 1
  <2>1. p \in 0..l /\ q \in 0..l /\ k = p + 1 /\ n = q + 1
    OBVIOUS
  <2>2. o[p] = o[q]
    BY <1>4, <1>6 DEF Offset
  <2> HIDE DEF p, q, o
  <2>3. p \in 0..(q - 1) => o[p] < o[q]
    BY <1>1, <2>1
  <2>4. q \in 0..(p - 1) => o[q] < o[p]
    BY <1>1, <2>1
  <2>5. o[p] \in Nat /\ o[q] \in Nat
    BY <1>1, <2>1
  <2> QED
    BY <2>1, <2>2, <2>3, <2>4, <2>5
<1>7. n \in 1..l /\ off \in {Offset(b, m) : m \in 1..(l + 1)}
  <2>1. n \in 1..(l + 1)
    OBVIOUS
  <2> QED
    BY <2>1
<1> HIDE DEF off
<1>8. (CHOOSE m \in 1..l : Offset(b, m) = off) = n
  <2>1. Offset(b, n) = off
    BY DEF off
  <2> HIDE DEF l
  <2> QED
    BY <1>6, <1>7, <2>1
<1>9. Decoded(b, off) = b[n]
  BY <1>7, <1>8, Zenon DEF Decoded, l
<1> QED
  BY <1>3, <1>4, <1>5, <1>9 DEF off, SizeOf

\* What is found where an instruction of a callee starts, and at its end.
LEMMA ThereIs ==
  ASSUME NEW w, IsWorld(w), NEW f \in Fns
  PROVE  /\ \A n \in 1..Len(w.fns[f].body) :
              There(w, f, Offset(w.fns[f].body, n)) = PreprocessedIn(w)[w.fns[f].body[n]]
         /\ There(w, f, SizeOf(w.fns[f].body)) = Hang
<1> DEFINE b == w.fns[f].body
<1>1. Len(b) \in Nat /\ \A n \in 1..Len(b) : b[n].size \in Nat \ {0}
  BY FnIs
<1>2. SizeOf(b) \in Nat /\ \A n \in 1..Len(b) : Offset(b, n) \in Nat
  <2>1. \A k \in 0..Len(b) : Offsets(b)[k] \in Nat
    BY <1>1, OffsetsGrow
  <2>2. \A n \in 1..Len(b) : n - 1 \in 0..Len(b)
    BY <1>1
  <2>3. Len(b) \in 0..Len(b)
    BY <1>1
  <2> QED
    BY <2>1, <2>2, <2>3 DEF SizeOf, Offset
<1>3. ASSUME NEW n \in 1..Len(b) PROVE There(w, f, Offset(b, n)) = PreprocessedIn(w)[b[n]]
  <2>1. Decoded(b, Offset(b, n)) = b[n] /\ Offset(b, n) < SizeOf(b)
    BY <1>1, DecodedIs
  <2>2. ~(Offset(b, n) >= SizeOf(b))
    BY <1>2, <2>1
  <2> QED
    BY <2>1, <2>2, Zenon DEF There, Settled
<1>4. There(w, f, SizeOf(b)) = Hang
  <2>1. SizeOf(b) >= SizeOf(b)
    BY <1>2
  <2> QED
    BY <2>1, Zenon DEF There
<1> QED
  BY <1>3, <1>4

\* Where the inliner looks, if sizes are kept: where each instruction starts, and
\* then at the end.
LEMMA LooksAre ==
  ASSUME NEW w, NEW D, Telling(w, D), NEW f \in Fns, InStep(w, f)
  PROVE  /\ Len(w.fns[f].body) <= SizeOf(w.fns[f].body) /\ SizeOf(w.fns[f].body) \in Nat
         /\ \A n \in 0..SizeOf(w.fns[f].body) :
              Looks(w, f)[n] = IF n < Len(w.fns[f].body) THEN Offset(w.fns[f].body, n + 1)
                               ELSE SizeOf(w.fns[f].body)
<1> DEFINE b == w.fns[f].body
           l == Len(b)
           z == SizeOf(b)
           Size(off) == There(w, f, off).size
           g == [n \in 0..z |-> IF n < l THEN Offset(b, n + 1) ELSE z]
           Eq(h) == h = [n \in 0..z |-> IF n = 0 THEN 0 ELSE h[n - 1] + Size(h[n - 1])]
<1>0. IsWorld(w)
  BY DEF Telling
<1>1. l \in Nat \ {0} /\ \A n \in 1..l : b[n].size \in Nat \ {0}
  BY <1>0, FnIs
<1>2. /\ \A n \in 0..l : Offsets(b)[n] \in Nat
      /\ z = Offsets(b)[l] /\ z \in Nat /\ l <= z /\ Offsets(b)[0] = 0
  <2>1. l \in 0..l
    BY <1>1
  <2>2. Offsets(b)[0] = 0
    BY <1>1, OffsetsAre
  <2> QED
    BY <1>1, <2>1, <2>2, OffsetsGrow DEF SizeOf
<1>3. \A n \in 1..l : /\ Offset(b, n) = Offsets(b)[n - 1]
                      /\ Offset(b, n + 1) = Offset(b, n) + b[n].size
  BY <1>1, DecodedIs
<1>4. /\ \A n \in 1..l : Size(Offset(b, n)) = b[n].size
      /\ Size(z) = 0
  <2>1. Hang.size = 0
    BY MadeIs DEF Hang
  <2> QED
    BY <1>0, <2>1, ThereIs DEF InStep
<1>5. Offset(b, l + 1) = z
  <2>1. (l + 1) - 1 = l
    BY <1>1
  <2> QED
    BY <1>2, <2>1 DEF Offset
<1> HIDE DEF Size, z, l, b
<1>6. ASSUME NEW n \in 0..z PROVE g[n] = IF n = 0 THEN 0 ELSE g[n - 1] + Size(g[n - 1])
  <2>1. CASE n = 0
    <3>1. 1 \in 1..l /\ 1 - 1 = 0 /\ 0 < l /\ 0 + 1 = 1
      BY <1>1
    <3>2. Offset(b, 1) = 0
      BY <1>2, <1>3, <3>1
    <3> QED
      BY <2>1, <3>1, <3>2
  <2>2. CASE n # 0 /\ n <= l
    <3>1. n \in 1..l /\ n - 1 \in 0..z /\ n - 1 < l /\ (n - 1) + 1 = n
      BY <1>1, <1>2, <2>2
    <3>2. g[n - 1] = Offset(b, n)
      BY <3>1
    <3>3. Size(g[n - 1]) = b[n].size
      BY <1>4, <3>1, <3>2
    <3>4. g[n] = Offset(b, n + 1)
      BY <1>1, <1>5, <3>1
    <3>5. Offset(b, n + 1) = Offset(b, n) + b[n].size
      BY <1>3, <3>1
    <3> HIDE DEF g
    <3> QED
      BY <2>2, <3>2, <3>3, <3>4, <3>5
  <2>3. CASE n > l
    <3>1. n # 0 /\ n - 1 \in 0..z /\ ~(n - 1 < l) /\ ~(n < l)
      BY <1>1, <1>2, <2>3
    <3>2. g[n - 1] = z /\ g[n] = z
      BY <3>1
    <3> HIDE DEF g
    <3> QED
      BY <1>2, <1>4, <3>1, <3>2
  <2> QED
    BY <1>1, <1>2, <2>1, <2>2, <2>3
<1>7. Eq(g)
  <2>1. g = [n \in 0..z |-> g[n]]
    OBVIOUS
  <2> HIDE DEF g
  <2> QED
    BY <1>6, <2>1, Zenon
<1> HIDE DEF g
<1> DEFINE off == CHOOSE h : Eq(h)
<1>8. Looks(w, f) = off
  BY Zenon DEF Looks, Size, z, b
<1>9. Eq(off)
  <2> HIDE DEF Eq
  <2> QED
    BY <1>7, Zenon
<1> HIDE DEF off
<1>10. \A n \in 0..z : off[n] = IF n = 0 THEN 0 ELSE off[n - 1] + Size(off[n - 1])
  BY <1>9, Zenon
<1> HIDE DEF Eq
<1> DEFINE S == {n \in 0..z : off[n] = g[n]}
<1>11. 0 \in S
  <2>1. 0 \in 0..z
    BY <1>2
  <2> QED
    BY <1>6, <1>10, <2>1, Zenon
<1>12. ASSUME NEW n \in 0..(z - 1), n \in S PROVE n + 1 \in S
  <2>1. n + 1 \in 0..z /\ n + 1 # 0 /\ (n + 1) - 1 = n
    BY <1>2
  <2>2. off[n + 1] = off[n] + Size(off[n]) /\ g[n + 1] = g[n] + Size(g[n])
    BY <1>6, <1>10, <2>1
  <2> QED
    BY <1>12, <2>1, <2>2
<1> HIDE DEF S
<1>13. 0..z \subseteq S
  BY <1>2, <1>11, <1>12, IntervalInduction
<1>14. \A n \in 0..z : off[n] = IF n < l THEN Offset(b, n + 1) ELSE z
  BY <1>13 DEF S, g
<1> QED
  BY <1>2, <1>8, <1>14, Zenon DEF z, l, b

\* A callee that may be inlined and keeps its sizes is a list of instructions
\* that may be, and a return.
LEMMA InlinedWhole ==
  ASSUME NEW w, NEW D, Telling(w, D), NEW f \in Fns, Inlinable(w, f), InStep(w, f)
  PROVE  \A n \in 1..Len(w.fns[f].body) :
           LET i == PreprocessedIn(w)[w.fns[f].body[n]]
           IN IF n = Len(w.fns[f].body) THEN i.kind = "ret" ELSE OkayToInline(i) /\ i.kind # "ret"
<1> DEFINE b == w.fns[f].body
           l == Len(b)
           z == SizeOf(b)
           pre == PreprocessedIn(w)
           At(m) == There(w, f, Looks(w, f)[m])
<1>0. IsWorld(w) /\ l \in Nat \ {0} /\ \A n \in 1..l : b[n] \in Instructions
  BY FnIs DEF Telling
<1>1. z \in Nat /\ l <= z
  BY LooksAre
<1>2. pre[b[l]].kind = "ret"
  BY Zenon DEF Inlinable, Settled, Last
<1>3. PICK k \in 0..z : (\A m \in 0..(k - 1) : OkayToInline(At(m))) /\ At(k).kind = "ret"
  BY Zenon DEF Inlinable
<1>4. \A n \in 1..l : At(n - 1) = pre[b[n]]
  <2> TAKE n \in 1..l
  <2>1. n - 1 \in 0..z /\ n - 1 < l /\ (n - 1) + 1 = n
    BY <1>0, <1>1
  <2>2. Looks(w, f)[n - 1] = Offset(b, n)
    BY <2>1, LooksAre
  <2>3. There(w, f, Offset(b, n)) = pre[b[n]]
    BY <1>0, ThereIs
  <2> QED
    BY <2>2, <2>3, Zenon
<1>5. \A n \in 1..l : pre[b[n]].kind = "ret" => n = l
  <2> TAKE n \in 1..l
  <2>1. SettlesTo(w, D, b[n], pre[b[n]])
    BY <1>0, SettledDoes
  <2>2. b[n].kind = "ret" => n = l
    BY <1>0 DEF IsWorld
  <2> QED
    BY <2>1, <2>2 DEF SettlesTo
<1> HIDE DEF At, z, l, b, pre
<1>6. k >= l - 1
  <2>1. SUFFICES ASSUME k < l - 1 PROVE FALSE
    BY <1>0, <1>1
  <2>2. k + 1 \in 1..l /\ (k + 1) - 1 = k /\ k + 1 # l
    BY <1>0, <1>1, <2>1
  <2> QED
    BY <1>3, <1>4, <1>5, <2>2
<1>7. \A n \in 1..l : IF n = l THEN pre[b[n]].kind = "ret" ELSE OkayToInline(pre[b[n]]) /\ pre[b[n]].kind # "ret"
  <2> TAKE n \in 1..l
  <2>1. n # l => n - 1 \in 0..(k - 1)
    BY <1>0, <1>6
  <2> QED
    BY <1>2, <1>3, <1>4, <1>5, <2>1
<1> QED
  BY <1>7, Zenon DEF l, b, pre

-----------------------------------------------------------------------------
(* What has been generated does what the function does so far.               *)

\* Instruction g is being generated on top of r, and what was generated before
\* does t: it is being rewritten, has been given to a filter, or is generated
\* under the guard.
Working(w, D, r, t, g) ==
  /\ rc = "running" /\ insn \in Instructions /\ emitted \in Seq(Instructions)
  /\ PreprocessedIn(w)[insn] = PreprocessedIn(w)[g] /\ InTurn(D, emitted) = t
  /\ \/ calls = <<Gen>> \o r
     \/ /\ Rewritten(w, insn, PreprocessedIn(w)) = insn
        /\ \/ calls = <<App>> \o r /\ selected = MatchingOf(w, insn)
           \/ calls = <<Gen, Gua>> \o r /\ guard /\ MatchingOf(w, insn) = None

\* It has been generated, or that has failed.
Worked(w, D, r, t, g) ==
  /\ rc \in {"ok", "error"} /\ emitted \in Seq(Instructions)
  /\ calls = <<Gua>> \o r \/ calls = r
  /\ rc = "ok" => InTurn(D, emitted) = t \o D[g]

Generating(w, D, r, t, g) == Working(w, D, r, t, g) \/ Worked(w, D, r, t, g)

\* What g has come to does, after the others, what g does.
LEMMA Emits ==
  ASSUME NEW w, NEW D, Telling(w, D), NEW g \in Instructions
  PROVE  \A i \in Instructions, e \in Seq(Instructions) :
           Rewritten(w, i, PreprocessedIn(w)) = i /\ PreprocessedIn(w)[i] = PreprocessedIn(w)[g]
           => Append(e, i) \in Seq(Instructions) /\ InTurn(D, Append(e, i)) = InTurn(D, e) \o D[g]
<1> SUFFICES ASSUME NEW i \in Instructions, NEW e \in Seq(Instructions),
                    Rewritten(w, i, PreprocessedIn(w)) = i, PreprocessedIn(w)[i] = PreprocessedIn(w)[g]
             PROVE  Append(e, i) \in Seq(Instructions) /\ InTurn(D, Append(e, i)) = InTurn(D, e) \o D[g]
  BY Zenon
<1>1. PreprocessedIn(w)[i] = i
  BY SettlesHere
<1>2. SettlesTo(w, D, g, PreprocessedIn(w)[g])
  BY SettledDoes
<1>3. D[i] = D[g]
  BY <1>1, <1>2 DEF SettlesTo
<1>4. D \in Deeds
  BY DEF Telling
<1>5. InTurn(D, Append(e, i)) = InTurn(D, e) \o D[i]
  BY <1>4, InTurnMore
<1>6. Append(e, i) \in Seq(Instructions)
  <2> DEFINE X == Instructions
  <2>1. e \in Seq(X) /\ i \in X
    OBVIOUS
  <2> HIDE DEF X
  <2>2. Append(e, i) \in Seq(X)
    BY <2>1
  <2> QED
    BY <2>2 DEF X
<1> QED
  BY <1>3, <1>5, <1>6

\* The frames on top of r.
LEMMA Frames ==
  ASSUME NEW X, NEW r \in Seq(X), r = <<>> \/ Head(r).proc = "inline"
  PROVE  /\ <<Gen>> \o r # <<>> /\ Head(<<Gen>> \o r).proc = "gen_micro" /\ Tail(<<Gen>> \o r) = r
         /\ <<App>> \o r # <<>> /\ Head(<<App>> \o r).proc = "apply" /\ Tail(<<App>> \o r) = r
         /\ <<Gua>> \o r # <<>> /\ Head(<<Gua>> \o r).proc = "guarded" /\ Tail(<<Gua>> \o r) = r
         /\ <<Gen, Gua>> \o r # <<>> /\ Head(<<Gen, Gua>> \o r).proc = "gen_micro"
         /\ Tail(<<Gen, Gua>> \o r) = <<Gua>> \o r
         /\ r # <<>> => Head(r).proc = "inline"
<1>1. Gen.proc = "gen_micro" /\ App.proc = "apply" /\ Gua.proc = "guarded"
  BY Shapes
<1>2. \A x : <<x>> \o r # <<>> /\ Head(<<x>> \o r) = x /\ Tail(<<x>> \o r) = r
  BY PutOn
<1>3. <<Gen, Gua>> \o r # <<>> /\ Head(<<Gen, Gua>> \o r) = Gen /\ Tail(<<Gen, Gua>> \o r) = <<Gua>> \o r
  BY PutOn
<1> QED
  BY <1>1, <1>2, <1>3

\* A step of the call that generates g.
LEMMA GeneratesOn ==
  ASSUME NEW w, NEW D, Telling(w, D), w = world, NEW X, NEW r \in Seq(X),
         r = <<>> \/ Head(r).proc = "inline", NEW t \in Seq(Instructions), NEW g \in Instructions,
         Generating(w, D, r, t, g), calls # r, FilterNext, cur # None, cur' # None,
         ~ApplyInliner
  PROVE  /\ Generating(w, D, r, t, g)'
         /\ world' = world /\ cur' = cur /\ at' = at
<1> DEFINE pre == PreprocessedIn(w)
<1>0. /\ IsWorld(w) /\ NoCircle(w)
      /\ calls \in {<<Gen>> \o r, <<App>> \o r, <<Gua>> \o r, <<Gen, Gua>> \o r}
  BY Zenon DEF Telling, Generating, Working, Worked
<1> DEFINE h == Head(calls).proc
<1>1. /\ calls # <<>> /\ h \in {"gen_micro", "apply", "guarded"}
      /\ h = "gen_micro" => (calls = <<Gen>> \o r /\ Tail(calls) = r)
                            \/ (calls = <<Gen, Gua>> \o r /\ Tail(calls) = <<Gua>> \o r)
      /\ h = "apply" => calls = <<App>> \o r /\ Tail(calls) = r
      /\ h = "guarded" => calls = <<Gua>> \o r /\ Tail(calls) = r
  <2>1. /\ <<Gen>> \o r # <<>> /\ Head(<<Gen>> \o r).proc = "gen_micro" /\ Tail(<<Gen>> \o r) = r
        /\ <<App>> \o r # <<>> /\ Head(<<App>> \o r).proc = "apply" /\ Tail(<<App>> \o r) = r
        /\ <<Gua>> \o r # <<>> /\ Head(<<Gua>> \o r).proc = "guarded" /\ Tail(<<Gua>> \o r) = r
        /\ <<Gen, Gua>> \o r # <<>> /\ Head(<<Gen, Gua>> \o r).proc = "gen_micro"
        /\ Tail(<<Gen, Gua>> \o r) = <<Gua>> \o r
    BY Frames
  <2>2. /\ "gen_micro" # "apply" /\ "gen_micro" # "guarded" /\ "apply" # "guarded"
    OBVIOUS
  <2>3. \A k : k \in {"gen_micro", "apply", "guarded"} <=> k = "gen_micro" \/ k = "apply" \/ k = "guarded"
    OBVIOUS
  <2>4. CASE calls = <<Gen>> \o r
    BY <2>1, <2>2, <2>3, <2>4, Zenon
  <2>5. CASE calls = <<App>> \o r
    BY <2>1, <2>2, <2>3, <2>5, Zenon
  <2>6. CASE calls = <<Gua>> \o r
    BY <2>1, <2>2, <2>3, <2>6, Zenon
  <2>7. CASE calls = <<Gen, Gua>> \o r
    BY <2>1, <2>2, <2>3, <2>7, Zenon
  <2> QED
    BY <1>0, <2>4, <2>5, <2>6, <2>7, Zenon
<1> HIDE DEF h
<1>e. \A i \in Instructions, e \in Seq(Instructions) :
        Rewritten(w, i, pre) = i /\ pre[i] = pre[g]
        => Append(e, i) \in Seq(Instructions) /\ InTurn(D, Append(e, i)) = InTurn(D, e) \o D[g]
  BY Emits
<1>2. /\ <<Gen>> \o r # <<Gua>> \o r /\ <<App>> \o r # <<Gua>> \o r /\ <<Gen, Gua>> \o r # <<Gua>> \o r
      /\ <<Gen>> \o r # r /\ <<App>> \o r # r /\ <<Gen, Gua>> \o r # r
      /\ <<Gen>> \o r # <<App>> \o r /\ <<Gen, Gua>> \o r # <<App>> \o r
  BY Frames
<1>3. ASSUME h \in {"gen_micro", "apply"} PROVE Working(w, D, r, t, g)
  BY <1>1, <1>2, <1>3, Zenon DEF Generating, Worked
<1>4. CASE Rewrite
  <2> DEFINE j == Rewritten(w, insn, pre)
  <2>1. /\ h = "gen_micro" /\ j # insn /\ insn' = j /\ world' = world /\ cur' = cur /\ at' = at
        /\ calls' = calls /\ rc' = rc /\ emitted' = emitted
    BY <1>4, Zenon DEF Rewrite, InMatch, Preprocessed, kernel, h
  <2>2. Working(w, D, r, t, g)
    BY <1>3, <2>1
  <2>3. /\ rc = "running" /\ insn \in Instructions /\ emitted \in Seq(Instructions)
        /\ pre[insn] = pre[g] /\ InTurn(D, emitted) = t /\ calls = <<Gen>> \o r
    BY <2>1, <2>2, Zenon DEF Working
  <2> HIDE DEF j
  <2>4. j \in Instructions /\ pre[insn] = IF j = insn THEN insn ELSE pre[j]
    BY <1>0, <2>3, Preprocesses DEF j
  <2>5. insn' \in Instructions /\ pre[insn'] = pre[g]
    BY <2>1, <2>3, <2>4
  <2>6. Working(w, D, r, t, g)'
    BY <2>1, <2>3, <2>5, Zenon DEF Working
  <2> QED
    BY <2>1, <2>6, Zenon DEF Generating
<1>5. CASE Match
  <2>1. /\ h = "gen_micro" /\ Rewritten(w, insn, pre) = insn
        /\ world' = world /\ cur' = cur /\ at' = at /\ insn' = insn /\ guard' = guard
        /\ selected' = MatchingOf(w, insn)
    BY <1>5, Zenon DEF Match, InMatch, Preprocessed, kernel, cdg, UpdateFromCodegen, Matching, MatchingOf, h
  <2>2. IF MatchingOf(w, insn) = None /\ guard
        THEN /\ calls' = Tail(calls)
             /\ \/ rc' = "ok" /\ emitted' = Append(emitted, insn')
                \/ rc' = "error" /\ emitted' = emitted
        ELSE calls' = <<App>> \o Tail(calls) /\ rc' = rc /\ emitted' = emitted
    <3>1. IF Matching = None /\ guard
          THEN /\ calls' = Tail(calls)
               /\ \/ rc' = "ok" /\ emitted' = Append(emitted, insn')
                  \/ rc' = "error" /\ emitted' = emitted
          ELSE calls' = <<App>> \o Tail(calls) /\ rc' = rc /\ emitted' = emitted
      BY <1>5, Zenon DEF Match, Standard, App
    <3>2. Matching = MatchingOf(w, insn)
      BY Zenon DEF Matching, MatchingOf
    <3> QED
      BY <3>1, <3>2
  <2>3. Working(w, D, r, t, g)
    BY <1>3, <2>1
  <2>4. /\ rc = "running" /\ insn \in Instructions /\ emitted \in Seq(Instructions)
        /\ pre[insn] = pre[g] /\ InTurn(D, emitted) = t
    BY <2>3, Zenon DEF Working
  <2>5. CASE MatchingOf(w, insn) = None /\ guard
    <3>1. calls' = Tail(calls) /\ (Tail(calls) = r \/ Tail(calls) = <<Gua>> \o r)
      BY <1>1, <2>1, <2>2, <2>5
    <3>2. /\ Append(emitted, insn) \in Seq(Instructions)
          /\ InTurn(D, Append(emitted, insn)) = InTurn(D, emitted) \o D[g]
      BY <1>e, <2>1, <2>4, Zenon
    <3>3. /\ rc' \in {"ok", "error"} /\ emitted' \in Seq(Instructions)
          /\ rc' = "ok" => InTurn(D, emitted') = t \o D[g]
      BY <2>1, <2>2, <2>4, <2>5, <3>2
    <3>4. Worked(w, D, r, t, g)'
      BY <3>1, <3>3, Zenon DEF Worked
    <3> QED
      BY <2>1, <3>4, Zenon DEF Generating
  <2>6. CASE ~(MatchingOf(w, insn) = None /\ guard)
    <3>1. calls = <<Gen>> \o r
      BY <1>1, <1>2, <2>1, <2>3, <2>6, Zenon DEF Working
    <3>2. calls' = <<App>> \o r /\ rc' = rc /\ emitted' = emitted
      <4>1. Tail(calls) = r
        BY <3>1, Frames
      <4> QED
        BY <2>2, <2>6, <4>1
    <3>3. Working(w, D, r, t, g)'
      BY <2>1, <2>4, <3>2, Zenon DEF Working
    <3> QED
      BY <2>1, <3>3, Zenon DEF Generating
  <2> QED
    BY <2>5, <2>6
<1>6. ASSUME h = "apply" PROVE /\ Working(w, D, r, t, g) /\ Rewritten(w, insn, pre) = insn
                               /\ selected = MatchingOf(w, insn) /\ calls = <<App>> \o r /\ Tail(calls) = r
  <2>1. Working(w, D, r, t, g) /\ calls = <<App>> \o r /\ Tail(calls) = r
    BY <1>1, <1>3, <1>6
  <2> QED
    BY <1>2, <2>1, Zenon DEF Working
<1>7. CASE ApplyBmi1
  <2>1. /\ h = "apply" /\ emitted' = Append(emitted, insn) /\ rc' = "ok" /\ calls' = Tail(calls)
        /\ world' = world /\ cur' = cur /\ at' = at
    BY <1>7, Zenon DEF ApplyBmi1, Top, ApplyReturn, kernel, h
  <2>2. /\ insn \in Instructions /\ emitted \in Seq(Instructions) /\ pre[insn] = pre[g]
        /\ InTurn(D, emitted) = t /\ Rewritten(w, insn, pre) = insn /\ Tail(calls) = r
    BY <1>6, <2>1, Zenon DEF Working
  <2>3. /\ Append(emitted, insn) \in Seq(Instructions)
        /\ InTurn(D, Append(emitted, insn)) = InTurn(D, emitted) \o D[g]
    BY <1>e, <2>2, Zenon
  <2>4. rc' \in {"ok", "error"}
    BY <2>1
  <2>5. Worked(w, D, r, t, g)'
    BY <2>1, <2>2, <2>3, <2>4, Zenon DEF Worked
  <2> QED
    BY <2>1, <2>5, Zenon DEF Generating
<1>8. CASE ApplyNone
  <2>1. /\ h = "apply" /\ selected = None /\ emitted' = emitted /\ rc' = rc /\ insn' = insn /\ guard'
        /\ calls' = <<Gen, Gua>> \o Tail(calls) /\ world' = world /\ cur' = cur /\ at' = at
    BY <1>8, Zenon DEF ApplyNone, Top, kernel, cdg, Guarded, Gen, Gua, h
  <2>2. Working(w, D, r, t, g)'
    BY <1>6, <2>1, Zenon DEF Working
  <2> QED
    BY <2>1, <2>2, Zenon DEF Generating
<1>9. CASE ReturnGuarded
  <2>1. /\ h = "guarded" /\ rc' = rc /\ emitted' = emitted /\ calls' = Tail(calls)
        /\ world' = world /\ cur' = cur /\ at' = at
    BY <1>9, Zenon DEF ReturnGuarded, Top, ApplyReturn, kernel, h
  <2>2. rc # "running"
    BY <1>9, Zenon DEF ReturnGuarded
  <2>3. Worked(w, D, r, t, g) /\ Tail(calls) = r
    BY <1>1, <2>1, <2>2, Zenon DEF Generating, Working
  <2>4. Worked(w, D, r, t, g)'
    BY <2>1, <2>3, Zenon DEF Worked
  <2> QED
    BY <2>1, <2>4, Zenon DEF Generating
<1>10. ~NextInsn /\ ~Finish /\ ~InlineNext /\ ~Throw /\ ~\E f \in Mains, m \in Mbas : StartFunction(f, m)
  <2>1. ~NextInsn
    BY <1>1, Zenon DEF NextInsn
  <2>2. ~Finish /\ ~Throw
    BY Zenon DEF Finish, Throw, GiveUp
  <2>3. ~InlineNext
    BY <1>1 DEF InlineNext, Top, h
  <2>4. ~\E f \in Mains, m \in Mbas : StartFunction(f, m)
    BY Zenon DEF StartFunction
  <2> QED
    BY <2>1, <2>2, <2>3, <2>4
<1> QED
  BY <1>4, <1>5, <1>7, <1>8, <1>9, <1>10, Zenon DEF FilterNext, FilterWork

\* A call no rewriter changes does what the callee does before its return.
LEMMA SettledCall ==
  ASSUME NEW w, NEW D, Telling(w, D), NEW f \in Fns, NEW s \in Nat, NEW g \in Instructions,
         PreprocessedIn(w)[g] = Insn("near", f, s)
  PROVE  D[g] = InTurn(D, SubSeq(w.fns[f].body, 1, Len(w.fns[f].body) - 1))
<1> DEFINE i == Insn("near", f, s)
           pre == PreprocessedIn(w)
           via == w.fns[f].via
           to == w.fns[f].thunk
<1>0. IsWorld(w) /\ D \in Deeds /\ Deed(w, D) = D
  BY DEF Telling
<1>1. i.kind = "near" /\ i.to = f /\ via \in Ptrs \cup {None} /\ to \in Fns \cup {None}
  BY <1>0, MadeIs, FnIs
<1>2. Rewritten(w, i, pre) = i /\ D[i] = D[g] /\ to # f
  <2>1. SettlesTo(w, D, g, pre[g]) /\ to # f
    BY SettledDoes
  <2>2. pre[g] = i
    OBVIOUS
  <2> HIDE DEF i, pre
  <2> QED
    BY <2>1, <2>2 DEF SettlesTo, pre
<1>3. Rewritten(w, i, pre) =
        IF w.fns[f].nullsub THEN Insn("nop", None, s)
        ELSE IF via # None THEN Insn("mem", via, s)
        ELSE IF to # None /\ to # f THEN Insn("near", to, s)
        ELSE OperationThenRet(w, i, pre)
  BY <1>0, NearRewritten
<1>4. via = None /\ to = None
  <2>1. Insn("nop", None, s).kind = "nop" /\ Insn("mem", via, s).kind = "mem" /\ Insn("near", to, s).to = to
    BY MadeIs
  <2> HIDE DEF i, pre, via, to
  <2>2. ~w.fns[f].nullsub
    BY <1>1, <1>2, <1>3, <2>1
  <2>3. via = None
    BY <1>1, <1>2, <1>3, <2>1, <2>2
  <2>4. to = None
    BY <1>1, <1>2, <1>3, <2>1, <2>2, <2>3
  <2> QED
    BY <2>3, <2>4
<1>5. Deed(w, D)[Insn("near", f, s)] =
        IF w.fns[f].via # None THEN D[Insn("mem", w.fns[f].via, 0)]
        ELSE IF w.fns[f].thunk # None THEN D[Insn("near", w.fns[f].thunk, 0)]
        ELSE InTurn(D, SubSeq(w.fns[f].body, 1, Len(w.fns[f].body) - 1))
  BY <1>0, DeedIs
<1> QED
  BY <1>0, <1>2, <1>4, <1>5, Zenon

\* Instruction k of the callee of g is being generated in place of g.
Inside(w, D, t, g, f, s, start, k) ==
  /\ PreprocessedIn(w)[g] = Insn("near", f, s) /\ Inlinable(w, f)
  /\ k \in 1..(Len(w.fns[f].body) - 1)
  /\ Generating(w, D, <<Inlining(Insn("near", f, s), start, Offset(w.fns[f].body, k + 1))>>,
                t \o InTurn(D, SubSeq(w.fns[f].body, 1, k - 1)), w.fns[f].body[k])

\* g is being generated, or what it calls.
AtOne(w, D, t, g) ==
  \/ Generating(w, D, <<>>, t, g)
  \/ \E f \in Fns, s \in Nat : \E start, k : Inside(w, D, t, g, f, s, start, k)

\* Two frames are one on the other.
LEMMA OneOnOther ==
  ASSUME NEW x, NEW y
  PROVE  <<x, y>> \o <<>> = <<x>> \o <<y>>
<1> DEFINE X == {x, y}
<1>1. x \in X /\ y \in X
  OBVIOUS
<1> HIDE DEF X
<1>2. <<x, y>> \in Seq(X) /\ Len(<<x, y>>) = 2 /\ <<x, y>>[1] = x /\ <<x, y>>[2] = y
  BY <1>1
<1>3. /\ <<x>> \in Seq(X) /\ <<y>> \in Seq(X) /\ <<>> \in Seq(X) /\ Len(<<>>) = 0
      /\ Len(<<x>>) = 1 /\ Len(<<y>>) = 1 /\ <<x>>[1] = x /\ <<y>>[1] = y
  BY <1>1
<1> DEFINE a == <<x, y>>
           b == <<x>>
           c == <<y>>
<1>4. /\ a \in Seq(X) /\ Len(a) = 2 /\ a[1] = x /\ a[2] = y
      /\ b \in Seq(X) /\ Len(b) = 1 /\ b[1] = x /\ c \in Seq(X) /\ Len(c) = 1 /\ c[1] = y
  BY <1>2, <1>3
<1> HIDE DEF a, b, c
<1>5. a \o <<>> = a
  BY <1>4
<1>6. b \o c \in Seq(X) /\ Len(b \o c) = 2 /\ (b \o c)[1] = x /\ (b \o c)[2] = y
  <2>1. /\ b \o c \in Seq(X) /\ Len(b \o c) = 1 + 1
        /\ \A i \in 1..(1 + 1) : (b \o c)[i] = IF i <= 1 THEN b[i] ELSE c[i - 1]
    <3>1. b \in Seq(X) /\ c \in Seq(X)
      BY <1>4
    <3>2. /\ b \o c \in Seq(X) /\ Len(b \o c) = Len(b) + Len(c)
          /\ \A i \in 1..(Len(b) + Len(c)) :
               (b \o c)[i] = IF i <= Len(b) THEN b[i] ELSE c[i - Len(b)]
      BY <3>1, JoinedIs, Zenon
    <3>3. Len(b) = 1 /\ Len(c) = 1
      BY <1>4, Zenon
    <3> QED
      BY <3>2, <3>3, Zenon
  <2>2. 1 \in 1..(1 + 1) /\ 2 \in 1..(1 + 1) /\ 2 - 1 = 1 /\ ~(2 <= 1) /\ 1 + 1 = 2
    OBVIOUS
  <2> QED
    BY <1>4, <2>1, <2>2
<1>7. b \o c = a
  <2> DEFINE d == b \o c
  <2>1. d \in Seq(X) /\ Len(d) = 2 /\ d[1] = x /\ d[2] = y
    BY <1>6
  <2> HIDE DEF d
  <2>2. Len(d) = Len(a) /\ \A i \in 1..Len(a) : d[i] = a[i]
    BY <1>4, <2>1
  <2>3. d = a
    BY <1>4, <2>1, <2>2, SameSeq
  <2> QED
    BY <2>3 DEF d
<1> QED
  BY <1>5, <1>7, Zenon DEF a, b, c

\* Whom a call calls.
LEMMA CallTo ==
  ASSUME NEW f, NEW s
  PROVE  Insn("near", f, s).to = f
BY DEF Insn

\* The inliner goes on at instruction k, all before which has been generated.
LEMMA InlinesOn ==
  ASSUME NEW w, NEW D, Telling(w, D), w = world, NEW f \in Fns, NEW s \in Nat,
         NEW t \in Seq(Instructions), NEW g \in Instructions,
         PreprocessedIn(w)[g] = Insn("near", f, s), Inlinable(w, f), InStep(w, f),
         NEW k \in 1..Len(w.fns[f].body), NEW start, NEW off, off = Offset(w.fns[f].body, k),
         emitted \in Seq(Instructions), emitted' = emitted, Tail(calls) = <<>>,
         InTurn(D, emitted) = t \o InTurn(D, SubSeq(w.fns[f].body, 1, k - 1)),
         Inlined(Insn("near", f, s), start, off)
  PROVE  AtOne(w, D, t, g)'
<1> DEFINE b == w.fns[f].body
           l == Len(b)
           pre == PreprocessedIn(w)
           i == pre[b[k]]
           call == Insn("near", f, s)
           r == <<Inlining(call, start, off + i.size)>>
<1>0. /\ IsWorld(w) /\ D \in Deeds /\ l \in Nat \ {0} /\ b \in Seq(Instructions)
      /\ \A n \in 1..l : b[n] \in Instructions /\ b[n].size \in Nat \ {0}
  <2>1. IsWorld(w) /\ D \in Deeds
    BY Zenon DEF Telling
  <2>2. /\ w.fns[f].body \in Seq(Instructions) /\ Len(w.fns[f].body) \in Nat \ {0}
        /\ w.fns[f].via \in Ptrs \cup {None} /\ w.fns[f].thunk \in Fns \cup {None}
        /\ w.fns[f].nullsub \in BOOLEAN
        /\ w.fns[f].body[1] \in Instructions
        /\ \A n \in 1..Len(w.fns[f].body) : /\ w.fns[f].body[n] \in Instructions
                                           /\ w.fns[f].body[n].size \in Nat \ {0}
    BY <2>1, FnIs, Zenon
  <2> QED
    BY <2>1, <2>2, Zenon
<1>1. IF k = l THEN i.kind = "ret" ELSE OkayToInline(i) /\ i.kind # "ret"
  BY InlinedWhole, Zenon
<1>2. i \in Instructions /\ Rewritten(w, i, pre) = i /\ pre[i] = pre[b[k]] /\ i.size = b[k].size
  <2>1. SettlesTo(w, D, b[k], i)
    <3>1. b[k] \in Instructions
      BY <1>0, Zenon
    <3> QED
      BY <3>1, SettledDoes, Zenon
  <2>2. i \in Instructions /\ Rewritten(w, i, pre) = i
    BY <2>1 DEF SettlesTo
  <2>3. pre[i] = i
    BY <2>2, SettlesHere, Zenon
  <2> QED
    BY <2>2, <2>3, SMTT(30) DEF InStep
<1>3. /\ Settled(w, Decoded(b, off)) = i
      /\ Offset(b, k + 1) = off + i.size
  <2>1. Decoded(b, Offset(b, k)) = b[k] /\ Offset(b, k + 1) = Offset(b, k) + b[k].size
    BY <1>0, DecodedIs
  <2> QED
    BY <1>2, <2>1, Zenon DEF Settled
<1>4. call.to = f
  BY CallTo, Zenon
<1> HIDE DEF b, i, call
<1>5. IF i.kind = "ret" THEN calls' = Tail(calls) /\ rc' = "ok"
      ELSE /\ insn' = i /\ rc' = "running"
           /\ calls' = <<Gen, Inlining(call, start, off + i.size)>> \o Tail(calls)
  <2>1. Inlined(call, start, off)
    BY DEF call
  <2>2. Settled(world, Decoded(world.fns[call.to].body, off)) = i
    BY <1>3, <1>4, Zenon DEF b
  <2> QED
    BY <2>1, <2>2, Zenon DEF Inlined, ApplyReturn, Gen
<1>6. CASE k = l
  <2>1. calls' = <<>> /\ rc' = "ok"
    BY <1>1, <1>5, <1>6
  <2>2. D[g] = InTurn(D, SubSeq(b, 1, k - 1))
    BY <1>6, SettledCall DEF b
  <2>3. InTurn(D, emitted') = t \o D[g]
    BY <2>2, Zenon DEF b
  <2>4. rc' \in {"ok", "error"}
    BY <2>1
  <2>5. Worked(w, D, <<>>, t, g)'
    BY <2>1, <2>3, <2>4, Zenon DEF Worked
  <2> QED
    BY <2>5, Zenon DEF Generating, AtOne
<1>7. CASE k # l
  <2>1. i.kind # "ret"
    BY <1>1, <1>7
  <2>2. calls' = <<Gen>> \o r
    <3>1. calls' = <<Gen, Inlining(call, start, off + i.size)>> \o <<>>
      BY <1>5, <2>1, Zenon
    <3>2. \A x, y : <<x, y>> \o <<>> = <<x>> \o <<y>>
      BY OneOnOther
    <3> QED
      BY <3>1, <3>2, Zenon
  <2>3. Working(w, D, r, t \o InTurn(D, SubSeq(b, 1, k - 1)), b[k])'
    <3>1. InTurn(D, emitted') = t \o InTurn(D, SubSeq(b, 1, k - 1))
      BY DEF b
    <3> HIDE DEF r, pre
    <3> QED
      BY <1>2, <1>5, <2>1, <2>2, <3>1, Zenon DEF Working, pre
  <2>4. k \in 1..(l - 1)
    <3>1. l \in Nat \ {0} /\ k \in 1..l
      BY <1>0, Zenon DEF b
    <3> HIDE DEF l
    <3> QED
      BY <3>1, <1>7
  <2>5. Inside(w, D, t, g, f, s, start, k)'
    BY <1>3, <2>3, <2>4, Zenon DEF Inside, Generating, b, call
  <2>6. \E e, n : Inside(w, D, t, g, f, s, e, n)'
    BY <2>5, Zenon
  <2>7. \E h \in Fns, j \in Nat : \E e, n : Inside(w, D, t, g, h, j, e, n)'
    BY <2>6, Zenon
  <2> QED
    BY <2>7, Zenon DEF AtOne
<1> QED
  BY <1>6, <1>7

\* The instruction a filter is applied to is the one that was given to it.
LEMMA AppliedTo ==
  ASSUME NEW w, NEW D, NEW X, NEW r \in Seq(X), r = <<>> \/ Head(r).proc = "inline",
         NEW t, NEW g, Generating(w, D, r, t, g),
         calls # <<>>, Head(calls).proc = "apply", rc = "running"
  PROVE  /\ Tail(calls) = r /\ insn \in Instructions /\ emitted \in Seq(Instructions)
         /\ Rewritten(w, insn, PreprocessedIn(w)) = insn /\ selected = MatchingOf(w, insn)
         /\ PreprocessedIn(w)[insn] = PreprocessedIn(w)[g] /\ InTurn(D, emitted) = t
<1>1. Working(w, D, r, t, g)
  <2>1. rc \notin {"ok", "error"}
    OBVIOUS
  <2> QED
    BY <2>1, Zenon DEF Generating, Worked
<1>2. /\ Head(<<Gen>> \o r).proc = "gen_micro" /\ Head(<<Gen, Gua>> \o r).proc = "gen_micro"
      /\ Tail(<<App>> \o r) = r
  BY Frames
<1>3. calls # <<Gen>> \o r /\ calls # <<Gen, Gua>> \o r
  BY <1>2
<1> QED
  BY <1>1, <1>2, <1>3, Zenon DEF Working

\* What the inliner is given is a call of a function it may inline.
LEMMA InlinerGets ==
  ASSUME NEW w, NEW i \in Instructions, MatchingOf(w, i) = "inliner"
  PROVE  i.to \in Fns /\ i.size \in Nat /\ i = Insn("near", i.to, i.size) /\ Inlinable(w, i.to)
<1>1. i.kind = "near" /\ Inlinable(w, i.to)
  <2>1. None # "inliner" /\ "bmi1" # "inliner"
    BY FiltersAssumption DEF Filters
  <2> QED
    BY <2>1 DEF MatchingOf
<1>2. "near" \notin OtherKinds
  BY DEF OtherKinds
<1> QED
  BY <1>1, <1>2, InsnIs

\* A step while g or what it calls is being generated, the inliner apart.
LEMMA OneOn ==
  ASSUME NEW w, NEW D, Telling(w, D), w = world, NEW t \in Seq(Instructions), NEW g \in Instructions,
         \A f \in Fns, s \in Nat :
           PreprocessedIn(w)[g] = Insn("near", f, s) /\ Inlinable(w, f) => InStep(w, f),
         AtOne(w, D, t, g), calls # <<>>, FilterNext, cur # None, cur' # None
  PROVE  /\ AtOne(w, D, t, g)'
         /\ world' = world /\ cur' = cur /\ at' = at
<1> DEFINE pre == PreprocessedIn(w)
<1>0. IsWorld(w) /\ D \in Deeds /\ <<>> \in Seq({})
  BY DEF Telling
<1>1. CASE Generating(w, D, <<>>, t, g) /\ ~ApplyInliner
  <2>1. /\ Generating(w, D, <<>>, t, g)'
        /\ world' = world /\ cur' = cur /\ at' = at
    BY <1>0, <1>1, GeneratesOn
  <2> QED
    BY <2>1, Zenon DEF AtOne
<1>2. CASE Generating(w, D, <<>>, t, g) /\ ApplyInliner
  <2>1. /\ calls # <<>> /\ Head(calls).proc = "apply" /\ rc = "running" /\ selected = "inliner"
        /\ Inlined(insn, ea, 0) /\ emitted' = emitted
        /\ world' = world /\ cur' = cur /\ at' = at
    BY <1>2, Zenon DEF ApplyInliner, Top, kernel
  <2>2. /\ Tail(calls) = <<>> /\ insn \in Instructions /\ emitted \in Seq(Instructions)
        /\ Rewritten(w, insn, pre) = insn /\ selected = MatchingOf(w, insn)
        /\ pre[insn] = pre[g] /\ InTurn(D, emitted) = t
    BY <1>0, <1>2, <2>1, AppliedTo
  <2>3. pre[g] = insn
    <3>1. \A i \in Instructions : Rewritten(w, i, pre) = i => pre[i] = i
      BY SettlesHere
    <3> QED
      BY <2>2, <3>1, Zenon
  <2> DEFINE f == insn.to
             s == insn.size
  <2>4. f \in Fns /\ s \in Nat /\ insn = Insn("near", f, s) /\ Inlinable(w, f)
    BY <2>1, <2>2, InlinerGets
  <2>5. InStep(w, f)
    BY <2>3, <2>4, Zenon
  <2>6. /\ 1 \in 1..Len(w.fns[f].body) /\ 0 = Offset(w.fns[f].body, 1)
        /\ InTurn(D, SubSeq(w.fns[f].body, 1, 1 - 1)) = <<>>
    <3>1. w.fns[f].body \in Seq(Instructions) /\ Len(w.fns[f].body) \in Nat \ {0}
          /\ \A n \in 1..Len(w.fns[f].body) : w.fns[f].body[n].size \in Nat
      BY <1>0, <2>4, FnIs
    <3>2. 1 \in 1..Len(w.fns[f].body) /\ 1 - 1 = 0
      BY <3>1
    <3>3. Offsets(w.fns[f].body)[0] = 0
      BY <3>1, OffsetsAre
    <3>4. InTurn(D, SubSeq(w.fns[f].body, 1, 0)) = <<>>
      BY <1>0, <3>1, InTurnOn
    <3> QED
      BY <3>2, <3>3, <3>4 DEF Offset
  <2>7. InTurn(D, emitted) = t \o InTurn(D, SubSeq(w.fns[f].body, 1, 1 - 1))
    <3>1. t \o <<>> = t
      OBVIOUS
    <3> QED
      BY <2>2, <2>6, <3>1, Zenon
  <2>8. Inlined(Insn("near", f, s), ea, 0) /\ pre[g] = Insn("near", f, s)
    BY <2>1, <2>3, <2>4, Zenon
  <2> HIDE DEF f, s
  <2>9. AtOne(w, D, t, g)'
    BY <2>1, <2>2, <2>4, <2>5, <2>6, <2>7, <2>8, InlinesOn
  <2> QED
    BY <2>1, <2>9, Zenon
<1>3. ASSUME NEW f \in Fns, NEW s \in Nat, NEW start, NEW k, Inside(w, D, t, g, f, s, start, k)
      PROVE  /\ AtOne(w, D, t, g)'
             /\ world' = world /\ cur' = cur /\ at' = at
  <2> DEFINE b == w.fns[f].body
             call == Insn("near", f, s)
             next == Offset(b, k + 1)
             r == <<Inlining(call, start, next)>>
             u == t \o InTurn(D, SubSeq(b, 1, k - 1))
  <2>1. /\ pre[g] = call /\ Inlinable(w, f) /\ k \in 1..(Len(b) - 1)
        /\ Generating(w, D, r, u, b[k])
    BY <1>3, Zenon DEF Inside
  <2>2. InStep(w, f)
    BY <2>1, Zenon
  <2>3. /\ b \in Seq(Instructions) /\ Len(b) \in Nat \ {0} /\ b[k] \in Instructions
        /\ k \in 1..Len(b) /\ k + 1 \in 1..Len(b) /\ (k + 1) - 1 = k /\ k # Len(b) /\ k - 1 \in 0..Len(b)
    <3>1. b \in Seq(Instructions) /\ Len(b) \in Nat \ {0} /\ \A n \in 1..Len(b) : b[n] \in Instructions
      <4>1. /\ w.fns[f].body \in Seq(Instructions) /\ Len(w.fns[f].body) \in Nat \ {0}
            /\ w.fns[f].via \in Ptrs \cup {None} /\ w.fns[f].thunk \in Fns \cup {None}
            /\ w.fns[f].nullsub \in BOOLEAN
            /\ w.fns[f].body[1] \in Instructions
            /\ \A n \in 1..Len(w.fns[f].body) : /\ w.fns[f].body[n] \in Instructions
                                               /\ w.fns[f].body[n].size \in Nat \ {0}
        BY <1>0, FnIs, Zenon
      <4> QED
        BY <4>1, Zenon
    <3> QED
      BY <2>1, <3>1, SMTT(30)
  <2>4. InTurn(D, SubSeq(b, 1, k - 1)) \in Seq(Instructions)
        /\ InTurn(D, SubSeq(b, 1, k)) = InTurn(D, SubSeq(b, 1, k - 1)) \o D[b[k]]
    BY <1>0, <2>3, InTurnOn
  <2>5. u \in Seq(Instructions) /\ D[b[k]] \in Seq(Instructions)
        /\ u \o D[b[k]] = t \o InTurn(D, SubSeq(b, 1, k))
    <3> DEFINE Y == Instructions
               v == InTurn(D, SubSeq(b, 1, k - 1))
               x == D[b[k]]
    <3>1. D[b[k]] \in Seq(Instructions)
      BY <1>0, <2>3, SMTT(30) DEF Deeds
    <3>2. t \in Seq(Y) /\ v \in Seq(Y) /\ x \in Seq(Y) /\ InTurn(D, SubSeq(b, 1, k)) = v \o x
      BY <2>4, <3>1
    <3> HIDE DEF Y, v, x
    <3>3. t \o v \in Seq(Y) /\ (t \o v) \o x = t \o (v \o x)
      BY <3>2, JoinedTwice
    <3> QED
      BY <3>1, <3>2, <3>3, Zenon DEF v, x, Y
  <2>6. /\ r \in Seq({Inlining(call, start, next)}) /\ r # <<>> /\ Head(r).proc = "inline" /\ Tail(r) = <<>>
        /\ Head(r).call = call /\ Head(r).ea = start /\ Head(r).next = next
    <3>1. Inlining(call, start, next).proc = "inline" /\ Inlining(call, start, next).call = call
          /\ Inlining(call, start, next).ea = start /\ Inlining(call, start, next).next = next
      BY DEF Inlining
    <3> DEFINE x == Inlining(call, start, next)
    <3> HIDE DEF x, call, next
    <3>2. <<x>> \in Seq({x}) /\ <<x>> # <<>> /\ Head(<<x>>) = x /\ Tail(<<x>>) = <<>>
      OBVIOUS
    <3> QED
      BY <3>1, <3>2, Zenon DEF x
  <2> DEFINE X == {Inlining(call, start, next)}
  <2>a. r \in Seq(X)
    BY <2>6
  <2> HIDE DEF b, call, next, r, u, X
  <2>7. CASE calls # r
    <3>1. ~ApplyInliner
      <4>1. SUFFICES ASSUME ApplyInliner PROVE FALSE
        OBVIOUS
      <4>2. /\ calls # <<>> /\ Head(calls).proc = "apply" /\ rc = "running" /\ selected = "inliner"
        BY <4>1, Zenon DEF ApplyInliner, Top
      <4>3. /\ insn \in Instructions /\ Rewritten(w, insn, pre) = insn /\ selected = MatchingOf(w, insn)
            /\ pre[insn] = pre[b[k]]
        <5>1. Generating(w, D, r, u, b[k]) /\ (r = <<>> \/ Head(r).proc = "inline")
          BY <2>1, <2>6, Zenon
        <5>2. /\ Tail(calls) = r /\ insn \in Instructions /\ emitted \in Seq(Instructions)
              /\ Rewritten(w, insn, PreprocessedIn(w)) = insn /\ selected = MatchingOf(w, insn)
              /\ PreprocessedIn(w)[insn] = PreprocessedIn(w)[b[k]] /\ InTurn(D, emitted) = u
          BY <2>a, <4>2, <5>1, AppliedTo, Zenon
        <5> QED
          BY <5>2, Zenon
      <4>4. pre[b[k]] = insn
        <5>1. \A i \in Instructions : Rewritten(w, i, pre) = i => pre[i] = i
          BY SettlesHere
        <5> QED
          BY <4>3, <5>1, Zenon
      <4>5. OkayToInline(insn)
        <5>1. \A n \in 1..Len(b) : IF n = Len(b) THEN pre[b[n]].kind = "ret"
                                   ELSE OkayToInline(pre[b[n]]) /\ pre[b[n]].kind # "ret"
          BY <2>1, <2>2, InlinedWhole, Zenon DEF b
        <5> QED
          BY <2>3, <4>4, <5>1, Zenon
      <4>6. insn = Insn("near", insn.to, insn.size)
        BY <4>2, <4>3, InlinerGets
      <4>7. insn.kind = "near"
        <5>1. Insn("near", insn.to, insn.size).kind = "near"
          BY DEF Insn
        <5> QED
          BY <4>6, <5>1, Zenon
      <4> QED
        BY <4>5, <4>7 DEF OkayToInline
    <3>2. /\ Generating(w, D, r, u, b[k])'
          /\ world' = world /\ cur' = cur /\ at' = at
      BY <2>1, <2>3, <2>5, <2>6, <2>7, <2>a, <3>1, GeneratesOn
    <3>3. Inside(w, D, t, g, f, s, start, k)'
      BY <2>1, <3>2, Zenon DEF Inside, b, call, next, r, u
    <3> QED
      BY <3>2, <3>3, Zenon DEF AtOne
  <2>8. CASE calls = r
    <3>1. /\ rc \in {"ok", "error"} /\ emitted \in Seq(Instructions)
          /\ rc = "ok" => InTurn(D, emitted) = u \o D[b[k]]
      <4>1. calls # <<Gen>> \o r /\ calls # <<App>> \o r /\ calls # <<Gen, Gua>> \o r
        <5>1. /\ Head(<<Gen>> \o r).proc = "gen_micro" /\ Head(<<App>> \o r).proc = "apply"
              /\ Head(<<Gen, Gua>> \o r).proc = "gen_micro"
          BY <2>6, <2>a, Frames
        <5> QED
          BY <2>6, <2>8, <5>1
      <4> QED
        BY <2>1, <4>1, Zenon DEF Generating, Working, Worked
    <3>2. InlineNext
      <4>1. Head(calls).proc = "inline" /\ calls # <<>>
        BY <2>6, <2>8
      <4>2. ~NextInsn /\ ~Finish /\ ~Throw /\ ~\E p \in Mains, m \in Mbas : StartFunction(p, m)
        BY <4>1, Zenon DEF NextInsn, Finish, Throw, GiveUp, StartFunction
      <4>3. ~Rewrite /\ ~Match
        BY <4>1 DEF Rewrite, Match, InMatch
      <4>4. ~ApplyBmi1 /\ ~ApplyNone /\ ~ReturnGuarded /\ ~ApplyInliner
        BY <4>1 DEF ApplyBmi1, ApplyNone, ReturnGuarded, ApplyInliner, Top
      <4> QED
        BY <4>2, <4>3, <4>4, Zenon DEF FilterNext, FilterWork
    <3>3. /\ emitted' = emitted /\ world' = world /\ cur' = cur /\ at' = at
          /\ IF rc = "error" THEN rc' = rc /\ calls' = Tail(calls)
             ELSE Inlined(call, start, next)
      <4>1. /\ emitted' = emitted /\ world' = world /\ cur' = cur /\ at' = at
            /\ IF rc = "error" THEN rc' = rc /\ calls' = Tail(calls)
               ELSE Inlined(Head(calls).call, Head(calls).ea, Head(calls).next)
        BY <3>2, Zenon DEF InlineNext, ApplyReturn, kernel
      <4>2. Head(calls).call = call /\ Head(calls).ea = start /\ Head(calls).next = next
        BY <2>6, <2>8
      <4> QED
        BY <4>1, <4>2, Zenon
    <3>4. Tail(calls) = <<>>
      BY <2>6, <2>8
    <3>5. CASE rc = "error"
      <4>1. rc' = "error" /\ rc' \in {"ok", "error"} /\ rc' # "ok" /\ calls' = <<>> /\ emitted' \in Seq(Instructions)
        BY <3>1, <3>3, <3>4, <3>5
      <4>2. Worked(w, D, <<>>, t, g)'
        BY <4>1, Zenon DEF Worked
      <4> QED
        BY <3>3, <4>2, Zenon DEF Generating, AtOne
    <3>6. CASE rc = "ok"
      <4>1. Inlined(call, start, next)
        BY <3>3, <3>6
      <4>2. InTurn(D, emitted) = t \o InTurn(D, SubSeq(b, 1, (k + 1) - 1))
        BY <2>3, <2>5, <3>1, <3>6, Zenon
      <4> DEFINE n == k + 1
      <4>3. n \in 1..Len(w.fns[f].body) /\ next = Offset(w.fns[f].body, n)
        BY <2>3 DEF next, b
      <4>4. InTurn(D, emitted) = t \o InTurn(D, SubSeq(w.fns[f].body, 1, n - 1))
        BY <4>2 DEF b
      <4> HIDE DEF n
      <4>5. AtOne(w, D, t, g)'
        BY <2>1, <2>2, <3>1, <3>3, <3>4, <4>1, <4>3, <4>4, InlinesOn DEF call
      <4> QED
        BY <3>3, <4>5, Zenon
    <3> QED
      BY <3>1, <3>5, <3>6
  <2> QED
    BY <2>7, <2>8
<1> QED
  BY <1>1, <1>2, <1>3, Zenon DEF AtOne

\* What DoesTheSame asks of a program in which f is generated: every callee the
\* inliner takes keeps its sizes, none is covered, and calls end.
Tellable(w, f) ==
  /\ Shallow(w) /\ \A h \in Fns : ~CoveredIn(w, h)
  /\ \A n \in 1..Len(w.fns[f].body), h \in Fns, s \in Nat :
       PreprocessedIn(w)[w.fns[f].body[n]] = Insn("near", h, s) /\ Inlinable(w, h) => InStep(w, h)

\* Nothing has been generated of f, or all of it before one instruction, and that
\* is being generated.
SoFar(w, D, f) ==
  \/ calls = <<>> /\ at = 1 /\ rc = "running" /\ emitted = <<>>
  \/ at >= 2 /\ AtOne(w, D, InTurn(D, SubSeq(w.fns[f].body, 1, at - 2)), w.fns[f].body[at - 1])

\* The invariant: where the decompiler is, and what it has generated.
TellsInv ==
  /\ Placed
  /\ cur = None => emitted = <<>>
  /\ cur # None /\ Tellable(world, cur) => SoFar(world, Doing(world)[Rounds], cur)

\* What is asked of the program is what the proofs go by.
LEMMA TellableTells ==
  ASSUME NEW w, IsWorld(w), NoCircle(w), NEW f, Tellable(w, f)
  PROVE  Telling(w, Doing(w)[Rounds])
<1>1. Shallow(w) /\ \A h \in Fns : ~CoveredIn(w, h)
  BY Zenon DEF Tellable
<1>2. Doing(w)[Rounds] \in Deeds /\ Deed(w, Doing(w)[Rounds]) = Doing(w)[Rounds]
  BY <1>1, DoesIs
<1> QED
  BY <1>1, <1>2, Zenon DEF Telling

\* Between two instructions what has been generated does what they do.
LEMMA BetweenTwo ==
  ASSUME NEW w, NEW D, NEW t, NEW g, AtOne(w, D, t, g), calls = <<>>
  PROVE  /\ rc \in {"ok", "error"} /\ emitted \in Seq(Instructions)
         /\ rc = "ok" => InTurn(D, emitted) = t \o D[g]
<1>1. CASE Generating(w, D, <<>>, t, g)
  <2>1. <<>> \in Seq({})
    OBVIOUS
  <2>2. <<Gen>> \o <<>> # <<>> /\ <<App>> \o <<>> # <<>> /\ <<Gen, Gua>> \o <<>> # <<>>
    BY <2>1, Frames
  <2> QED
    BY <1>1, <2>2, Zenon DEF Generating, Working, Worked
<1>2. ASSUME NEW f \in Fns, NEW s \in Nat, NEW start, NEW k, Inside(w, D, t, g, f, s, start, k)
      PROVE  FALSE
  <2> DEFINE x == Inlining(Insn("near", f, s), start, Offset(w.fns[f].body, k + 1))
             r == <<x>>
  <2>1. x.proc = "inline"
    BY DEF Inlining
  <2>2. r \in Seq({x}) /\ r # <<>> /\ Head(r) = x
    <3> HIDE DEF x
    <3> QED
      OBVIOUS
  <2> DEFINE X == {x}
  <2>3. r \in Seq(X) /\ Head(r).proc = "inline"
    BY <2>1, <2>2
  <2> HIDE DEF X
  <2>4. /\ <<Gen>> \o r # <<>> /\ <<App>> \o r # <<>> /\ <<Gua>> \o r # <<>> /\ <<Gen, Gua>> \o r # <<>>
    BY <2>3, Frames
  <2>5. Generating(w, D, r, t \o InTurn(D, SubSeq(w.fns[f].body, 1, k - 1)), w.fns[f].body[k])
    BY <1>2, Zenon DEF Inside
  <2> HIDE DEF r, x
  <2> QED
    BY <2>2, <2>4, <2>5, Zenon DEF Generating, Working, Worked
<1> QED
  BY <1>1, <1>2, Zenon DEF AtOne

\* Which step there may be between two functions and between two instructions.
LEMMA WhichStep ==
  ASSUME Placed, FilterNext
  PROVE  /\ world' = world
         /\ cur = None => \E f \in Mains, m \in Mbas : StartFunction(f, m)
         /\ cur # None /\ cur' = None => emitted' = <<>>
         /\ cur # None /\ cur' # None => cur' = cur /\ (calls = <<>> => NextInsn)
<1>1. world' = world
  BY Zenon DEF FilterNext, FilterWork, NextInsn, Finish, Rewrite, Match, ApplyBmi1, ApplyNone, ReturnGuarded,
     ApplyInliner, InlineNext, StartFunction, Throw, GiveUp, kernel
<1>2. calls = <<>> => /\ ~Rewrite /\ ~Match /\ ~Throw /\ ~ApplyBmi1 /\ ~ApplyNone /\ ~ReturnGuarded
                      /\ ~ApplyInliner /\ ~InlineNext
  BY Zenon DEF Rewrite, Match, Throw, InMatch, ApplyBmi1, ApplyNone, ReturnGuarded, ApplyInliner, InlineNext, Top
<1>3. cur = None => calls = <<>> /\ ~NextInsn /\ ~Finish
  <2>1. cur = None => calls = <<>>
    BY FnsAssumption, Zenon DEF Placed
  <2>2. cur = None => ~NextInsn /\ ~Finish
    BY Zenon DEF NextInsn, Finish, Done, Failed
  <2> QED
    BY <2>1, <2>2
<1>4. cur = None => \E f \in Mains, m \in Mbas : StartFunction(f, m)
  BY <1>2, <1>3, Zenon DEF FilterNext, FilterWork
<1>a. NextInsn \/ Rewrite \/ Match \/ ApplyBmi1 \/ ApplyNone \/ ReturnGuarded \/ ApplyInliner \/ InlineNext
      => cur' = cur
  BY Zenon DEF NextInsn, Rewrite, Match, ApplyBmi1, ApplyNone, ReturnGuarded, ApplyInliner, InlineNext, kernel
<1>5. cur # None /\ cur' = None => emitted' = <<>>
  <2>2. Finish \/ Throw => emitted' = <<>>
    BY Zenon DEF Finish, Throw, GiveUp
  <2>3. cur # None => ~\E f \in Mains, m \in Mbas : StartFunction(f, m)
    BY Zenon DEF StartFunction
  <2> QED
    BY <1>a, <2>2, <2>3, Zenon DEF FilterNext, FilterWork
<1>6. cur # None /\ cur' # None => cur' = cur /\ (calls = <<>> => NextInsn)
  <2>1. cur' # None => ~Finish /\ ~Throw
    BY Zenon DEF Finish, Throw, GiveUp
  <2>2. cur # None => ~\E f \in Mains, m \in Mbas : StartFunction(f, m)
    BY Zenon DEF StartFunction
  <2> QED
    BY <1>2, <1>a, <2>1, <2>2, Zenon DEF FilterNext, FilterWork
<1> QED
  BY <1>1, <1>4, <1>5, <1>6

\* Another instruction of f is begun.
LEMMA StartsNext ==
  ASSUME NEW w, IsWorld(w), NEW D \in Deeds, NEW f \in Fns, at \in Nat \ {0},
         at <= Len(w.fns[f].body), SoFar(w, D, f), calls = <<>>, rc # "error",
         insn' = w.fns[f].body[at], at' = at + 1, rc' = "running", calls' = <<Gen>>, emitted' = emitted
  PROVE  SoFar(w, D, f)'
<1> DEFINE b == w.fns[f].body
<1>0. Len(b) \in Nat \ {0} /\ b \in Seq(Instructions) /\ \A n \in 1..Len(b) : b[n] \in Instructions
  BY FnIs
<1>1. at \in 1..Len(b) /\ at' >= 2 /\ at' - 2 = at - 1 /\ at' - 1 = at /\ insn' \in Instructions
  BY <1>0
<1>2. /\ InTurn(D, SubSeq(b, 1, 0)) = <<>>
      /\ \A n \in 1..Len(b) : InTurn(D, SubSeq(b, 1, n)) = InTurn(D, SubSeq(b, 1, n - 1)) \o D[b[n]]
  BY <1>0, InTurnOn
<1>3. InTurn(D, <<>>) = <<>> /\ <<>> \in Seq(Instructions)
  <2>1. b[1] \in Instructions /\ <<>> \in Seq(Instructions)
    BY <1>0
  <2> QED
    BY <2>1, InTurnMore
<1> HIDE DEF b
<1>4. emitted \in Seq(Instructions) /\ InTurn(D, emitted) = InTurn(D, SubSeq(b, 1, at - 1))
  <2>1. CASE at = 1 /\ emitted = <<>>
    <3>1. at - 1 = 0
      BY <2>1
    <3> QED
      BY <1>2, <1>3, <2>1, <3>1, Zenon
  <2>2. CASE at >= 2 /\ AtOne(w, D, InTurn(D, SubSeq(b, 1, at - 2)), b[at - 1])
    <3> DEFINE t == InTurn(D, SubSeq(b, 1, at - 2))
               g == b[at - 1]
    <3>a. AtOne(w, D, t, g)
      BY <2>2
    <3> HIDE DEF t, g
    <3>1. /\ rc \in {"ok", "error"} /\ emitted \in Seq(Instructions)
          /\ rc = "ok" => InTurn(D, emitted) = t \o D[g]
      BY <3>a, BetweenTwo
    <3>2. rc = "ok"
      BY <3>1
    <3>3. at - 1 \in 1..Len(b) /\ (at - 1) - 1 = at - 2
      BY <1>1, <2>2
    <3>4. InTurn(D, SubSeq(b, 1, at - 1)) = InTurn(D, SubSeq(b, 1, (at - 1) - 1)) \o D[b[at - 1]]
      BY <1>2, <3>3
    <3> QED
      BY <3>1, <3>2, <3>3, <3>4, Zenon DEF t, g
  <2> QED
    BY <2>1, <2>2, Zenon DEF SoFar, b
<1>5. calls' = <<Gen>> \o <<>>
  <2>1. <<Gen>> \o <<>> = <<Gen>>
    <3> HIDE DEF Gen
    <3> QED
      OBVIOUS
  <2> QED
    BY <2>1, Zenon
<1>6. PICK t, g : t = InTurn(D, SubSeq(b, 1, at - 1)) /\ g = b[at]
  OBVIOUS
<1>7. AtOne(w, D, t, g)'
  <2>1. insn' = g /\ InTurn(D, emitted') = t /\ emitted' \in Seq(Instructions)
    BY <1>4, <1>6 DEF b
  <2>2. PreprocessedIn(w)[insn'] = PreprocessedIn(w)[g]
    BY <2>1, Zenon
  <2>3. Working(w, D, <<>>, t, g)'
    BY <1>1, <1>5, <2>1, <2>2, Zenon DEF Working
  <2> QED
    BY <2>3, Zenon DEF AtOne, Generating
<1>8. InTurn(D, SubSeq(b, 1, at' - 2)) = t /\ b[at' - 1] = g
  BY <1>1, <1>6, Zenon
<1> QED
  BY <1>1, <1>7, <1>8, Zenon DEF SoFar, b

\* An instruction of f is generated further.
LEMMA GoesOn ==
  ASSUME NEW w, NEW D, Telling(w, D), w = world, NEW f \in Fns, Tellable(w, f),
         at \in 1..(Len(w.fns[f].body) + 1), SoFar(w, D, f),
         calls # <<>>, FilterNext, cur # None, cur' # None
  PROVE  SoFar(w, D, f)'
<1> DEFINE b == w.fns[f].body
<1>0. /\ IsWorld(w) /\ D \in Deeds /\ Len(b) \in Nat \ {0} /\ b \in Seq(Instructions)
      /\ \A n \in 1..Len(b) : b[n] \in Instructions
  BY FnIs DEF Telling
<1>1. at >= 2 /\ AtOne(w, D, InTurn(D, SubSeq(b, 1, at - 2)), b[at - 1])
  BY Zenon DEF SoFar
<1>2. at - 1 \in 1..Len(b) /\ at - 2 \in 0..Len(b)
  BY <1>0, <1>1
<1>3. PICK t, g : t = InTurn(D, SubSeq(b, 1, at - 2)) /\ g = b[at - 1]
  OBVIOUS
<1>4. t \in Seq(Instructions) /\ g \in Instructions
  <2>1. InTurn(D, SubSeq(b, 1, at - 2)) \in Seq(Instructions)
    BY <1>0, <1>2, InTurnOn
  <2> QED
    BY <1>0, <1>2, <1>3, <2>1
<1>5. \A h \in Fns, s \in Nat :
        PreprocessedIn(w)[g] = Insn("near", h, s) /\ Inlinable(w, h) => InStep(w, h)
  BY <1>2, <1>3, Zenon DEF Tellable
<1>6. AtOne(w, D, t, g)
  BY <1>1, <1>3, Zenon
<1>7. AtOne(w, D, t, g)' /\ world' = world /\ cur' = cur /\ at' = at
  BY <1>4, <1>5, <1>6, OneOn
<1>8. InTurn(D, SubSeq(b, 1, at' - 2)) = t /\ b[at' - 1] = g /\ at' >= 2
  BY <1>1, <1>3, <1>7, Zenon
<1> QED
  BY <1>7, <1>8, Zenon DEF SoFar

\* The initial states satisfy it.
LEMMA TellsInvInit == FilterInit => TellsInv
<1> SUFFICES ASSUME FilterInit PROVE TellsInv
  OBVIOUS
<1>1. Placed
  BY FilterInvInit, Zenon DEF FilterInv
<1>2. cur = None /\ emitted = <<>>
  BY Zenon DEF FilterInit
<1> QED
  BY <1>1, <1>2, Zenon DEF TellsInv

\* Each step keeps it.
LEMMA TellsInvNext == TellsInv /\ [FilterNext]_allVars => TellsInv'
<1> SUFFICES ASSUME TellsInv, [FilterNext]_allVars PROVE TellsInv'
  OBVIOUS
<1>0. Placed /\ Placed'
  BY PlacedKept, Zenon DEF TellsInv
<1>1. CASE UNCHANGED allVars
  <2>1. /\ world' = world /\ cur' = cur /\ at' = at /\ insn' = insn /\ calls' = calls /\ rc' = rc
        /\ selected' = selected /\ guard' = guard /\ emitted' = emitted
    BY <1>1, Zenon DEF allVars, kernel, cdg, filterVars
  <2>2. ASSUME NEW w, NEW D, NEW f, SoFar(w, D, f) PROVE SoFar(w, D, f)'
    <3>1. ASSUME NEW r, NEW t, NEW g PROVE Generating(w, D, r, t, g)' <=> Generating(w, D, r, t, g)
      BY <2>1, Zenon DEF Generating, Working, Worked
    <3>2. ASSUME NEW t, NEW g, AtOne(w, D, t, g) PROVE AtOne(w, D, t, g)'
      <4>1. ASSUME NEW h, NEW j, NEW e, NEW n, Inside(w, D, t, g, h, j, e, n)
            PROVE  Inside(w, D, t, g, h, j, e, n)'
        BY <3>1, <4>1, Zenon DEF Inside
      <4>2. CASE Generating(w, D, <<>>, t, g)
        BY <3>1, <4>2, Zenon DEF AtOne
      <4>3. CASE \E h \in Fns, j \in Nat : \E e, n : Inside(w, D, t, g, h, j, e, n)
        <5>1. \E h \in Fns, j \in Nat : \E e, n : Inside(w, D, t, g, h, j, e, n)'
          BY <4>1, <4>3, Zenon
        <5> QED
          BY <5>1, Zenon DEF AtOne
      <4> QED
        BY <3>2, <4>2, <4>3, Zenon DEF AtOne
    <3> QED
      BY <2>1, <2>2, <3>2, Zenon DEF SoFar
  <2>3. emitted = emitted' /\ (cur' = None => emitted' = <<>>)
    BY <2>1, Zenon DEF TellsInv
  <2>4. cur' # None /\ Tellable(world', cur') => SoFar(world, Doing(world)[Rounds], cur)'
    BY <2>1, <2>2, Zenon DEF TellsInv
  <2> QED
    BY <1>0, <2>3, <2>4, Zenon DEF TellsInv
<1>2. CASE FilterNext
  <2>1. /\ world' = world
        /\ cur = None => \E f \in Mains, m \in Mbas : StartFunction(f, m)
        /\ cur # None /\ cur' = None => emitted' = <<>>
        /\ cur # None /\ cur' # None => cur' = cur /\ (calls = <<>> => NextInsn)
    BY <1>0, <1>2, WhichStep
  <2>2. /\ cur = None => emitted = <<>> /\ calls = <<>> /\ rc = "running"
        /\ cur # None => cur \in Fns /\ at \in 1..(Len(world.fns[cur].body) + 1)
        /\ IsWorld(world) /\ NoCircle(world)
    BY <1>0, FnsAssumption, Zenon DEF Placed, TellsInv
  <2>3. CASE cur = None
    <3>1. PICK f \in Mains, m \in Mbas : StartFunction(f, m)
      BY <2>1, <2>3
    <3>2. /\ cur' = f /\ at' = 1 /\ calls' = calls /\ rc' = rc /\ emitted' = emitted
      BY <3>1, Zenon DEF StartFunction
    <3>3. cur' # None
      BY <3>2, WorldsAssumption, FnsAssumption
    <3>4. ASSUME NEW w, NEW D, NEW c PROVE SoFar(w, D, c)'
      BY <2>2, <2>3, <3>2, Zenon DEF SoFar
    <3> QED
      BY <1>0, <3>3, <3>4, Zenon DEF TellsInv
  <2>4. CASE cur # None /\ cur' = None
    BY <1>0, <2>1, <2>4, Zenon DEF TellsInv
  <2>5. CASE cur # None /\ cur' # None
    <3> SUFFICES ASSUME Tellable(world', cur') PROVE SoFar(world, Doing(world)[Rounds], cur)'
      BY <1>0, <2>5, Zenon DEF TellsInv
    <3>1. PICK w, D, f : w = world /\ D = Doing(world)[Rounds] /\ f = cur
      OBVIOUS
    <3>2. /\ IsWorld(w) /\ NoCircle(w) /\ f \in Fns /\ at \in 1..(Len(w.fns[f].body) + 1)
      BY <2>2, <2>5, <3>1, Zenon
    <3>3. cur' = cur /\ SoFar(w, D, f)'
      <4>1. ASSUME cur' = cur PROVE Tellable(w, f) /\ SoFar(w, D, f) /\ Telling(w, D)
        <5>1. Tellable(w, f) /\ SoFar(w, D, f)
          BY <2>1, <2>5, <3>1, <4>1, Zenon DEF TellsInv
        <5>2. Telling(w, Doing(w)[Rounds])
          BY <3>2, <5>1, TellableTells
        <5> QED
          BY <3>1, <5>1, <5>2, Zenon
      <4>2. CASE calls = <<>>
        <5>1. /\ at <= Len(world.fns[cur].body) /\ insn' = world.fns[cur].body[at]
              /\ at' = at + 1 /\ rc' = "running" /\ calls' = <<Gen>>
              /\ cur' = cur /\ rc # "error" /\ emitted' = emitted
          BY <2>1, <2>5, <4>2, Zenon DEF NextInsn, Body, Gen
        <5>2. at <= Len(w.fns[f].body) /\ insn' = w.fns[f].body[at]
          BY <3>1, <5>1, Zenon
        <5>3. D \in Deeds /\ SoFar(w, D, f)
          BY <4>1, <5>1, Zenon DEF Telling
        <5>4. at \in Nat \ {0}
          BY <3>2, FnIs
        <5>5. SoFar(w, D, f)'
          BY <3>2, <4>2, <5>1, <5>2, <5>3, <5>4, StartsNext
        <5> QED
          BY <5>1, <5>5
      <4>3. CASE calls # <<>>
        <5>1. Telling(w, D) /\ Tellable(w, f) /\ SoFar(w, D, f)
          BY <2>1, <2>5, <4>1
        <5> QED
          BY <1>2, <2>1, <2>5, <3>1, <3>2, <4>3, <5>1, GoesOn
      <4> QED
        BY <4>2, <4>3
    <3> QED
      BY <2>1, <3>1, <3>3, Zenon
  <2> QED
    BY <2>3, <2>4, <2>5
<1> QED
  BY <1>1, <1>2

\* At the end of a function that is all of them.
LEMMA Told == TellsInv => DoesTheSame
<1> SUFFICES ASSUME TellsInv, Done, Shallow(world),
                    \A i \in CallsInlined(cur) : ~OutOfStep(i.to), \A f \in Fns : ~Covers(f)
             PROVE  Doings(emitted) = Doings(Body)
  BY Zenon DEF DoesTheSame
<1> DEFINE b == world.fns[cur].body
           pre == PreprocessedIn(world)
<1>1. cur # None /\ calls = <<>> /\ rc = "ok" /\ at > Len(b)
  BY Zenon DEF Done, Body
<1>2. cur \in Fns /\ at \in 1..(Len(b) + 1) /\ IsWorld(world) /\ NoCircle(world)
  BY <1>1, Zenon DEF TellsInv, Placed
<1>3. Len(b) \in Nat \ {0} /\ b \in Seq(Instructions) /\ \A n \in 1..Len(b) : b[n] \in Instructions
  BY <1>2, FnIs
<1>4. at = Len(b) + 1
  BY <1>1, <1>2, <1>3
<1>5. Tellable(world, cur)
  <2>1. \A f \in Fns : ~CoveredIn(world, f)
    BY Zenon DEF Covers, CoveredIn, Preprocessed
  <2>2. ASSUME NEW n \in 1..Len(b), NEW h \in Fns, NEW s \in Nat, pre[b[n]] = Insn("near", h, s),
               Inlinable(world, h)
        PROVE  InStep(world, h)
    <3> DEFINE i == pre[b[n]]
    <3>1. i.kind = "near" /\ i.to = h
      <4>1. Insn("near", h, s).kind = "near" /\ Insn("near", h, s).to = h
        BY DEF Insn
      <4> QED
        BY <2>2, <4>1, Zenon
    <3>2. b[n] \in ToSet(b)
      BY <1>3 DEF ToSet
    <3>3. i \in CallsInlined(cur)
      BY <2>2, <3>1, <3>2, Zenon DEF CallsInlined, Preprocessed
    <3> QED
      BY <3>1, <3>3, Zenon DEF OutOfStep, InStep, Preprocessed
  <2> QED
    BY <2>1, <2>2, Zenon DEF Tellable
<1>6. PICK w, D, f : w = world /\ D = Doing(world)[Rounds] /\ f = cur
  OBVIOUS
<1>7. SoFar(w, D, f) /\ D \in Deeds
  <2>1. Telling(world, Doing(world)[Rounds])
    BY <1>2, <1>5, TellableTells
  <2> QED
    BY <1>1, <1>5, <1>6, <2>1, Zenon DEF TellsInv, Telling
<1>8. at # 1 /\ at - 2 = Len(b) - 1 /\ at - 1 = Len(b) /\ Len(b) \in 1..Len(b)
  BY <1>3, <1>4
<1>9. AtOne(w, D, InTurn(D, SubSeq(b, 1, Len(b) - 1)), b[Len(b)])
  BY <1>6, <1>7, <1>8, Zenon DEF SoFar
<1> HIDE DEF b
<1>10. InTurn(D, emitted) = InTurn(D, SubSeq(b, 1, Len(b) - 1)) \o D[b[Len(b)]]
  <2> DEFINE t == InTurn(D, SubSeq(b, 1, Len(b) - 1))
             g == b[Len(b)]
  <2>1. AtOne(w, D, t, g)
    BY <1>9
  <2> HIDE DEF t, g
  <2>2. rc = "ok" => InTurn(D, emitted) = t \o D[g]
    BY <1>1, <2>1, BetweenTwo
  <2> QED
    BY <1>1, <2>2 DEF t, g
<1>11. InTurn(D, b) = InTurn(D, SubSeq(b, 1, Len(b) - 1)) \o D[b[Len(b)]]
  <2>1. /\ InTurn(D, SubSeq(b, 1, Len(b))) = InTurn(D, SubSeq(b, 1, Len(b) - 1)) \o D[b[Len(b)]]
        /\ SubSeq(b, 1, Len(b)) = b
    BY <1>3, <1>7, <1>8, InTurnOn
  <2> QED
    BY <2>1, Zenon
<1> QED
  BY <1>6, <1>10, <1>11, Zenon DEF Doings, Body, b

\* What is generated for a function does what the function does, whichever of its
\* calls the rewriters resolve, drop or replace and the inliner takes
\* (preprocess_insn, trivial_inliner_x64_t): whatever programs there are, but for
\* callees out of step, covered ones, and calls that do not end.
THEOREM FilterDoesTheSame == FilterSpec => []DoesTheSame
<1>1. TellsInv /\ [FilterNext]_allVars => TellsInv'
  BY TellsInvNext
<1> QED
  BY <1>1, TellsInvInit, Told, PTL DEF FilterSpec
=============================================================================
