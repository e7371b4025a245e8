-------------------------- MODULE GotoMergeProofs ---------------------------
(***************************************************************************)
(* Proofs about GotoMerge, for every number of blocks and every code they   *)
(* may hold: when the pass is done no goto leads to a goto or a ret any      *)
(* more, and a function without a cycle of gotos means what it meant.  Such  *)
(* a function has ranks, numbers that go down along every goto; ranks make   *)
(* the equation between the blocks' meanings have one solution, and a merge  *)
(* keeps both the ranks and the solution.                                    *)
(***************************************************************************)
EXTENDS GotoMerge, IndFacts, FiniteSetTheorems

\* The code of a function.
Codes == [Blocks -> Seq(Insns)]

-----------------------------------------------------------------------------
(* Ranks: a function without a cycle of gotos has numbers for its blocks that *)
(* go down along every goto.                                                  *)

\* A goto leads to a block of a lower rank.
Ranks(c, r) ==
  /\ r \in [Blocks -> 0..(N - 1)]
  /\ \A b \in Blocks : Leads(c, b) => r[TailOf(c, b).to] < r[b]

\* The target of a goto that leads is a block.
LEMMA LeadsTo ==
  ASSUME NEW c \in Codes, NEW b \in Blocks, Leads(c, b)
  PROVE  /\ TailOf(c, b) \in Insns /\ TailOf(c, b).to \in Blocks
         /\ Len(c[b]) \in Nat \ {0} /\ TailOf(c, b).op = "goto"
<1>1. c[b] \in Seq(Insns) /\ c[b] # <<>>
  BY DEF Leads, Codes
<1>2. Len(c[b]) \in Nat \ {0} /\ c[b][Len(c[b])] \in Insns
  BY <1>1
<1> QED
  BY <1>2 DEF TailOf, Leads, Insns, Blocks

\* Where one goto leads.
After(c) == [b \in 0..N |-> IF b # 0 /\ Leads(c, b) THEN TailOf(c, b).to ELSE 0]

\* at[n] is the block n gotos behind b.
Follows(c, b, at) ==
  /\ at \in [0..N -> 0..N]
  /\ at[0] = b
  /\ \A n \in 0..(N - 1) : at[n + 1] = After(c)[at[n]]

\* That is what Follow gives.
LEMMA FollowIs ==
  ASSUME NEW c \in Codes, NEW b \in Blocks
  PROVE  Follows(c, b, Follow(c, b))
<1> DEFINE F == [p \in Nat \X (0..N) |-> After(c)[p[2]]]
           Eq(f) == f = [n \in 0..N |->
                           IF n = 0 THEN b
                           ELSE IF f[n - 1] # 0 /\ Leads(c, f[n - 1]) THEN TailOf(c, f[n - 1]).to
                           ELSE 0]
<1>1. N \in Nat /\ b \in 0..N
  BY NAssumption DEF Blocks
<1>2. After(c) \in [0..N -> 0..N]
  <2>1. \A x \in 0..N : x # 0 /\ Leads(c, x) => TailOf(c, x).to \in 0..N
    BY <1>1, LeadsTo DEF Blocks
  <2> QED
    BY <1>1, <2>1 DEF After
<1>3. F \in [Nat \X (0..N) -> 0..N]
  BY <1>2
<1>4. PICK f : Unrolls(f, 0..N, b, F, N)
  <2> HIDE DEF F
  <2> QED
    BY <1>1, <1>3, Recursion
<1>5. /\ f \in [0..N -> 0..N] /\ f[0] = b
      /\ \A n \in 0..(N - 1) : f[n + 1] = After(c)[f[n]]
  <2>1. \A n \in Nat, x \in 0..N : F[<<n, x>>] = After(c)[x]
    OBVIOUS
  <2>2. \A n \in 0..(N - 1) : n \in Nat /\ n \in 0..N
    BY <1>1
  <2> HIDE DEF F
  <2> QED
    BY <1>1, <1>4, <2>1, <2>2 DEF Unrolls
<1>6. Eq(f)
  <2>1. ASSUME NEW n \in 0..N, n # 0
        PROVE  f[n] = IF f[n - 1] # 0 /\ Leads(c, f[n - 1]) THEN TailOf(c, f[n - 1]).to ELSE 0
    <3>1. n - 1 \in 0..(N - 1) /\ (n - 1) + 1 = n /\ f[n - 1] \in 0..N
      BY <1>1, <1>5, <2>1
    <3>2. f[(n - 1) + 1] = After(c)[f[n - 1]]
      BY <1>5, <3>1
    <3> QED
      BY <3>1, <3>2 DEF After
  <2>2. f = [n \in 0..N |-> f[n]]
    BY <1>5
  <2> HIDE DEF F
  <2> QED
    BY <2>1, <1>5, <2>2
<1>7. Eq(Follow(c, b))
  <2> DEFINE g == CHOOSE x : Eq(x)
  <2>1. Eq(g)
    <3> HIDE DEF Eq
    <3> QED
      BY <1>6
  <2>2. Follow(c, b) = g
    BY DEF Follow
  <2> QED
    BY <2>1, <2>2
<1> DEFINE g == Follow(c, b)
<1> HIDE DEF g
<1>8. g = [n \in 0..N |-> IF n = 0 THEN b
                          ELSE IF g[n - 1] # 0 /\ Leads(c, g[n - 1]) THEN TailOf(c, g[n - 1]).to
                          ELSE 0]
  BY <1>7 DEF g
<1> HIDE DEF Eq, F
<1>9. g[0] = b
  BY <1>1, <1>8
<1>10. ASSUME NEW n \in 0..(N - 1)
       PROVE  g[n + 1] = IF g[n] # 0 /\ Leads(c, g[n]) THEN TailOf(c, g[n]).to ELSE 0
  <2>1. n + 1 \in 0..N /\ n + 1 # 0 /\ (n + 1) - 1 = n
    BY <1>1
  <2> QED
    BY <1>8, <2>1
<1>11. \A n \in 0..N : g[n] \in 0..N
  <2> DEFINE S == {n \in 0..N : g[n] \in 0..N}
  <2>1. 0 \in S
    BY <1>1, <1>9
  <2>2. ASSUME NEW n \in 0..(N - 1), n \in S PROVE n + 1 \in S
    <3>1. g[n + 1] = After(c)[g[n]]
      BY <1>10, <2>2 DEF After
    <3>2. n + 1 \in 0..N
      BY <1>1
    <3> QED
      BY <1>2, <2>2, <3>1, <3>2
  <2>3. 0..N \subseteq S
    <3> HIDE DEF S
    <3> QED
      BY <1>1, <2>1, <2>2, IntervalInduction
  <2> QED
    BY <2>3
<1>12. g \in [0..N -> 0..N]
  BY <1>8, <1>11
<1>13. \A n \in 0..(N - 1) : g[n + 1] = After(c)[g[n]]
  <2>1. \A n \in 0..(N - 1) : g[n] \in 0..N
    BY <1>1, <1>11
  <2> QED
    BY <1>10, <2>1 DEF After
<1> QED
  BY <1>9, <1>12, <1>13 DEF Follows, g

\* Once nothing follows, nothing follows any more.
LEMMA FollowEnds ==
  ASSUME NEW c, NEW b, NEW at, Follows(c, b, at), NEW k \in 0..N, at[k] = 0
  PROVE  \A n \in 0..N : k <= n => at[n] = 0
<1> DEFINE S == {n \in 0..N : k <= n => at[n] = 0}
<1>1. N \in Nat
  BY NAssumption
<1>2. 0 \in S
  BY <1>1
<1>3. ASSUME NEW n \in 0..(N - 1), n \in S PROVE n + 1 \in S
  <2>1. n + 1 \in 0..N /\ n \in 0..N /\ 0 \in 0..N
    BY <1>1
  <2>2. CASE k <= n
    <3>1. at[n + 1] = After(c)[0]
      BY <1>3, <2>2 DEF Follows
    <3>2. After(c)[0] = 0
      BY <2>1 DEF After
    <3> QED
      BY <2>1, <3>1, <3>2
  <2>3. CASE ~(k <= n)
    <3>1. k = n + 1 \/ ~(k <= n + 1)
      BY <1>1, <2>3
    <3> QED
      BY <2>1, <3>1
  <2> QED
    BY <2>2, <2>3
<1>4. 0..N \subseteq S
  <2> HIDE DEF S
  <2> QED
    BY <1>1, <1>2, <1>3, IntervalInduction
<1> QED
  BY <1>4

\* What follows a block that itself follows.
LEMMA FollowShifts ==
  ASSUME NEW c, NEW b, NEW at, Follows(c, b, at), NEW i \in 0..N, NEW on, Follows(c, at[i], on)
  PROVE  \A n \in 0..N : i + n \in 0..N => on[n] = at[i + n]
<1> DEFINE S == {n \in 0..N : i + n \in 0..N => on[n] = at[i + n]}
<1>1. N \in Nat
  BY NAssumption
<1>2. 0 \in S
  BY <1>1 DEF Follows
<1>3. ASSUME NEW n \in 0..(N - 1), n \in S PROVE n + 1 \in S
  <2>1. n + 1 \in 0..N
    BY <1>1
  <2>2. ASSUME i + (n + 1) \in 0..N PROVE on[n + 1] = at[i + (n + 1)]
    <3>1. i + n \in 0..(N - 1) /\ i + n \in 0..N /\ i + (n + 1) = (i + n) + 1
      BY <1>1, <2>2
    <3>2. on[n] = at[i + n]
      BY <1>3, <3>1
    <3>3. on[n + 1] = After(c)[on[n]]
      BY DEF Follows
    <3>4. at[(i + n) + 1] = After(c)[at[i + n]]
      BY <3>1 DEF Follows
    <3> QED
      BY <3>1, <3>2, <3>3, <3>4
  <2> QED
    BY <2>1, <2>2
<1>4. 0..N \subseteq S
  <2> HIDE DEF S
  <2> QED
    BY <1>1, <1>2, <1>3, IntervalInduction
<1> QED
  BY <1>4

\* Without a cycle something ends the gotos behind each block: there are only N
\* blocks.
LEMMA FollowStops ==
  ASSUME NEW c \in Codes, ~Cyclic(c), NEW b \in Blocks
  PROVE  Follow(c, b)[N] = 0
<1> DEFINE at == Follow(c, b)
<1>1. SUFFICES ASSUME at[N] # 0 PROVE FALSE
  OBVIOUS
<1>2. N \in Nat \ {0} /\ Follows(c, b, at)
  BY NAssumption, FollowIs
<1> HIDE DEF at
<1>3. at \in [0..N -> 0..N]
  BY <1>2 DEF Follows
<1>4. \A n \in 0..N : at[n] \in Blocks
  <2>1. ASSUME NEW n \in 0..N, at[n] = 0 PROVE FALSE
    <3>1. N \in 0..N /\ n <= N
      BY <1>2
    <3> QED
      BY <1>1, <1>2, <2>1, <3>1, FollowEnds
  <2> SUFFICES ASSUME NEW n \in 0..N PROVE at[n] \in Blocks
    OBVIOUS
  <2>2. at[n] \in 0..N /\ at[n] # 0
    BY <1>3, <2>1
  <2> QED
    BY <1>2, <2>2 DEF Blocks
<1>5. \E i, j \in 0..N : i < j /\ at[i] = at[j]
  <2>1. SUFFICES ASSUME \A i, j \in 0..N : i < j => at[i] # at[j] PROVE FALSE
    OBVIOUS
  <2>2. at \in Injection(0..N, Blocks)
    <3>1. \A i, j \in 0..N : at[i] = at[j] => i = j
      <4>1. \A i, j \in 0..N : i < j \/ j < i \/ i = j
        BY <1>2
      <4> QED
        BY <2>1, <4>1
    <3>2. at \in [0..N -> Blocks]
      BY <1>3, <1>4
    <3> QED
      BY <3>1, <3>2 DEF Injection, IsInjective
  <2>3. /\ IsFiniteSet(0..N) /\ Cardinality(0..N) = N + 1
        /\ IsFiniteSet(Blocks) /\ Cardinality(Blocks) = N
    BY <1>2, FS_Interval DEF Blocks
  <2>4. Cardinality(0..N) <= Cardinality(Blocks)
    BY <2>2, <2>3, FS_Injection
  <2> QED
    BY <1>2, <2>3, <2>4
<1>6. PICK i, j \in 0..N : i < j /\ at[i] = at[j]
  BY <1>5
<1> DEFINE x == at[i]
<1>7. x \in Blocks
  BY <1>4
<1>8. Follow(c, x)[j - i] = x
  <2>1. j - i \in 0..N /\ i + (j - i) = j
    BY <1>2, <1>6
  <2>2. Follows(c, at[i], Follow(c, x))
    BY <1>7, FollowIs
  <2> DEFINE on == Follow(c, x)
             n == j - i
  <2> HIDE DEF on, n, x
  <2>3. n \in 0..N /\ i + n = j
    BY <2>1 DEF n
  <2>4. on[n] = at[i + n]
    BY <1>2, <2>2, <2>3, FollowShifts DEF on
  <2> QED
    BY <1>6, <2>3, <2>4 DEF on, n, x
<1>9. j - i \in 1..N
  BY <1>2, <1>6
<1> QED
  BY <1>7, <1>8, <1>9 DEF Cyclic, OnCycle

\* The number of gotos that follow one another behind a block.
Behind(c, b) == CHOOSE k \in 0..(N - 1) : Follow(c, b)[k] # 0 /\ Follow(c, b)[k + 1] = 0

\* There is such a number.
LEMMA BehindIs ==
  ASSUME NEW c \in Codes, ~Cyclic(c), NEW b \in Blocks
  PROVE  /\ Behind(c, b) \in 0..(N - 1)
         /\ Follow(c, b)[Behind(c, b)] # 0 /\ Follow(c, b)[Behind(c, b) + 1] = 0
<1> DEFINE at == Follow(c, b)
           T == {n \in 0..N : at[n] # 0}
<1>1. N \in Nat \ {0} /\ at \in [0..N -> 0..N] /\ at[0] = b /\ b # 0 /\ at[N] = 0
  <2>1. Follows(c, b, at) /\ at[N] = 0
    BY FollowIs, FollowStops
  <2>2. N \in Nat \ {0} /\ b # 0
    BY NAssumption DEF Blocks
  <2> HIDE DEF at
  <2> QED
    BY <2>1, <2>2 DEF Follows
<1> HIDE DEF at
<1>2. T # {} /\ T \in SUBSET (0..N)
  BY <1>1
<1>3. PICK m \in T : \A n \in T : n <= m
  <2> HIDE DEF T
  <2> QED
    BY <1>1, <1>2, LastOf
<1>4. m \in 0..(N - 1) /\ m + 1 \in 0..N /\ ~(m + 1 <= m)
  <2>1. m \in 0..N /\ m # N
    BY <1>1
  <2> QED
    BY <1>1, <2>1
<1>5. at[m] # 0 /\ at[m + 1] = 0
  BY <1>3, <1>4
<1> QED
  BY <1>4, <1>5 DEF Behind, at

\* A function without a cycle of gotos has ranks.
LEMMA HasRanks ==
  ASSUME NEW c \in Codes, ~Cyclic(c)
  PROVE  \E r : Ranks(c, r)
<1> DEFINE r == [b \in Blocks |-> Behind(c, b)]
<1>1. r \in [Blocks -> 0..(N - 1)]
  BY BehindIs
<1>2. ASSUME NEW b \in Blocks, Leads(c, b)
      PROVE  r[TailOf(c, b).to] < r[b]
  <2> DEFINE t == TailOf(c, b).to
             at == Follow(c, b)
             on == Follow(c, t)
             k == Behind(c, b)
             j == Behind(c, t)
  <2>1. t \in Blocks
    BY <1>2, LeadsTo
  <2>2. /\ Follows(c, b, at) /\ Follows(c, t, on)
        /\ k \in 0..(N - 1) /\ at[k + 1] = 0
        /\ j \in 0..(N - 1) /\ on[j] # 0
    BY <2>1, FollowIs, BehindIs
  <2>3. After(c)[b] = t /\ N \in Nat \ {0}
    <3>1. b \in 0..N /\ b # 0 /\ N \in Nat \ {0}
      BY NAssumption DEF Blocks
    <3> QED
      BY <1>2, <3>1 DEF After
  <2> HIDE DEF t, at, on, k, j
  <2>4. at[1] = t
    <3>1. 0 \in 0..(N - 1) /\ 0 + 1 = 1
      BY <2>3
    <3> QED
      BY <2>2, <2>3, <3>1 DEF Follows
  <2>5. on[j] = at[1 + j]
    <3>1. 1 \in 0..N /\ j \in 0..N /\ 1 + j \in 0..N
      BY <2>2, <2>3
    <3> QED
      BY <2>2, <2>4, <3>1, FollowShifts
  <2>6. j < k
    <3>1. SUFFICES ASSUME k + 1 <= 1 + j PROVE FALSE
      BY <2>2, <2>3
    <3>2. k + 1 \in 0..N /\ 1 + j \in 0..N
      BY <2>2, <2>3
    <3>3. at[1 + j] = 0
      BY <2>2, <3>1, <3>2, FollowEnds
    <3> QED
      BY <2>2, <2>5, <3>3
  <2> QED
    BY <1>2, <2>1, <2>6 DEF t, k, j
<1> HIDE DEF r
<1> QED
  BY <1>1, <1>2 DEF Ranks

-----------------------------------------------------------------------------
(* Meanings: with ranks, what blocks mean is the one solution of Means.       *)

\* Instructions and the ways a meaning ends.
Steps == [op : {"goto", "ret", "jcnd", "other", "falls", "spins"}, to : 0..(N + 1)]

\* What every block means.
Meanings == [Blocks -> Seq(Steps)]

\* A block means a sequence of instructions, with how it ends.
LEMMA MeansType ==
  ASSUME NEW c \in Codes, NEW next \in Meanings
  PROVE  Means(c, next) \in Meanings
<1>1. N \in Nat /\ Insns \subseteq Steps
  BY NAssumption DEF Insns, Steps
<1>2. ASSUME NEW b \in Blocks PROVE Means(c, next)[b] \in Seq(Steps)
  <2>1. c[b] \in Seq(Steps) /\ Falls(b) \in Steps
    <3>1. c[b] \in Seq(Insns)
      BY DEF Codes
    <3>2. \A s \in Seq(Insns) : s \in Seq(Steps)
      BY <1>1
    <3>3. b + 1 \in 0..(N + 1)
      BY <1>1 DEF Blocks
    <3>4. Falls(b) \in Steps
      BY <3>3 DEF Falls, Steps
    <3> QED
      BY <3>1, <3>2, <3>4
  <2>2. ASSUME Leads(c, b)
        PROVE  SubSeq(c[b], 1, Len(c[b]) - 1) \o next[TailOf(c, b).to] \in Seq(Steps)
    <3>1. next[TailOf(c, b).to] \in Seq(Steps) /\ Len(c[b]) \in Nat \ {0}
      BY <2>2, LeadsTo DEF Meanings
    <3>2. SubSeq(c[b], 1, Len(c[b]) - 1) \in Seq(Steps)
      BY <2>1, <3>1
    <3> QED
      BY <3>1, <3>2
  <2>3. Append(c[b], Falls(b)) \in Seq(Steps)
    BY <2>1
  <2> QED
    BY <2>1, <2>2, <2>3 DEF Means
<1>3. Means(c, next) = [b \in Blocks |-> Means(c, next)[b]]
  BY DEF Means
<1> QED
  BY <1>2, <1>3 DEF Meanings

\* Before any block is looked at.
AllSpin == [b \in Blocks |-> Spins]

\* run[n] is what the blocks mean if no more than n gotos are followed.
Runs(c, run) ==
  /\ run \in [0..N -> Meanings]
  /\ run[0] = Means(c, AllSpin)
  /\ \A n \in 0..(N - 1) : run[n + 1] = Means(c, run[n])

\* That is how Meaning is computed.
LEMMA MeaningIs ==
  ASSUME NEW c \in Codes
  PROVE  \E run : Runs(c, run) /\ Meaning(c) = run[N]
<1> DEFINE F == [p \in Nat \X Meanings |-> Means(c, p[2])]
           x0 == Means(c, AllSpin)
           Eq(f) == f = [n \in 0..N |->
                           Means(c, IF n = 0 THEN [b \in Blocks |-> Spins] ELSE f[n - 1])]
<1>1. N \in Nat
  BY NAssumption
<1>2. AllSpin \in Meanings
  <2>1. Spins \in Seq(Steps)
    BY <1>1 DEF Spins, Steps
  <2> QED
    BY <2>1 DEF AllSpin, Meanings
<1>3. x0 \in Meanings /\ F \in [Nat \X Meanings -> Meanings]
  BY <1>2, MeansType
<1>4. \A n \in Nat, x \in Meanings : F[<<n, x>>] = Means(c, x)
  OBVIOUS
<1>5. PICK f : Unrolls(f, Meanings, x0, F, N)
  <2> HIDE DEF F, x0
  <2> QED
    BY <1>1, <1>3, Recursion
<1>6. /\ f \in [0..N -> Meanings] /\ f[0] = x0
      /\ \A n \in 0..(N - 1) : f[n + 1] = Means(c, f[n])
  <2>1. \A n \in 0..(N - 1) : n \in Nat /\ n \in 0..N
    BY <1>1
  <2> HIDE DEF F, x0
  <2> QED
    BY <1>4, <1>5, <2>1 DEF Unrolls
<1> HIDE DEF F
<1>7. Eq(f)
  <2>1. ASSUME NEW n \in 0..N
        PROVE  f[n] = Means(c, IF n = 0 THEN [b \in Blocks |-> Spins] ELSE f[n - 1])
    <3>1. CASE n = 0
      BY <1>6, <3>1 DEF AllSpin
    <3>2. CASE n # 0
      <4>1. n - 1 \in 0..(N - 1) /\ (n - 1) + 1 = n
        BY <1>1, <3>2
      <4>2. f[(n - 1) + 1] = Means(c, f[n - 1])
        BY <1>6, <4>1
      <4> QED
        BY <3>2, <4>1, <4>2
    <3> QED
      BY <3>1, <3>2
  <2>2. f = [n \in 0..N |-> f[n]]
    BY <1>6
  <2> QED
    BY <2>1, <2>2
<1>8. PICK g : Eq(g) /\ Meaning(c) = g[N]
  <2> DEFINE m == CHOOSE g : Eq(g)
  <2>1. Eq(m)
    <3> HIDE DEF Eq
    <3> QED
      BY <1>7
  <2>2. Meaning(c) = m[N]
    BY DEF Meaning
  <2> QED
    BY <2>1, <2>2
<1>9. g[0] = x0
  BY <1>1, <1>8 DEF AllSpin
<1>10. ASSUME NEW n \in 0..(N - 1) PROVE g[n + 1] = Means(c, g[n])
  <2>1. n + 1 \in 0..N /\ n + 1 # 0 /\ (n + 1) - 1 = n
    BY <1>1
  <2> QED
    BY <1>8, <2>1
<1>11. \A n \in 0..N : g[n] \in Meanings
  <2> DEFINE S == {n \in 0..N : g[n] \in Meanings}
  <2>1. 0 \in S
    BY <1>1, <1>3, <1>9
  <2>2. ASSUME NEW n \in 0..(N - 1), n \in S PROVE n + 1 \in S
    <3>1. n + 1 \in 0..N
      BY <1>1
    <3> QED
      BY <1>10, <2>2, <3>1, MeansType
  <2>3. 0..N \subseteq S
    <3> HIDE DEF S
    <3> QED
      BY <1>1, <2>1, <2>2, IntervalInduction
  <2> QED
    BY <2>3
<1>12. g \in [0..N -> Meanings]
  <2>1. g = [n \in 0..N |-> g[n]]
    BY <1>8
  <2> HIDE DEF Eq
  <2> QED
    BY <1>11, <2>1
<1> HIDE DEF Eq
<1>13. Runs(c, g)
  BY <1>9, <1>10, <1>12 DEF Runs
<1> QED
  BY <1>8, <1>13

\* What next says of the target of a goto is all that Means asks it.
LEMMA MeansSame ==
  ASSUME NEW c, NEW b \in Blocks, NEW one, NEW two, Leads(c, b) => one[TailOf(c, b).to] = two[TailOf(c, b).to]
  PROVE  Means(c, one)[b] = Means(c, two)[b]
BY DEF Means

\* No more gotos need be followed than a block's rank.
LEMMA RunsEnough ==
  ASSUME NEW c \in Codes, NEW r, Ranks(c, r), NEW run, Runs(c, run)
  PROVE  \A b \in Blocks : \A m \in 0..N : r[b] <= m => run[m][b] = run[N][b]
<1> DEFINE Good(b) == \A m \in 0..N : r[b] <= m => run[m][b] = run[N][b]
           S == {n \in 0..N : \A b \in Blocks : r[b] < n => Good(b)}
<1>1. N \in Nat \ {0} /\ r \in [Blocks -> 0..(N - 1)]
  BY NAssumption DEF Ranks
<1>2. 0 \in S
  BY <1>1
<1>3. ASSUME NEW n \in 0..(N - 1), n \in S PROVE n + 1 \in S
  <2>1. ASSUME NEW b \in Blocks, r[b] < n + 1, NEW m \in 0..N, r[b] <= m
        PROVE  run[m][b] = run[N][b]
    <3>1. r[b] \in 0..(N - 1) /\ (r[b] < n \/ r[b] = n)
      BY <1>1, <2>1
    <3>2. CASE Leads(c, b)
      <4> DEFINE t == TailOf(c, b).to
      <4>1. t \in Blocks /\ r[t] \in 0..(N - 1) /\ r[t] < r[b]
        BY <1>1, <3>2, LeadsTo DEF Ranks
      <4>2. /\ m - 1 \in 0..(N - 1) /\ (m - 1) + 1 = m /\ r[t] <= m - 1 /\ m - 1 \in 0..N
            /\ N - 1 \in 0..(N - 1) /\ (N - 1) + 1 = N /\ r[t] <= N - 1 /\ N - 1 \in 0..N
            /\ r[t] < n
        BY <1>1, <2>1, <3>1, <4>1
      <4>3. Good(t)
        BY <1>3, <4>1, <4>2
      <4>4. run[m - 1][t] = run[N - 1][t]
        BY <4>2, <4>3
      <4>5. run[m] = Means(c, run[m - 1]) /\ run[N] = Means(c, run[N - 1])
        BY <4>2 DEF Runs
      <4> QED
        BY <4>4, <4>5, MeansSame
    <3>3. CASE ~Leads(c, b)
      <4>1. \A one, two : Means(c, one)[b] = Means(c, two)[b]
        BY <3>3, MeansSame
      <4>2. \A k \in 0..N : \E next : run[k] = Means(c, next)
        <5> TAKE k \in 0..N
        <5>1. CASE k = 0
          BY <5>1 DEF Runs
        <5>2. CASE k # 0
          <6>1. k - 1 \in 0..(N - 1) /\ (k - 1) + 1 = k
            BY <1>1, <5>2
          <6> QED
            BY <6>1 DEF Runs
        <5> QED
          BY <5>1, <5>2
      <4>3. N \in 0..N
        BY <1>1
      <4> QED
        BY <4>1, <4>2, <4>3
    <3> QED
      BY <3>2, <3>3
  <2>2. n + 1 \in 0..N
    BY <1>1
  <2> QED
    BY <2>1, <2>2
<1>4. 0..N \subseteq S
  <2> HIDE DEF S
  <2> QED
    BY <1>1, <1>2, <1>3, IntervalInduction
<1>5. N \in S
  BY <1>1, <1>4
<1>6. \A b \in Blocks : r[b] < N
  BY <1>1
<1> HIDE DEF Good
<1>7. \A b \in Blocks : Good(b)
  BY <1>5, <1>6
<1> QED
  BY <1>7 DEF Good

\* With ranks the meanings say what each block does in terms of the others.
LEMMA MeaningSolves ==
  ASSUME NEW c \in Codes, NEW r, Ranks(c, r)
  PROVE  Meaning(c) \in Meanings /\ Means(c, Meaning(c)) = Meaning(c)
<1>1. PICK run : Runs(c, run) /\ Meaning(c) = run[N]
  BY MeaningIs
<1>2. N \in Nat \ {0} /\ r \in [Blocks -> 0..(N - 1)]
  BY NAssumption DEF Ranks
<1>3. /\ N \in 0..N /\ N - 1 \in 0..N /\ N - 1 \in 0..(N - 1) /\ (N - 1) + 1 = N
      /\ \A b \in Blocks : r[b] <= N - 1
  BY <1>2
<1>4. run[N] = Means(c, run[N - 1]) /\ run[N] \in Meanings
  BY <1>1, <1>3 DEF Runs
<1>5. \A b \in Blocks : run[N - 1][b] = run[N][b]
  BY <1>1, <1>3, RunsEnough
<1>6. \A b \in Blocks : Means(c, run[N])[b] = Means(c, run[N - 1])[b]
  <2> TAKE b \in Blocks
  <2>1. Leads(c, b) => run[N][TailOf(c, b).to] = run[N - 1][TailOf(c, b).to]
    BY <1>5, LeadsTo
  <2> QED
    BY <2>1, MeansSame
<1>7. Means(c, run[N]) = Means(c, run[N - 1])
  <2>1. /\ Means(c, run[N]) = [b \in Blocks |-> Means(c, run[N])[b]]
        /\ Means(c, run[N - 1]) = [b \in Blocks |-> Means(c, run[N - 1])[b]]
    BY DEF Means
  <2> QED
    BY <1>6, <2>1
<1> QED
  BY <1>1, <1>4, <1>7

\* Nothing else does.
LEMMA OneMeaning ==
  ASSUME NEW c \in Codes, NEW r, Ranks(c, r), NEW one \in Meanings, NEW two \in Meanings,
         Means(c, one) = one, Means(c, two) = two
  PROVE  one = two
<1> DEFINE S == {r[b] : b \in {x \in Blocks : one[x] # two[x]}}
<1>1. SUFFICES ASSUME one # two PROVE FALSE
  OBVIOUS
<1>2. N \in Nat \ {0} /\ r \in [Blocks -> 0..(N - 1)]
  BY NAssumption DEF Ranks
<1>3. \E b \in Blocks : one[b] # two[b]
  BY <1>1 DEF Meanings
<1>4. PICK n \in S : \A m \in S : n <= m
  <2>1. S # {} /\ S \in SUBSET Nat
    BY <1>2, <1>3
  <2> HIDE DEF S
  <2> QED
    BY <2>1, FirstOf
<1>5. PICK b \in Blocks : one[b] # two[b] /\ r[b] = n
  BY <1>4
<1>6. Leads(c, b) => one[TailOf(c, b).to] = two[TailOf(c, b).to]
  <2>1. SUFFICES ASSUME Leads(c, b), one[TailOf(c, b).to] # two[TailOf(c, b).to] PROVE FALSE
    OBVIOUS
  <2> DEFINE t == TailOf(c, b).to
  <2>2. t \in Blocks /\ r[t] < r[b] /\ one[t] # two[t]
    BY <2>1, LeadsTo DEF Ranks
  <2> HIDE DEF t
  <2>3. r[t] \in S
    BY <2>2
  <2> QED
    BY <1>2, <1>4, <1>5, <2>2, <2>3
<1>7. Means(c, one)[b] = Means(c, two)[b]
  BY <1>6, MeansSame
<1> QED
  BY <1>5, <1>7

-----------------------------------------------------------------------------
(* One merge: the goto of a block is replaced by what it leads to.           *)

\* All but the last instruction.
Front(s) == SubSeq(s, 1, Len(s) - 1)

\* Block b with the goto replaced.
MergedAt(c, b) == [c EXCEPT ![b] = Front(c[b]) \o c[TailOf(c, b).to]]

\* Of two sequences put together, the end is the end of the second.
LEMMA Joined ==
  ASSUME NEW X, NEW s \in Seq(X), NEW t \in Seq(X), t # <<>>
  PROVE  /\ s \o t \in Seq(X) /\ s \o t # <<>>
         /\ (s \o t)[Len(s \o t)] = t[Len(t)]
         /\ Front(s \o t) = s \o Front(t)
<1>1. Len(t) \in Nat \ {0} /\ Len(s) \in Nat /\ s \o t \in Seq(X) /\ Len(s \o t) = Len(s) + Len(t)
  OBVIOUS
<1>2. (s \o t)[Len(s \o t)] = t[Len(t)] /\ s \o t # <<>>
  BY <1>1
<1>3. Front(s \o t) = s \o Front(t)
  BY <1>1 DEF Front
<1> QED
  BY <1>1, <1>2, <1>3

\* What a merge leaves of the tails.
LEMMA MergedIs ==
  ASSUME NEW c \in Codes, NEW b \in Blocks, Mergeable(c, b)
  PROVE  LET t == TailOf(c, b).to
             d == MergedAt(c, b)
         IN  /\ t \in Blocks /\ d \in Codes
             /\ \A x \in Blocks \ {b} : d[x] = c[x]
             /\ d[b] # <<>> /\ d[b] = Front(c[b]) \o c[t]
             /\ TailOf(d, b) = TailOf(c, t) /\ Front(d[b]) = Front(c[b]) \o Front(c[t])
<1> DEFINE t == TailOf(c, b).to
           d == MergedAt(c, b)
<1>1. t \in Blocks /\ c[t] # <<>> /\ Len(c[b]) \in Nat \ {0}
  BY LeadsTo DEF Mergeable
<1>2. c[b] \in Seq(Insns) /\ c[t] \in Seq(Insns) /\ Front(c[b]) \in Seq(Insns)
  BY <1>1 DEF Codes, Front
<1> HIDE DEF t
<1>3. d[b] = Front(c[b]) \o c[t] /\ \A x \in Blocks \ {b} : d[x] = c[x]
  BY DEF MergedAt, Codes, t
<1>4. /\ Front(c[b]) \o c[t] \in Seq(Insns) /\ Front(c[b]) \o c[t] # <<>>
      /\ (Front(c[b]) \o c[t])[Len(Front(c[b]) \o c[t])] = c[t][Len(c[t])]
      /\ Front(Front(c[b]) \o c[t]) = Front(c[b]) \o Front(c[t])
  <2> DEFINE fb == Front(c[b])
             ct == c[t]
  <2>1. fb \in Seq(Insns) /\ ct \in Seq(Insns) /\ ct # <<>>
    BY <1>1, <1>2
  <2> HIDE DEF fb, ct
  <2>2. /\ fb \o ct \in Seq(Insns) /\ fb \o ct # <<>>
        /\ (fb \o ct)[Len(fb \o ct)] = ct[Len(ct)]
        /\ Front(fb \o ct) = fb \o Front(ct)
    BY <2>1, Joined
  <2> QED
    BY <2>2, Zenon DEF fb, ct
<1>5. d \in Codes
  BY <1>4 DEF MergedAt, Codes, t
<1> HIDE DEF d
<1>6. TailOf(d, b) = TailOf(c, t)
  BY <1>3, <1>4 DEF TailOf
<1> QED
  BY <1>1, <1>3, <1>4, <1>5, <1>6 DEF d, t

\* A merge changes no block's meaning, nor the ranks.
LEMMA MergeKeeps ==
  ASSUME NEW c \in Codes, NEW r, Ranks(c, r), NEW b \in Blocks, Mergeable(c, b)
  PROVE  /\ Ranks(MergedAt(c, b), r) /\ Meaning(MergedAt(c, b)) = Meaning(c)
         /\ TailOf(c, b).to # b
<1> DEFINE t == TailOf(c, b).to
           d == MergedAt(c, b)
           m == Meaning(c)
<1>1. /\ t \in Blocks /\ d \in Codes
      /\ \A x \in Blocks \ {b} : d[x] = c[x]
      /\ d[b] # <<>> /\ d[b] = Front(c[b]) \o c[t]
      /\ TailOf(d, b) = TailOf(c, t) /\ Front(d[b]) = Front(c[b]) \o Front(c[t])
  BY MergedIs
<1> HIDE DEF d
<1>2. Leads(c, b) /\ c[t] # <<>> /\ TailOf(c, t).op \in {"goto", "ret"}
  BY DEF Mergeable
<1>3. /\ r \in [Blocks -> 0..(N - 1)] /\ N \in Nat
      /\ \A x \in Blocks : Leads(c, x) => r[TailOf(c, x).to] < r[x]
  BY NAssumption DEF Ranks
<1>4. r[t] < r[b]
  BY <1>2, <1>3
<1>5. t # b
  BY <1>1, <1>3, <1>4
<1>6. \A x \in Blocks \ {b} : (Leads(d, x) <=> Leads(c, x)) /\ TailOf(d, x) = TailOf(c, x)
  BY <1>1 DEF Leads, TailOf
<1>7. Leads(d, b) <=> Leads(c, t)
  BY <1>1, <1>2 DEF Leads
<1>8. Ranks(d, r)
  <2>1. ASSUME NEW x \in Blocks, Leads(d, x) PROVE r[TailOf(d, x).to] < r[x]
    <3>1. CASE x = b
      <4> DEFINE u == TailOf(c, t).to
      <4>1. Leads(c, t)
        BY <1>7, <2>1, <3>1
      <4>2. r[u] < r[t] /\ u \in Blocks
        BY <1>1, <1>3, <4>1, LeadsTo
      <4>3. TailOf(d, x).to = u
        BY <1>1, <3>1
      <4> HIDE DEF t, u
      <4>4. r[u] \in 0..(N - 1) /\ r[t] \in 0..(N - 1) /\ r[b] \in 0..(N - 1)
        BY <1>1, <1>3, <4>2
      <4> QED
        BY <1>3, <1>4, <3>1, <4>2, <4>3, <4>4
    <3>2. CASE x # b
      BY <1>3, <1>6, <2>1, <3>2
    <3> QED
      BY <3>1, <3>2
  <2> QED
    BY <1>3, <2>1 DEF Ranks
<1>9. m \in Meanings /\ Means(c, m) = m
  BY MeaningSolves
<1>10. Means(d, m) = m
  <2>1. ASSUME NEW x \in Blocks, x # b PROVE Means(d, m)[x] = m[x]
    <3>1. Means(d, m)[x] = Means(c, m)[x]
      <4>1. d[x] = c[x] /\ (Leads(d, x) <=> Leads(c, x)) /\ TailOf(d, x) = TailOf(c, x)
        BY <1>1, <1>6, <2>1
      <4> HIDE DEF m
      <4> QED
        BY <4>1, Zenon DEF Means
    <3> QED
      BY <1>9, <3>1
  <2> HIDE DEF m, t
  <2>2. m[b] = Front(c[b]) \o m[t]
    <3>1. Means(c, m)[b] = Front(c[b]) \o m[t]
      BY <1>2 DEF Means, Front, t
    <3> QED
      BY <1>9, <3>1
  <2>3. Means(d, m)[b] = m[b]
    <3>1. CASE Leads(c, t)
      <4> DEFINE u == TailOf(c, t).to
      <4>1. Means(c, m)[t] = Front(c[t]) \o m[u]
        BY <1>1, <3>1 DEF Means, Front
      <4>2. Means(d, m)[b] = Front(d[b]) \o m[u]
        BY <1>1, <1>7, <3>1 DEF Means, Front
      <4>3. /\ Front(c[b]) \in Seq(Steps) /\ Front(c[t]) \in Seq(Steps) /\ m[u] \in Seq(Steps)
        <5>1. u \in Blocks /\ Len(c[b]) \in Nat \ {0} /\ Len(c[t]) \in Nat \ {0}
          BY <1>1, <1>2, <3>1, LeadsTo
        <5>2. c[b] \in Seq(Insns) /\ c[t] \in Seq(Insns)
          BY <1>1 DEF Codes
        <5>3. Insns \subseteq Steps
          BY <1>3 DEF Insns, Steps
        <5>4. Front(c[b]) \in Seq(Insns) /\ Front(c[t]) \in Seq(Insns)
          BY <5>1, <5>2 DEF Front
        <5>5. \A s \in Seq(Insns) : s \in Seq(Steps)
          BY <5>3
        <5>6. m[u] \in Seq(Steps)
          BY <1>9, <5>1 DEF Meanings
        <5> QED
          BY <5>4, <5>5, <5>6
      <4> DEFINE f1 == Front(c[b])
                 f2 == Front(c[t])
                 mu == m[u]
      <4> HIDE DEF u, f1, f2, mu
      <4>4. (f1 \o f2) \o mu = f1 \o (f2 \o mu)
        <5>1. f1 \in Seq(Steps) /\ f2 \in Seq(Steps) /\ mu \in Seq(Steps)
          BY <4>3 DEF f1, f2, mu
        <5> QED
          BY <5>1
      <4>5. (Front(c[b]) \o Front(c[t])) \o m[u] = Front(c[b]) \o (Front(c[t]) \o m[u])
        BY <4>4 DEF f1, f2, mu
      <4> QED
        BY <1>1, <1>9, <2>2, <4>1, <4>2, <4>5
    <3>2. CASE ~Leads(c, t)
      <4>1. Means(c, m)[t] = c[t]
        BY <1>1, <1>2, <3>2 DEF Means
      <4>2. Means(d, m)[b] = d[b]
        BY <1>1, <1>2, <1>7, <3>2 DEF Means
      <4> QED
        BY <1>1, <1>9, <2>2, <4>1, <4>2
    <3> QED
      BY <3>1, <3>2
  <2>4. Means(d, m) = [x \in Blocks |-> Means(d, m)[x]] /\ m = [x \in Blocks |-> m[x]]
    BY <1>9 DEF Means, Meanings
  <2> QED
    BY <2>1, <2>3, <2>4
<1>11. Meaning(d) \in Meanings /\ Means(d, Meaning(d)) = Meaning(d)
  BY <1>1, <1>8, MeaningSolves
<1>12. Meaning(d) = m
  <2> HIDE DEF m
  <2> QED
    BY <1>1, <1>8, <1>9, <1>10, <1>11, OneMeaning
<1> QED
  BY <1>5, <1>8, <1>12 DEF d

-----------------------------------------------------------------------------
(* The pass.                                                                 *)

\* The code once the copy under way is over.
Ahead ==
  IF pc = "copy"
  THEN [code EXCEPT ![block] = code[block] \o SubSeq(code[succ], cursor, Len(code[succ]))]
  ELSE code

\* While a target is copied the pass will change something.
Copying == pc = "copy" => changed /\ block \in Blocks /\ succ \in Blocks /\ cursor >= 1

\* The blocks a pass has gone by without a change still have nothing to merge.
GoneBy == ~changed /\ pc # "copy" => \A b \in Blocks : b < block => ~Mergeable(code, b)

\* The last pass went by every block.
Over == pc = "done" => ~changed /\ block = N + 1

\* The target copied is another block, and its copy will leave every block's
\* meaning as it was.
Keeping ==
  ~Cyclic(orig) =>
    /\ pc = "copy" => succ # block /\ cursor <= Len(code[succ]) + 1
    /\ \E r \in [Blocks -> 0..(N - 1)] : Ranks(Ahead, r)
    /\ Meaning(Ahead) = Meaning(orig)

\* The inductive invariant.
IInv == TypeOK /\ Copying /\ GoneBy /\ Over /\ Keeping

\* A list from one of its instructions on is that instruction and the rest.
LEMMA OneMore ==
  ASSUME NEW X, NEW s \in Seq(X), NEW t \in Seq(X), NEW k \in 1..Len(t)
  PROVE  /\ t[k] \in X
         /\ Append(s, t[k]) \o SubSeq(t, k + 1, Len(t)) = s \o SubSeq(t, k, Len(t))
<1> DEFINE x == <<t[k]>>
           u == SubSeq(t, k + 1, Len(t))
           v == SubSeq(t, k, Len(t))
<1>1. Len(t) \in Nat /\ k \in 1..Len(t) /\ t[k] \in X
  OBVIOUS
<1>2. /\ u \in Seq(X) /\ Len(u) = Len(t) - k
      /\ \A i \in 1..(Len(t) - k) : u[i] = t[k + i]
  BY <1>1
<1>3. /\ v \in Seq(X) /\ Len(v) = (Len(t) - k) + 1
      /\ \A i \in 1..((Len(t) - k) + 1) : v[i] = t[k + i - 1]
  BY <1>1
<1>4. x \in Seq(X) /\ Len(x) = 1 /\ x[1] = t[k] /\ Append(s, t[k]) = s \o x
  BY <1>1
<1> HIDE DEF u, v, x
<1>5. /\ x \o u \in Seq(X) /\ Len(x \o u) = (Len(t) - k) + 1
      /\ \A i \in 1..((Len(t) - k) + 1) : (x \o u)[i] = IF i <= 1 THEN x[i] ELSE u[i - 1]
  <2>1. x \in Seq(X) /\ u \in Seq(X)
    BY <1>2, <1>4
  <2>2. /\ x \o u \in Seq(X) /\ Len(x \o u) = Len(x) + Len(u)
        /\ \A i \in 1..(Len(x) + Len(u)) : (x \o u)[i] = IF i <= Len(x) THEN x[i] ELSE u[i - Len(x)]
    BY <2>1, JoinedIs
  <2>3. Len(x) = 1 /\ Len(x) + Len(u) = (Len(t) - k) + 1
    BY <1>1, <1>2, <1>4
  <2> QED
    BY <2>2, <2>3
<1>6. ASSUME NEW i \in 1..((Len(t) - k) + 1) PROVE (x \o u)[i] = v[i]
  <2>0. /\ (x \o u)[i] = IF i <= 1 THEN x[i] ELSE u[i - 1]
        /\ v[i] = t[k + i - 1]
    BY <1>3, <1>5
  <2> DEFINE a == (x \o u)[i]
             l == Len(t)
  <2> HIDE DEF a
  <2>1. CASE i = 1
    <3>1. k + i - 1 = k /\ i <= 1
      BY <2>1
    <3>2. a = x[1] /\ v[i] = t[k]
      BY <2>0, <2>1, <3>1 DEF a
    <3> QED
      BY <1>4, <3>2 DEF a
  <2>2. CASE i # 1
    <3>0. l \in Nat /\ k \in 1..l /\ i \in 1..((l - k) + 1)
      BY <1>1
    <3> HIDE DEF l
    <3>1. i - 1 \in 1..(l - k) /\ k + (i - 1) = k + i - 1 /\ ~(i <= 1)
      BY <2>2, <3>0
    <3>2. u[i - 1] = t[k + (i - 1)]
      BY <1>2, <3>1 DEF l
    <3>3. a = u[i - 1]
      BY <2>0, <3>1 DEF a
    <3> QED
      BY <2>0, <3>1, <3>2, <3>3 DEF a
  <2> QED
    BY <2>1, <2>2
<1>7. x \o u = v
  <2> DEFINE w == x \o u
  <2> HIDE DEF w
  <2>1. w \in Seq(X) /\ v \in Seq(X) /\ Len(w) = Len(v) /\ \A i \in 1..Len(v) : w[i] = v[i]
    BY <1>3, <1>5, <1>6 DEF w
  <2>2. w = v
    BY <2>1
  <2> QED
    BY <2>2 DEF w
<1>8. (s \o x) \o u = s \o (x \o u)
  <2>1. s \in Seq(X) /\ x \in Seq(X) /\ u \in Seq(X)
    BY <1>2, <1>4
  <2> QED
    BY <2>1, JoinedTwice, SMTT(60)
<1> QED
  BY <1>1, <1>4, <1>7, <1>8 DEF u, v

\* The pass starts in the invariant.
LEMMA InitInvariant ==
  ASSUME Init PROVE IInv
<1>1. N \in Nat \ {0} /\ Bodies \subseteq Seq(Insns)
  BY NAssumption, BodiesAssumption
<1>2. code \in Codes /\ orig = code
  <2>1. code \in [Blocks -> Bodies] /\ orig = code
    BY DEF Init
  <2> QED
    BY <1>1, <2>1 DEF Codes
<1>3. pc = "scan" /\ block = 1 /\ succ = 0 /\ cursor = 0 /\ changed = FALSE /\ pc # "copy" /\ pc # "done"
  BY Zenon DEF Init
<1>4. 1 \in 1..(N + 1) /\ 0 \in 0..N /\ 0 \in Nat
  BY <1>1
<1>5. TypeOK
  BY <1>2, <1>3, <1>4, Zenon DEF TypeOK, Codes
<1>6. GoneBy
  BY <1>1, <1>3 DEF GoneBy, Blocks
<1>7. Keeping
  <2>1. Ahead = code
    BY <1>3, Zenon DEF Ahead
  <2>2. SUFFICES ASSUME ~Cyclic(orig)
                 PROVE  \E r \in [Blocks -> 0..(N - 1)] : Ranks(code, r)
    BY <1>2, <1>3, <2>1 DEF Keeping
  <2>3. PICK r : Ranks(code, r)
    BY <1>2, <2>2, HasRanks
  <2> QED
    BY <2>3 DEF Ranks
<1> QED
  BY <1>3, <1>5, <1>6, <1>7, Zenon DEF IInv, Copying, Over

\* A block with nothing to merge is gone by.
LEMMA NextBlockKeeps ==
  ASSUME IInv, NextBlock PROVE IInv'
<1>1. /\ pc = "scan" /\ block \in Blocks /\ ~Mergeable(code, block) /\ block' = block + 1
      /\ code' = code /\ orig' = orig /\ pc' = pc /\ succ' = succ /\ cursor' = cursor
      /\ changed' = changed
  BY Zenon DEF NextBlock
<1>2. N \in Nat /\ block \in 1..N /\ block + 1 \in 1..(N + 1)
  BY <1>1, NAssumption DEF Blocks
<1>3. TypeOK'
  BY <1>1, <1>2, Zenon DEF IInv, TypeOK
<1>4. GoneBy'
  <2>1. SUFFICES ASSUME ~changed, NEW b \in Blocks, b < block + 1
                 PROVE  ~Mergeable(code, b)
    BY <1>1, Zenon DEF GoneBy
  <2>2. b = block \/ b < block
    BY <1>2, <2>1 DEF Blocks
  <2> QED
    BY <1>1, <2>1, <2>2, Zenon DEF IInv, GoneBy
<1>5. Keeping'
  <2>1. Ahead' = Ahead
    BY <1>1, Zenon DEF Ahead
  <2> QED
    BY <1>1, <2>1, Zenon DEF IInv, Keeping
<1> QED
  BY <1>1, <1>3, <1>4, <1>5, Zenon DEF IInv, Copying, Over

\* Dropping the goto to another block, what is ahead is the merged code.
LEMMA DropAhead ==
  ASSUME TypeOK, DropGoto, TailOf(code, block).to # block
  PROVE  Ahead' = MergedAt(code, block)
<1> DEFINE t == TailOf(code, block).to
<1>1. /\ block \in Blocks /\ Mergeable(code, block)
      /\ succ' = t /\ code' = [code EXCEPT ![block] = Front(code[block])]
      /\ pc' = "copy" /\ cursor' = 1 /\ block' = block
  <2>1. DropGoto
    OBVIOUS
  <2> QED
    BY <2>1, Zenon DEF DropGoto, Front
<1>2. code \in Codes
  BY DEF TypeOK, Codes
<1>3. t \in Blocks
  <2>1. Leads(code, block)
    BY <1>1 DEF Mergeable
  <2> QED
    BY <1>1, <1>2, <2>1, LeadsTo
<1>4. code'[t] = code[t] /\ code'[block] = Front(code[block])
  BY <1>1, <1>2, <1>3 DEF Codes
<1> HIDE DEF t
<1>5. SubSeq(code[t], 1, Len(code[t])) = code[t]
  <2>1. code[t] \in Seq(Insns)
    BY <1>2, <1>3 DEF Codes
  <2> QED
    BY <2>1
<1>6. Ahead' = [code' EXCEPT ![block] = code'[block] \o SubSeq(code'[t], 1, Len(code'[t]))]
  BY <1>1, Zenon DEF Ahead
<1>7. Ahead' = [code' EXCEPT ![block] = Front(code[block]) \o code[t]]
  BY <1>4, <1>5, <1>6
<1>8. [code' EXCEPT ![block] = Front(code[block]) \o code[t]]
        = [code EXCEPT ![block] = Front(code[block]) \o code[t]]
  BY <1>1
<1> QED
  BY <1>7, <1>8, Zenon DEF MergedAt, t

\* Copying an instruction of another block, what is ahead stays.
LEMMA CopyAhead ==
  ASSUME TypeOK, Copying, CopyInsn, succ # block
  PROVE  Ahead' = Ahead
<1>1. /\ pc = "copy" /\ cursor <= Len(code[succ])
      /\ code' = [code EXCEPT ![block] = Append(code[block], code[succ][cursor])]
      /\ cursor' = cursor + 1 /\ pc' = pc /\ block' = block /\ succ' = succ
  <2>1. CopyInsn
    OBVIOUS
  <2> QED
    BY <2>1, Zenon DEF CopyInsn
<1>2. code \in Codes /\ cursor \in Nat
  BY DEF TypeOK, Codes
<1>3. block \in Blocks /\ succ \in Blocks /\ cursor >= 1
  BY <1>1, Zenon DEF Copying
<1>4. code[block] \in Seq(Insns) /\ code[succ] \in Seq(Insns)
  BY <1>2, <1>3 DEF Codes
<1>5. Append(code[block], code[succ][cursor]) \o SubSeq(code[succ], cursor + 1, Len(code[succ]))
        = code[block] \o SubSeq(code[succ], cursor, Len(code[succ]))
  <2> DEFINE s == code[block]
             u == code[succ]
             X == Insns
  <2>1. cursor \in 1..Len(u)
    BY <1>1, <1>2, <1>3, <1>4
  <2> HIDE DEF s, u, X
  <2>2. s \in Seq(X) /\ u \in Seq(X)
    BY <1>4 DEF s, u, X
  <2>3. Append(s, u[cursor]) \o SubSeq(u, cursor + 1, Len(u)) = s \o SubSeq(u, cursor, Len(u))
    BY <2>1, <2>2, OneMore
  <2> QED
    BY <2>3 DEF s, u
<1>6. code'[succ] = code[succ] /\ code'[block] = Append(code[block], code[succ][cursor])
  BY <1>1, <1>2, <1>3 DEF Codes
<1>7. Ahead' = [code' EXCEPT ![block] =
                  code'[block] \o SubSeq(code'[succ], cursor + 1, Len(code'[succ]))]
  BY <1>1, Zenon DEF Ahead
<1> DEFINE new == code[block] \o SubSeq(code[succ], cursor, Len(code[succ]))
           one == Append(code[block], code[succ][cursor])
<1> HIDE DEF new, one
<1>8. /\ code' = [code EXCEPT ![block] = one] /\ Ahead = [code EXCEPT ![block] = new]
      /\ Ahead' = [code' EXCEPT ![block] = new]
  <2>1. Ahead' = [code' EXCEPT ![block] = new]
    BY <1>5, <1>6, <1>7 DEF new
  <2> QED
    BY <1>1, <2>1, Zenon DEF Ahead, new, one
<1> QED
  BY <1>8

\* When the copy is over nothing more is ahead.
LEMMA EndAhead ==
  ASSUME TypeOK, Copying, EndCopy
  PROVE  Ahead = code /\ Ahead' = code
<1>1. /\ pc = "copy" /\ cursor > Len(code[succ]) /\ pc' = "scan" /\ code' = code
  BY Zenon DEF EndCopy
<1>2. code \in Codes /\ cursor \in Nat /\ block \in Blocks /\ succ \in Blocks
  <2>1. block \in Blocks /\ succ \in Blocks
    BY <1>1, Zenon DEF Copying
  <2> QED
    BY <2>1 DEF TypeOK, Codes
<1>3. code[succ] \in Seq(Insns) /\ code[block] \in Seq(Insns)
  BY <1>2 DEF Codes
<1>4. code[block] \o SubSeq(code[succ], cursor, Len(code[succ])) = code[block]
  <2>1. SubSeq(code[succ], cursor, Len(code[succ])) = <<>>
    BY <1>1, <1>2, <1>3
  <2> QED
    BY <1>3, <2>1
<1>5. Ahead = [code EXCEPT ![block] = code[block]]
  BY <1>1, <1>4, Zenon DEF Ahead
<1>6. pc' # "copy"
  BY <1>1
<1> QED
  BY <1>1, <1>2, <1>5, <1>6 DEF Codes, Ahead

\* The goto is dropped: what is ahead is the merged code.
LEMMA DropGotoKeeps ==
  ASSUME IInv, DropGoto PROVE IInv'
<1> DEFINE t == TailOf(code, block).to
<1>1. /\ pc = "scan" /\ block \in Blocks /\ Mergeable(code, block)
      /\ succ' = t /\ code' = [code EXCEPT ![block] = Front(code[block])]
      /\ pc' = "copy" /\ cursor' = 1 /\ changed' = TRUE /\ orig' = orig /\ block' = block
  <2>1. DropGoto
    OBVIOUS
  <2> QED
    BY <2>1, Zenon DEF DropGoto, Front
<1>2. code \in Codes /\ orig \in Codes /\ block \in 1..(N + 1)
  BY Zenon DEF IInv, TypeOK, Codes
<1>3. t \in Blocks /\ code[block] \in Seq(Insns) /\ Len(code[block]) \in Nat \ {0}
  <2>1. Leads(code, block)
    BY <1>1 DEF Mergeable
  <2> QED
    BY <1>1, <1>2, <2>1, LeadsTo DEF Codes
<1>4. Front(code[block]) \in Seq(Insns) /\ code[t] \in Seq(Insns)
  BY <1>2, <1>3 DEF Front, Codes
<1> HIDE DEF t
<1>5. code' \in Codes
  BY <1>1, <1>2, <1>4 DEF Codes
<1>6. TypeOK'
  <2>1. t \in 0..N /\ 1 \in Nat
    BY <1>3, NAssumption DEF Blocks
  <2> QED
    BY <1>1, <1>2, <1>5, <2>1, Zenon DEF TypeOK, Codes
<1>7. Copying'
  BY <1>1, <1>3 DEF Copying
<1>8. pc' = "copy" /\ pc' # "done" /\ changed'
  BY <1>1
<1>9. Keeping'
  <2>1. SUFFICES ASSUME ~Cyclic(orig)
                 PROVE  /\ succ' # block' /\ cursor' <= Len(code'[succ']) + 1
                        /\ \E r \in [Blocks -> 0..(N - 1)] : Ranks(Ahead', r)
                        /\ Meaning(Ahead') = Meaning(orig)
    BY <1>1, Zenon DEF Keeping
  <2>2. Ahead = code
    <3>1. pc # "copy"
      BY <1>1
    <3> QED
      BY <3>1, Zenon DEF Ahead
  <2>3. Meaning(code) = Meaning(orig) /\ \E r \in [Blocks -> 0..(N - 1)] : Ranks(code, r)
    BY <2>1, <2>2, Zenon DEF IInv, Keeping
  <2>4. PICK r \in [Blocks -> 0..(N - 1)] : Ranks(code, r)
    BY <2>3
  <2>5. /\ Ranks(MergedAt(code, block), r) /\ Meaning(MergedAt(code, block)) = Meaning(code)
        /\ t # block
    BY <1>1, <1>2, <2>4, MergeKeeps DEF t
  <2>6. 1 <= Len(code'[t]) + 1
    <3>1. code'[t] \in Seq(Insns)
      BY <1>3, <1>5 DEF Codes
    <3> QED
      BY <3>1
  <2>7. Ahead' = MergedAt(code, block)
    BY <2>5, DropAhead DEF IInv, t
  <2> QED
    BY <1>1, <2>3, <2>5, <2>6, <2>7
<1> QED
  BY <1>6, <1>7, <1>8, <1>9, Zenon DEF IInv, GoneBy, Over

\* An instruction is copied: what is ahead stays.
LEMMA CopyInsnKeeps ==
  ASSUME IInv, CopyInsn PROVE IInv'
<1>1. /\ pc = "copy" /\ cursor <= Len(code[succ])
      /\ code' = [code EXCEPT ![block] = Append(code[block], code[succ][cursor])]
      /\ cursor' = cursor + 1 /\ orig' = orig /\ pc' = pc /\ block' = block /\ succ' = succ
      /\ changed' = changed
  <2>1. CopyInsn
    OBVIOUS
  <2> QED
    BY <2>1, Zenon DEF CopyInsn
<1>2. code \in Codes /\ orig \in Codes /\ block \in 1..(N + 1) /\ succ \in 0..N /\ cursor \in Nat
  BY Zenon DEF IInv, TypeOK, Codes
<1>3. changed /\ block \in Blocks /\ succ \in Blocks /\ cursor >= 1
  BY <1>1, Zenon DEF IInv, Copying
<1>4. code[block] \in Seq(Insns) /\ code[succ] \in Seq(Insns)
  BY <1>2, <1>3 DEF Codes
<1>5. cursor \in 1..Len(code[succ]) /\ cursor + 1 \in Nat /\ cursor + 1 >= 1
  BY <1>1, <1>2, <1>3, <1>4
<1>6. code[succ][cursor] \in Insns
  BY <1>4, <1>5
<1>7. code' \in Codes
  <2>1. Append(code[block], code[succ][cursor]) \in Seq(Insns)
    BY <1>4, <1>6
  <2> QED
    BY <1>1, <1>2, <2>1, Zenon DEF Codes
<1>8. TypeOK'
  BY <1>1, <1>2, <1>5, <1>7, Zenon DEF IInv, TypeOK, Codes
<1>9. Copying' /\ GoneBy'
  BY <1>1, <1>3, <1>5, Zenon DEF Copying, GoneBy
<1>10. Over'
  <2>1. pc' # "done"
    BY <1>1
  <2> QED
    BY <2>1 DEF Over
<1>11. Keeping'
  <2>1. SUFFICES ASSUME ~Cyclic(orig)
                 PROVE  /\ succ # block /\ cursor + 1 <= Len(code'[succ]) + 1
                        /\ \E r \in [Blocks -> 0..(N - 1)] : Ranks(Ahead', r)
                        /\ Meaning(Ahead') = Meaning(orig)
    BY <1>1, Zenon DEF Keeping
  <2>2. /\ succ # block
        /\ \E r \in [Blocks -> 0..(N - 1)] : Ranks(Ahead, r)
        /\ Meaning(Ahead) = Meaning(orig)
    BY <1>1, <2>1, Zenon DEF IInv, Keeping
  <2>3. code'[succ] = code[succ] /\ code'[block] = Append(code[block], code[succ][cursor])
    BY <1>1, <1>2, <1>3, <2>2 DEF Codes
  <2>4. Ahead' = Ahead
    BY <2>2, CopyAhead DEF IInv
  <2>5. cursor + 1 <= Len(code'[succ]) + 1
    BY <1>1, <1>2, <1>4, <2>3
  <2> QED
    BY <2>2, <2>4, <2>5
<1> QED
  BY <1>8, <1>9, <1>10, <1>11, Zenon DEF IInv

\* The copy is over: nothing is ahead any more.
LEMMA EndCopyKeeps ==
  ASSUME IInv, EndCopy PROVE IInv'
<1>1. /\ pc = "copy" /\ cursor > Len(code[succ]) /\ pc' = "scan" /\ succ' = 0 /\ cursor' = 0
      /\ code' = code /\ orig' = orig /\ block' = block /\ changed' = changed
  BY Zenon DEF EndCopy
<1>2. code \in Codes /\ orig \in Codes /\ block \in 1..(N + 1) /\ cursor \in Nat
  BY Zenon DEF IInv, TypeOK, Codes
<1>3. changed /\ block \in Blocks /\ succ \in Blocks
  BY <1>1, Zenon DEF IInv, Copying
<1>4. pc' # "copy" /\ pc' # "done"
  BY <1>1
<1>5. TypeOK'
  <2>1. 0 \in 0..N /\ 0 \in Nat
    BY NAssumption
  <2> QED
    BY <1>1, <2>1, Zenon DEF IInv, TypeOK
<1>6. Keeping'
  <2>1. Ahead = code /\ Ahead' = code
    BY EndAhead DEF IInv
  <2> QED
    BY <1>1, <1>4, <2>1, Zenon DEF IInv, Keeping
<1> QED
  BY <1>1, <1>3, <1>4, <1>5, <1>6, Zenon DEF IInv, Copying, GoneBy, Over

\* A pass is over: it starts again, or it is the last one.
LEMMA EndPassKeeps ==
  ASSUME IInv, EndPass PROVE IInv'
<1>1. /\ pc = "scan" /\ block = N + 1 /\ code' = code /\ orig' = orig /\ succ' = succ
      /\ cursor' = cursor
  BY Zenon DEF EndPass
<1>2. \/ changed /\ block' = 1 /\ changed' = FALSE /\ pc' = pc
      \/ ~changed /\ pc' = "done" /\ block' = block /\ changed' = changed
  BY Zenon DEF EndPass
<1>3. pc # "copy" /\ pc' # "copy" /\ (pc' = "done" => ~changed)
  BY <1>1, <1>2
<1>4. N \in Nat /\ 1 \in 1..(N + 1)
  BY NAssumption
<1>5. TypeOK'
  BY <1>1, <1>2, <1>4, Zenon DEF IInv, TypeOK
<1>6. GoneBy'
  <2>1. CASE block' = 1
    BY <1>4, <2>1 DEF GoneBy, Blocks
  <2>2. CASE ~changed /\ block' = block /\ changed' = changed
    BY <1>1, <1>3, <2>2, Zenon DEF IInv, GoneBy
  <2> QED
    BY <1>2, <2>1, <2>2
<1>7. Over'
  BY <1>1, <1>2, <1>3, Zenon DEF Over
<1>8. Keeping'
  <2>1. Ahead' = Ahead
    BY <1>1, <1>3, Zenon DEF Ahead
  <2> QED
    BY <1>1, <1>3, <2>1, Zenon DEF IInv, Keeping
<1> QED
  BY <1>3, <1>5, <1>6, <1>7, <1>8, Zenon DEF IInv, Copying

\* The invariant holds throughout the pass.
THEOREM Invariance == Spec => []IInv
<1>1. Init => IInv
  BY InitInvariant
<1>2. IInv /\ [Next]_vars => IInv'
  <2>1. ASSUME IInv, UNCHANGED vars PROVE IInv'
    BY <2>1, Zenon DEF vars, IInv, TypeOK, Copying, GoneBy, Over, Keeping, Ahead
  <2> QED
    BY <2>1, NextBlockKeeps, DropGotoKeeps, CopyInsnKeeps, EndCopyKeeps, EndPassKeeps DEF Next
<1> QED
  BY <1>1, <1>2, PTL DEF Spec

\* Blocks hold instructions, and the pass looks at blocks of the function.
THEOREM TypeCorrect == Spec => []TypeOK
<1>1. IInv => TypeOK
  BY DEF IInv
<1> QED
  BY <1>1, Invariance, PTL

\* Once preopt_merge_goto_goto is done, no goto leads to a goto or a ret.
THEOREM LeavesNone == Spec => []Merged
<1>1. ASSUME IInv PROVE Merged
  <2>1. SUFFICES ASSUME pc = "done", NEW b \in Blocks, NEW t \in Blocks,
                        Leads(code, b), TailOf(code, b).to = t, code[t] # <<>>
                 PROVE  TailOf(code, t).op \in {"jcnd", "other"}
    BY DEF Merged
  <2>2. ~changed /\ block = N + 1 /\ pc # "copy"
    <3>1. pc # "copy"
      BY <2>1
    <3> QED
      BY <1>1, <2>1, <3>1, Zenon DEF IInv, Over
  <2>3. b < block
    BY <2>2, NAssumption DEF Blocks
  <2>4. ~Mergeable(code, b)
    BY <1>1, <2>2, <2>3, Zenon DEF IInv, GoneBy
  <2>5. TailOf(code, t).op \notin {"goto", "ret"}
    BY <2>1, <2>4 DEF Mergeable
  <2>6. TailOf(code, t) \in Insns
    <3>1. code[t] \in Seq(Insns)
      BY <1>1 DEF IInv, TypeOK
    <3> QED
      BY <2>1, <3>1 DEF TailOf
  <2> QED
    BY <2>5, <2>6 DEF Insns
<1> QED
  BY <1>1, Invariance, PTL

\* prepostprocess_run keeps what a function without a cycle of gotos means.
THEOREM KeepsMeaning == Spec => []MeaningKept
<1>1. ASSUME IInv PROVE MeaningKept
  <2>1. SUFFICES ASSUME ~Cyclic(orig), pc # "copy" PROVE Meaning(code) = Meaning(orig)
    BY DEF MeaningKept
  <2>2. Ahead = code
    BY <2>1, Zenon DEF Ahead
  <2> QED
    BY <1>1, <2>1, <2>2, Zenon DEF IInv, Keeping
<1> QED
  BY <1>1, Invariance, PTL

-----------------------------------------------------------------------------
(* Loops.                                                                    *)

\* A set of blocks whose gotos go round among them, no two to the same block,
\* with something to do on the way.
Round(c, S) ==
  /\ S \subseteq Blocks
  /\ \A b \in S : Leads(c, b) /\ TailOf(c, b).to \in S
  /\ \A b, d \in S : TailOf(c, b).to = TailOf(c, d).to => b = d
  /\ \E b \in S : Len(c[b]) > 1

\* A loop that works is such a set: the blocks on the way round to b.
LEMMA LoopIsRound ==
  ASSUME NEW c \in Codes, WorkingLoop(c)
  PROVE  \E S \in SUBSET Blocks : Round(c, S)
<1>1. PICK b \in Blocks : OnCycle(c, b) /\ Len(c[b]) > 1
  BY DEF WorkingLoop
<1> DEFINE at == Follow(c, b)
           T == {n \in 1..N : at[n] = b}
<1>2. N \in Nat \ {0} /\ Follows(c, b, at)
  BY NAssumption, FollowIs
<1>3. PICK k \in T : \A n \in T : k <= n
  <2>1. T # {} /\ T \in SUBSET Nat
    BY <1>1 DEF OnCycle
  <2> HIDE DEF T
  <2> QED
    BY <2>1, FirstOf
<1> HIDE DEF at
<1>4. k \in 1..N /\ at[k] = b /\ b # 0 /\ \A n \in 1..N : at[n] = b => k <= n
  BY <1>3 DEF Blocks
<1> HIDE DEF T
<1>5. at \in [0..N -> 0..N] /\ at[0] = b
  BY <1>2 DEF Follows
<1>6. \A n \in 0..k : at[n] \in Blocks
  <2>1. ASSUME NEW n \in 0..k, at[n] = 0 PROVE FALSE
    <3>1. n \in 0..N /\ k \in 0..N /\ n <= k
      BY <1>2, <1>4
    <3>2. at[k] = 0
      BY <1>2, <2>1, <3>1, FollowEnds
    <3> QED
      BY <1>4, <3>2
  <2>2. \A n \in 0..k : at[n] \in 0..N
    BY <1>2, <1>4, <1>5
  <2> QED
    BY <1>2, <2>1, <2>2 DEF Blocks
<1>7. \A n \in 0..(k - 1) : Leads(c, at[n]) /\ TailOf(c, at[n]).to = at[n + 1]
  <2> TAKE n \in 0..(k - 1)
  <2>1. n \in 0..(N - 1) /\ n \in 0..k /\ n + 1 \in 0..k
    BY <1>2, <1>4
  <2>2. at[n + 1] = After(c)[at[n]] /\ at[n + 1] # 0 /\ at[n] # 0 /\ at[n] \in 0..N
    <3>1. at[n + 1] = After(c)[at[n]]
      BY <1>2, <2>1 DEF Follows
    <3>2. at[n] \in Blocks /\ at[n + 1] \in Blocks
      BY <1>6, <2>1
    <3> QED
      BY <1>2, <3>1, <3>2 DEF Blocks
  <2> QED
    BY <2>2 DEF After
<1>8. ASSUME NEW i \in 1..k, NEW j \in 1..k, i < j, at[i] = at[j] PROVE FALSE
  <2> DEFINE on == Follow(c, at[i])
             n == k - j
  <2>1. i \in 0..k /\ i \in 0..N /\ j \in 0..N
    BY <1>2, <1>4
  <2>2. Follows(c, at[i], on) /\ Follows(c, at[j], on)
    BY <1>6, <1>8, <2>1, FollowIs
  <2> HIDE DEF on, n
  <2>3. n \in 0..N /\ i + n \in 0..N /\ j + n = k /\ i + n \in 1..N /\ ~(k <= i + n) /\ k \in 0..N
    BY <1>2, <1>4, <1>8 DEF n
  <2>4. on[n] = at[i + n] /\ on[n] = at[j + n]
    BY <1>2, <2>1, <2>2, <2>3, FollowShifts
  <2> QED
    BY <1>4, <2>3, <2>4
<1> DEFINE S == {at[n] : n \in 0..(k - 1)}
<1>9. S \in SUBSET Blocks
  <2>1. \A n \in 0..(k - 1) : n \in 0..k
    BY <1>2, <1>4
  <2> QED
    BY <1>6, <2>1
<1>10. \A x \in S : Leads(c, x) /\ TailOf(c, x).to \in S
  <2>1. \A n \in 0..(k - 1) : at[n + 1] \in S
    <3> TAKE n \in 0..(k - 1)
    <3>1. CASE n + 1 = k
      <4>1. 0 \in 0..(k - 1)
        BY <1>4
      <4> QED
        BY <1>4, <1>5, <3>1, <4>1
    <3>2. CASE n + 1 # k
      <4>1. n + 1 \in 0..(k - 1)
        BY <1>4, <3>2
      <4> QED
        BY <4>1
    <3> QED
      BY <3>1, <3>2
  <2> QED
    BY <1>7, <2>1
<1>11. \A x, y \in S : TailOf(c, x).to = TailOf(c, y).to => x = y
  <2>1. ASSUME NEW i \in 0..(k - 1), NEW j \in 0..(k - 1), at[i + 1] = at[j + 1]
        PROVE  at[i] = at[j]
    <3>1. i + 1 \in 1..k /\ j + 1 \in 1..k
      BY <1>4
    <3>2. ~(i + 1 < j + 1) /\ ~(j + 1 < i + 1)
      BY <1>8, <2>1, <3>1
    <3>3. i = j
      BY <1>4, <3>2
    <3> QED
      BY <3>3
  <2> QED
    BY <1>7, <2>1
<1>12. b \in S
  <2>1. 0 \in 0..(k - 1)
    BY <1>4
  <2> QED
    BY <1>5, <2>1
<1> HIDE DEF S
<1> QED
  BY <1>1, <1>9, <1>10, <1>11, <1>12 DEF Round

\* A merge to another block cuts at most that block out of a loop.
LEMMA MergeKeepsRound ==
  ASSUME NEW c \in Codes, NEW S \in SUBSET Blocks, Round(c, S),
         NEW b \in Blocks, Mergeable(c, b), TailOf(c, b).to # b
  PROVE  \E R \in SUBSET Blocks : Round(MergedAt(c, b), R)
<1> DEFINE t == TailOf(c, b).to
           d == MergedAt(c, b)
<1>1. /\ t \in Blocks /\ d \in Codes
      /\ \A x \in Blocks \ {b} : d[x] = c[x]
      /\ d[b] # <<>> /\ d[b] = Front(c[b]) \o c[t]
      /\ TailOf(d, b) = TailOf(c, t)
  BY MergedIs
<1>2. t # b /\ Leads(c, b)
  BY DEF Mergeable
<1> HIDE DEF d, t
<1>3. \A x \in Blocks \ {b} : (Leads(d, x) <=> Leads(c, x)) /\ TailOf(d, x) = TailOf(c, x)
  BY <1>1 DEF Leads, TailOf
<1>4. /\ \A x \in S : x \in Blocks /\ Leads(c, x) /\ TailOf(c, x).to \in S
      /\ \A x, y \in S : TailOf(c, x).to = TailOf(c, y).to => x = y
  BY DEF Round
<1>5. PICK w \in S : Len(c[w]) > 1
  BY DEF Round
<1>6. CASE b \notin S
  <2>1. \A x \in S : d[x] = c[x] /\ Leads(d, x) /\ TailOf(d, x) = TailOf(c, x)
    BY <1>1, <1>3, <1>4, <1>6
  <2>2. Round(d, S)
    BY <1>4, <1>5, <2>1 DEF Round
  <2> QED
    BY <2>2 DEF d
<1>7. CASE b \in S
  <2> DEFINE R == S \ {t}
             u == TailOf(c, t).to
  <2>1. t \in S /\ u \in S /\ Leads(c, t) /\ u # t
    <3>1. t \in S /\ TailOf(c, b).to = t
      BY <1>4, <1>7 DEF t
    <3>2. u \in S /\ Leads(c, t)
      BY <1>4, <3>1
    <3>3. u # t
      BY <1>2, <1>4, <1>7, <3>1
    <3> QED
      BY <3>1, <3>2, <3>3
  <2>2. Leads(d, b) /\ TailOf(d, b).to = u
    BY <1>1, <2>1 DEF Leads
  <2> HIDE DEF u
  <2>3. \A x \in R : x # b => d[x] = c[x] /\ Leads(d, x) /\ TailOf(d, x) = TailOf(c, x)
    BY <1>1, <1>3, <1>4
  <2>4. ASSUME NEW x \in R PROVE Leads(d, x) /\ TailOf(d, x).to \in R
    <3>1. CASE x = b
      BY <2>1, <2>2, <3>1
    <3>2. CASE x # b
      <4>1. TailOf(c, x).to \in S /\ TailOf(c, x).to # t
        BY <1>4, <1>7, <3>2 DEF t
      <4> QED
        BY <2>3, <3>2, <4>1
    <3> QED
      BY <3>1, <3>2
  <2>5. ASSUME NEW x \in R, NEW y \in R, TailOf(d, x).to = TailOf(d, y).to PROVE x = y
    <3>1. \A z \in R : z # b => TailOf(d, z).to # u
      BY <1>4, <2>1, <2>3 DEF u
    <3>2. CASE x = b \/ y = b
      BY <2>2, <2>5, <3>1, <3>2
    <3>3. CASE x # b /\ y # b
      BY <1>4, <2>3, <2>5, <3>3
    <3> QED
      BY <3>2, <3>3
  <2>6. \E x \in R : Len(d[x]) > 1
    <3>1. CASE w \notin {b, t}
      BY <1>5, <2>3, <3>1
    <3>2. CASE w \in {b, t}
      <4>1. /\ c[b] \in Seq(Insns) /\ c[t] \in Seq(Insns)
            /\ Len(c[b]) \in Nat \ {0} /\ Len(c[t]) \in Nat \ {0}
        BY <1>1, <1>2, <2>1, LeadsTo DEF Codes
      <4>2. Front(c[b]) \in Seq(Insns) /\ Len(Front(c[b])) = Len(c[b]) - 1
        BY <4>1 DEF Front
      <4>3. Len(d[b]) = (Len(c[b]) - 1) + Len(c[t])
        <5> DEFINE f == Front(c[b])
                   g == c[t]
        <5> HIDE DEF f, g
        <5>1. Len(f \o g) = Len(f) + Len(g)
          <6>1. f \in Seq(Insns) /\ g \in Seq(Insns)
            BY <4>1, <4>2 DEF f, g
          <6> QED
            BY <6>1, JoinedIs
        <5> QED
          BY <1>1, <4>2, <5>1 DEF f, g
      <4>4. Len(d[b]) > 1
        <5>1. Len(c[b]) > 1 \/ Len(c[t]) > 1
          BY <1>5, <3>2
        <5> DEFINE m == Len(c[b])
                   n == Len(c[t])
        <5>2. m \in Nat \ {0} /\ n \in Nat \ {0} /\ (m > 1 \/ n > 1)
          BY <4>1, <5>1
        <5> HIDE DEF m, n
        <5>3. (m - 1) + n > 1
          BY <5>2
        <5> QED
          BY <4>3, <5>3 DEF m, n
      <4> QED
        BY <1>2, <1>7, <4>4
    <3> QED
      BY <3>1, <3>2
  <2> HIDE DEF R
  <2>7. R \in SUBSET Blocks
    BY DEF R
  <2>8. Round(d, R)
    BY <2>4, <2>5, <2>6, <2>7 DEF Round
  <2> QED
    BY <2>7, <2>8 DEF d
<1> QED
  BY <1>6, <1>7

\* The copy runs after the end of the list it appends to.
Chasing == pc = "copy" /\ succ = block /\ cursor <= Len(code[block])

\* A function with a loop that works still has one, or the pass is caught in it.
Looping == WorkingLoop(orig) => Chasing \/ \E S \in SUBSET Blocks : Round(Ahead, S)

\* Dropping the goto of a block to itself: either the rest of the block is
\* chased, or there is no rest, and no block of the loop went through it.
LEMMA DropKeepsLoop ==
  ASSUME IInv, Looping, DropGoto PROVE Looping'
<1> DEFINE t == TailOf(code, block).to
<1>1. /\ block \in Blocks /\ Mergeable(code, block) /\ pc = "scan"
      /\ succ' = t /\ code' = [code EXCEPT ![block] = Front(code[block])]
      /\ pc' = "copy" /\ cursor' = 1 /\ block' = block /\ orig' = orig
  <2>1. DropGoto
    OBVIOUS
  <2> QED
    BY <2>1, Zenon DEF DropGoto, Front
<1>2. code \in Codes
  BY DEF IInv, TypeOK, Codes
<1>3. pc # "copy"
  BY <1>1
<1>4. SUFFICES ASSUME WorkingLoop(orig)
               PROVE  Chasing' \/ \E R \in SUBSET Blocks : Round(Ahead', R)
  BY <1>1, Zenon DEF Looping
<1>5. PICK S \in SUBSET Blocks : Round(code, S)
  BY <1>3, <1>4, Zenon DEF Looping, Chasing, Ahead
<1>6. CASE t # block
  BY <1>1, <1>2, <1>5, <1>6, DropAhead, MergeKeepsRound DEF IInv
<1>7. CASE t = block
  <2>1. Leads(code, block) /\ code[block] \in Seq(Insns) /\ Len(code[block]) \in Nat \ {0}
    <3>1. Leads(code, block)
      BY <1>1 DEF Mergeable
    <3> QED
      BY <1>1, <1>2, <3>1, LeadsTo DEF Codes
  <2>2. code'[block] = Front(code[block])
    BY <1>1, <1>2 DEF Codes
  <2>3. Front(code[block]) \in Seq(Insns) /\ Len(Front(code[block])) = Len(code[block]) - 1
    BY <2>1 DEF Front
  <2>4. CASE Len(code[block]) > 1
    <3>1. 1 <= Len(code'[block])
      BY <2>1, <2>2, <2>3, <2>4
    <3> QED
      BY <1>1, <1>7, <3>1 DEF Chasing
  <2>5. CASE Len(code[block]) = 1
    <3>1. code'[block] = <<>>
      BY <2>2, <2>3, <2>5
    <3>2. Ahead' = code'
      <4>1. Ahead' = [code' EXCEPT ![block] = code'[block] \o SubSeq(code'[block], 1, Len(code'[block]))]
        BY <1>1, <1>7, Zenon DEF Ahead
      <4>2. code'[block] \o SubSeq(code'[block], 1, Len(code'[block])) = code'[block]
        BY <3>1
      <4>3. code' \in [Blocks -> Seq(Insns)]
        BY <1>1, <1>2, <2>3 DEF Codes
      <4>4. Ahead' = [code' EXCEPT ![block] = code'[block]]
        BY <4>1, <4>2, Zenon
      <4> QED
        BY <4>3, <4>4
    <3>3. \A x \in Blocks \ {block} : code'[x] = code[x]
      BY <1>1, <1>2 DEF Codes
    <3>4. \A x \in Blocks \ {block} :
            (Leads(code', x) <=> Leads(code, x)) /\ TailOf(code', x) = TailOf(code, x)
      BY <3>3 DEF Leads, TailOf
    <3> DEFINE R == S \ {block}
    <3>5. /\ \A x \in S : x \in Blocks /\ Leads(code, x) /\ TailOf(code, x).to \in S
          /\ \A x, y \in S : TailOf(code, x).to = TailOf(code, y).to => x = y
      BY <1>5 DEF Round
    <3>6. PICK w \in S : Len(code[w]) > 1
      BY <1>5 DEF Round
    <3>7. w \in R /\ Len(code'[w]) > 1
      <4>1. w # block
        <5>1. SUFFICES ASSUME w = block PROVE FALSE
          OBVIOUS
        <5>2. 1 > 1
          BY <2>5, <3>6, <5>1, Zenon
        <5> QED
          BY <5>2
      <4>2. code'[w] = code[w]
        BY <3>3, <3>5, <4>1
      <4> QED
        BY <3>6, <4>1, <4>2
    <3>8. \A x \in R : TailOf(code, x).to # block
      <4>1. block \in S \/ block \notin S
        OBVIOUS
      <4> QED
        BY <1>7, <3>5, <4>1
    <3>9. \A x \in R : x \in Blocks \ {block} /\ Leads(code, x) /\ TailOf(code, x).to \in R
      BY <3>5, <3>8
    <3>10. \A x \in R : Leads(code', x) /\ TailOf(code', x) = TailOf(code, x)
      BY <3>4, <3>9
    <3>11. \A x, y \in R : TailOf(code', x).to = TailOf(code', y).to => x = y
      BY <3>5, <3>10
    <3> HIDE DEF R
    <3>12. R \in SUBSET Blocks
      BY DEF R
    <3>13. Round(code', R)
      BY <3>7, <3>9, <3>10, <3>11, <3>12 DEF Round
    <3> QED
      BY <3>2, <3>12, <3>13
  <2>6. Len(code[block]) > 1 \/ Len(code[block]) = 1
    <3> DEFINE n == Len(code[block])
    <3>1. n \in Nat \ {0}
      BY <2>1
    <3> HIDE DEF n
    <3>2. n > 1 \/ n = 1
      BY <3>1
    <3> QED
      BY <3>2 DEF n
  <2> QED
    BY <2>4, <2>5, <2>6
<1> QED
  BY <1>6, <1>7

\* Copying keeps the loop, or goes on chasing: each copy makes the list longer.
LEMMA CopyKeepsLoop ==
  ASSUME IInv, Looping, CopyInsn PROVE Looping'
<1>1. /\ pc = "copy" /\ cursor <= Len(code[succ])
      /\ code' = [code EXCEPT ![block] = Append(code[block], code[succ][cursor])]
      /\ cursor' = cursor + 1 /\ orig' = orig /\ pc' = pc /\ block' = block /\ succ' = succ
  <2>1. CopyInsn
    OBVIOUS
  <2> QED
    BY <2>1, Zenon DEF CopyInsn
<1>2. TypeOK /\ Copying
  BY DEF IInv
<1>3. CASE succ # block
  <2>1. Ahead' = Ahead
    BY <1>2, <1>3, CopyAhead
  <2>2. ~Chasing
    BY <1>3 DEF Chasing
  <2> QED
    BY <1>1, <2>1, <2>2, Zenon DEF Looping
<1>4. CASE succ = block
  <2>1. code \in Codes /\ cursor \in Nat /\ block \in Blocks /\ code[block] \in Seq(Insns)
    <3>1. block \in Blocks
      BY <1>1, <1>2, Zenon DEF Copying
    <3> QED
      BY <1>2, <3>1 DEF TypeOK, Codes
  <2>2. code[succ][cursor] \in Insns
    <3>1. cursor \in 1..Len(code[block])
      BY <1>1, <1>2, <1>4, <2>1 DEF Copying
    <3> QED
      BY <1>4, <2>1, <3>1
  <2>3. code'[block] = Append(code[block], code[succ][cursor])
    BY <1>1, <2>1 DEF Codes
  <2>4. Len(code'[block]) = Len(code[block]) + 1
    BY <2>1, <2>2, <2>3
  <2>5. cursor + 1 <= Len(code'[block])
    BY <1>1, <1>4, <2>1, <2>4
  <2>6. Chasing'
    BY <1>1, <1>4, <2>5 DEF Chasing
  <2> QED
    BY <2>6 DEF Looping
<1> QED
  BY <1>3, <1>4

\* A pass that has come to its end left no loop that works.
THEOREM NoReturn == Spec => []NoWayBack
<1>1. Init => Looping
  <2> SUFFICES ASSUME Init, WorkingLoop(orig) PROVE \E S \in SUBSET Blocks : Round(Ahead, S)
    BY DEF Looping
  <2>1. code \in Codes /\ orig = code /\ pc # "copy"
    <3>1. pc # "copy"
      BY DEF Init
    <3>2. orig = code
      BY DEF Init
    <3>3. code \in Codes
      BY InitInvariant DEF IInv, TypeOK, Codes
    <3> QED
      BY <3>1, <3>2, <3>3
  <2>2. Ahead = code
    BY <2>1, Zenon DEF Ahead
  <2> QED
    BY <2>1, <2>2, LoopIsRound
<1>2. IInv /\ Looping /\ [Next]_vars => Looping'
  <2> SUFFICES ASSUME IInv, Looping, [Next]_vars PROVE Looping'
    OBVIOUS
  <2>1. CASE NextBlock
    <3>1. pc = "scan" /\ code' = code /\ orig' = orig /\ pc' = pc
      BY <2>1, Zenon DEF NextBlock
    <3>2. pc # "copy"
      BY <3>1
    <3> QED
      BY <3>1, <3>2, Zenon DEF Looping, Chasing, Ahead
  <2>2. CASE EndCopy
    <3>1. Ahead' = Ahead /\ orig' = orig
      <4>1. orig' = orig
        BY <2>2, Zenon DEF EndCopy
      <4> QED
        BY <2>2, <4>1, EndAhead DEF IInv
    <3>2. ~Chasing
      <4>1. pc = "copy" /\ cursor > Len(code[succ])
        BY <2>2, Zenon DEF EndCopy
      <4>2. block \in Blocks /\ cursor \in Nat /\ code \in Codes
        <5>1. block \in Blocks
          BY <4>1, Zenon DEF IInv, Copying
        <5> QED
          BY <5>1 DEF IInv, TypeOK, Codes
      <4>3. Len(code[block]) \in Nat
        BY <4>2 DEF Codes
      <4>4. succ = block => ~(cursor <= Len(code[block]))
        BY <4>1, <4>2, <4>3
      <4> QED
        BY <4>4, Zenon DEF Chasing
    <3> QED
      BY <3>1, <3>2, Zenon DEF Looping
  <2>3. CASE EndPass
    <3>1. pc = "scan" /\ code' = code /\ orig' = orig /\ pc' \in {"scan", "done"}
      BY <2>3 DEF EndPass
    <3>2. pc # "copy" /\ pc' # "copy"
      BY <3>1
    <3> QED
      BY <3>1, <3>2, Zenon DEF Looping, Chasing, Ahead
  <2>4. CASE UNCHANGED vars
    BY <2>4, Zenon DEF vars, Looping, Chasing, Ahead
  <2> QED
    BY <2>1, <2>2, <2>3, <2>4, DropKeepsLoop, CopyKeepsLoop DEF Next
<1>3. ASSUME IInv, Looping PROVE NoWayBack
  <2>1. SUFFICES ASSUME pc = "done", WorkingLoop(orig) PROVE FALSE
    BY DEF NoWayBack
  <2>2. pc # "copy"
    BY <2>1
  <2>3. PICK S \in SUBSET Blocks : Round(code, S)
    BY <1>3, <2>1, <2>2, Zenon DEF Looping, Chasing, Ahead
  <2>4. PICK b \in S : Len(code[b]) > 1
    BY <2>3 DEF Round
  <2> DEFINE t == TailOf(code, b).to
  <2>5. Leads(code, b) /\ t \in S /\ Leads(code, t)
    BY <2>3 DEF Round
  <2>6. Mergeable(code, b)
    BY <2>5 DEF Mergeable, Leads
  <2>7. b < block
    <3>1. block = N + 1
      BY <1>3, <2>1, Zenon DEF IInv, Over
    <3> QED
      BY <2>3, <3>1, NAssumption DEF Blocks
  <2> QED
    BY <1>3, <2>1, <2>2, <2>3, <2>6, <2>7, Zenon DEF IInv, GoneBy, Over
<1> QED
  BY <1>1, <1>2, <1>3, Invariance, PTL DEF Spec
=============================================================================
