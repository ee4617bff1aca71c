------------------------- MODULE LiveNetworkProofs -------------------------
(***************************************************************************)
(* Theorems about LiveNetwork, for every register and every number of      *)
(* assets, cables, files, sessions and edits.                              *)
(***************************************************************************)
EXTENDS LiveNetwork, Outages, FiniteSetTheorems, TLAPS

Nets == [Assets -> Asset]
Wires == [Cables -> [state : {"unused", "live", "gone"}, from : Ends, to : Ends]]
Registers == {r \in Seq(Row) : Len(r) <= MaxReg}

OnTheMap(r, n) == \A i \in DOMAIN r : n[i].state = "live" => r[i].active

LEMMA RegisterIsMirrored ==
  ASSUME NEW r \in Registers
  PROVE  /\ DOMAIN r = 1..Len(r) /\ Len(r) \in Nat /\ DOMAIN r \subseteq Mirrors
         /\ \A i \in DOMAIN r : i \in Assets /\ r[i] \in Row
BY MirrorAssumption DEF Registers, Mirrors, Assets

LEMMA NoneIsNoAsset == None \notin Assets /\ Mirrors \subseteq Assets /\ Hands \subseteq Assets
BY MirrorAssumption DEF Assets, Mirrors

---------------------------------------------------------------------------
(* What is reached in a number of steps, counted with a function over the numbers:   *)
(* that the function exists is proved by induction, and induction from the smallest  *)
(* of the intervals below a number.                                                  *)

(* The least number of a set: the smallest of the intervals up to its numbers. *)
LEMMA LeastNumber ==
  ASSUME NEW T \in SUBSET Nat, T # {}
  PROVE  \E n \in T : \A m \in T : n <= m
<1>1. PICK t \in T : TRUE
  OBVIOUS
<1> DEFINE D == {0..m : m \in {m \in T : m <= t}}
<1>2. IsFiniteSet(0..t) /\ D # {} /\ \A U \in D : U \subseteq 0..t
  <2>1. t \in Nat /\ 0 \in Int /\ t \in Int
    BY <1>1
  <2>2. IsFiniteSet(0..t)
    BY <2>1, FS_Interval
  <2>3. 0..t \in D
    BY <1>1
  <2>4. \A U \in D : U \subseteq 0..t
    BY <2>1
  <2> QED  BY <2>2, <2>3, <2>4
<1>3. D \subseteq FiniteSubsetsOf(0..t)
  <2> HIDE DEF D
  <2>1. \A U \in SUBSET (0..t) : IsFiniteSet(U)
    BY <1>2, FS_Subset
  <2> QED  BY <1>2, <2>1 DEF FiniteSubsetsOf
<1>4. PICK U \in D : \A V \in D : <<V, U>> \notin StrictSubsetOrdering(0..t)
  <2> HIDE DEF D
  <2> QED  BY <1>2, <1>3, FS_StrictSubsetOrderingWellFounded, WFMin
<1>5. PICK n \in T : n <= t /\ U = 0..n
  BY <1>4
<1>6. ASSUME NEW m \in T PROVE n <= m
  <2> SUFFICES ASSUME m < n PROVE FALSE
    BY <1>5
  <2>1. m <= t /\ 0..m \in D /\ 0..m \subseteq 0..n /\ n \notin 0..m /\ n \in 0..n
    BY <1>1, <1>5
  <2>2. <<0..m, U>> \in StrictSubsetOrdering(0..t)
    <3>1. 0..m \in SUBSET (0..t) /\ U \in SUBSET (0..t) /\ 0..m \subseteq U /\ 0..m # U
      BY <1>2, <1>5, <2>1
    <3> QED  BY <3>1 DEF StrictSubsetOrdering
  <2> QED  BY <1>4, <2>1, <2>2
<1> QED  BY <1>6

(* Induction, with the numbers the hypothesis holds of as a set. *)
LEMMA NumberInduction ==
  ASSUME NEW T, 0 \in T, \A k \in Nat : k \in T => k + 1 \in T
  PROVE  Nat \subseteq T
<1> SUFFICES ASSUME Nat \ T # {} PROVE FALSE
  OBVIOUS
<1>1. PICK n \in Nat \ T : \A m \in Nat \ T : n <= m
  BY LeastNumber
<1>2. n # 0 /\ n - 1 \in Nat /\ (n - 1) + 1 = n /\ ~ (n <= n - 1)
  OBVIOUS
<1> QED  BY <1>1, <1>2

(* Levels(E, S, f, n): f holds the first n steps out of S. *)
Levels(E, S, f, n) ==
  f = [k \in 0..n |-> IF k = 0 THEN S ELSE Beyond(E, f[k - 1])]

LEMMA LevelsExist ==
  ASSUME NEW E, NEW S, NEW n \in Nat
  PROVE  \E f : Levels(E, S, f, n)
<1> DEFINE T == {k \in Nat : \E f : Levels(E, S, f, k)}
<1>1. 0 \in T
  <2>1. Levels(E, S, [k \in 0..0 |-> S], 0)
    BY DEF Levels
  <2> QED  BY <2>1
<1>2. ASSUME NEW k \in Nat, k \in T PROVE k + 1 \in T
  <2>1. PICK f : Levels(E, S, f, k)
    BY <1>2
  <2> DEFINE g == [j \in 0..(k + 1) |-> IF j = k + 1 THEN Beyond(E, f[k]) ELSE f[j]]
             h == [j \in 0..(k + 1) |-> IF j = 0 THEN S ELSE Beyond(E, g[j - 1])]
  <2>2. ASSUME NEW j \in 0..(k + 1) PROVE g[j] = h[j]
    <3>1. CASE j = k + 1
      <4>1. g[j] = Beyond(E, f[k]) /\ h[j] = Beyond(E, g[j - 1]) /\ g[j - 1] = f[k]
        BY <3>1
      <4> QED  BY <4>1
    <3>2. CASE j # k + 1 /\ j = 0
      BY <2>1, <3>2 DEF Levels
    <3>3. CASE j # k + 1 /\ j # 0
      <4>1. j \in 0..k /\ j - 1 \in 0..k /\ j - 1 # k + 1
        BY <3>3
      <4>2. f[j] = Beyond(E, f[j - 1])
        BY <2>1, <3>3, <4>1 DEF Levels
      <4> QED  BY <3>3, <4>1, <4>2
    <3> QED  BY <3>1, <3>2, <3>3
  <2>3. g = h
    BY <2>2
  <2>4. Levels(E, S, g, k + 1)
    BY <2>3 DEF Levels
  <2> QED  BY <2>4
<1> HIDE DEF T
<1>3. n \in T
  BY <1>1, <1>2, NumberInduction
<1> QED  BY <1>3 DEF T

LEMMA LevelsAgree ==
  ASSUME NEW E, NEW S, NEW m \in Nat, NEW n \in Nat, NEW f, NEW g,
         Levels(E, S, f, m), Levels(E, S, g, n)
  PROVE  \A k \in Nat : k <= m /\ k <= n => f[k] = g[k]
<1> DEFINE T == {k \in Nat : k <= m /\ k <= n => f[k] = g[k]}
<1>1. 0 \in T
  BY DEF Levels
<1>2. ASSUME NEW k \in Nat, k \in T PROVE k + 1 \in T
  <2> SUFFICES ASSUME k + 1 <= m, k + 1 <= n PROVE f[k + 1] = g[k + 1]
    OBVIOUS
  <2>1. k + 1 \in 0..m /\ k + 1 \in 0..n /\ k + 1 # 0 /\ (k + 1) - 1 = k /\ f[k] = g[k]
    BY <1>2
  <2>2. f[k + 1] = Beyond(E, f[k]) /\ g[k + 1] = Beyond(E, g[k])
    BY <2>1 DEF Levels
  <2> QED  BY <2>1, <2>2
<1> HIDE DEF T
<1>3. Nat \subseteq T
  BY <1>1, <1>2, NumberInduction
<1> QED  BY <1>3 DEF T

(* Reach is a step further with every number. *)
LEMMA ReachSteps ==
  ASSUME NEW E, NEW S
  PROVE  /\ Reach(E, S, 0) = S
         /\ \A n \in Nat : Reach(E, S, n + 1) = Beyond(E, Reach(E, S, n))
<1> DEFINE steps(k) == CHOOSE f : Levels(E, S, f, k)
           level == [k \in Nat |-> steps(k)[k]]
           next == [k \in Nat |-> IF k = 0 THEN S ELSE Beyond(E, level[k - 1])]
           rec[k \in Nat] == IF k = 0 THEN S ELSE Beyond(E, rec[k - 1])
<1>1. \A k \in Nat : Levels(E, S, steps(k), k)
  BY LevelsExist
<1>2. ASSUME NEW k \in Nat PROVE level[k] = next[k]
  <2>1. Levels(E, S, steps(k), k)
    BY <1>1
  <2>2. CASE k = 0
    BY <2>1, <2>2 DEF Levels
  <2>3. CASE k # 0
    <3>1. k - 1 \in Nat /\ k \in 0..k /\ k - 1 <= k
      BY <2>3
    <3>2. Levels(E, S, steps(k - 1), k - 1)
      BY <1>1, <3>1
    <3> HIDE DEF steps
    <3>3. steps(k)[k] = Beyond(E, steps(k)[k - 1])
      BY <2>1, <2>3, <3>1 DEF Levels
    <3>4. steps(k)[k - 1] = steps(k - 1)[k - 1]
      BY <2>1, <3>1, <3>2, LevelsAgree
    <3> QED  BY <2>3, <3>1, <3>3, <3>4
  <2> QED  BY <2>2, <2>3
<1>3. level = next
  <2> HIDE DEF steps
  <2> QED  BY <1>2
<1> HIDE DEF steps
<1>4. level = [k \in Nat |-> IF k = 0 THEN S ELSE Beyond(E, level[k - 1])]
  BY <1>3
<1> HIDE DEF level
<1>5. rec = [k \in Nat |-> IF k = 0 THEN S ELSE Beyond(E, rec[k - 1])]
  BY <1>4
<1>6. \A n \in Nat : Reach(E, S, n) = rec[n]
  BY DEF Reach
<1> HIDE DEF rec
<1>7. rec[0] = S
  BY <1>5
<1>8. ASSUME NEW n \in Nat PROVE rec[n + 1] = Beyond(E, rec[n])
  <2>1. n + 1 \in Nat /\ n + 1 # 0 /\ (n + 1) - 1 = n
    OBVIOUS
  <2> QED  BY <1>5, <2>1
<1> QED  BY <1>6, <1>7, <1>8

LEMMA ReachGrows ==
  ASSUME NEW E, NEW S, NEW n \in Nat
  PROVE  Reach(E, S, n) \subseteq Reach(E, S, n + 1) /\ S \subseteq Reach(E, S, n)
<1> DEFINE T == {k \in Nat : S \subseteq Reach(E, S, k)}
<1>1. ASSUME NEW k \in Nat PROVE Reach(E, S, k) \subseteq Reach(E, S, k + 1)
  <2>1. Reach(E, S, k) \subseteq Beyond(E, Reach(E, S, k))
    BY DEF Beyond
  <2> QED  BY <2>1, ReachSteps
<1>2. 0 \in T /\ \A k \in Nat : k \in T => k + 1 \in T
  <2>1. 0 \in T
    BY ReachSteps
  <2>2. ASSUME NEW k \in Nat, k \in T PROVE k + 1 \in T
    BY <1>1, <2>2
  <2> QED  BY <2>1, <2>2
<1> HIDE DEF T
<1>3. n \in T
  BY <1>2, NumberInduction
<1> QED  BY <1>1, <1>3 DEF T

LEMMA ReachOn ==
  ASSUME NEW E, NEW S, NEW n \in Nat, NEW e \in E, e[1] \in Reach(E, S, n)
  PROVE  e[2] \in Reach(E, S, n + 1)
<1>1. e[2] \in Beyond(E, Reach(E, S, n))
  BY DEF Beyond
<1> QED  BY <1>1, ReachSteps

LEMMA ReachLonger ==
  ASSUME NEW E, NEW S, NEW m \in Nat, NEW n \in Nat, m <= n
  PROVE  Reach(E, S, m) \subseteq Reach(E, S, n)
<1> DEFINE T == {k \in Nat : Reach(E, S, m) \subseteq Reach(E, S, m + k)}
<1>1. 0 \in T
  OBVIOUS
<1>2. ASSUME NEW k \in Nat, k \in T PROVE k + 1 \in T
  <2>1. Reach(E, S, m + k) \subseteq Reach(E, S, (m + k) + 1) /\ (m + k) + 1 = m + (k + 1)
    BY ReachGrows
  <2> QED  BY <1>2, <2>1
<1> HIDE DEF T
<1>3. n - m \in T /\ m + (n - m) = n
  BY <1>1, <1>2, NumberInduction
<1> QED  BY <1>3 DEF T

(* What a set that leads nowhere else holds, and what fewer pairs reach. *)
LEMMA ReachWithin ==
  ASSUME NEW E, NEW S, NEW D, S \subseteq D, \A e \in E : e[1] \in D => e[2] \in D, NEW n \in Nat
  PROVE  Reach(E, S, n) \subseteq D
<1> DEFINE T == {k \in Nat : Reach(E, S, k) \subseteq D}
<1>1. 0 \in T
  BY ReachSteps
<1>2. ASSUME NEW k \in Nat, k \in T PROVE k + 1 \in T
  <2>1. Beyond(E, Reach(E, S, k)) \subseteq D
    BY <1>2 DEF Beyond
  <2>2. Reach(E, S, k + 1) = Beyond(E, Reach(E, S, k))
    BY ReachSteps
  <2> QED  BY <2>1, <2>2
<1> HIDE DEF T
<1>3. n \in T
  BY <1>1, <1>2, NumberInduction
<1> QED  BY <1>3 DEF T

LEMMA ReachLess ==
  ASSUME NEW E, NEW S, NEW F, NEW R, NEW X, R \subseteq S \cup X,
         \A e \in F : e[1] \in S \cup {d[2] : d \in E} => e \in E \/ e[2] \in X,
         \A e \in F : e[1] \in X => e[2] \in X,
         NEW n \in Nat
  PROVE  Reach(F, R, n) \subseteq Reach(E, S, n) \cup X
<1> DEFINE T == {k \in Nat : Reach(F, R, k) \subseteq Reach(E, S, k) \cup X}
           heads == {d[2] : d \in E}
<1>1. 0 \in T
  BY ReachSteps
<1>2. ASSUME NEW k \in Nat, k \in T PROVE k + 1 \in T
  <2>1. Reach(E, S, k) \subseteq S \cup heads
    <3>1. S \subseteq S \cup heads /\ \A e \in E : e[1] \in S \cup heads => e[2] \in S \cup heads
      OBVIOUS
    <3> HIDE DEF heads
    <3> QED  BY <3>1, ReachWithin
  <2>2. ASSUME NEW y \in Reach(F, R, k + 1) PROVE y \in Reach(E, S, k + 1) \cup X
    <3>1. y \in Beyond(F, Reach(F, R, k))
      BY <2>2, ReachSteps
    <3>2. CASE y \in Reach(F, R, k)
      BY <1>2, <3>2, ReachGrows
    <3>3. CASE y \notin Reach(F, R, k)
      <4>1. PICK e \in F : e[1] \in Reach(F, R, k) /\ y = e[2]
        BY <3>1, <3>3 DEF Beyond
      <4>2. e[1] \in Reach(E, S, k) \cup X
        BY <1>2, <4>1
      <4>3. CASE e[1] \in X
        BY <4>1, <4>3
      <4>4. CASE e[1] \in Reach(E, S, k)
        <5>1. e \in E \/ e[2] \in X
          BY <2>1, <4>4
        <5> QED  BY <4>1, <4>4, <5>1, ReachOn
      <4> QED  BY <4>2, <4>3, <4>4
    <3> QED  BY <3>2, <3>3
  <2> QED  BY <2>2
<1> HIDE DEF T
<1>3. n \in T
  BY <1>1, <1>2, NumberInduction
<1> QED  BY <1>3 DEF T

(* As many steps as there is room for end, or stand still on the way. *)
LEMMA WalkEnds ==
  ASSUME NEW E, NEW p, NEW n \in Nat, NEW R, IsFiniteSet(R), Cardinality(R) <= n,
         Reach(E, {p}, n) \subseteq R
  PROVE  \E k \in 0..(n - 1) : Reach(E, {p}, k + 1) = Reach(E, {p}, k)
<1> DEFINE L(k) == Reach(E, {p}, k)
           Still(k) == \E j \in 0..(k - 1) : L(j + 1) = L(j)
           T == {k \in Nat : k <= n => Still(k) \/ Cardinality(L(k)) > k}
<1>0. \A k \in Nat : k <= n => L(k) \subseteq R /\ IsFiniteSet(L(k)) /\ Cardinality(L(k)) \in Nat
                              /\ Cardinality(L(k)) <= Cardinality(R)
  <2> SUFFICES ASSUME NEW k \in Nat, k <= n
               PROVE  /\ L(k) \subseteq R /\ IsFiniteSet(L(k)) /\ Cardinality(L(k)) \in Nat
                      /\ Cardinality(L(k)) <= Cardinality(R)
    OBVIOUS
  <2>1. L(k) \subseteq R
    BY ReachLonger
  <2> HIDE DEF L
  <2> QED  BY <2>1, FS_Subset, FS_CardinalityType
<1>1. 0 \in T
  <2>1. L(0) = {p}
    BY ReachSteps
  <2>2. Cardinality({p}) = 1
    BY FS_Singleton
  <2> HIDE DEF L
  <2> QED  BY <2>1, <2>2
<1>2. ASSUME NEW k \in Nat, k \in T PROVE k + 1 \in T
  <2> SUFFICES ASSUME k + 1 <= n, ~ Still(k + 1) PROVE Cardinality(L(k + 1)) > k + 1
    OBVIOUS
  <2>1. L(k) \subseteq L(k + 1)
    BY ReachGrows
  <2>2. L(k + 1) # L(k)
    <3>1. k \in 0..((k + 1) - 1)
      OBVIOUS
    <3> HIDE DEF L
    <3> QED  BY <3>1
  <2>3. ~ Still(k)
    <3>1. 0..(k - 1) \subseteq 0..((k + 1) - 1)
      OBVIOUS
    <3> HIDE DEF L
    <3> QED  BY <3>1
  <2> HIDE DEF Still, L
  <2>4. Cardinality(L(k)) > k
    BY <1>2, <2>3
  <2>5. IsFiniteSet(L(k + 1)) /\ Cardinality(L(k + 1)) \in Nat /\ Cardinality(L(k)) \in Nat
    BY <1>0
  <2>6. Cardinality(L(k)) < Cardinality(L(k + 1))
    BY <2>1, <2>2, <2>5, FS_Subset
  <2> QED  BY <2>4, <2>5, <2>6
<1> HIDE DEF T
<1>3. n \in T
  BY <1>1, <1>2, NumberInduction
<1>4. Still(n) \/ Cardinality(L(n)) > n
  BY <1>3 DEF T
<1>5. Cardinality(L(n)) \in Nat /\ Cardinality(L(n)) <= Cardinality(R) /\ Cardinality(R) \in Nat
  <2>1. n <= n
    OBVIOUS
  <2> HIDE DEF L
  <2> QED  BY <1>0, <2>1, FS_CardinalityType
<1>6. Still(n)
  <2> HIDE DEF Still, L
  <2> QED  BY <1>4, <1>5
<1> QED  BY <1>6

---------------------------------------------------------------------------
(* Containment *)

LEMMA Bounds == /\ MAX_CASCADE_DEPTH \in Nat /\ MAX_WALK \in Nat /\ MAX_DEPTH \in Nat /\ MaxEdits \in Nat
                /\ IsFiniteSet(Assets)
<1>1. IsFiniteSet(1..MaxReg) /\ IsFiniteSet(Hands)
  <2>1. MaxReg \in Int /\ 1 \in Int
    BY MirrorAssumption
  <2> QED  BY <2>1, FS_Interval, MirrorAssumption
<1>2. IsFiniteSet(Assets)
  BY <1>1, FS_Union DEF Assets, Mirrors
<1> QED  BY <1>2, FilesAssumption

(* A loop has a witness: a small set every asset of which is inside another of the set. *)
Loop(n, size, S) == S \in SUBSET Assets /\ S # {} /\ Cardinality(S) <= size /\ \A a \in S : n[a].within \in S

LEMMA NoLoop == ASSUME NEW n, NEW size PROVE Loopless(n, size) <=> \A S : ~ Loop(n, size, S)
BY DEF Loopless, Loop

(* What is known of the move in hand: its check still holds, if no other overtook it. *)
MoveOK(n, v) ==
  /\ ~v.raced => Loopless(n, MAX_WALK + 1)
  /\ v.asset # None => /\ n[v.asset].state # "unused"
                       /\ v.into # None => /\ n[v.into].state # "unused"
                                           /\ ~v.overtaken => v.asset \notin Above(n, v.into)

(* Nothing is further up in a net in which each asset is where it was, or out. *)
LEMMA AboveLess ==
  ASSUME NEW n \in Nets, NEW m \in Nets, NEW p \in Assets,
         \A x \in Assets : (x = p \/ \E y \in Assets : n[y].within = x)
                            => m[x].within \in {n[x].within, None}
  PROVE  Above(m, p) \subseteq Above(n, p)
<1> DEFINE E == Inside(n)
           F == Inside(m)
           heads == {d[2] : d \in E}
<1>1. \A x \in Assets : x \in {p} \cup heads => x = p \/ \E y \in Assets : n[y].within = x
  BY DEF Inside
<1>2. ASSUME NEW e \in F, e[1] \in {p} \cup heads PROVE e \in E
  <2>1. PICK x \in Assets : e = <<x, m[x].within>> /\ m[x].within # None
    BY DEF Inside
  <2>2. m[x].within = n[x].within
    BY <1>1, <1>2, <2>1
  <2> QED  BY <2>1, <2>2 DEF Inside
<1> HIDE DEF E, F
<1>3. Reach(F, {p}, MAX_WALK) \subseteq Reach(E, {p}, MAX_WALK) \cup {}
  BY <1>2, Bounds, ReachLess
<1> QED  BY <1>3 DEF Above, E, F

(* A write that moves no asset into another, and forgets none that was made. *)
LEMMA LessContained ==
  ASSUME NEW n \in Nets, NEW m \in Nets, NEW v \in Moves, ContainersExist(n), MoveOK(n, v),
         \A a \in Assets : /\ m[a].within \in {n[a].within, None}
                           /\ m[a].state = "unused" => n[a].state = "unused"
  PROVE  ContainersExist(m) /\ MoveOK(m, v)
<1>1. ContainersExist(m)
  <2> SUFFICES ASSUME NEW a \in Assets, m[a].within # None PROVE m[m[a].within].state # "unused"
    BY DEF ContainersExist
  <2>1. m[a].within = n[a].within /\ n[a].within \in Assets
    BY DEF Nets, Asset
  <2> QED  BY <2>1 DEF ContainersExist
<1>2. Loopless(n, MAX_WALK + 1) => Loopless(m, MAX_WALK + 1)
  <2> SUFFICES ASSUME NEW S, Loop(m, MAX_WALK + 1, S) PROVE Loop(n, MAX_WALK + 1, S)
    BY NoLoop
  <2>1. \A a \in S : n[a].within \in S
    BY NoneIsNoAsset DEF Loop
  <2> QED  BY <2>1 DEF Loop
<1>3. \A p \in Assets : Above(m, p) \subseteq Above(n, p)
  BY AboveLess
<1>4. v.asset \in Assets \cup {None} /\ v.into \in Assets \cup {None}
  BY DEF Moves, Ends
<1> QED  BY <1>1, <1>2, <1>3, <1>4 DEF MoveOK

(* An asset put into one it is not around closes no loop the walk could have seen:   *)
(* within such a loop the walk would have come to an end without leaving the loop.   *)
LEMMA MovedLoopless ==
  ASSUME NEW n \in Nets, NEW m \in Nets, Loopless(n, MAX_WALK + 1),
         NEW a \in Assets, NEW p \in Assets, a \notin Above(n, p), m[a].within = p,
         \A x \in Assets : x # a => m[x].within = n[x].within
  PROVE  Loopless(m, MAX_WALK + 1)
<1> SUFFICES ASSUME NEW S, Loop(m, MAX_WALK + 1, S) PROVE FALSE
  BY NoLoop
<1> DEFINE E == Inside(n)
           R == S \ {a}
<1>1. S \in SUBSET Assets /\ S # {} /\ Cardinality(S) <= MAX_WALK + 1 /\ \A x \in S : m[x].within \in S
  BY DEF Loop
<1>2. MAX_WALK \in Nat /\ IsFiniteSet(S)
  BY <1>1, Bounds, FS_Subset
<1>3. CASE a \notin S
  <2>1. Loop(n, MAX_WALK + 1, S)
    BY <1>1, <1>3 DEF Loop
  <2> QED  BY <2>1, NoLoop
<1>4. CASE a \in S
  <2>1. p \in S /\ IsFiniteSet(R) /\ Cardinality(R) <= MAX_WALK /\ Cardinality(R) \in Nat
    <3>1. IsFiniteSet(R) /\ Cardinality(R) = Cardinality(S) - 1 /\ Cardinality(S) \in Nat /\ Cardinality(R) \in Nat
      BY <1>2, <1>4, FS_RemoveElement, FS_CardinalityType
    <3> HIDE DEF R
    <3> QED  BY <1>1, <1>2, <1>4, <3>1
  <2>2. \A x \in R : n[x].within \in S /\ n[x].within # None
    BY <1>1, NoneIsNoAsset
  <2>3. \A k \in Nat : k <= MAX_WALK => a \notin Reach(E, {p}, k)
    BY <1>2, ReachLonger DEF Above
  <2>4. ASSUME NEW k \in Nat, Reach(E, {p}, k) \subseteq R PROVE Reach(E, {p}, k + 1) \subseteq S
    <3>1. Reach(E, {p}, k + 1) = Beyond(E, Reach(E, {p}, k))
      BY ReachSteps
    <3>2. \A e \in E : e[1] \in R => e[2] \in S
      BY <2>2 DEF Inside
    <3> HIDE DEF E
    <3> QED  BY <2>4, <3>1, <3>2 DEF Beyond
  <2> DEFINE T == {k \in Nat : k <= MAX_WALK => Reach(E, {p}, k) \subseteq R}
  <2>5. 0 \in T
    <3>1. Reach(E, {p}, 0) = {p} /\ a \notin Reach(E, {p}, 0)
      BY <1>2, <2>3, ReachSteps
    <3> HIDE DEF E
    <3> QED  BY <2>1, <3>1
  <2>6. ASSUME NEW k \in Nat, k \in T PROVE k + 1 \in T
    <3> SUFFICES ASSUME k + 1 <= MAX_WALK PROVE Reach(E, {p}, k + 1) \subseteq R
      OBVIOUS
    <3>1. k <= MAX_WALK
      BY <1>2
    <3>2. Reach(E, {p}, k) \subseteq R /\ k + 1 \in Nat
      BY <2>6, <3>1
    <3>3. Reach(E, {p}, k + 1) \subseteq S
      BY <2>4, <3>2
    <3>4. a \notin Reach(E, {p}, k + 1)
      BY <2>3, <3>2
    <3> QED  BY <3>3, <3>4
  <2> HIDE DEF T
  <2>7. \A k \in Nat : k \in T
    BY <2>5, <2>6, NumberInduction
  <2>8. \A k \in Nat : k <= MAX_WALK => Reach(E, {p}, k) \subseteq R
    BY <2>7 DEF T
  <2> HIDE DEF E, R
  <2>9. PICK k \in 0..(MAX_WALK - 1) : Reach(E, {p}, k + 1) = Reach(E, {p}, k)
    <3>1. MAX_WALK <= MAX_WALK /\ Reach(E, {p}, MAX_WALK) \subseteq R
      BY <1>2, <2>8
    <3>2. MAX_WALK \in Nat /\ IsFiniteSet(R) /\ Cardinality(R) <= MAX_WALK
      BY <1>2, <2>1
    <3> QED  BY ONLY <3>1, <3>2, WalkEnds, Zenon
  <2> DEFINE C == Reach(E, {p}, k)
  <2>10. k \in Nat /\ k <= MAX_WALK /\ C \subseteq R /\ p \in C
    <3>1. k \in Nat /\ k <= MAX_WALK
      BY <1>2
    <3> QED  BY <2>8, <3>1, ReachGrows
  <2>11. \A x \in C : n[x].within \in C
    <3> SUFFICES ASSUME NEW x \in C PROVE n[x].within \in C
      OBVIOUS
    <3>1. x \in Assets /\ n[x].within # None
      BY <1>1, <2>2, <2>10 DEF R
    <3>2. <<x, n[x].within>> \in E
      BY <3>1 DEF E, Inside
    <3>3. <<x, n[x].within>>[1] \in Reach(E, {p}, k) => <<x, n[x].within>>[2] \in Reach(E, {p}, k + 1)
      BY <2>10, <3>2, ReachOn
    <3> QED  BY <2>9, <3>3
  <2>12. C \in SUBSET Assets /\ C # {} /\ Cardinality(C) <= Cardinality(R) /\ Cardinality(C) \in Nat
    <3> HIDE DEF C
    <3>1. C \subseteq R /\ R \subseteq Assets
      BY <1>1, <2>10 DEF R
    <3> QED  BY <2>1, <2>10, <3>1, FS_Subset, FS_CardinalityType
  <2>13. Loop(n, MAX_WALK + 1, C)
    <3> HIDE DEF C
    <3> QED  BY <1>2, <2>1, <2>11, <2>12 DEF Loop
  <2> QED  BY <2>13, NoLoop
<1> QED  BY <1>3, <1>4

(* A new asset is in a live one or in nothing, and nothing is in it. *)
LEMMA CreatedLoopless ==
  ASSUME NEW n \in Nets, NEW m \in Nets, NEW v \in Moves, ContainersExist(n), MoveOK(n, v),
         NEW h \in Assets, n[h].state = "unused", m[h].state = "live",
         m[h].within \in Live(n) \cup {None},
         \A x \in Assets : x # h => m[x] = n[x]
  PROVE  ContainersExist(m) /\ MoveOK(m, v)
<1>1. \A x \in Assets : n[x].within # h
  BY NoneIsNoAsset DEF ContainersExist
<1>2. ContainersExist(m)
  <2> SUFFICES ASSUME NEW x \in Assets, m[x].within # None PROVE m[m[x].within].state # "unused"
    BY DEF ContainersExist
  <2>1. CASE x = h
    BY <2>1 DEF Live
  <2>2. CASE x # h
    <3>1. m[x].within = n[x].within /\ n[x].within # h /\ n[x].within \in Assets
      BY <1>1, <2>2 DEF Nets, Asset
    <3> QED  BY <3>1 DEF ContainersExist
  <2> QED  BY <2>1, <2>2
<1>3. Loopless(n, MAX_WALK + 1) => Loopless(m, MAX_WALK + 1)
  <2> SUFFICES ASSUME NEW S, Loop(m, MAX_WALK + 1, S) PROVE \E U : Loop(n, MAX_WALK + 1, U)
    BY NoLoop
  <2>0. S \in SUBSET Assets /\ S # {} /\ Cardinality(S) <= MAX_WALK + 1 /\ \A x \in S : m[x].within \in S
    BY DEF Loop
  <2> DEFINE U == S \ {h}
  <2>1. U # {}
    <3>1. h \in S => m[h].within \in S /\ m[h].within # h
      BY <2>0, NoneIsNoAsset DEF Live
    <3> QED  BY <2>0, <3>1
  <2>2. \A x \in U : n[x].within \in U
    BY <1>1, <2>0
  <2>3. U \in SUBSET Assets /\ Cardinality(U) <= MAX_WALK + 1
    <3>1. IsFiniteSet(S) /\ U \in SUBSET S
      BY <2>0, Bounds, FS_Subset
    <3>2. Cardinality(U) <= Cardinality(S) /\ Cardinality(U) \in Nat /\ Cardinality(S) \in Nat
      <4> HIDE DEF U
      <4> QED  BY <3>1, FS_Subset, FS_CardinalityType
    <3> HIDE DEF U
    <3> QED  BY <2>0, <3>1, <3>2, Bounds
  <2> HIDE DEF U
  <2> QED  BY <2>1, <2>2, <2>3 DEF Loop
<1>4. v.asset \in Assets \cup {None} /\ v.into \in Assets \cup {None}
  BY DEF Moves, Ends
<1>5. \A p \in Assets : n[p].state # "unused" => Above(m, p) \subseteq Above(n, p)
  <2> SUFFICES ASSUME NEW p \in Assets, n[p].state # "unused" PROVE Above(m, p) \subseteq Above(n, p)
    OBVIOUS
  <2>1. \A x \in Assets : (x = p \/ \E y \in Assets : n[y].within = x) => m[x].within \in {n[x].within, None}
    BY <1>1
  <2> QED  BY <2>1, AboveLess
<1>6. \A x \in Assets : n[x].state # "unused" => m[x].state # "unused"
  OBVIOUS
<1> QED  BY <1>2, <1>3, <1>4, <1>5, <1>6 DEF MoveOK

---------------------------------------------------------------------------
(* The mirror *)

(* Mirroring puts eligible rows on the map with their codes, takes inactive ones off
   it, and moves no asset into another. *)
LEMMA MirroredRows ==
  ASSUME NEW r \in Registers, NEW n \in Nets
  PROVE  /\ Mirrored(r, n) \in Nets
         /\ \A a \in Assets : /\ Mirrored(r, n)[a].within = n[a].within
                              /\ Mirrored(r, n)[a].state = "unused" => n[a].state = "unused"
         /\ OnTheMap(r, Mirrored(r, n))
         /\ \A i \in Eligible(r, n) : /\ Mirrored(r, n)[i].state = "live"
                                      /\ Mirrored(r, n)[i].code = r[i].code
<1> DEFINE up == Upserted(r, n)
           ret == Retired(r, up)
           all == Relinked(r, ret)
<1>0. /\ DOMAIN r \subseteq Assets /\ \A i \in DOMAIN r : r[i] \in Row
      /\ Mirrored(r, n) = all /\ Eligible(r, n) \subseteq DOMAIN r
  BY RegisterIsMirrored DEF Mirrored, Eligible
<1>1. up \in Nets
  <2>1. ASSUME NEW a \in Assets PROVE up[a] \in Asset
    <3>1. n[a] \in Asset
      BY DEF Nets
    <3>2. CASE a \in Eligible(r, n)
      <4>1. r[a].kind \in Types \cup {None} /\ r[a].code \in Codes \cup {None}
        BY <1>0, <3>2 DEF Row, Types
      <4>2. up[a] = [n[a] EXCEPT !.state = "live", !.type = r[a].kind, !.code = r[a].code]
        BY <3>2 DEF Upserted
      <4> HIDE DEF up
      <4> QED  BY <3>1, <4>1, <4>2 DEF Asset
    <3>3. CASE a \notin Eligible(r, n)
      BY <3>1, <3>3 DEF Upserted
    <3> QED  BY <3>2, <3>3
  <2> QED  BY <2>1 DEF Upserted, Nets
<1>2. ASSUME NEW a \in Assets
      PROVE  /\ up[a].within = n[a].within /\ (up[a].state = "unused" => n[a].state = "unused")
             /\ a \in Eligible(r, n) => up[a].state = "live" /\ up[a].code = r[a].code
  BY <1>0 DEF Upserted, Nets, Asset
<1> HIDE DEF up
<1>3. ret \in Nets
  <2>1. \A a \in Assets : ret[a] \in Asset
    BY <1>1 DEF Retired, Nets, Asset
  <2> QED  BY <2>1 DEF Retired, Nets
<1>4. ASSUME NEW a \in Assets
      PROVE  /\ ret[a].within = up[a].within /\ (ret[a].state = "unused" => up[a].state = "unused")
             /\ a \in DOMAIN r /\ ret[a].state = "live" => r[a].active
             /\ a \in DOMAIN r /\ r[a].active => ret[a] = up[a]
  BY <1>1 DEF Retired, Nets, Asset
<1> HIDE DEF ret
<1>5. all \in Nets
  <2>1. \A i : LiveMirror(ret, i) \in Assets \cup {None}
    BY DEF LiveMirror, Live
  <2>2. \A a \in Assets : all[a] \in Asset
    BY <1>3, <2>1 DEF Relinked, Nets, Asset
  <2> QED  BY <2>2 DEF Relinked, Nets
<1>6. ASSUME NEW a \in Assets
      PROVE  all[a].within = ret[a].within /\ all[a].state = ret[a].state /\ all[a].code = ret[a].code
  BY <1>3 DEF Relinked, Nets, Asset
<1> HIDE DEF all
<1>7. \A i \in Eligible(r, n) : i \in DOMAIN r /\ r[i].active
  BY DEF Eligible
<1>8. OnTheMap(r, all)
  BY <1>0, <1>4, <1>6 DEF OnTheMap
<1> QED  BY <1>0, <1>2, <1>4, <1>5, <1>6, <1>7, <1>8

---------------------------------------------------------------------------
(* Connections *)

LEMMA RulesAreDerived ==
  ASSUME NEW n, NEW c, NEW l \in Rules(n, c)
  PROVE  l.rule # "manual" /\ {l.from, l.to} \subseteq Live(n)
<1>1. CASE l \in CableRule(n, c)
  BY <1>1 DEF CableRule, Link
<1>2. CASE l \in ParentRule(n)
  BY <1>2 DEF ParentRule, Link, OfType
<1>3. CASE l \in CabinetRule(n)
  BY <1>3 DEF CabinetRule, Link, OfType
<1>4. CASE l \in FdtRule(n)
  BY <1>4 DEF FdtRule, Link, OfType
<1> QED  BY <1>1, <1>2, <1>3, <1>4 DEF Rules

Follow(n, c, l) == {k \in l : k.rule # "manual"} = Rules(n, c) /\ \A k \in l : {k.from, k.to} \subseteq Live(n)

LEMMA SyncFollows ==
  ASSUME NEW n, NEW c, NEW l
  PROVE  Follow(n, c, Sync(n, c, l))
<1>1. \A k \in Rules(n, c) : k.rule # "manual" /\ {k.from, k.to} \subseteq Live(n)
  BY RulesAreDerived
<1> QED  BY <1>1 DEF Sync, Follow

LEMMA SyncTyped ==
  ASSUME NEW n \in Nets, NEW c \in Wires, NEW l \in SUBSET LinkRow
  PROVE  Sync(n, c, l) \in SUBSET LinkRow
<1>1. Live(n) \subseteq Assets /\ \A t : OfType(n, t) \subseteq Assets
  BY DEF Live, OfType
<1>2. ASSUME NEW rule \in {"cable", "parent_splitter", "cabinet", "parent_fdt", "manual"},
             NEW of \in Ends \cup Cables, NEW from \in Assets, NEW to \in Assets, NEW via \in Cables \cup {None}
      PROVE  Link(rule, of, from, to, via) \in LinkRow
  BY DEF Link, LinkRow
<1>3. CableRule(n, c) \subseteq LinkRow
  BY <1>1, <1>2 DEF CableRule
<1>4. ParentRule(n) \subseteq LinkRow
  BY <1>1, <1>2 DEF ParentRule, Ends
<1>5. CabinetRule(n) \subseteq LinkRow
  BY <1>1, <1>2 DEF CabinetRule, Ends
<1>6. FdtRule(n) \subseteq LinkRow
  BY <1>1, <1>2 DEF FdtRule, Ends
<1> QED  BY <1>3, <1>4, <1>5, <1>6 DEF Sync, Rules

---------------------------------------------------------------------------
(* The register *)

(* What may become of the register: rows are added that refer to nothing, and        *)
(* deactivated, never renamed or moved.                                              *)
Later(r) ==
  /\ DOMAIN reg \subseteq DOMAIN r
  /\ \A i \in DOMAIN reg : /\ r[i].kind = reg[i].kind /\ (r[i].active => reg[i].active)
                           /\ r[i].cabinet = reg[i].cabinet /\ r[i].parent = reg[i].parent
  /\ \A i \in DOMAIN r \ DOMAIN reg : r[i].cabinet = None /\ r[i].parent = None

Sound(r) == Shallow(r) => Whole(r)

LEMMA BelowHolds ==
  ASSUME NEW r, NEW S
  PROVE  /\ S \subseteq Below(r, S)
         /\ Below(r, S) \subseteq S \cup ActiveRows(r, "SPLITTER")
<1> DEFINE boxes == ActiveRows(r, "SPLITTER")
           E == {<<r[i].parent, i>> : i \in boxes}
<1>1. Below(r, S) = Reach(E, S, MAX_CASCADE_DEPTH)
  BY DEF Below
<1>2. \A e \in E : e[2] \in boxes
  OBVIOUS
<1> HIDE DEF boxes, E
<1>3. Reach(E, S, MAX_CASCADE_DEPTH) \subseteq S \cup boxes
  BY <1>2, Bounds, ReachWithin
<1> QED  BY <1>1, <1>3, Bounds, ReachGrows DEF boxes

(* In a shallow register the cascade goes down as far as anything hangs: a row that is *)
(* k levels below the top is reached in k steps, if it is reached at all.            *)
LEMMA BelowComplete ==
  ASSUME NEW r \in Registers, Shallow(r), NEW S \in SUBSET DOMAIN r,
         NEW i \in ActiveRows(r, "SPLITTER"), r[i].parent \in Below(r, S)
  PROVE  i \in Below(r, S)
<1> DEFINE boxes == ActiveRows(r, "SPLITTER")
           E == {<<r[j].parent, j>> : j \in boxes}
           F == {<<r[j].parent, j>> : j \in DOMAIN r}
           roots == {j \in DOMAIN r : r[j].parent = None}
           B(k) == Reach(E, S, k)
           L(k) == Reach(F, roots, k)
           all == UNION {B(k) : k \in Nat}
<1>0. /\ boxes \subseteq DOMAIN r /\ \A j \in DOMAIN r : j # None
      /\ \A e \in E : e[2] \in boxes /\ e[1] = r[e[2]].parent
      /\ \A e \in F : e[2] \in DOMAIN r /\ e[1] = r[e[2]].parent
      /\ \A j \in boxes : <<r[j].parent, j>> \in E
      /\ \A j \in roots : r[j].parent = None
  BY RegisterIsMirrored, NoneIsNoAsset DEF ActiveRows
<1>1. Below(r, S) = B(MAX_CASCADE_DEPTH) /\ DOMAIN r \subseteq L(MAX_CASCADE_DEPTH) /\ MAX_CASCADE_DEPTH \in Nat
  BY Bounds DEF Below, Shallow
<1> HIDE DEF boxes, E, F, roots
<1>2. ASSUME NEW k \in Nat PROVE B(k) \subseteq S \cup boxes
  BY <1>0, ReachWithin
<1>3. ASSUME NEW j \in boxes, NEW k \in Nat, r[j].parent \in B(k) PROVE j \in B(k + 1)
  <2>1. <<r[j].parent, j>>[1] \in Reach(E, S, k) => <<r[j].parent, j>>[2] \in Reach(E, S, k + 1)
    BY <1>0, ReachOn
  <2> QED  BY <1>3, <2>1
<1>4. ASSUME NEW x \in all PROVE x \in S \/ (x \in boxes /\ r[x].parent \in all)
  <2> DEFINE Good == {y \in S \cup boxes : y \in S \/ r[y].parent \in all}
             T == {k \in Nat : B(k) \subseteq Good}
  <2>1. 0 \in T
    BY ReachSteps
  <2>2. ASSUME NEW k \in Nat, k \in T PROVE k + 1 \in T
    <3>1. B(k + 1) = Beyond(E, B(k))
      BY ReachSteps
    <3>2. ASSUME NEW y \in B(k + 1), y \notin B(k) PROVE y \in Good
      <4>1. PICK e \in E : e[1] \in B(k) /\ y = e[2]
        BY <3>1, <3>2 DEF Beyond
      <4> QED  BY <1>0, <4>1
    <3> QED  BY <2>2, <3>2
  <2> HIDE DEF T
  <2>3. \A k \in Nat : k \in T
    BY <2>1, <2>2, NumberInduction
  <2>4. all \subseteq Good
    BY <2>3 DEF T
  <2> HIDE DEF all
  <2> QED  BY <1>4, <2>4
<1>5. \A k \in Nat : B(k) \subseteq all
  OBVIOUS
<1>6. None \notin all
  BY <1>0, <1>2
<1> DEFINE T == {k \in Nat : L(k) \cap all \subseteq B(k)}
<1>7. 0 \in T
  <2>1. L(0) = roots /\ B(0) = S
    BY ReachSteps
  <2> HIDE DEF all, L, B
  <2> QED  BY <1>0, <1>4, <1>6, <2>1
<1>8. ASSUME NEW k \in Nat, k \in T PROVE k + 1 \in T
  <2> SUFFICES ASSUME NEW x \in L(k + 1), x \in all PROVE x \in B(k + 1)
    OBVIOUS
  <2>0. B(k) \subseteq B(k + 1) /\ S \subseteq B(k + 1) /\ L(k + 1) = Beyond(F, L(k))
    <3>1. k + 1 \in Nat
      OBVIOUS
    <3> QED  BY <3>1, ReachGrows, ReachSteps
  <2>1. L(k) \cap all \subseteq B(k)
    BY <1>8
  <2> HIDE DEF all, L, B
  <2>2. CASE x \in L(k)
    BY <2>0, <2>1, <2>2
  <2>3. CASE x \notin L(k) /\ x \notin S
    <3>1. PICK e \in F : e[1] \in L(k) /\ x = e[2]
      BY <2>0, <2>3 DEF Beyond
    <3>2. x \in boxes /\ r[x].parent \in all /\ r[x].parent \in L(k)
      BY <1>0, <1>4, <2>3, <3>1
    <3> QED  BY <1>3, <2>1, <3>2
  <2> QED  BY <2>0, <2>2, <2>3
<1> HIDE DEF T
<1>9. MAX_CASCADE_DEPTH \in T
  BY <1>1, <1>7, <1>8, NumberInduction
<1>10. L(MAX_CASCADE_DEPTH) \cap all \subseteq B(MAX_CASCADE_DEPTH)
  BY <1>9 DEF T
<1>11. i \in boxes /\ i \in B(MAX_CASCADE_DEPTH + 1) /\ MAX_CASCADE_DEPTH + 1 \in Nat
  BY <1>1, <1>3 DEF boxes
<1> HIDE DEF B, L, all
<1> QED  BY <1>0, <1>1, <1>5, <1>10, <1>11

LEMMA BelowShrinks ==
  ASSUME reg \in Registers, NEW r \in Registers, Later(r), NEW S \in SUBSET DOMAIN reg, NEW R \in SUBSET S
  PROVE  Below(r, R) \subseteq Below(reg, S)
<1> DEFINE E == {<<reg[j].parent, j>> : j \in ActiveRows(reg, "SPLITTER")}
           F == {<<r[j].parent, j>> : j \in ActiveRows(r, "SPLITTER")}
           heads == {d[2] : d \in E}
<1>1. S \cup heads \subseteq DOMAIN reg /\ None \notin DOMAIN reg
  BY RegisterIsMirrored, NoneIsNoAsset DEF ActiveRows
<1>2. ASSUME NEW e \in F, e[1] \in S \cup heads PROVE e \in E
  <2>1. PICK j \in ActiveRows(r, "SPLITTER") : e = <<r[j].parent, j>>
    OBVIOUS
  <2>2. j \in DOMAIN r /\ r[j].parent # None /\ r[j].active /\ r[j].kind = "SPLITTER"
    BY <1>1, <1>2, <2>1 DEF ActiveRows
  <2>3. j \in ActiveRows(reg, "SPLITTER") /\ r[j].parent = reg[j].parent
    BY <2>2 DEF Later, ActiveRows
  <2> QED  BY <2>1, <2>3
<1> HIDE DEF E, F
<1>3. Reach(F, R, MAX_CASCADE_DEPTH) \subseteq Reach(E, S, MAX_CASCADE_DEPTH) \cup {}
  BY <1>2, Bounds, ReachLess
<1> QED  BY <1>3 DEF Below, E, F

LEMMA CascadeShrinks ==
  ASSUME reg \in Registers, NEW r \in Registers, Later(r), NEW kind, NEW m \in SUBSET DOMAIN reg
  PROVE  Cascade(r, kind, m) \subseteq Cascade(reg, kind, m)
<1> DEFINE inside(q) == {j \in ActiveRows(q, "SPLITTER") : q[j].cabinet \in m}
<1>1. None \notin m
  BY RegisterIsMirrored, NoneIsNoAsset
<1>2. inside(r) \subseteq inside(reg) /\ inside(reg) \subseteq DOMAIN reg
  <2>1. ASSUME NEW j \in DOMAIN r, r[j].active, r[j].kind = "SPLITTER", r[j].cabinet \in m
        PROVE  j \in DOMAIN reg /\ reg[j].active /\ reg[j].kind = "SPLITTER" /\ reg[j].cabinet \in m
    BY <1>1, <2>1 DEF Later
  <2> QED  BY <2>1 DEF ActiveRows
<1> HIDE DEF inside
<1>3. Below(r, inside(r)) \subseteq Below(reg, inside(reg)) /\ Below(r, m) \subseteq Below(reg, m)
  BY <1>2, BelowShrinks
<1> QED  BY <1>3 DEF Cascade, inside

(* New rows and deactivated ones make no register shallow that was not. *)
LEMMA ShallowBefore ==
  ASSUME reg \in Registers, Refers(reg), NEW r \in Registers, Later(r), Shallow(r)
  PROVE  Shallow(reg)
<1> DEFINE E == {<<reg[j].parent, j>> : j \in DOMAIN reg}
           F == {<<r[j].parent, j>> : j \in DOMAIN r}
           S == {j \in DOMAIN reg : reg[j].parent = None}
           R == {j \in DOMAIN r : r[j].parent = None}
           X == DOMAIN r \ DOMAIN reg
<1>1. None \notin X /\ R \subseteq S \cup X /\ DOMAIN reg \subseteq DOMAIN r
  BY RegisterIsMirrored, NoneIsNoAsset DEF Later
<1>2. ASSUME NEW e \in F PROVE /\ e \in E \/ e[2] \in X
                               /\ e[1] \in X => e[2] \in X
  <2>1. PICK j \in DOMAIN r : e = <<r[j].parent, j>>
    OBVIOUS
  <2>2. CASE j \in DOMAIN reg
    <3>1. r[j].parent = reg[j].parent /\ (reg[j].parent = None \/ reg[j].parent \in DOMAIN reg)
      BY <2>2 DEF Later, Refers
    <3> QED  BY <1>1, <2>1, <2>2, <3>1
  <2>3. CASE j \notin DOMAIN reg
    BY <2>1, <2>3
  <2> QED  BY <2>2, <2>3
<1>3. DOMAIN r \subseteq Reach(F, R, MAX_CASCADE_DEPTH)
  BY DEF Shallow
<1>4. DOMAIN reg \cap X = {}
  OBVIOUS
<1> HIDE DEF E, F, R, S, X
<1>5. Reach(F, R, MAX_CASCADE_DEPTH) \subseteq Reach(E, S, MAX_CASCADE_DEPTH) \cup X
  BY <1>1, <1>2, Bounds, ReachLess
<1>6. DOMAIN reg \subseteq Reach(E, S, MAX_CASCADE_DEPTH)
  BY <1>1, <1>3, <1>4, <1>5
<1> QED  BY <1>6 DEF Shallow, E, S

---------------------------------------------------------------------------
(* The inductive invariant: the register keeps its foreign keys and is whole if it is *)
(* shallow, the map is a net without small loops on which nothing inactive is live,   *)
(* the connections follow; and the sessions hold what was true of the register when  *)
(* they were made, the previews no less than what hangs from their rows now.         *)

Coded == \A s \in Uploads : upload[s].kind # "CABLE" =>
           \A k \in DOMAIN upload[s].rows : upload[s].rows[k].code \in Codes
Matched == \A d \in Deletions : \A i \in deletion[d].matched :
             i \in DOMAIN reg /\ reg[i].kind = deletion[d].kind
Executed == \A d \in Deletions : deletion[d].status = "executed" =>
              \A i \in deletion[d].matched : ~reg[i].active
Previewed == \A d \in Deletions : deletion[d].status = "pending" =>
               Cascade(reg, deletion[d].kind, deletion[d].matched) \subseteq deletion[d].preview
MapOK ==
  /\ reg \in Registers /\ Refers(reg) /\ Sound(reg)
  /\ net \in Nets /\ ContainersExist(net) /\ OnTheMap(reg, net)
  /\ move \in Moves /\ MoveOK(net, move)
  /\ cable \in Wires /\ links \in SUBSET LinkRow /\ Follow(net, cable, links)
Sessions ==
  /\ upload \in [Uploads -> [status : {"none", "validated", "committed", "rolled_back"},
                             kind : Kinds \cup {None}, rows : Seq(FileRow), written : BOOLEAN]]
  /\ asked \in [Uploads -> 0..2]
  /\ deletion \in [Deletions -> [status : {"none", "pending", "executed", "failed"},
                                 kind : Tables \cup {None}, matched : SUBSET Mirrors, preview : SUBSET Mirrors]]
  /\ edits \in 0..MaxEdits
LInv == MapOK /\ Sessions /\ Coded /\ Matched /\ Executed /\ Previewed

LEMMA InvImplies == LInv => TypeOK /\ LinksFollowTheirData /\ DeletedIsGone /\ NoAssetContainsItself
<1> SUFFICES ASSUME LInv
             PROVE  TypeOK /\ LinksFollowTheirData /\ DeletedIsGone /\ NoAssetContainsItself
  OBVIOUS
<1>1. TypeOK
  BY DEF LInv, MapOK, Sessions, TypeOK, Registers, Nets, Wires
<1>2. LinksFollowTheirData
  BY DEF LInv, MapOK, Follow, LinksFollowTheirData
<1>3. DeletedIsGone
  BY DEF LInv, MapOK, OnTheMap, Executed, DeletedIsGone
<1>4. NoAssetContainsItself
  BY DEF LInv, MapOK, MoveOK, NoAssetContainsItself
<1> QED  BY <1>1, <1>2, <1>3, <1>4

---------------------------------------------------------------------------
(* Steps *)

LEMMA MatchedRows ==
  ASSUME LInv, NEW d \in Deletions
  PROVE  deletion[d].matched \in SUBSET DOMAIN reg /\ reg \in Registers
BY DEF LInv, MapOK, Matched

LEMMA SessionsCarried ==
  ASSUME LInv, MapOK', Later(reg'), UNCHANGED deletion
  PROVE  Matched' /\ Executed' /\ Previewed'
<1>1. Matched' /\ Executed'
  BY DEF LInv, Matched, Executed, Later
<1>2. \A d \in Deletions : Cascade(reg', deletion[d].kind, deletion[d].matched)
                            \subseteq Cascade(reg, deletion[d].kind, deletion[d].matched)
  <2>1. reg' \in Registers
    BY DEF MapOK
  <2> QED  BY <2>1, MatchedRows, CascadeShrinks
<1>3. Previewed'
  BY <1>2 DEF LInv, Previewed
<1> QED  BY <1>1, <1>3

LEMMA NetWritten ==
  ASSUME MapOK, reg' = reg, net' \in Nets, ContainersExist(net'), OnTheMap(reg, net'),
         move' \in Moves, MoveOK(net', move'),
         cable' \in Wires, links' = Sync(net', cable', links)
  PROVE  MapOK'
<1>1. links' \in SUBSET LinkRow
  BY SyncTyped DEF MapOK
<1>2. Follow(net', cable', links')
  BY SyncFollows
<1>3. reg' \in Registers /\ Refers(reg') /\ Sound(reg') /\ OnTheMap(reg', net')
  BY DEF MapOK
<1> QED  BY <1>1, <1>2, <1>3 DEF MapOK

(* A write that leaves the assets alone. *)
LEMMA OnlyCables ==
  ASSUME MapOK, reg' = reg, net' = net, move' = move, cable' \in Wires, links' = Sync(net, cable', links)
  PROVE  MapOK'
<1>1. /\ net' \in Nets /\ ContainersExist(net') /\ OnTheMap(reg, net')
      /\ move' \in Moves /\ MoveOK(net', move')
  BY DEF MapOK
<1> QED  BY <1>1, NetWritten

(* A write of the assets that moves none into another and brings none to life. *)
LEMMA NetEdited ==
  ASSUME MapOK, reg' = reg, cable' = cable, move' = move,
         NEW m \in Nets, net' = m, links' = Sync(m, cable, links),
         \A a \in Assets : /\ m[a].within \in {net[a].within, None}
                           /\ m[a].state = "unused" => net[a].state = "unused"
                           /\ a \in DOMAIN reg /\ m[a].state = "live" => net[a].state = "live"
  PROVE  MapOK'
<1>1. ContainersExist(m) /\ MoveOK(m, move)
  BY LessContained DEF MapOK
<1>2. OnTheMap(reg, m)
  BY RegisterIsMirrored DEF MapOK, OnTheMap
<1>3. cable' \in Wires /\ move' \in Moves
  BY DEF MapOK
<1> QED  BY <1>1, <1>2, <1>3, NetWritten

LEMMA Mirroring ==
  ASSUME MapOK, NEW r \in Registers, Refers(r), Sound(r), MirrorInto(r), cable' = cable, move' = move
  PROVE  MapOK'
<1>1. reg' = r /\ net' = Mirrored(r, net) /\ links' = Sync(net', cable, links)
  BY DEF MirrorInto
<1>2. /\ net' \in Nets /\ OnTheMap(r, net')
      /\ \A a \in Assets : net'[a].within = net[a].within /\ (net'[a].state = "unused" => net[a].state = "unused")
  <2>1. net \in Nets
    BY DEF MapOK
  <2>2. /\ Mirrored(r, net) \in Nets /\ OnTheMap(r, Mirrored(r, net))
        /\ \A a \in Assets : /\ Mirrored(r, net)[a].within = net[a].within
                             /\ Mirrored(r, net)[a].state = "unused" => net[a].state = "unused"
    BY <2>1, MirroredRows
  <2> QED  BY <1>1, <2>2
<1>3. ContainersExist(net') /\ MoveOK(net', move)
  BY <1>2, LessContained DEF MapOK
<1>4. links' \in SUBSET LinkRow /\ Follow(net', cable, links')
  BY <1>1, <1>2, SyncTyped, SyncFollows DEF MapOK
<1>5. reg' \in Registers /\ Refers(reg') /\ Sound(reg') /\ OnTheMap(reg', net')
  BY <1>1, <1>2
<1> QED  BY <1>2, <1>3, <1>4, <1>5 DEF MapOK

LEMMA MapStays == ASSUME MapOK, UNCHANGED <<reg, net, cable, links, move>> PROVE MapOK'
<1>1. reg' \in Registers /\ Refers(reg') /\ Sound(reg') /\ OnTheMap(reg', net')
  BY DEF MapOK
<1> QED  BY <1>1 DEF MapOK

LEMMA SameRegister == ASSUME LInv, reg' = reg PROVE Later(reg')
BY DEF Later

LEMMA InitInv == Init => LInv
<1> SUFFICES ASSUME Init PROVE LInv
  OBVIOUS
<1>0. PICK seed \in Seeds : reg = seed.rows /\ net = Furnished(seed)
  BY DEF Init
<1> DEFINE first == [i \in DOMAIN reg |-> [reg[i] EXCEPT !.active = @ /\
                       ~\E j \in 1..(i - 1) : reg[j].kind = reg[i].kind /\ reg[j].code = reg[i].code]]
           none == [a \in Assets |-> Blank]
           n == FirstMirror(reg)
<1>1. SeedAssumption(seed)
  BY FilesAssumption
<1>2. /\ n = Mirrored(first, none)
      /\ net = [a \in Assets |-> IF a \in DOMAIN reg THEN [n[a] EXCEPT !.within = seed.within[a]] ELSE n[a]]
  BY <1>0 DEF FirstMirror, Furnished
<1>3. /\ reg \in Registers /\ Refers(reg) /\ Sound(reg) /\ ContainersExist(net)
      /\ Loopless(net, MAX_WALK + 1) /\ seed.within \in [DOMAIN reg -> Assets \cup {None}]
  BY <1>0, <1>1 DEF SeedAssumption, Registers, Sound
<1> HIDE DEF n
<1>4. first \in Registers /\ DOMAIN first = DOMAIN reg /\ \A i \in DOMAIN reg : first[i].active => reg[i].active
  <2>1. DOMAIN reg = 1..Len(reg) /\ Len(reg) \in Nat /\ Len(reg) <= MaxReg /\ \A i \in DOMAIN reg : reg[i] \in Row
    BY <1>3, RegisterIsMirrored DEF Registers
  <2>2. ASSUME NEW i \in DOMAIN reg PROVE first[i] \in Row /\ (first[i].active => reg[i].active)
    <3> DEFINE new == \E j \in 1..(i - 1) : reg[j].kind = reg[i].kind /\ reg[j].code = reg[i].code
    <3>1. first[i] = [reg[i] EXCEPT !.active = @ /\ ~new]
      OBVIOUS
    <3>2. new \in BOOLEAN
      OBVIOUS
    <3> HIDE DEF new, first
    <3>3. reg[i] \in Row
      BY <2>1
    <3>4. (reg[i].active /\ ~new) \in BOOLEAN
      OBVIOUS
    <3> QED  BY <3>1, <3>3, <3>4 DEF Row
  <2> HIDE DEF first
  <2>3. first = [i \in 1..Len(reg) |-> first[i]]
    BY <2>1 DEF first
  <2>4. first \in Seq(Row)
    BY <2>1, <2>2, <2>3
  <2>5. Len(first) = Len(reg)
    BY <2>1, <2>3
  <2> QED  BY <2>1, <2>2, <2>3, <2>4, <2>5 DEF Registers
<1> HIDE DEF first
<1>5. none \in Nets
  BY DEF Blank, Asset, Nets
<1> HIDE DEF none
<1>6. n \in Nets /\ OnTheMap(first, n)
  BY <1>2, <1>4, <1>5, MirroredRows
<1>7. net \in Nets /\ \A a \in Assets : net[a].state = n[a].state
  <2>1. ASSUME NEW a \in Assets PROVE net[a] \in Asset /\ net[a].state = n[a].state
    <3>1. n[a] \in Asset
      BY <1>6 DEF Nets
    <3>2. CASE a \in DOMAIN reg
      <4>1. net[a] = [n[a] EXCEPT !.within = seed.within[a]] /\ seed.within[a] \in Assets \cup {None}
        BY <1>2, <1>3, <3>2
      <4> QED  BY <3>1, <4>1 DEF Asset
    <3>3. CASE a \notin DOMAIN reg
      BY <1>2, <3>1, <3>3
    <3> QED  BY <3>2, <3>3
  <2> QED  BY <1>2, <2>1 DEF Nets
<1>8. OnTheMap(reg, net)
  BY <1>3, <1>4, <1>6, <1>7, RegisterIsMirrored DEF OnTheMap
<1>9. cable \in Wires /\ links = Sync(net, cable, {})
  BY DEF Init, Wires, NoCable, Ends
<1>10. links \in SUBSET LinkRow /\ Follow(net, cable, links)
  BY <1>7, <1>9, SyncTyped, SyncFollows
<1>11. move \in Moves /\ MoveOK(net, move)
  BY <1>3 DEF Init, NoMove, Moves, Ends, MoveOK
<1>12. Sessions /\ Coded /\ Matched /\ Executed /\ Previewed
  <2>1. Sessions /\ Coded
    BY FilesAssumption DEF Init, Sessions, Coded, NoUpload, NoDeletion
  <2>2. Matched /\ Executed /\ Previewed
    BY DEF Init, Matched, Executed, Previewed, NoDeletion
  <2> QED  BY <2>1, <2>2
<1> QED  BY <1>3, <1>7, <1>8, <1>9, <1>10, <1>11, <1>12 DEF LInv, MapOK

---------------------------------------------------------------------------
(* Sessions *)

LEMMA UploadFileInv == ASSUME LInv, NEW s \in Uploads, UploadFile(s) PROVE LInv'
<1>0. PICK f \in Files :
        \E good \in Orders(f.rows) :
          upload' = [upload EXCEPT ![s] = [status |-> "validated", kind |-> f.kind, written |-> FALSE,
                                           rows |-> [k \in DOMAIN good |-> f.rows[good[k]]]]]
  BY DEF UploadFile
<1>1. PICK good \in Orders(f.rows) :
        upload' = [upload EXCEPT ![s] = [status |-> "validated", kind |-> f.kind, written |-> FALSE,
                                         rows |-> [k \in DOMAIN good |-> f.rows[good[k]]]]]
  BY <1>0
<1> DEFINE kept == [k \in DOMAIN good |-> f.rows[good[k]]]
<1>2. /\ f.kind \in Kinds /\ f.rows \in Seq(FileRow)
      /\ f.kind # "CABLE" => \A k \in DOMAIN f.rows : f.rows[k].code \in Codes
  BY FilesAssumption
<1>3. PICK n \in 0..Len(f.rows) : good \in [1..n -> DOMAIN f.rows]
  BY DEF Orders
<1>4. n \in Nat /\ DOMAIN kept = 1..n /\ \A k \in 1..n : good[k] \in DOMAIN f.rows /\ kept[k] = f.rows[good[k]]
  BY <1>2, <1>3
<1>5. kept = [k \in 1..n |-> kept[k]]
  BY <1>4
<1> HIDE DEF kept
<1>6. kept \in Seq(FileRow)
  <2>1. \A k \in 1..n : kept[k] \in FileRow
    BY <1>2, <1>4
  <2> QED  BY <1>4, <1>5, <2>1
<1>7. upload' = [upload EXCEPT ![s] = [status |-> "validated", kind |-> f.kind, written |-> FALSE, rows |-> kept]]
  BY <1>1 DEF kept
<1>8. Sessions'
  BY <1>2, <1>6, <1>7 DEF LInv, Sessions, UploadFile
<1>9. Coded'
  BY <1>2, <1>4, <1>7 DEF LInv, Sessions, Coded
<1>10. UNCHANGED <<reg, net, cable, links, move, deletion>>
  BY DEF UploadFile
<1>11. MapOK'
  BY <1>10, MapStays DEF LInv
<1>12. Matched' /\ Executed' /\ Previewed'
  BY <1>10, <1>11, SessionsCarried, SameRegister
<1> QED  BY <1>8, <1>9, <1>11, <1>12 DEF LInv

LEMMA AskCommitInv == ASSUME LInv, NEW s \in Uploads, AskCommit(s) PROVE LInv'
<1>1. UNCHANGED <<reg, net, cable, links, move, deletion, upload, edits>>
  BY DEF AskCommit
<1>2. Sessions'
  <2>1. asked' = [asked EXCEPT ![s] = @ + 1] /\ asked[s] < 2
    BY DEF AskCommit
  <2>2. asked' \in [Uploads -> 0..2]
    <3>1. asked \in [Uploads -> 0..2]
      BY DEF LInv, Sessions
    <3>2. asked[s] + 1 \in 0..2
      BY <2>1, <3>1
    <3> QED  BY <2>1, <3>1, <3>2
  <2> QED  BY <1>1, <2>2 DEF LInv, Sessions
<1>3. MapOK' /\ Coded'
  BY <1>1, MapStays DEF LInv, Coded
<1>4. Matched' /\ Executed' /\ Previewed'
  BY <1>1, <1>3, SessionsCarried, SameRegister
<1> QED  BY <1>2, <1>3, <1>4 DEF LInv

LEMMA RollBackInv == ASSUME LInv, NEW s \in Uploads, RollBack(s) PROVE LInv'
<1>1. UNCHANGED <<reg, net, cable, links, move, deletion, edits>>
  BY DEF RollBack
<1>2. /\ upload' = [upload EXCEPT ![s].status = "rolled_back"]
      /\ asked' = [asked EXCEPT ![s] = @ - 1] /\ asked[s] > 0
  BY DEF RollBack
<1> DEFINE SessionRows == [status : {"none", "validated", "committed", "rolled_back"},
                    kind : Kinds \cup {None}, rows : Seq(FileRow), written : BOOLEAN]
           row == [upload[s] EXCEPT !.status = "rolled_back"]
<1>3. Sessions' /\ Coded'
  <2>1. upload[s] \in SessionRows /\ upload \in [Uploads -> SessionRows] /\ asked[s] \in 0..2
    BY DEF LInv, Sessions
  <2>2. row \in SessionRows /\ row.rows = upload[s].rows /\ row.kind = upload[s].kind
    BY <2>1
  <2>3. upload' = [upload EXCEPT ![s] = row]
    BY <1>2
  <2> HIDE DEF SessionRows, row
  <2>4. upload' \in [Uploads -> SessionRows]
    BY <2>1, <2>2, <2>3
  <2>5. asked[s] - 1 \in 0..2
    BY <1>2, <2>1
  <2>6. asked' \in [Uploads -> 0..2]
    BY <1>2, <2>5 DEF LInv, Sessions
  <2>7. Coded'
    BY <2>1, <2>2, <2>3 DEF LInv, Coded
  <2> QED  BY <1>1, <2>4, <2>6, <2>7 DEF LInv, Sessions, SessionRows
<1>4. MapOK'
  BY <1>1, MapStays DEF LInv
<1>5. Matched' /\ Executed' /\ Previewed'
  BY <1>1, <1>4, SessionsCarried, SameRegister
<1> QED  BY <1>3, <1>4, <1>5 DEF LInv

LEMMA AskDeletionInv == ASSUME LInv, NEW d \in Deletions, AskDeletion(d) PROVE LInv'
<1>1. UNCHANGED <<reg, net, cable, links, move, upload, asked, edits>>
  BY DEF AskDeletion
<1> PICK kind \in Tables :
      \E m \in Matches(kind) :
        deletion' = [deletion EXCEPT ![d] =
          [status |-> "pending", kind |-> kind, matched |-> m, preview |-> Cascade(reg, kind, m)]]
  BY DEF AskDeletion
<1>2. PICK m \in Matches(kind) :
        deletion' = [deletion EXCEPT ![d] =
          [status |-> "pending", kind |-> kind, matched |-> m, preview |-> Cascade(reg, kind, m)]]
  OBVIOUS
<1> DEFINE hangs == Cascade(reg, kind, m)
<1>3. m \in SUBSET Mirrors /\ \A i \in m : i \in DOMAIN reg /\ reg[i].kind = kind
  BY RegisterIsMirrored DEF Matches, ActiveRows, LInv, MapOK
<1>4. hangs \in SUBSET Mirrors
  <2>1. ActiveRows(reg, "SPLITTER") \subseteq Mirrors
    BY RegisterIsMirrored DEF ActiveRows, LInv, MapOK
  <2>2. \A S : Below(reg, S) \subseteq S \cup ActiveRows(reg, "SPLITTER")
    BY BelowHolds
  <2> QED  BY <1>3, <2>1, <2>2 DEF Cascade
<1>5. deletion' = [deletion EXCEPT ![d] = [status |-> "pending", kind |-> kind, matched |-> m, preview |-> hangs]]
  BY <1>2
<1>6. hangs = Cascade(reg, kind, m)
  OBVIOUS
<1> HIDE DEF hangs
<1>7. Sessions' /\ Coded'
  <2> DEFINE row == [status |-> "pending", kind |-> kind, matched |-> m, preview |-> hangs]
             Rows == [status : {"none", "pending", "executed", "failed"},
                      kind : Tables \cup {None}, matched : SUBSET Mirrors, preview : SUBSET Mirrors]
  <2>1. deletion \in [Deletions -> Rows] /\ row \in Rows /\ deletion' = [deletion EXCEPT ![d] = row]
    BY <1>3, <1>4, <1>5 DEF LInv, Sessions
  <2> HIDE DEF row, Rows
  <2>2. deletion' \in [Deletions -> Rows]
    BY <2>1
  <2> QED  BY <1>1, <2>2 DEF LInv, Sessions, Coded, Rows
<1>8. Matched' /\ Executed'
  BY <1>1, <1>3, <1>5 DEF LInv, Sessions, Matched, Executed
<1>9. Previewed'
  BY <1>1, <1>5, <1>6 DEF LInv, Sessions, Previewed
<1>10. MapOK'
  BY <1>1, MapStays DEF LInv
<1> QED  BY <1>7, <1>8, <1>9, <1>10 DEF LInv

LEMMA ExecuteFailsInv == ASSUME LInv, NEW d \in Deletions, ExecuteFails(d) PROVE LInv'
<1>1. UNCHANGED <<reg, net, cable, links, move, upload, asked, edits>>
  BY DEF ExecuteFails
<1>2. deletion' = [deletion EXCEPT ![d].status = "failed"]
  BY DEF ExecuteFails
<1>3. Sessions' /\ Coded'
  BY <1>1, <1>2 DEF LInv, Sessions, Coded
<1>4. Matched' /\ Executed' /\ Previewed'
  BY <1>1, <1>2 DEF LInv, Sessions, Matched, Executed, Previewed
<1>5. MapOK'
  BY <1>1, MapStays DEF LInv
<1> QED  BY <1>3, <1>4, <1>5 DEF LInv

(* Rows deactivated with all that hangs from them leave a whole register. *)
Closing(doomed) ==
  \A i \in DOMAIN reg : reg[i].active /\ {reg[i].cabinet, reg[i].parent} \cap (doomed \ {None}) # {}
    => i \in doomed

LEMMA DeactivatedWhole ==
  ASSUME reg \in Registers, Refers(reg), NEW doomed, NEW r,
         r = [i \in DOMAIN reg |-> [reg[i] EXCEPT !.active = @ /\ i \notin doomed]]
  PROVE  /\ r \in Registers /\ Refers(r) /\ Later(r)
         /\ \A i \in DOMAIN reg : r[i].active <=> reg[i].active /\ i \notin doomed
         /\ Whole(reg) /\ Closing(doomed) => Whole(r)
<1>1. /\ DOMAIN reg = 1..Len(reg) /\ Len(reg) \in Nat /\ Len(reg) <= MaxReg
      /\ \A i \in DOMAIN reg : reg[i] \in Row
  BY RegisterIsMirrored DEF Registers
<1>2. ASSUME NEW i \in DOMAIN reg
      PROVE  /\ r[i] \in Row /\ r[i].kind = reg[i].kind /\ r[i].cabinet = reg[i].cabinet
             /\ r[i].parent = reg[i].parent /\ (r[i].active <=> reg[i].active /\ i \notin doomed)
  <2>1. reg[i] \in Row /\ (reg[i].active /\ i \notin doomed) \in BOOLEAN
    BY <1>1
  <2>2. r[i] = [reg[i] EXCEPT !.active = (reg[i].active /\ i \notin doomed)]
    OBVIOUS
  <2> DEFINE b == reg[i].active /\ i \notin doomed
  <2>3. r[i] = [reg[i] EXCEPT !.active = b] /\ b \in BOOLEAN
    BY <2>1, <2>2
  <2>4. (r[i].active <=> b) => (r[i].active <=> reg[i].active /\ i \notin doomed)
    OBVIOUS
  <2> HIDE DEF b
  <2> QED  BY <2>1, <2>3, <2>4 DEF Row
<1>3. r = [i \in 1..Len(reg) |-> r[i]] /\ DOMAIN r = DOMAIN reg
  BY <1>1
<1>4. r \in Registers
  <2>1. \A i \in 1..Len(reg) : r[i] \in Row
    BY <1>1, <1>2
  <2>2. r \in Seq(Row) /\ Len(r) = Len(reg)
    BY ONLY <1>1, <1>3, <2>1
  <2> QED  BY <1>1, <2>2 DEF Registers
<1>5. Refers(r)
  <2>1. ASSUME NEW i \in DOMAIN reg
        PROVE  /\ r[i].kind = "CABINET" => r[i].cabinet = None /\ r[i].parent = None
               /\ r[i].cabinet # None =>
                    r[i].cabinet \in DOMAIN reg /\ r[r[i].cabinet].kind = "CABINET"
               /\ r[i].parent # None =>
                    r[i].parent \in DOMAIN reg /\ r[r[i].parent].kind = "SPLITTER"
    <3>1. /\ reg[i].kind = "CABINET" => reg[i].cabinet = None /\ reg[i].parent = None
          /\ reg[i].cabinet # None => reg[i].cabinet \in DOMAIN reg /\ reg[reg[i].cabinet].kind = "CABINET"
          /\ reg[i].parent # None => reg[i].parent \in DOMAIN reg /\ reg[reg[i].parent].kind = "SPLITTER"
      BY DEF Refers
    <3> QED  BY ONLY <1>2, <3>1, i \in DOMAIN reg
  <2> QED  BY ONLY <2>1, DOMAIN r = DOMAIN reg DEF Refers
<1>6. ASSUME Whole(reg), Closing(doomed) PROVE Whole(r)
  <2>1. ASSUME NEW i \in DOMAIN reg, r[i].active, NEW p \in {r[i].cabinet, r[i].parent} \ {None}
        PROVE  r[p].active
    <3>1. p \in {reg[i].cabinet, reg[i].parent} /\ p # None /\ reg[i].active /\ i \notin doomed
      BY <1>2, <2>1
    <3>2. reg[p].active /\ p \in DOMAIN reg
      BY <1>6, <3>1 DEF Whole, Refers
    <3>3. p \notin doomed
      BY <1>6, <3>1 DEF Closing
    <3> QED  BY <1>2, <3>2, <3>3
  <2> QED  BY ONLY <2>1, DOMAIN r = DOMAIN reg DEF Whole
<1>7. Later(r)
  BY <1>2, <1>3 DEF Later
<1> QED  BY <1>2, <1>4, <1>5, <1>6, <1>7

(* The rows a deletion takes from a shallow register: with a row what hangs from it, *)
(* whatever kind it is of.                                                           *)
LEMMA CascadeHangs ==
  ASSUME reg \in Registers, Refers(reg), Shallow(reg), NEW kind, NEW m,
         \A i \in m : i \in DOMAIN reg /\ reg[i].kind = kind,
         NEW i \in DOMAIN reg, reg[i].active,
         NEW p \in {reg[i].cabinet, reg[i].parent}, p # None, p \in m \cup Cascade(reg, kind, m)
  PROVE  i \in Cascade(reg, kind, m)
<1> DEFINE boxes == ActiveRows(reg, "SPLITTER")
           inside == {j \in boxes : reg[j].cabinet \in m}
<1>1. reg[i].kind = "SPLITTER" /\ i \in boxes
  <2>1. reg[i].kind \in Tables
    BY RegisterIsMirrored DEF Row
  <2>2. reg[i].kind # "CABINET"
    BY DEF Refers
  <2> QED  BY <2>1, <2>2 DEF ActiveRows, Tables
<1>2. /\ \A j \in boxes : reg[j].kind = "SPLITTER"
      /\ inside \in SUBSET DOMAIN reg /\ m \in SUBSET DOMAIN reg
  BY DEF ActiveRows
<1>3. /\ p = reg[i].cabinet => reg[p].kind = "CABINET"
      /\ p = reg[i].parent => reg[p].kind = "SPLITTER"
  BY DEF Refers
<1>4. "CABINET" # "SPLITTER"
  OBVIOUS
<1>5. CASE kind = "CABINET"
  <2>1. Cascade(reg, kind, m) = Below(reg, inside)
    BY <1>5 DEF Cascade
  <2>2. /\ inside \subseteq Below(reg, inside) /\ Below(reg, inside) \subseteq boxes
        /\ reg[i].parent \in Below(reg, inside) => i \in Below(reg, inside)
    BY <1>1, <1>2, BelowHolds, BelowComplete
  <2>3. CASE p = reg[i].cabinet
    <3>1. p \notin boxes
      BY <1>2, <1>3, <2>3
    <3> QED  BY <1>1, <2>1, <2>2, <2>3, <3>1
  <2>4. CASE p = reg[i].parent
    <3>1. p \notin m
      BY <1>3, <1>5, <2>4
    <3> QED  BY <1>1, <2>1, <2>2, <2>4, <3>1
  <2> QED  BY <2>3, <2>4
<1>6. CASE kind # "CABINET"
  <2>1. Cascade(reg, kind, m) = Below(reg, m)
    BY <1>6 DEF Cascade
  <2>2. /\ m \subseteq Below(reg, m) /\ Below(reg, m) \subseteq m \cup boxes
        /\ reg[i].parent \in Below(reg, m) => i \in Below(reg, m)
    BY <1>1, <1>2, BelowHolds, BelowComplete
  <2>3. CASE p = reg[i].cabinet
    BY <1>2, <1>3, <1>6, <2>1, <2>2, <2>3
  <2>4. CASE p = reg[i].parent
    BY <1>1, <2>1, <2>2, <2>4
  <2> QED  BY <2>3, <2>4
<1> QED  BY <1>5, <1>6

LEMMA ShallowCloses == ASSUME LInv, NEW d \in Deletions, Shallow(reg) PROVE Closing(Doomed(d))
<1>1. Doomed(d) = deletion[d].matched \cup Cascade(reg, deletion[d].kind, deletion[d].matched)
  BY DEF Doomed
<1>2. /\ reg \in Registers /\ Refers(reg)
      /\ \A i \in deletion[d].matched : i \in DOMAIN reg /\ reg[i].kind = deletion[d].kind
  BY DEF LInv, MapOK, Matched
<1> SUFFICES ASSUME NEW i \in DOMAIN reg, reg[i].active,
                    NEW p \in {reg[i].cabinet, reg[i].parent}, p # None, p \in Doomed(d)
             PROVE  i \in Doomed(d)
  BY DEF Closing
<1> QED  BY <1>1, <1>2, CascadeHangs

(* What an execution makes of the register. *)
LEMMA Executes ==
  ASSUME LInv, NEW d \in Deletions, Execute(d)
  PROVE  /\ reg' \in Registers /\ Refers(reg') /\ Later(reg') /\ (Shallow(reg) => Whole(reg'))
         /\ \A i \in DOMAIN reg : reg'[i].active <=> reg[i].active /\ i \notin Doomed(d)
         /\ UNCHANGED <<reg, net, links>> \/ MirrorInto(reg')
         /\ deletion' = [deletion EXCEPT ![d].status = "executed"] /\ deletion[d].status = "pending"
         /\ UNCHANGED <<cable, upload, asked, move, edits>>
<1> DEFINE r == [i \in DOMAIN reg |-> [reg[i] EXCEPT !.active = @ /\ i \notin Doomed(d)]]
<1>1. /\ IF r = reg THEN UNCHANGED <<reg, net, links>> ELSE MirrorInto(r)
      /\ deletion' = [deletion EXCEPT ![d].status = "executed"] /\ deletion[d].status = "pending"
      /\ UNCHANGED <<cable, upload, asked, move, edits>>
  BY DEF Execute
<1>2. reg \in Registers /\ Refers(reg) /\ Sound(reg)
  BY DEF LInv, MapOK
<1>3. r = [i \in DOMAIN reg |-> [reg[i] EXCEPT !.active = @ /\ i \notin Doomed(d)]]
  OBVIOUS
<1> HIDE DEF r
<1>4. /\ r \in Registers /\ Refers(r) /\ Later(r)
      /\ \A i \in DOMAIN reg : r[i].active <=> reg[i].active /\ i \notin Doomed(d)
      /\ Whole(reg) /\ Closing(Doomed(d)) => Whole(r)
  BY ONLY <1>2, <1>3, DeactivatedWhole
<1>5. Shallow(reg) => Whole(r)
  BY <1>2, <1>4, ShallowCloses DEF Sound
<1>6. reg' = r /\ (UNCHANGED <<reg, net, links>> \/ MirrorInto(r))
  BY <1>1 DEF MirrorInto
<1> QED  BY <1>1, <1>4, <1>5, <1>6

LEMMA ExecuteInv == ASSUME LInv, NEW d \in Deletions, Execute(d) PROVE LInv'
<1>1. /\ reg' \in Registers /\ Refers(reg') /\ Later(reg') /\ (Shallow(reg) => Whole(reg'))
      /\ \A i \in DOMAIN reg : reg'[i].active <=> reg[i].active /\ i \notin Doomed(d)
      /\ UNCHANGED <<reg, net, links>> \/ MirrorInto(reg')
      /\ deletion' = [deletion EXCEPT ![d].status = "executed"]
      /\ UNCHANGED <<cable, upload, asked, move, edits>>
  BY Executes
<1>2. MapOK /\ reg \in Registers /\ Refers(reg)
  BY DEF LInv, MapOK
<1>3. MapOK'
  <2>1. CASE UNCHANGED <<reg, net, links>>
    BY <1>1, <1>2, <2>1, MapStays
  <2>2. CASE MirrorInto(reg')
    <3>1. Sound(reg')
      BY <1>1, <1>2, ShallowBefore DEF Sound
    <3>2. cable' = cable /\ move' = move
      BY <1>1
    <3> QED  BY <1>1, <1>2, <2>2, <3>1, <3>2, Mirroring
  <2> QED  BY <1>1, <2>1, <2>2
<1>4. Sessions' /\ Coded'
  BY <1>1 DEF LInv, Sessions, Coded
<1>5. ASSUME NEW e \in Deletions
      PROVE  /\ deletion'[e].kind = deletion[e].kind /\ deletion'[e].matched = deletion[e].matched
             /\ deletion'[e].preview = deletion[e].preview
             /\ IF e = d THEN deletion'[e].status = "executed" ELSE deletion'[e].status = deletion[e].status
  BY <1>1 DEF LInv, Sessions
<1>6. Matched'
  BY <1>1, <1>5 DEF LInv, Matched, Later
<1>7. Executed'
  <2> SUFFICES ASSUME NEW e \in Deletions, deletion'[e].status = "executed", NEW i \in deletion[e].matched
               PROVE  ~reg'[i].active
    BY <1>5 DEF Executed
  <2>1. i \in DOMAIN reg
    BY DEF LInv, Matched
  <2>2. CASE e = d
    BY <1>1, <2>1, <2>2 DEF Doomed
  <2>3. CASE e # d
    BY <1>1, <1>5, <2>1, <2>3 DEF LInv, Executed
  <2> QED  BY <2>2, <2>3
<1>8. Previewed'
  <2> SUFFICES ASSUME NEW e \in Deletions, deletion'[e].status = "pending"
               PROVE  Cascade(reg', deletion[e].kind, deletion[e].matched) \subseteq deletion[e].preview
    BY <1>5 DEF Previewed
  <2>1. e # d /\ deletion[e].status = "pending"
    BY <1>5
  <2>2. Cascade(reg', deletion[e].kind, deletion[e].matched) \subseteq Cascade(reg, deletion[e].kind, deletion[e].matched)
    BY <1>1, MatchedRows, CascadeShrinks
  <2> QED  BY <2>1, <2>2 DEF LInv, Previewed
<1> QED  BY <1>3, <1>4, <1>6, <1>7, <1>8 DEF LInv

(* New rows refer to nothing. *)
LEMMA CommitRegisterMap ==
  ASSUME LInv, NEW s \in Uploads, upload[s].kind \in Tables, NEW batch, batch \in {upload[s].rows, <<>>},
         upload[s].kind # "CABLE", CommitRegister(s, batch), move' = move
  PROVE  MapOK' /\ Later(reg')
<1> DEFINE added == [k \in DOMAIN batch |-> NewRow(upload[s].kind, batch[k])]
           r == reg \o added
<1>1. /\ MapOK /\ reg \in Seq(Row) /\ reg \in Registers /\ Refers(reg) /\ Sound(reg)
      /\ DOMAIN reg = 1..Len(reg) /\ Len(reg) \in Nat
  BY RegisterIsMirrored DEF LInv, MapOK, Registers
<1>2. /\ batch \in Seq(FileRow) /\ \A k \in DOMAIN batch : batch[k].code \in Codes
  <2>1. upload[s].rows \in Seq(FileRow) /\ \A k \in DOMAIN upload[s].rows : upload[s].rows[k].code \in Codes
    BY DEF LInv, Sessions, Coded
  <2>2. <<>> \in Seq(FileRow) /\ DOMAIN <<>> = {}
    OBVIOUS
  <2> QED  BY <2>1, <2>2
<1>3. /\ DOMAIN added = 1..Len(batch) /\ Len(batch) \in Nat
      /\ \A k \in DOMAIN added : added[k] = NewRow(upload[s].kind, batch[k]) /\ batch[k].code \in Codes
  BY <1>2
<1>4. \A k \in DOMAIN added : added[k] \in Row /\ added[k].cabinet = None /\ added[k].parent = None
  BY <1>3 DEF NewRow, Row
<1>5. added \in Seq(Row) /\ Len(added) = Len(batch)
  <2>1. added = [k \in 1..Len(batch) |-> added[k]]
    BY <1>3
  <2> HIDE DEF added
  <2> QED  BY <1>3, <1>4, <2>1
<1> HIDE DEF added
<1>6. /\ r \in Seq(Row) /\ Len(r) = Len(reg) + Len(added) /\ DOMAIN r = 1..(Len(reg) + Len(added))
      /\ \A i \in DOMAIN reg : r[i] = reg[i]
      /\ \A i \in DOMAIN r : i \in DOMAIN reg \/ (r[i].cabinet = None /\ r[i].parent = None)
  <2>1. r \in Seq(Row) /\ Len(r) = Len(reg) + Len(added) /\ DOMAIN r = 1..(Len(reg) + Len(added))
    BY <1>1, <1>5
  <2>2. \A i \in DOMAIN reg : r[i] = reg[i]
    BY <1>1, <1>5
  <2>3. ASSUME NEW i \in DOMAIN r, i \notin DOMAIN reg PROVE r[i].cabinet = None /\ r[i].parent = None
    <3>1. r[i] = added[i - Len(reg)] /\ i - Len(reg) \in DOMAIN added
      BY <1>1, <1>5, <2>1, <2>3
    <3> HIDE DEF r
    <3> QED  BY <1>4, <3>1
  <2> HIDE DEF r
  <2> QED  BY <2>1, <2>2, <2>3
<1>7. /\ Len(r) <= MaxReg /\ (IF batch = <<>> THEN UNCHANGED <<reg, net, links>> ELSE MirrorInto(r))
      /\ cable' = cable /\ move' = move
  BY DEF CommitRegister, added
<1> HIDE DEF r
<1>8. r \in Registers /\ DOMAIN reg \subseteq DOMAIN r
  BY <1>1, <1>5, <1>6, <1>7 DEF Registers
<1>9. Refers(r)
  BY ONLY <1>1, <1>6, <1>8 DEF Refers
<1>10. Later(r) /\ Later(reg)
  BY <1>6, <1>8 DEF Later
<1>11. Sound(r)
  <2> SUFFICES ASSUME Shallow(r) PROVE Whole(r)
    BY DEF Sound
  <2>1. Whole(reg)
    BY <1>1, <1>8, <1>10, ShallowBefore DEF Sound
  <2>2. ASSUME NEW i \in DOMAIN r, r[i].active, NEW p \in {r[i].cabinet, r[i].parent} \ {None}
        PROVE  r[p].active
    <3>1. i \in DOMAIN reg /\ reg[i].active /\ p \in {reg[i].cabinet, reg[i].parent} \ {None}
      BY <1>6, <2>2
    <3>2. p \in DOMAIN reg /\ reg[p].active
      BY <1>1, <2>1, <3>1 DEF Whole, Refers
    <3> QED  BY <1>6, <3>2
  <2> QED  BY ONLY <2>2 DEF Whole
<1>12. CASE batch = <<>>
  <2>1. reg' = reg
    BY <1>7, <1>12
  <2>2. MapOK'
    BY <1>1, <1>7, <1>12, MapStays
  <2> QED  BY <1>10, <2>1, <2>2
<1>13. CASE batch # <<>>
  <2>1. reg' = r
    BY <1>7, <1>13 DEF MirrorInto
  <2>2. MapOK'
    BY <1>1, <1>7, <1>8, <1>9, <1>11, <1>13, Mirroring
  <2> QED  BY <1>10, <2>1, <2>2
<1> QED  BY <1>12, <1>13

LEMMA CommitAssetsMap ==
  ASSUME LInv, NEW s \in Uploads, upload[s].kind \notin Tables, upload[s].kind # "CABLE",
         NEW batch, batch \in {upload[s].rows, <<>>}, CommitAssets(s, batch), move' = move
  PROVE  MapOK' /\ Later(reg')
<1>1. PICK h \in [DOMAIN batch -> {h \in Hands : net[h].state = "unused"}] :
        net' = [a \in Assets |->
                  IF \E k \in DOMAIN batch : h[k] = a
                  THEN [Blank EXCEPT !.state = "live", !.type = upload[s].kind,
                                     !.code = batch[CHOOSE k \in DOMAIN batch : h[k] = a].code]
                  ELSE net[a]]
  BY DEF CommitAssets
<1>2. links' = Sync(net', cable, links) /\ reg' = reg /\ cable' = cable
  BY DEF CommitAssets
<1>3. MapOK /\ net \in Nets /\ reg \in Registers /\ OnTheMap(reg, net)
  BY DEF LInv, MapOK
<1>4. upload[s].kind \in Types \cup {None} /\ \A k \in DOMAIN batch : batch[k].code \in Codes
  BY DEF LInv, Sessions, Coded, Kinds, Types
<1>5. ASSUME NEW a \in Assets
      PROVE  /\ net'[a] \in Asset /\ net'[a].within \in {net[a].within, None}
             /\ net'[a].state # "unused" \/ net'[a] = net[a]
             /\ a \in DOMAIN reg => net'[a] = net[a]
  <2>1. CASE \E k \in DOMAIN batch : h[k] = a
    <3> DEFINE k == CHOOSE k \in DOMAIN batch : h[k] = a
    <3>1. k \in DOMAIN batch /\ h[k] = a
      BY <2>1
    <3>2. a \in Hands /\ batch[k].code \in Codes
      BY <1>4, <3>1
    <3>3. net'[a] = [Blank EXCEPT !.state = "live", !.type = upload[s].kind, !.code = batch[k].code]
      BY <1>1, <2>1
    <3> HIDE DEF k
    <3>4. net'[a] \in Asset /\ net'[a].within = None /\ net'[a].state = "live"
      BY <1>4, <3>2, <3>3 DEF Blank, Asset
    <3>5. a \notin DOMAIN reg
      BY <1>3, <3>2, RegisterIsMirrored, MirrorAssumption DEF Mirrors
    <3> QED  BY <3>4, <3>5
  <2>2. CASE ~ \E k \in DOMAIN batch : h[k] = a
    BY <1>1, <1>3, <2>2 DEF Nets
  <2> QED  BY <2>1, <2>2
<1>6. net' \in Nets
  <2>1. net' = [a \in Assets |-> net'[a]] /\ \A a \in Assets : net'[a] \in Asset
    BY <1>1, <1>3, <1>5 DEF Nets
  <2> QED  BY <2>1 DEF Nets
<1>7. MapOK'
  <2>1. \A a \in Assets : /\ net'[a].within \in {net[a].within, None}
                          /\ net'[a].state = "unused" => net[a].state = "unused"
                          /\ a \in DOMAIN reg /\ net'[a].state = "live" => net[a].state = "live"
    BY <1>5
  <2> QED  BY <1>2, <1>3, <1>6, <2>1, NetEdited
<1> QED  BY <1>2, <1>7, SameRegister

LEMMA EndIsAnAsset == ASSUME NEW code PROVE End(code) \in Ends
<1>1. CASE \E a \in Assets : Named(net, code) = {a}
  BY <1>1 DEF End, Ends
<1>2. CASE ~ \E a \in Assets : Named(net, code) = {a}
  BY <1>2 DEF End, Ends
<1> QED  BY <1>1, <1>2

LEMMA CommitCablesMap ==
  ASSUME LInv, NEW s \in Uploads, NEW batch, CommitCables(s, batch), move' = move
  PROVE  MapOK' /\ Later(reg')
<1>1. PICK c \in [DOMAIN batch -> {c \in Cables : cable[c].state = "unused"}] :
        cable' = [x \in Cables |->
            IF \E k \in DOMAIN batch : c[k] = x
            THEN LET row == batch[CHOOSE k \in DOMAIN batch : c[k] = x]
                 IN [state |-> "live", from |-> End(row.from), to |-> End(row.to)]
            ELSE cable[x]]
  BY DEF CommitCables
<1>2. links' = Sync(net, cable', links) /\ reg' = reg /\ net' = net
  BY DEF CommitCables
<1>3. MapOK /\ cable \in Wires
  BY DEF LInv, MapOK
<1>4. cable' \in Wires
  <2>1. \A e, f : [state |-> "live", from |-> End(e), to |-> End(f)]
                    \in [state : {"unused", "live", "gone"}, from : Ends, to : Ends]
    BY EndIsAnAsset
  <2> QED  BY <1>1, <1>3, <2>1 DEF Wires
<1>5. MapOK'
  BY <1>2, <1>3, <1>4, OnlyCables
<1> QED  BY <1>2, <1>5, SameRegister

LEMMA CommitInv == ASSUME LInv, NEW s \in Uploads, Commit(s) PROVE LInv'
<1>1. PICK batch \in {upload[s].rows, <<>>} :
        CASE upload[s].kind \in Tables -> CommitRegister(s, batch)
          [] upload[s].kind = "CABLE" -> CommitCables(s, batch)
          [] OTHER -> CommitAssets(s, batch)
  BY DEF Commit
<1>2. /\ upload' = [upload EXCEPT ![s].status = "committed", ![s].written = TRUE]
      /\ asked' = [asked EXCEPT ![s] = @ - 1] /\ asked[s] > 0
      /\ UNCHANGED <<deletion, move, edits>>
  BY DEF Commit
<1>3. "CABLE" \notin Tables
  BY DEF Tables
<1>4. MapOK' /\ Later(reg')
  <2>1. CASE upload[s].kind \in Tables
    <3>1. CommitRegister(s, batch) /\ upload[s].kind # "CABLE"
      BY <1>1, <1>3, <2>1
    <3> QED  BY <1>2, <2>1, <3>1, CommitRegisterMap
  <2>2. CASE upload[s].kind = "CABLE"
    <3>1. CommitCables(s, batch)
      BY <1>1, <1>3, <2>2
    <3> QED  BY <1>2, <3>1, CommitCablesMap
  <2>3. CASE upload[s].kind \notin Tables /\ upload[s].kind # "CABLE"
    <3>1. CommitAssets(s, batch)
      BY <1>1, <2>3
    <3> QED  BY <1>2, <2>3, <3>1, CommitAssetsMap
  <2> QED  BY <2>1, <2>2, <2>3
<1>5. Sessions' /\ Coded'
  <2> DEFINE row == [upload[s] EXCEPT !.status = "committed", !.written = TRUE]
             Rows == [status : {"none", "validated", "committed", "rolled_back"},
                      kind : Kinds \cup {None}, rows : Seq(FileRow), written : BOOLEAN]
  <2>1. upload \in [Uploads -> Rows] /\ Sessions /\ Coded
    BY DEF LInv, Sessions
  <2>2. row \in Rows /\ row.kind = upload[s].kind /\ row.rows = upload[s].rows
    BY <2>1
  <2>3. upload' = [upload EXCEPT ![s] = row]
    BY <1>2
  <2> HIDE DEF row, Rows
  <2>4. upload' \in [Uploads -> Rows]
    BY <2>1, <2>2, <2>3
  <2>5. Coded'
    BY <2>1, <2>2, <2>3 DEF Coded
  <2>6. asked' \in [Uploads -> 0..2]
    BY <1>2, <2>1 DEF Sessions
  <2> QED  BY <1>2, <2>1, <2>4, <2>5, <2>6 DEF Sessions, Rows
<1>6. Matched' /\ Executed' /\ Previewed'
  BY <1>2, <1>4, SessionsCarried
<1> QED  BY <1>4, <1>5, <1>6 DEF LInv

(* A step that leaves the register and the sessions alone. *)
LEMMA SessionsStay ==
  ASSUME LInv, MapOK', reg' = reg, upload' = upload, asked' = asked, deletion' = deletion, edits' \in 0..MaxEdits
  PROVE  Sessions' /\ Coded' /\ Matched' /\ Executed' /\ Previewed'
<1>1. Sessions'
  BY DEF LInv, Sessions
<1>2. Coded'
  BY DEF LInv, Coded
<1>3. Matched' /\ Executed' /\ Previewed'
  BY SessionsCarried, SameRegister
<1> QED  BY <1>1, <1>2, <1>3

LEMMA SyncUploadedInv == ASSUME LInv, SyncUploaded PROVE LInv'
<1>1. /\ MirrorInto(reg) /\ reg' = reg /\ cable' = cable /\ move' = move
      /\ upload' = upload /\ asked' = asked /\ deletion' = deletion /\ edits' = edits
  BY DEF SyncUploaded, MirrorInto
<1>2. MapOK'
  BY <1>1, Mirroring DEF LInv, MapOK
<1>3. edits' \in 0..MaxEdits
  BY <1>1 DEF LInv, Sessions
<1>4. Sessions' /\ Coded' /\ Matched' /\ Executed' /\ Previewed'
  BY <1>1, <1>2, <1>3, SessionsStay
<1> QED  BY <1>2, <1>4 DEF LInv

---------------------------------------------------------------------------
(* Edits by hand *)

LEMMA Edited == ASSUME LInv, Edit PROVE edits' \in 0..MaxEdits
BY FilesAssumption DEF LInv, Sessions, Edit

LEMMA EditInv ==
  ASSUME LInv, Edit, MapOK', reg' = reg, upload' = upload, asked' = asked, deletion' = deletion
  PROVE  LInv'
<1>1. Sessions' /\ Coded' /\ Matched' /\ Executed' /\ Previewed'
  BY Edited, SessionsStay
<1> QED  BY <1>1 DEF LInv

LEMMA WriteNetFacts ==
  ASSUME NEW n, WriteNet(n)
  PROVE  /\ net' = n /\ links' = Sync(n, cable, links) /\ reg' = reg /\ cable' = cable
         /\ upload' = upload /\ asked' = asked /\ deletion' = deletion
BY DEF WriteNet

(* An edit of one asset that moves it into nothing new and brings it not to life. *)
LEMMA OneEdited ==
  ASSUME LInv, Edit, NEW a \in Assets, NEW row \in Asset, WriteNet([net EXCEPT ![a] = row]),
         row.within \in {net[a].within, None}, row.state = net[a].state, move' = move
  PROVE  LInv'
<1> DEFINE n == [net EXCEPT ![a] = row]
<1>1. MapOK /\ net \in Nets
  BY DEF LInv, MapOK
<1>2. n \in Nets
  BY <1>1 DEF Nets
<1>3. \A x \in Assets : /\ n[x].within \in {net[x].within, None}
                        /\ n[x].state = net[x].state
  BY <1>1 DEF Nets
<1>4. /\ net' = n /\ links' = Sync(n, cable, links) /\ reg' = reg /\ cable' = cable
      /\ upload' = upload /\ asked' = asked /\ deletion' = deletion
  BY WriteNetFacts
<1> HIDE DEF n
<1>5. MapOK'
  BY <1>1, <1>2, <1>3, <1>4, NetEdited
<1> QED  BY <1>4, <1>5, EditInv

LEMMA LiveAsset == ASSUME LInv, NEW a \in Live(net) PROVE a \in Assets /\ net[a] \in Asset /\ net[a].state = "live"
BY DEF Live, LInv, MapOK, Nets

LEMMA RenameInv == ASSUME LInv, NEW a \in Assets, NEW code \in HandCodes, Rename(a, code) PROVE LInv'
<1> DEFINE row == [net[a] EXCEPT !.code = code]
<1>1. Edit /\ WriteNet([net EXCEPT ![a].code = code]) /\ net[a] \in Asset /\ move' = move
  BY LiveAsset DEF Rename
<1>2. row \in Asset /\ row.within = net[a].within /\ row.state = net[a].state
  BY <1>1, FilesAssumption DEF Asset
<1>3. WriteNet([net EXCEPT ![a] = row])
  BY <1>1
<1> HIDE DEF row
<1> QED  BY <1>1, <1>2, <1>3, OneEdited

LEMMA SetAttributesInv == ASSUME LInv, NEW a \in Assets, SetAttributes(a) PROVE LInv'
<1>1. Edit /\ net[a] \in Asset /\ move' = move
  BY LiveAsset DEF SetAttributes
<1>2. ASSUME NEW e \in Ends, WriteNet([net EXCEPT ![a].cab = e]) PROVE LInv'
  <2> DEFINE row == [net[a] EXCEPT !.cab = e]
  <2>1. row \in Asset /\ row.within = net[a].within /\ row.state = net[a].state
    BY <1>1 DEF Asset, Ends
  <2>2. WriteNet([net EXCEPT ![a] = row])
    BY <1>2
  <2> HIDE DEF row
  <2> QED  BY <1>1, <2>1, <2>2, OneEdited
<1>3. ASSUME NEW e \in Ends, WriteNet([net EXCEPT ![a].par = e]) PROVE LInv'
  <2> DEFINE row == [net[a] EXCEPT !.par = e]
  <2>1. row \in Asset /\ row.within = net[a].within /\ row.state = net[a].state
    BY <1>1 DEF Asset, Ends
  <2>2. WriteNet([net EXCEPT ![a] = row])
    BY <1>3
  <2> HIDE DEF row
  <2> QED  BY <1>1, <2>1, <2>2, OneEdited
<1>4. ASSUME NEW code \in EndCodes, WriteNet([net EXCEPT ![a].fdt = code]) PROVE LInv'
  <2> DEFINE row == [net[a] EXCEPT !.fdt = code]
  <2>1. row \in Asset /\ row.within = net[a].within /\ row.state = net[a].state
    BY <1>1 DEF Asset, EndCodes
  <2>2. WriteNet([net EXCEPT ![a] = row])
    BY <1>4
  <2> HIDE DEF row
  <2> QED  BY <1>1, <2>1, <2>2, OneEdited
<1>5. HandEnds \cup {None} \subseteq Ends /\ HandCodes \cup {None} \subseteq EndCodes
  BY FilesAssumption DEF Ends, EndCodes
<1> QED  BY <1>2, <1>3, <1>4, <1>5 DEF SetAttributes

(* Putting an asset into another: where the check held, no loop is closed. *)
PutInto(n, a, p, m) ==
  /\ m \in Nets /\ ContainersExist(m) /\ \A x \in Assets : m[x].state = n[x].state
  /\ Loopless(n, MAX_WALK + 1) /\ (p # None => a \notin Above(n, p)) => Loopless(m, MAX_WALK + 1)

LEMMA PutContained ==
  ASSUME NEW n \in Nets, NEW a \in Assets, NEW p \in Ends, NEW m, m = [n EXCEPT ![a].within = p],
         ContainersExist(n), p # None => n[p].state # "unused"
  PROVE  PutInto(n, a, p, m)
<1> DEFINE row == [n[a] EXCEPT !.within = p]
<1>1. n[a] \in Asset
  BY DEF Nets
<1>2. row \in Asset /\ row.within = p /\ row.state = n[a].state
  BY <1>1 DEF Asset, Ends
<1>3. m = [n EXCEPT ![a] = row]
  OBVIOUS
<1> HIDE DEF row
<1>4. m \in Nets /\ m[a] = row /\ \A x \in Assets : x # a => m[x] = n[x]
  BY <1>2, <1>3 DEF Nets
<1>5. \A x \in Assets : m[x].state = n[x].state
  BY <1>2, <1>4
<1>6. ContainersExist(m)
  <2> SUFFICES ASSUME NEW x \in Assets, m[x].within # None PROVE m[m[x].within].state # "unused"
    BY DEF ContainersExist
  <2>1. m[x].within \in Assets
    BY <1>4 DEF Nets, Asset
  <2>2. CASE x = a
    BY <1>2, <1>4, <1>5, <2>1, <2>2
  <2>3. CASE x # a
    BY <1>4, <1>5, <2>1, <2>3 DEF ContainersExist
  <2> QED  BY <2>2, <2>3
<1>7. ASSUME Loopless(n, MAX_WALK + 1), p # None => a \notin Above(n, p) PROVE Loopless(m, MAX_WALK + 1)
  <2>1. CASE p = None
    <3> SUFFICES ASSUME NEW S, Loop(m, MAX_WALK + 1, S) PROVE Loop(n, MAX_WALK + 1, S)
      BY <1>7, NoLoop
    <3>1. a \notin S
      BY <1>2, <1>4, <2>1, NoneIsNoAsset DEF Loop
    <3>2. \A x \in S : n[x].within \in S
      BY <1>4, <3>1 DEF Loop
    <3> QED  BY <3>2 DEF Loop
  <2>2. CASE p # None
    <3>1. p \in Assets /\ a \notin Above(n, p) /\ m[a].within = p
      BY <1>2, <1>4, <1>7, <2>2 DEF Ends
    <3> QED  BY <1>4, <1>7, <3>1, MovedLoopless
  <2> QED  BY <2>1, <2>2
<1> QED  BY <1>4, <1>5, <1>6, <1>7 DEF PutInto

(* What a move writes; what is known of the move in hand afterwards is its own affair. *)
LEMMA MoveWritten ==
  ASSUME MapOK, NEW a \in Assets, NEW p \in Ends, Put(a, p), p # None => net[p].state # "unused",
         move' \in Moves, MoveOK(net', move')
  PROVE  MapOK'
<1> DEFINE n == [net EXCEPT ![a].within = p]
<1>1. /\ net' = n /\ links' = Sync(n, cable, links) /\ reg' = reg /\ cable' = cable
      /\ upload' = upload /\ asked' = asked /\ deletion' = deletion
  BY WriteNetFacts DEF Put
<1>2. net \in Nets /\ ContainersExist(net) /\ OnTheMap(reg, net) /\ reg \in Registers /\ cable \in Wires
  BY DEF MapOK
<1> HIDE DEF n
<1>3. n = [net EXCEPT ![a].within = p]
  BY DEF n
<1>4. n \in Nets /\ ContainersExist(n) /\ \A x \in Assets : n[x].state = net[x].state
  <2>1. PutInto(net, a, p, n)
    BY <1>2, <1>3, PutContained
  <2> QED  BY <2>1 DEF PutInto
<1>5. OnTheMap(reg, n)
  BY <1>2, <1>4, RegisterIsMirrored DEF OnTheMap
<1> QED  BY <1>1, <1>2, <1>4, <1>5, NetWritten

LEMMA MoveInv == ASSUME LInv, NEW a \in Assets, NEW p \in Ends, Move(a, p) PROVE LInv'
<1>1. /\ Edit /\ Put(a, p) /\ net' = [net EXCEPT ![a].within = p]
      /\ reg' = reg /\ upload' = upload /\ asked' = asked /\ deletion' = deletion
      /\ p # None => p \in Live(net) /\ a \notin Above(net, p)
      /\ move' = [move EXCEPT !.overtaken = move.asset # None]
  BY WriteNetFacts DEF Move, Checked, Put
<1>2. net \in Nets /\ ContainersExist(net) /\ move \in Moves /\ MoveOK(net, move) /\ MapOK
  BY DEF LInv, MapOK
<1>3. p # None => net[p].state # "unused"
  BY <1>1 DEF Live
<1>4. /\ \A x \in Assets : net'[x].state = net[x].state
      /\ Loopless(net, MAX_WALK + 1) => Loopless(net', MAX_WALK + 1)
  <2>1. PutInto(net, a, p, net')
    BY <1>1, <1>2, <1>3, PutContained
  <2> QED  BY <1>1, <2>1 DEF PutInto
<1>5. /\ move' \in Moves /\ move'.asset = move.asset /\ move'.into = move.into /\ move'.raced = move.raced
      /\ move'.asset # None => move'.overtaken
  BY <1>1, <1>2 DEF Moves
<1>6. move.asset \in Assets \cup {None} /\ move.into \in Assets \cup {None}
  BY <1>2 DEF Moves, Ends
<1>7. MoveOK(net', move')
  BY <1>2, <1>4, <1>5, <1>6 DEF MoveOK
<1>8. MapOK'
  BY <1>1, <1>2, <1>3, <1>5, <1>7, MoveWritten
<1> QED  BY <1>1, <1>8, EditInv

LEMMA CheckMoveInv == ASSUME LInv, NEW a \in Assets, NEW p \in Ends, CheckMove(a, p) PROVE LInv'
<1>1. /\ Edit /\ UNCHANGED <<reg, net, cable, links, upload, asked, deletion>>
      /\ a \in Live(net) /\ (p # None => p \in Live(net) /\ a \notin Above(net, p))
      /\ move' = [move EXCEPT !.asset = a, !.into = p]
  BY DEF CheckMove, Checked
<1>2. move \in Moves /\ MoveOK(net, move) /\ MapOK
  BY DEF LInv, MapOK
<1>3. move' \in Moves /\ move'.asset = a /\ move'.into = p /\ move'.raced = move.raced
  BY <1>1, <1>2 DEF Moves, Ends
<1>4. MoveOK(net, move')
  BY <1>1, <1>2, <1>3 DEF MoveOK, Live
<1>5. reg' \in Registers /\ Refers(reg') /\ Sound(reg') /\ OnTheMap(reg', net') /\ MoveOK(net', move')
  BY <1>1, <1>2, <1>4 DEF MapOK
<1>6. MapOK'
  BY <1>1, <1>2, <1>3, <1>5 DEF MapOK
<1> QED  BY <1>1, <1>6, EditInv

LEMMA WriteMoveInv == ASSUME LInv, WriteMove PROVE LInv'
<1> DEFINE a == move.asset
           p == move.into
<1>1. /\ a # None /\ Put(a, p) /\ net' = [net EXCEPT ![a].within = p] /\ edits' = edits
      /\ reg' = reg /\ upload' = upload /\ asked' = asked /\ deletion' = deletion
      /\ move' = [NoMove EXCEPT !.raced = move.raced \/ move.overtaken]
  BY WriteNetFacts DEF WriteMove, Put
<1>2. net \in Nets /\ ContainersExist(net) /\ move \in Moves /\ MoveOK(net, move) /\ MapOK
  BY DEF LInv, MapOK
<1>3. a \in Assets /\ p \in Ends /\ move.raced \in BOOLEAN /\ move.overtaken \in BOOLEAN
  BY <1>1, <1>2 DEF Moves, Ends
<1>4. p # None => net[p].state # "unused" /\ (~move.overtaken => a \notin Above(net, p))
  BY <1>1, <1>2 DEF MoveOK
<1>5. move' \in Moves /\ move'.asset = None /\ move'.raced = (move.raced \/ move.overtaken)
  BY <1>1, <1>3 DEF Moves, NoMove, Ends
<1> HIDE DEF a, p
<1>6. ~move'.raced => Loopless(net, MAX_WALK + 1) /\ (p # None => a \notin Above(net, p))
  BY <1>2, <1>4, <1>5 DEF MoveOK
<1>7. Loopless(net, MAX_WALK + 1) /\ (p # None => a \notin Above(net, p)) => Loopless(net', MAX_WALK + 1)
  <2>1. PutInto(net, a, p, net')
    BY <1>1, <1>2, <1>3, <1>4, PutContained
  <2> QED  BY <2>1 DEF PutInto
<1>8. MoveOK(net', move')
  BY <1>5, <1>6, <1>7 DEF MoveOK
<1>9. MapOK'
  BY <1>1, <1>2, <1>3, <1>4, <1>5, <1>8, MoveWritten
<1>10. edits' \in 0..MaxEdits
  BY <1>1 DEF LInv, Sessions
<1>11. Sessions' /\ Coded' /\ Matched' /\ Executed' /\ Previewed'
  BY <1>1, <1>9, <1>10, SessionsStay
<1> QED  BY <1>9, <1>11 DEF LInv

LEMMA CreateAssetInv == ASSUME LInv, NEW h \in Hands, CreateAsset(h) PROVE LInv'
<1>1. PICK type \in HandTypes, code \in HandCodes, w \in Given :
        WriteNet([net EXCEPT ![h] = [Blank EXCEPT !.state = "live", !.type = type, !.code = code, !.within = w]])
  BY DEF CreateAsset
<1> DEFINE row == [Blank EXCEPT !.state = "live", !.type = type, !.code = code, !.within = w]
           n == [net EXCEPT ![h] = row]
<1>2. Edit /\ net[h].state = "unused" /\ MapOK /\ net \in Nets /\ h \in Assets /\ move' = move
  BY NoneIsNoAsset DEF CreateAsset, LInv, MapOK
<1>3. w \in Live(net) \cup {None} /\ w \in Assets \cup {None} /\ type \in Types /\ code \in Codes
  BY FilesAssumption DEF Live, Given
<1>4. row \in Asset /\ row.state = "live" /\ row.within = w
  BY <1>3 DEF Blank, Asset
<1> HIDE DEF row
<1>5. n \in Nets /\ n[h] = row /\ \A x \in Assets : x # h => n[x] = net[x]
  BY <1>2, <1>4 DEF Nets
<1>6. /\ net' = n /\ links' = Sync(n, cable, links) /\ reg' = reg /\ cable' = cable
      /\ upload' = upload /\ asked' = asked /\ deletion' = deletion
  BY <1>1, WriteNetFacts DEF row
<1> HIDE DEF n
<1>7. ContainersExist(n) /\ MoveOK(n, move)
  <2>1. move \in Moves /\ ContainersExist(net) /\ MoveOK(net, move)
    BY <1>2 DEF MapOK
  <2> QED  BY <1>2, <1>3, <1>4, <1>5, <2>1, CreatedLoopless
<1>8. OnTheMap(reg, n)
  <2>1. h \notin DOMAIN reg
    BY <1>2, RegisterIsMirrored, MirrorAssumption DEF MapOK, Mirrors
  <2> QED  BY <1>2, <1>5, <2>1, RegisterIsMirrored DEF MapOK, OnTheMap
<1>9. cable' \in Wires /\ move' \in Moves
  BY <1>2, <1>6 DEF MapOK
<1>10. MapOK'
  BY <1>2, <1>5, <1>6, <1>7, <1>8, <1>9, NetWritten
<1> QED  BY <1>2, <1>6, <1>10, EditInv

LEMMA DeleteAssetInv == ASSUME LInv, NEW a \in Assets, DeleteAsset(a) PROVE LInv'
<1> DEFINE n == [x \in Assets |-> [net[x] EXCEPT !.state = IF x = a THEN "gone" ELSE @,
                                                !.within = IF @ = a THEN None ELSE @]]
<1>1. Edit /\ WriteNet(n) /\ MapOK /\ net \in Nets /\ move' = move
  BY DEF DeleteAsset, LInv, MapOK
<1>2. ASSUME NEW x \in Assets
      PROVE  /\ n[x] \in Asset /\ n[x].within \in {net[x].within, None}
             /\ n[x].state \in {net[x].state, "gone"}
  <2>1. net[x] \in Asset
    BY <1>1 DEF Nets
  <2>2. n[x] = [net[x] EXCEPT !.state = IF x = a THEN "gone" ELSE net[x].state,
                              !.within = IF net[x].within = a THEN None ELSE net[x].within]
    OBVIOUS
  <2> HIDE DEF n
  <2> QED  BY <2>1, <2>2 DEF Asset
<1>3. n \in Nets
  BY <1>2 DEF Nets
<1>4. /\ net' = n /\ links' = Sync(n, cable, links) /\ reg' = reg /\ cable' = cable
      /\ upload' = upload /\ asked' = asked /\ deletion' = deletion
  BY <1>1, WriteNetFacts
<1> HIDE DEF n
<1>5. \A x \in Assets : /\ n[x].within \in {net[x].within, None}
                        /\ n[x].state = "unused" => net[x].state = "unused"
                        /\ x \in DOMAIN reg /\ n[x].state = "live" => net[x].state = "live"
  BY <1>2
<1>6. MapOK'
  BY <1>1, <1>3, <1>4, <1>5, NetEdited
<1> QED  BY <1>1, <1>4, <1>6, EditInv

LEMMA CableWritten ==
  ASSUME LInv, Edit, NEW c \in Cables, NEW value,
         value \in [state : {"unused", "live", "gone"}, from : Ends, to : Ends], WriteCable(c, value)
  PROVE  LInv'
<1>1. /\ cable' = [cable EXCEPT ![c] = value] /\ links' = Sync(net, cable', links) /\ net' = net /\ reg' = reg
      /\ upload' = upload /\ asked' = asked /\ deletion' = deletion /\ move' = move
  BY DEF WriteCable
<1>2. MapOK /\ cable \in Wires
  BY DEF LInv, MapOK
<1>3. cable' \in Wires
  BY <1>1, <1>2 DEF Wires
<1>4. MapOK'
  BY <1>1, <1>2, <1>3, OnlyCables
<1> QED  BY <1>1, <1>4, EditInv

LEMMA LayCableInv == ASSUME LInv, NEW c \in Cables, LayCable(c) PROVE LInv'
<1>1. cable[c].from \in Ends /\ cable[c].to \in Ends /\ Given \subseteq Ends
  BY DEF LInv, MapOK, Wires, Live, Given, Ends
<1>2. PICK from \in Given \cup {cable[c].from}, to \in Given \cup {cable[c].to} :
        WriteCable(c, [state |-> "live", from |-> from, to |-> to])
  BY DEF LayCable
<1>3. [state |-> "live", from |-> from, to |-> to] \in [state : {"unused", "live", "gone"}, from : Ends, to : Ends]
  BY <1>1
<1> QED  BY <1>2, <1>3, CableWritten DEF LayCable

LEMMA RemoveCableInv == ASSUME LInv, NEW c \in Cables, RemoveCable(c) PROVE LInv'
<1>1. [cable[c] EXCEPT !.state = "gone"] \in [state : {"unused", "live", "gone"}, from : Ends, to : Ends]
  BY DEF LInv, MapOK, Wires
<1> QED  BY <1>1, CableWritten DEF RemoveCable

LEMMA LinksWritten ==
  ASSUME LInv, Edit, UNCHANGED <<reg, net, cable, upload, asked, deletion, move>>,
         links' \in SUBSET LinkRow, Follow(net, cable, links')
  PROVE  LInv'
<1>1. /\ reg' \in Registers /\ Refers(reg') /\ Sound(reg') /\ OnTheMap(reg', net')
      /\ MoveOK(net', move') /\ Follow(net', cable', links')
  BY DEF LInv, MapOK
<1>2. MapOK'
  BY <1>1 DEF LInv, MapOK
<1> QED  BY <1>2, EditInv

LEMMA ConnectInv == ASSUME LInv, NEW from \in Assets, NEW to \in Assets, Connect(from, to) PROVE LInv'
<1>1. /\ Edit /\ {from, to} \subseteq Live(net)
      /\ UNCHANGED <<reg, net, cable, upload, asked, deletion, move>>
  BY DEF Connect
<1>2. PICK via \in Cables \cup {None} : links' = links \cup {Link("manual", None, from, to, via)}
  BY DEF Connect
<1> DEFINE new == Link("manual", None, from, to, via)
<1>3. new \in LinkRow /\ new.rule = "manual" /\ new.from = from /\ new.to = to
  BY DEF Link, LinkRow, Ends
<1>4. links \in SUBSET LinkRow /\ Follow(net, cable, links)
  BY DEF LInv, MapOK
<1>5. links' = links \cup {new}
  BY <1>2
<1> HIDE DEF new
<1>6. Follow(net, cable, links')
  BY <1>1, <1>3, <1>4, <1>5 DEF Follow
<1> QED  BY <1>1, <1>3, <1>4, <1>5, <1>6, LinksWritten

LEMMA DisconnectInv == ASSUME LInv, Disconnect PROVE LInv'
<1>1. Edit /\ UNCHANGED <<reg, net, cable, upload, asked, deletion, move>>
  BY DEF Disconnect
<1>2. PICK l \in links : l.rule = "manual" /\ links' = links \ {l}
  BY DEF Disconnect
<1>3. links \in SUBSET LinkRow /\ Follow(net, cable, links)
  BY DEF LInv, MapOK
<1>4. Follow(net, cable, links')
  BY <1>2, <1>3 DEF Follow
<1> QED  BY <1>1, <1>2, <1>3, <1>4, LinksWritten

LEMMA StutterInv == ASSUME LInv, UNCHANGED vars PROVE LInv'
<1>1. /\ UNCHANGED <<reg, net, cable, links, move>> /\ upload' = upload /\ asked' = asked
      /\ deletion' = deletion /\ edits' = edits
  BY DEF vars
<1>2. MapOK'
  BY <1>1, MapStays DEF LInv
<1>3. edits' \in 0..MaxEdits
  BY <1>1 DEF LInv, Sessions
<1>4. Sessions' /\ Coded' /\ Matched' /\ Executed' /\ Previewed'
  BY <1>1, <1>2, <1>3, SessionsStay
<1> QED  BY <1>2, <1>4 DEF LInv

---------------------------------------------------------------------------
(* Theorems *)

(* The inductive invariant holds in every run. *)
THEOREM NetworkInvariant == Spec => []LInv
<1>1. LInv /\ [Next]_vars => LInv'
  <2> SUFFICES ASSUME LInv, [Next]_vars PROVE LInv'
    OBVIOUS
  <2>1. ASSUME NEW s \in Uploads, UploadFile(s) \/ AskCommit(s) \/ Commit(s) \/ RollBack(s) PROVE LInv'
    BY <2>1, UploadFileInv, AskCommitInv, CommitInv, RollBackInv
  <2>2. ASSUME NEW d \in Deletions, AskDeletion(d) \/ Execute(d) \/ ExecuteFails(d) PROVE LInv'
    BY <2>2, AskDeletionInv, ExecuteInv, ExecuteFailsInv
  <2>3. CASE SyncUploaded
    BY <2>3, SyncUploadedInv
  <2>4. ASSUME NEW h \in Hands, CreateAsset(h) PROVE LInv'
    BY <2>4, CreateAssetInv
  <2>5. ASSUME NEW a \in Assets, EditAsset(a) PROVE LInv'
    BY <2>5, RenameInv, MoveInv, CheckMoveInv, SetAttributesInv, DeleteAssetInv DEF EditAsset
  <2>6. ASSUME NEW c \in Cables, LayCable(c) \/ RemoveCable(c) PROVE LInv'
    BY <2>6, LayCableInv, RemoveCableInv
  <2>7. ASSUME NEW from \in Assets, NEW to \in Assets, Connect(from, to) PROVE LInv'
    BY <2>7, ConnectInv
  <2>8. CASE Disconnect
    BY <2>8, DisconnectInv
  <2>9. CASE WriteMove
    BY <2>9, WriteMoveInv
  <2>10. CASE UNCHANGED vars
    BY <2>10, StutterInv
  <2> QED  BY <2>1, <2>2, <2>3, <2>4, <2>5, <2>6, <2>7, <2>8, <2>9, <2>10 DEF Next
<1> QED  BY <1>1, InitInv, PTL DEF Spec

(* Type correctness of the register, the map, its connections and the sessions. *)
THEOREM NetworkTypes == Spec => []TypeOK
BY NetworkInvariant, InvImplies, PTL

(* After every step the derived connections are those the live assets and cables imply,
   and no connection has a dead end. *)
THEOREM LinksFollow == Spec => []LinksFollowTheirData
BY NetworkInvariant, InvImplies, PTL

(* A row that was deleted stays inactive and off the map, whatever is uploaded, renamed
   or synced afterwards. *)
THEOREM DeletedStaysGone == Spec => []DeletedIsGone
BY NetworkInvariant, InvImplies, PTL

(* No walk of MAX_WALK steps up from an asset comes back to it, however deletions cut
   and syncs mend the containment, unless a move overtook another between its check and
   its write: the walk from the new container sees every loop of that size it closes. *)
THEOREM NoContainmentLoop == Spec => []NoAssetContainsItself
BY NetworkInvariant, InvImplies, PTL

(* A deletion that becomes executed deletes what it showed, and leaves a shallow register whole. *)
AsShown ==
  \A d \in Deletions : deletion[d].status # "executed" /\ deletion'[d].status = "executed" =>
    /\ {i \in DOMAIN reg : reg[i].active /\ ~reg'[i].active}
         \subseteq deletion[d].matched \cup deletion[d].preview
    /\ Shallow(reg) => Whole(reg')

LEMMA ExecutesAsShown == ASSUME LInv, NEW d \in Deletions, Execute(d) PROVE AsShown
<1>1. /\ Shallow(reg) => Whole(reg')
      /\ \A i \in DOMAIN reg : reg'[i].active <=> reg[i].active /\ i \notin Doomed(d)
      /\ deletion' = [deletion EXCEPT ![d].status = "executed"] /\ deletion[d].status = "pending"
  BY Executes
<1>2. Doomed(d) \subseteq deletion[d].matched \cup deletion[d].preview
  BY <1>1 DEF LInv, Previewed, Doomed
<1>3. \A e \in Deletions : deletion[e].status # "executed" /\ deletion'[e].status = "executed" => e = d
  BY <1>1 DEF LInv, Sessions
<1> QED  BY <1>1, <1>2, <1>3 DEF AsShown

LEMMA StepsAsShown ==
  ASSUME LInv, [Next]_vars PROVE AsShown
<1>1. ASSUME deletion' = deletion PROVE AsShown
  BY <1>1 DEF AsShown
<1>2. ASSUME NEW d \in Deletions, NEW row, deletion' = [deletion EXCEPT ![d] = row], row.status # "executed"
      PROVE  AsShown
  BY <1>2 DEF AsShown, LInv, Sessions
<1>3. ASSUME NEW d \in Deletions, AskDeletion(d) PROVE AsShown
  <2>1. PICK kind \in Tables : \E m \in Matches(kind) :
          deletion' = [deletion EXCEPT ![d] =
            [status |-> "pending", kind |-> kind, matched |-> m, preview |-> Cascade(reg, kind, m)]]
    BY <1>3 DEF AskDeletion
  <2>2. PICK m \in Matches(kind) :
          deletion' = [deletion EXCEPT ![d] =
            [status |-> "pending", kind |-> kind, matched |-> m, preview |-> Cascade(reg, kind, m)]]
    BY <2>1
  <2> DEFINE row == [status |-> "pending", kind |-> kind, matched |-> m, preview |-> Cascade(reg, kind, m)]
  <2>3. deletion' = [deletion EXCEPT ![d] = row] /\ row.status # "executed"
    BY <2>2
  <2> HIDE DEF row
  <2> QED  BY <1>2, <2>3
<1>4. ASSUME NEW d \in Deletions, ExecuteFails(d) PROVE AsShown
  <2> DEFINE row == [deletion[d] EXCEPT !.status = "failed"]
  <2>1. deletion' = [deletion EXCEPT ![d] = row] /\ row.status # "executed"
    BY <1>4 DEF ExecuteFails, LInv, Sessions
  <2> HIDE DEF row
  <2> QED  BY <1>2, <2>1
<1>5. ASSUME NEW s \in Uploads, UploadFile(s) \/ AskCommit(s) \/ Commit(s) \/ RollBack(s) PROVE deletion' = deletion
  BY <1>5 DEF UploadFile, AskCommit, Commit, RollBack
<1>6. ASSUME SyncUploaded \/ Disconnect PROVE deletion' = deletion
  BY <1>6 DEF SyncUploaded, Disconnect
<1>7. ASSUME NEW h \in Hands, CreateAsset(h) PROVE deletion' = deletion
  BY <1>7 DEF CreateAsset, WriteNet
<1>8. ASSUME NEW a \in Assets, EditAsset(a) PROVE deletion' = deletion
  BY <1>8 DEF EditAsset, Rename, Move, CheckMove, SetAttributes, DeleteAsset, Put, WriteNet
<1>9. ASSUME WriteMove PROVE deletion' = deletion
  BY <1>9 DEF WriteMove, Put, WriteNet
<1>10. ASSUME NEW c \in Cables, LayCable(c) \/ RemoveCable(c) PROVE deletion' = deletion
  BY <1>10 DEF LayCable, RemoveCable, WriteCable
<1>11. ASSUME NEW from \in Assets, NEW to \in Assets, Connect(from, to) PROVE deletion' = deletion
  BY <1>11 DEF Connect
<1>12. ASSUME UNCHANGED vars PROVE deletion' = deletion
  BY <1>12 DEF vars
<1> QED
  BY <1>1, <1>3, <1>4, <1>5, <1>6, <1>7, <1>8, <1>9, <1>10, <1>11, <1>12, ExecutesAsShown DEF Next

(* What an executed deletion deletes was in the preview that was approved, whatever the
   uploads, deletions and edits in between: a cascade only shrinks, since files add rows
   that hang from nothing and nothing is ever moved below another row.  And it leaves
   nothing active below what it deletes in a register no deeper than the cascade goes,
   although the cascade does not pass through rows that are inactive already. *)
THEOREM DeletionsAsShown == Spec => DeletesWhatWasShown
<1>1. LInv /\ [Next]_vars => [AsShown]_vars
  BY StepsAsShown
<1>2. DeletesWhatWasShown <=> [][AsShown]_vars
  BY DEF DeletesWhatWasShown, AsShown
<1> QED  BY <1>1, <1>2, NetworkInvariant, PTL DEF Spec

(* Every row is put on the map, or another asset bore its code. *)
Shown == \A i \in DOMAIN reg' : reg'[i].active =>
           \/ net'[i].state = "live" /\ net'[i].code = reg'[i].code
           \/ Holders(net, reg'[i].kind, reg'[i].code) \ {i} # {}

LEMMA MirrorShows == ASSUME net \in Nets, reg' \in Registers, net' = Mirrored(reg', net) PROVE Shown
<1> SUFFICES ASSUME NEW i \in DOMAIN reg', reg'[i].active,
                    Holders(net, reg'[i].kind, reg'[i].code) \ {i} = {}
             PROVE  net'[i].state = "live" /\ net'[i].code = reg'[i].code
  BY DEF Shown
<1>1. i \in Eligible(reg', net)
  BY DEF Eligible
<1> QED  BY <1>1, MirroredRows

LEMMA MirrorOrNot ==
  ASSUME LInv, [Next]_vars
  PROVE  \/ net' = Mirrored(reg', net)
         \/ reg' = reg /\ ~ Synced
         \/ UNCHANGED vars
<1>1. ASSUME Edit PROVE edits' # edits
  BY <1>1 DEF Edit, LInv, Sessions
<1>2. ASSUME NEW n, Edit, WriteNet(n) PROVE reg' = reg /\ ~ Synced
  BY <1>1, <1>2 DEF WriteNet, Synced
<1>3. ASSUME NEW s \in Uploads, UploadFile(s) PROVE reg' = reg /\ ~ Synced
  <2>1. PICK row : upload' = [upload EXCEPT ![s] = row] /\ row.status = "validated"
    <3>1. PICK f \in Files : \E good \in Orders(f.rows) :
            upload' = [upload EXCEPT ![s] = [status |-> "validated", kind |-> f.kind, written |-> FALSE,
                                             rows |-> [k \in DOMAIN good |-> f.rows[good[k]]]]]
      BY <1>3 DEF UploadFile
    <3>2. PICK good \in Orders(f.rows) :
            upload' = [upload EXCEPT ![s] = [status |-> "validated", kind |-> f.kind, written |-> FALSE,
                                             rows |-> [k \in DOMAIN good |-> f.rows[good[k]]]]]
      BY <3>1
    <3> DEFINE row == [status |-> "validated", kind |-> f.kind, written |-> FALSE,
                       rows |-> [k \in DOMAIN good |-> f.rows[good[k]]]]
    <3>3. upload' = [upload EXCEPT ![s] = row] /\ row.status = "validated"
      BY <3>2
    <3> HIDE DEF row
    <3> QED  BY <3>3
  <2>2. upload'[s].status # upload[s].status /\ reg' = reg
    BY <1>3, <2>1 DEF UploadFile, LInv, Sessions
  <2> QED  BY <2>2 DEF Synced
<1>4. ASSUME NEW s \in Uploads, AskCommit(s) \/ RollBack(s) PROVE reg' = reg /\ ~ Synced
  <2>1. asked'[s] # asked[s] /\ reg' = reg
    BY <1>4 DEF AskCommit, RollBack, LInv, Sessions
  <2> QED  BY <2>1 DEF Synced
<1>5. ASSUME NEW s \in Uploads, Commit(s), reg' # reg PROVE net' = Mirrored(reg', net)
  <2>1. PICK batch : CommitRegister(s, batch) \/ CommitCables(s, batch) \/ CommitAssets(s, batch)
    BY <1>5 DEF Commit
  <2>2. CommitRegister(s, batch)
    BY <1>5, <2>1 DEF CommitCables, CommitAssets
  <2> QED  BY <1>5, <2>2 DEF CommitRegister, MirrorInto
<1>6. ASSUME NEW s \in Uploads, Commit(s) PROVE ~ Synced
  <2>1. asked'[s] # asked[s]
    BY <1>6 DEF Commit, LInv, Sessions
  <2> QED  BY <2>1 DEF Synced
<1>7. ASSUME NEW d \in Deletions, AskDeletion(d) \/ ExecuteFails(d) PROVE reg' = reg /\ ~ Synced
  <2>1. deletion'[d].status # deletion[d].status /\ reg' = reg
    BY <1>7 DEF AskDeletion, ExecuteFails, LInv, Sessions
  <2> QED  BY <2>1 DEF Synced
<1>8. ASSUME NEW d \in Deletions, Execute(d) PROVE ~ Synced /\ (reg' # reg => net' = Mirrored(reg', net))
  <2>1. deletion'[d].status # deletion[d].status
    BY <1>8 DEF Execute, LInv, Sessions
  <2>2. reg' # reg => net' = Mirrored(reg', net)
    BY <1>8 DEF Execute, MirrorInto
  <2> QED  BY <2>1, <2>2 DEF Synced
<1>9. ASSUME SyncUploaded PROVE net' = Mirrored(reg', net)
  BY <1>9 DEF SyncUploaded, MirrorInto
<1>10. ASSUME NEW h \in Hands, CreateAsset(h) PROVE reg' = reg /\ ~ Synced
  BY <1>2, <1>10 DEF CreateAsset
<1>11. ASSUME NEW a \in Assets, EditAsset(a) PROVE reg' = reg /\ ~ Synced
  <2>1. ASSUME NEW p \in Ends, CheckMove(a, p) PROVE reg' = reg /\ ~ Synced
    BY <1>1, <2>1 DEF CheckMove, Synced
  <2> QED  BY <1>2, <1>11, <2>1 DEF EditAsset, Rename, Move, Put, SetAttributes, DeleteAsset
<1>12. ASSUME NEW c \in Cables, LayCable(c) \/ RemoveCable(c) PROVE reg' = reg /\ ~ Synced
  BY <1>1, <1>12 DEF LayCable, RemoveCable, WriteCable, Synced
<1>13. ASSUME NEW from \in Assets, NEW to \in Assets, Connect(from, to) PROVE reg' = reg /\ ~ Synced
  BY <1>1, <1>13 DEF Connect, Synced
<1>14. ASSUME Disconnect PROVE reg' = reg /\ ~ Synced
  BY <1>1, <1>14 DEF Disconnect, Synced
<1>15. ASSUME WriteMove PROVE reg' = reg /\ ~ Synced
  <2>1. move'.asset = None /\ move.asset # None /\ reg' = reg
    BY <1>15 DEF WriteMove, Put, WriteNet, NoMove
  <2> QED  BY <2>1 DEF Synced
<1> QED  BY <1>3, <1>4, <1>5, <1>6, <1>7, <1>8, <1>9, <1>10, <1>11, <1>12, <1>13, <1>14, <1>15 DEF Next

(* Every mirror puts each active row on the map, also one whose asset was deleted by
   hand, unless another live asset bore its code before. *)
THEOREM RegisterShown == Spec => RegisterIsOnTheMap
<1>1. LInv /\ LInv' /\ [Next]_vars => [Synced \/ reg' # reg => Shown]_vars
  <2> SUFFICES ASSUME LInv, LInv', [Next]_vars, Synced \/ reg' # reg, ~ UNCHANGED vars PROVE Shown
    OBVIOUS
  <2>1. net' = Mirrored(reg', net)
    BY MirrorOrNot
  <2>2. net \in Nets /\ reg' \in Registers
    BY DEF LInv, MapOK
  <2> QED  BY <2>1, <2>2, MirrorShows
<1>2. RegisterIsOnTheMap <=> [][Synced \/ reg' # reg => Shown]_vars
  BY DEF RegisterIsOnTheMap, Shown
<1> QED  BY <1>1, <1>2, NetworkInvariant, PTL DEF Spec

---------------------------------------------------------------------------
(* What the cache hides from the poller is on record, for any number of tenants,
   OLTs and alarms.  OutageTypeOK and KnownIsRecorded are not inductive alone: the
   cache is written from the poll in hand, so one must know that an alarm of its
   list that is no longer to do has been recorded. *)

(* The poll in hand lists alarms of its OLT; what is not to do any more is on
   record, or has nobody to own it (_poll_tenant). *)
PollInHand ==
  /\ poll.olt = NoOLT => poll.listed = {} /\ poll.todo = {}
  /\ \A a \in poll.listed :
       /\ Source[a] = poll.olt
       /\ a \notin poll.todo /\ TenantOf(a) \in Staffed => a \in Recorded

(* Counts are numbers, and a count plus one is never 0, the mark of a cause
   without a row. *)
Numbered ==
  /\ \A t \in Tenants : IsFiniteSet(tickets[t])
  /\ \A s \in DbSessions : session[s] \in Handling => session[s].ref # 0

OutageInv == OutageTypeOK /\ Numbered /\ PollInHand /\ KnownIsRecorded

LEMMA TenantsOfCauses == \A c \in Causes : TenantOf(c) \in Tenants
  BY CausesAssumption DEF TenantOf, Causes

LEMMA OpenedType ==
  ASSUME OutageTypeOK, Numbered, NEW c \in Causes
  PROVE  Opened(c) \in Handling /\ Opened(c).ref # 0
<1> DEFINE Rows == {d \in Recorded : TenantOf(d) = TenantOf(c)}
<1>1. IsFiniteSet(Rows)
  <2>1. Rows \subseteq Causes  BY DEF Recorded
  <2> QED  BY <2>1, CausesAssumption, FS_Subset
<1>2. Cardinality(Rows) \in Nat  BY <1>1, FS_CardinalityType
<1>3. Cardinality(tickets[TenantOf(c)]) \in Nat
  BY TenantsOfCauses, FS_CardinalityType DEF Numbered
<1> HIDE DEF Rows
<1>4. Opened(c) = [at |-> "open", cause |-> c, ref |-> Cardinality(Rows) + 1,
                   ticket |-> Cardinality(tickets[TenantOf(c)]) + 1]
  BY DEF Opened, Rows
<1> QED  BY <1>2, <1>3, <1>4 DEF Handling

(* A session that is not idle is at work on a cause. *)
LEMMA Busy ==
  ASSUME OutageTypeOK, NEW s \in DbSessions, session[s].at # "idle"
  PROVE  session[s] \in Handling
  BY DEF OutageTypeOK, Idle

(* Recorded only grows, so what depends on it survives. *)
LEMMA Kept ==
  ASSUME KnownIsRecorded, PollInHand, Recorded \subseteq Recorded',
         UNCHANGED <<known, poll>>
  PROVE  KnownIsRecorded' /\ PollInHand'
  BY DEF KnownIsRecorded, PollInHand

(* The poll ends with its OLT, or its todo list shrinks by recorded alarms. *)
LEMMA KeptAbandoned ==
  ASSUME OutageTypeOK, KnownIsRecorded, PollInHand, NEW s \in DbSessions,
         poll' = Abandoned(s), UNCHANGED <<known, reference>>
  PROVE  /\ KnownIsRecorded' /\ PollInHand'
         /\ poll' \in [left : SUBSET OLTs, olt : OLTs \cup {NoOLT},
                       listed : SUBSET Alarms, todo : SUBSET Alarms]
  BY DEF OutageTypeOK, KnownIsRecorded, PollInHand, Abandoned, NoPoll, Recorded

LEMMA OutageInvInit == OutageInit => OutageInv
<1> SUFFICES ASSUME OutageInit PROVE OutageInv  OBVIOUS
<1>1. OutageTypeOK
  BY BoundsAssumption DEF OutageInit, OutageTypeOK, NoPoll, DbSessions
<1>2. Numbered  BY FS_EmptySet DEF OutageInit, Numbered, Idle, Handling
<1>3. PollInHand /\ KnownIsRecorded
  BY TenantsOfCauses DEF OutageInit, PollInHand, KnownIsRecorded, NoPoll, Causes
<1> QED  BY <1>1, <1>2, <1>3 DEF OutageInv

(* A session begins on a cause. *)
LEMMA BeginKeeps ==
  ASSUME OutageTypeOK, Numbered, NEW s \in DbSessions, NEW c \in Causes, Begin(s, c),
         UNCHANGED tickets
  PROVE  session' \in [DbSessions -> {Idle} \cup Handling] /\ Numbered'
<1>1. session' = [session EXCEPT ![s] = Opened(c)]  BY DEF Begin
<1>2. Opened(c) \in Handling /\ Opened(c).ref # 0  BY OpenedType
<1>3. session' \in [DbSessions -> {Idle} \cup Handling]
  BY <1>1, <1>2 DEF OutageTypeOK
<1>4. \A x \in DbSessions : session'[x] \in Handling => session'[x].ref # 0
  <2> TAKE x \in DbSessions
  <2>1. CASE x = s  BY <2>1, <1>1, <1>2 DEF OutageTypeOK
  <2>2. CASE x # s  BY <2>2, <1>1 DEF OutageTypeOK, Numbered
  <2> QED  BY <2>1, <2>2
<1> QED  BY <1>3, <1>4 DEF Numbered

(* A session is closed. *)
LEMMA CloseKeeps ==
  ASSUME OutageTypeOK, Numbered, NEW s \in DbSessions,
         session' = [session EXCEPT ![s] = Idle]
  PROVE  /\ session' \in [DbSessions -> {Idle} \cup Handling]
         /\ \A x \in DbSessions : session'[x] \in Handling => session'[x].ref # 0
<1>1. Idle \notin Handling  BY DEF Idle, Handling
<1> QED  BY <1>1 DEF OutageTypeOK, Numbered

LEMMA OutageInvNext == OutageInv /\ [OutageNext]_outageVars => OutageInv'
<1> SUFFICES ASSUME OutageInv, [OutageNext]_outageVars PROVE OutageInv'  OBVIOUS
<1> USE DEF OutageInv
<1>1. ASSUME NEW a \in Alarms, Raise(a) \/ Clear(a) PROVE OutageInv'
  <2>1. OutageTypeOK' /\ Numbered'  BY <1>1 DEF Raise, Clear, OutageTypeOK, Numbered
  <2>2. KnownIsRecorded' /\ PollInHand'
    BY <1>1, Kept DEF Raise, Clear, Recorded
  <2> QED  BY <2>1, <2>2
<1>2. ASSUME NEW a \in Alarms, Webhook(a) PROVE OutageInv'
  <2>1. Begin("request", a) /\ UNCHANGED <<raised, known, reference, tickets, poll, faults>>
    BY <1>2 DEF Webhook
  <2>2. session' \in [DbSessions -> {Idle} \cup Handling] /\ Numbered'
    BY <2>1, BeginKeeps DEF DbSessions, Causes
  <2>3. KnownIsRecorded' /\ PollInHand'  BY <2>1, Kept DEF Recorded
  <2> QED  BY <2>1, <2>2, <2>3 DEF OutageTypeOK
<1>3. ASSUME NEW a \in Alarms, Handle(a) PROVE OutageInv'
  <2>1. CASE Handles(a)
    <3>1. Begin("poll", a) /\ UNCHANGED <<raised, known, reference, tickets, poll, faults>>
      BY <1>3, <2>1 DEF Handle
    <3>2. session' \in [DbSessions -> {Idle} \cup Handling] /\ Numbered'
      BY <3>1, BeginKeeps DEF DbSessions, Causes
    <3>3. KnownIsRecorded' /\ PollInHand'  BY <3>1, Kept DEF Recorded
    <3> QED  BY <3>1, <3>2, <3>3 DEF OutageTypeOK
  <2>2. CASE ~Handles(a)
    <3>1. /\ poll' = [poll EXCEPT !.todo = @ \ {a}]
          /\ UNCHANGED <<raised, known, reference, tickets, session, faults>>
          /\ a \in poll.todo
      BY <1>3, <2>2 DEF Handle
    <3>2. a \in Recorded \/ TenantOf(a) \notin Staffed  BY <2>2 DEF Handles
    <3>3. OutageTypeOK' /\ Numbered'  BY <3>1 DEF OutageTypeOK, Numbered
    <3>4. PollInHand'  BY <3>1, <3>2 DEF PollInHand, OutageTypeOK, Recorded
    <3>5. KnownIsRecorded'  BY <3>1 DEF KnownIsRecorded, Recorded
    <3> QED  BY <3>3, <3>4, <3>5
  <2> QED  BY <2>1, <2>2
<1>4. ASSUME NEW t \in Tenants, OpenTicket(t) \/ PurgeTicket(t) PROVE OutageInv'
  <2>1. PICK n \in Nat : \/ tickets' = [tickets EXCEPT ![t] = @ \cup {n}]
                         \/ tickets' = [tickets EXCEPT ![t] = @ \ {n}]
    BY <1>4, BoundsAssumption DEF OpenTicket, PurgeTicket, OutageTypeOK
  <2>2. tickets' \in [Tenants -> SUBSET Nat]  BY <2>1 DEF OutageTypeOK
  <2>3. faults' \in 0..MaxFaults
    BY <1>4, BoundsAssumption DEF OpenTicket, PurgeTicket, Fault, OutageTypeOK
  <2>4. UNCHANGED <<raised, known, reference, session, poll>>
    BY <1>4 DEF OpenTicket, PurgeTicket
  <2>5. \A u \in Tenants : IsFiniteSet(tickets'[u])
    <3> TAKE u \in Tenants
    <3>1. IsFiniteSet(tickets[u])  BY DEF Numbered
    <3>2. IsFiniteSet(tickets[u] \cup {n})  BY <3>1, FS_AddElement
    <3>3. IsFiniteSet(tickets[u] \ {n})  BY <3>1, FS_RemoveElement
    <3>4. tickets'[u] \in {tickets[u], tickets[u] \cup {n}, tickets[u] \ {n}}
      BY <2>1 DEF OutageTypeOK
    <3> QED  BY <3>1, <3>2, <3>3, <3>4
  <2>6. Numbered'  BY <2>4, <2>5 DEF Numbered
  <2>7. KnownIsRecorded' /\ PollInHand'  BY <2>4, Kept DEF Recorded
  <2> QED  BY <2>2, <2>3, <2>4, <2>6, <2>7 DEF OutageTypeOK
<1>5. ASSUME NEW t \in Tenants, Expire(t) PROVE OutageInv'
  BY <1>5 DEF Expire, OutageTypeOK, Numbered, PollInHand, KnownIsRecorded, Recorded
<1>6. ASSUME NEW r \in Reports, LogOutage(r) PROVE OutageInv'
  <2>1. Begin("request", r) /\ UNCHANGED <<raised, known, reference, tickets, poll, faults>>
    BY <1>6 DEF LogOutage
  <2>2. session' \in [DbSessions -> {Idle} \cup Handling] /\ Numbered'
    BY <2>1, BeginKeeps DEF DbSessions, Causes
  <2>3. KnownIsRecorded' /\ PollInHand'  BY <2>1, Kept DEF Recorded
  <2> QED  BY <2>1, <2>2, <2>3 DEF OutageTypeOK
<1>7. ASSUME NEW s \in DbSessions, Insert(s) PROVE OutageInv'
  <2>1. session[s] \in Handling  BY <1>7, Busy DEF Insert
  <2>2. session' = [session EXCEPT ![s].at = "sent"]  BY <1>7 DEF Insert
  <2>3. /\ session'[s] \in Handling /\ session'[s].ref = session[s].ref
    BY <2>1, <2>2 DEF OutageTypeOK, Handling
  <2>4. \A x \in DbSessions \ {s} : session'[x] = session[x]  BY <2>2 DEF OutageTypeOK
  <2>5. session' \in [DbSessions -> {Idle} \cup Handling]
    BY <2>2, <2>3, <2>4 DEF OutageTypeOK
  <2>6. UNCHANGED <<raised, known, reference, tickets, poll, faults>>
    BY <1>7 DEF Insert
  <2>7. Numbered'  BY <2>1, <2>3, <2>4, <2>6 DEF Numbered
  <2>8. KnownIsRecorded' /\ PollInHand'  BY <2>6, Kept DEF Recorded
  <2> QED  BY <2>5, <2>6, <2>7, <2>8 DEF OutageTypeOK
<1>8. ASSUME NEW s \in DbSessions, Fail(s) \/ Lose(s) PROVE OutageInv'
  <2>1. /\ session' = [session EXCEPT ![s] = Idle] /\ poll' = Abandoned(s)
        /\ UNCHANGED <<raised, known, reference, tickets>>
    BY <1>8 DEF Fail, Lose
  <2>2. faults' \in 0..MaxFaults
    BY <1>8, BoundsAssumption DEF Fail, Lose, Fault, OutageTypeOK
  <2>3. KnownIsRecorded' /\ PollInHand'
        /\ poll' \in [left : SUBSET OLTs, olt : OLTs \cup {NoOLT},
                      listed : SUBSET Alarms, todo : SUBSET Alarms]
    BY <2>1, KeptAbandoned
  <2>4. session' \in [DbSessions -> {Idle} \cup Handling] /\ Numbered'
    BY <2>1, CloseKeeps DEF Numbered
  <2> QED  BY <2>1, <2>2, <2>3, <2>4 DEF OutageTypeOK
<1>9. ASSUME NEW s \in DbSessions, CommitIncident(s) PROVE OutageInv'
  <2> DEFINE c == session[s]
  <2>1. c \in Handling /\ c.ref # 0  BY <1>9, Busy DEF CommitIncident, Numbered
  <2>2. c.cause \in Causes /\ c.ref \in Nat /\ c.ticket \in Nat
    BY <2>1 DEF Handling
  <2> HIDE DEF c
  <2>3. reference' = [reference EXCEPT ![c.cause] = c.ref]  BY <1>9 DEF CommitIncident, c
  <2>4. Recorded' = Recorded \cup {c.cause}
    BY <2>1, <2>2, <2>3 DEF Recorded, OutageTypeOK
  <2>5. tickets' \in [Tenants -> SUBSET Nat] /\ \A t \in Tenants : IsFiniteSet(tickets'[t])
    <3>1. CASE tickets' = tickets  BY <3>1 DEF OutageTypeOK, Numbered
    <3>2. CASE tickets' = [tickets EXCEPT ![TenantOf(c.cause)] = @ \cup {c.ticket}]
      <4>1. tickets' \in [Tenants -> SUBSET Nat]
        BY <3>2, <2>2, TenantsOfCauses DEF OutageTypeOK
      <4>2. ASSUME NEW t \in Tenants PROVE IsFiniteSet(tickets'[t])
        <5>1. IsFiniteSet(tickets[t]) /\ IsFiniteSet(tickets[t] \cup {c.ticket})
          BY FS_AddElement DEF Numbered
        <5> QED  BY <5>1, <3>2 DEF OutageTypeOK
      <4> QED  BY <4>1, <4>2
    <3> QED  BY <1>9, <3>1, <3>2 DEF CommitIncident, c
  <2>6. session' = [session EXCEPT ![s] = Idle]  BY <1>9 DEF CommitIncident
  <2>7. session' \in [DbSessions -> {Idle} \cup Handling] /\ Numbered'
    BY <2>5, <2>6, CloseKeeps DEF Numbered
  <2>8. poll' = poll \/ poll' = [poll EXCEPT !.todo = @ \ {c.cause}]
    BY <1>9 DEF CommitIncident, c
  <2>9. UNCHANGED <<raised, known, faults>>  BY <1>9 DEF CommitIncident
  <2>10. reference' \in [Causes -> Nat]  BY <2>2, <2>3 DEF OutageTypeOK
  <2>11. OutageTypeOK'  BY <2>5, <2>7, <2>8, <2>9, <2>10 DEF OutageTypeOK
  <2>12. KnownIsRecorded'  BY <2>4, <2>9 DEF KnownIsRecorded
  <2>13. PollInHand'  BY <2>4, <2>8 DEF PollInHand, OutageTypeOK
  <2> QED  BY <2>7, <2>11, <2>12, <2>13
<1>10. CASE PollStart
  BY <1>10 DEF PollStart, OutageTypeOK, Numbered, PollInHand, KnownIsRecorded, NoPoll, Recorded
<1>11. ASSUME NEW o \in OLTs, Fetch(o) PROVE OutageInv'
  <2> DEFINE listed == {a \in raised : Source[a] = o}
             todo == {a \in listed : EventId[a] \notin known[Owner[o]]}
  <2>1. /\ poll' = [left |-> poll.left \ {o}, olt |-> o, listed |-> listed, todo |-> todo]
        /\ UNCHANGED <<raised, known, reference, tickets, session, faults>>
    BY <1>11 DEF Fetch
  <2>2. OutageTypeOK' /\ Numbered'  BY <2>1 DEF OutageTypeOK, Numbered
  <2>3. \A a \in listed : a \in Alarms /\ TenantOf(a) = Owner[o]
    BY DEF OutageTypeOK, TenantOf
  <2>4. \A a \in listed : a \notin todo /\ TenantOf(a) \in Staffed => a \in Recorded
    BY <2>3 DEF KnownIsRecorded
  <2>5. PollInHand'  BY <2>1, <2>4, CausesAssumption DEF PollInHand, Recorded
  <2>6. KnownIsRecorded'  BY <2>1 DEF KnownIsRecorded, Recorded
  <2> QED  BY <2>2, <2>5, <2>6
<1>12. ASSUME NEW o \in OLTs, FetchFails(o) PROVE OutageInv'
  <2>1. /\ poll' = [poll EXCEPT !.left = @ \ {o}]
        /\ UNCHANGED <<raised, known, reference, tickets, session>>
    BY <1>12 DEF FetchFails
  <2>2. faults' \in 0..MaxFaults
    BY <1>12, BoundsAssumption DEF FetchFails, Fault, OutageTypeOK
  <2>3. OutageTypeOK' /\ Numbered'  BY <2>1, <2>2 DEF OutageTypeOK, Numbered
  <2>4. PollInHand' /\ KnownIsRecorded'
    BY <2>1 DEF PollInHand, KnownIsRecorded, OutageTypeOK, Recorded
  <2> QED  BY <2>3, <2>4
<1>13. CASE Remember
  <2> DEFINE t == Owner[poll.olt]
  <2>1. /\ poll.olt \in OLTs /\ poll.todo = {} /\ t \in Tenants
        /\ known' = [known EXCEPT ![t] = {EventId[a] : a \in poll.listed}]
        /\ poll' = [NoPoll EXCEPT !.left = poll.left]
        /\ UNCHANGED <<raised, reference, tickets, session, faults>>
    BY <1>13, CausesAssumption DEF Remember, OutageTypeOK
  <2>2. OutageTypeOK' /\ Numbered'
    BY <2>1, CausesAssumption DEF OutageTypeOK, Numbered, NoPoll
  <2>3. PollInHand'  BY <2>1 DEF PollInHand, NoPoll
  <2>4. ASSUME NEW a \in Alarms, TenantOf(a) \in Staffed,
               EventId[a] \in known'[TenantOf(a)]
        PROVE  a \in Recorded
    <3>1. CASE TenantOf(a) # t
      <4>1. TenantOf(a) \in Tenants  BY TenantsOfCauses DEF Causes
      <4> QED  BY <2>1, <2>4, <3>1, <4>1 DEF OutageTypeOK, KnownIsRecorded
    <3>2. CASE TenantOf(a) = t
      <4>1. PICK b \in poll.listed : EventId[b] = EventId[a]
        BY <2>1, <2>4, <3>2 DEF OutageTypeOK
      <4>2. b \in Alarms /\ TenantOf(b) = t
        BY DEF OutageTypeOK, PollInHand, TenantOf
      <4>3. a = b  BY <4>1, <4>2, <3>2, IdsAssumption
      <4> QED  BY <2>1, <2>4, <4>3 DEF PollInHand
    <3> QED  BY <3>1, <3>2
  <2>5. KnownIsRecorded'  BY <2>1, <2>4 DEF KnownIsRecorded, Recorded
  <2> QED  BY <2>2, <2>3, <2>5
<1>14. CASE UNCHANGED outageVars
  BY <1>14 DEF outageVars, OutageTypeOK, Numbered, PollInHand, KnownIsRecorded, Recorded
<1> QED
  BY <1>1, <1>2, <1>3, <1>4, <1>5, <1>6, <1>7, <1>8, <1>9, <1>10, <1>11, <1>12,
     <1>13, <1>14 DEF OutageNext

(* Every state the handlers can reach is well typed (handler.py). *)
THEOREM OutageTypes == OutageSpec => []OutageTypeOK
<1>1. OutageInv => OutageTypeOK  BY DEF OutageInv
<1> QED  BY <1>1, OutageInvInit, OutageInvNext, PTL DEF OutageSpec

(* However many tenants share the poller, whatever fails between an OLT's list
   and the cache, an alarm the cache hides is on record (smartolt_polling.py). *)
THEOREM NothingForgotten == OutageSpec => []KnownIsRecorded
<1>1. OutageInv => KnownIsRecorded  BY DEF OutageInv
<1> QED  BY <1>1, OutageInvInit, OutageInvNext, PTL DEF OutageSpec
=============================================================================
