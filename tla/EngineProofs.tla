---------------------------- MODULE EngineProofs ----------------------------
(***************************************************************************)
(* What holds of the engine for every network, every demand and every      *)
(* profile.  From homes to FATs: every customer to be served is served     *)
(* once, no audit refuses, and each repair leaves fewer FATs short.  From  *)
(* FATs to FDTs: sizes and wings stay within their bounds, the wings of an *)
(* FDT carry what it holds, no move takes a full-sized FDT out of its      *)
(* range, no FAT is lost or doubled, a pool has an FDT for everything it   *)
(* deals out, and at most one FDT is short after the rebalancing.  All     *)
(* rests on the lemmas about sums and about how a number is dealt out.     *)
(***************************************************************************)
EXTENDS EngineFats, EngineFdts, FiniteSetTheorems, SequenceTheorems, TLAPS

-----------------------------------------------------------------------------
(* Sums over finite sets. *)

LEMMA Division ==
  ASSUME NEW n \in Nat, NEW d \in Nat \ {0}
  PROVE  /\ n \div d \in Nat /\ n % d \in 0..(d - 1)
         /\ n = d * (n \div d) + (n % d)
  BY Z3

(* Induction over a finite set, with the sets the hypothesis holds of as a set. *)
LEMMA SmallestSet ==
  ASSUME NEW S, IsFiniteSet(S), NEW D \in SUBSET (SUBSET S), D # {}
  PROVE  \E T \in D : \A U \in SUBSET T : U # T => U \notin D
<1>1. D \subseteq FiniteSubsetsOf(S)
  <2>1. \A T \in SUBSET S : IsFiniteSet(T)
    BY FS_Subset
  <2> QED
    BY <2>1 DEF FiniteSubsetsOf
<1>2. PICK T \in D : \A U \in D : <<U, T>> \notin StrictSubsetOrdering(S)
  BY <1>1, FS_StrictSubsetOrderingWellFounded, WFMin
<1>3. ASSUME NEW U \in SUBSET T, U # T PROVE U \notin D
  <2>1. <<U, T>> \in StrictSubsetOrdering(S)
    BY <1>2, <1>3 DEF StrictSubsetOrdering
  <2> QED
    BY <1>2, <2>1
<1> QED
  BY <1>2, <1>3

LEMMA SetInduction ==
  ASSUME NEW S, IsFiniteSet(S), NEW F, {} \in F,
         \A T \in SUBSET S : \A x \in S \ T : T \in F => T \cup {x} \in F
  PROVE  S \in F
<1> DEFINE D == {T \in SUBSET S : T \notin F}
<1> SUFFICES ASSUME D # {} PROVE FALSE
  OBVIOUS
<1>0. D \in SUBSET (SUBSET S) /\ (\A T \in SUBSET S : T \in D <=> T \notin F)
  OBVIOUS
<1> HIDE DEF D
<1>1. PICK T \in D : \A U \in SUBSET T : U # T => U \notin D
  BY <1>0, SmallestSet
<1>2. PICK x \in T : TRUE
  BY <1>0
<1>3. T \ {x} \in F
  BY <1>0, <1>1, <1>2
<1>4. (T \ {x}) \cup {x} = T
  BY <1>2
<1> QED
  BY <1>0, <1>1, <1>2, <1>3, <1>4

(* Units of a load, one by one: a load counts them. *)
Units(f, T) == {u \in T \X Nat : u[2] < f[u[1]]}

LEMMA UnitsFinite ==
  ASSUME NEW S, IsFiniteSet(S), NEW f \in [S -> Nat]
  PROVE  /\ \A T \in SUBSET S : IsFiniteSet(Units(f, T))
         /\ \A x \in S : Cardinality(Units(f, {x})) = f[x]
<1>1. ASSUME NEW x \in S PROVE IsFiniteSet(Units(f, {x})) /\ Cardinality(Units(f, {x})) = f[x]
  <2> DEFINE c == {x} \X (0..(f[x] - 1))
  <2>1. Units(f, {x}) = c
    <3>1. ASSUME NEW u \in Units(f, {x}) PROVE u \in c
      BY <3>1 DEF Units
    <3>2. ASSUME NEW u \in c PROVE u \in Units(f, {x})
      BY <3>2 DEF Units
    <3> QED
      BY <3>1, <3>2
  <2>2. IsFiniteSet({x}) /\ Cardinality({x}) = 1
    BY FS_Singleton
  <2>3. f[x] \in Nat
    OBVIOUS
  <2>4. IsFiniteSet(0..(f[x] - 1)) /\ Cardinality(0..(f[x] - 1)) = f[x]
    BY <2>3, FS_Interval
  <2>5. IsFiniteSet(c) /\ Cardinality(c) = 1 * f[x]
    BY <2>2, <2>4, FS_Product, ZenonT(60)
  <2> HIDE DEF c
  <2> QED
    BY <2>1, <2>3, <2>5
<1>2. ASSUME NEW T \in SUBSET S PROVE IsFiniteSet(Units(f, T))
  <2> DEFINE F == {R \in SUBSET T : IsFiniteSet(Units(f, R))}
  <2>1. {} \in F
    <3>1. Units(f, {}) = {}
      BY DEF Units
    <3> QED
      BY <3>1, FS_EmptySet
  <2>2. ASSUME NEW R \in SUBSET T, NEW x \in T \ R, R \in F PROVE R \cup {x} \in F
    <3>1. Units(f, R \cup {x}) = Units(f, R) \cup Units(f, {x})
      BY DEF Units
    <3>2. IsFiniteSet(Units(f, R)) /\ IsFiniteSet(Units(f, {x}))
      BY <1>1, <2>2
    <3>3. IsFiniteSet(Units(f, R) \cup Units(f, {x}))
      BY <3>2, FS_Union
    <3> QED
      BY <3>1, <3>3
  <2>3. IsFiniteSet(T)
    BY FS_Subset
  <2> HIDE DEF F
  <2>4. T \in F
    BY <2>1, <2>2, <2>3, SetInduction
  <2> QED
    BY <2>4 DEF F
<1> QED
  BY <1>1, <1>2

LEMMA LoadCounts ==
  ASSUME NEW S, IsFiniteSet(S), NEW f \in [S -> Nat]
  PROVE  Load(f) = Cardinality(Units(f, S)) /\ Load(f) \in Nat
<1> DEFINE any(s) == CHOOSE x \in s : TRUE
           unrolled(g) == [s \in SUBSET S |-> IF s = {} THEN 0 ELSE f[any(s)] + g[s \ {any(s)}]]
           count == [s \in SUBSET S |-> Cardinality(Units(f, s))]
           sum == CHOOSE g : g = unrolled(g)
<1>1. Load(f) = sum[S]
  BY DEF Load, MapThenSumSet, MapThenFoldSet
<1>2. count = unrolled(count)
  <2>1. ASSUME NEW s \in SUBSET S
        PROVE  count[s] = IF s = {} THEN 0 ELSE f[any(s)] + count[s \ {any(s)}]
    <3>1. CASE s = {}
      <4>1. Units(f, s) = {}
        BY <3>1 DEF Units
      <4> QED
        BY <3>1, <4>1, FS_EmptySet
    <3>2. CASE s # {}
      <4> DEFINE x == any(s)
      <4>1. x \in s
        BY <3>2
      <4> HIDE DEF x
      <4>2. /\ Units(f, s) = Units(f, s \ {x}) \cup Units(f, {x})
            /\ Units(f, s \ {x}) \cap Units(f, {x}) = {}
        BY <4>1 DEF Units
      <4>3. /\ IsFiniteSet(Units(f, s \ {x})) /\ IsFiniteSet(Units(f, {x}))
            /\ Cardinality(Units(f, {x})) = f[x]
        BY <4>1, UnitsFinite
      <4> DEFINE P == Units(f, s \ {x})
                 Q == Units(f, {x})
      <4> HIDE DEF P, Q
      <4>4. /\ IsFiniteSet(P) /\ IsFiniteSet(Q) /\ P \cap Q = {}
            /\ Units(f, s) = P \cup Q /\ Cardinality(Q) = f[x]
        BY <4>2, <4>3 DEF P, Q
      <4>5. Cardinality(P \cup Q) = Cardinality(P) + Cardinality(Q) - 0
        BY <4>4, FS_Union, FS_EmptySet
      <4>6. Cardinality(P) \in Nat /\ f[x] \in Nat
        BY <4>1, <4>4, FS_CardinalityType
      <4>7. Cardinality(Units(f, s)) = f[x] + Cardinality(Units(f, s \ {x}))
        BY <4>4, <4>5, <4>6 DEF P
      <4> QED
        BY <3>2, <4>7 DEF x
    <3> QED
      BY <3>1, <3>2
  <2> QED
    BY <2>1
<1>3. sum = unrolled(sum)
  BY <1>2
<1> HIDE DEF sum, count
<1>4. \A s \in SUBSET S : sum[s] = count[s]
  <2> DEFINE D == {s \in SUBSET S : sum[s] # count[s]}
  <2> SUFFICES ASSUME D # {} PROVE FALSE
    OBVIOUS
  <2>0. D \in SUBSET (SUBSET S) /\ (\A T \in SUBSET S : T \in D <=> sum[T] # count[T])
    OBVIOUS
  <2> HIDE DEF D
  <2>1. PICK T \in D : \A U \in SUBSET T : U # T => U \notin D
    BY <2>0, SmallestSet
  <2>2. sum[T] = unrolled(sum)[T] /\ count[T] = unrolled(count)[T]
    BY <1>2, <1>3
  <2>3. CASE T = {}
    BY <2>0, <2>1, <2>2, <2>3
  <2>4. CASE T # {}
    <3> DEFINE x == any(T)
    <3>1. x \in T
      BY <2>4
    <3>2. sum[T \ {x}] = count[T \ {x}]
      BY <2>0, <2>1, <3>1
    <3> QED
      BY <2>0, <2>1, <2>2, <2>4, <3>2
  <2> QED
    BY <2>3, <2>4
<1>5. IsFiniteSet(Units(f, S))
  BY UnitsFinite
<1> QED
  BY <1>1, <1>4, <1>5, FS_CardinalityType DEF count

(* Two sums over disjoint parts make the sum of the whole. *)
LEMMA LoadSplit ==
  ASSUME NEW S, IsFiniteSet(S), NEW f \in [S -> Nat], NEW T \in SUBSET S
  PROVE  Load(f) = Load(Restrict(f, T)) + Load(Restrict(f, S \ T))
<1> DEFINE g == Restrict(f, T)
           h == Restrict(f, S \ T)
<1>1. g \in [T -> Nat] /\ h \in [S \ T -> Nat] /\ IsFiniteSet(T) /\ IsFiniteSet(S \ T)
  BY FS_Subset DEF Restrict
<1>2. Units(g, T) = Units(f, T) /\ Units(h, S \ T) = Units(f, S \ T)
  BY DEF Units, Restrict
<1>3. /\ Units(f, S) = Units(f, T) \cup Units(f, S \ T)
      /\ Units(f, T) \cap Units(f, S \ T) = {}
  BY DEF Units
<1> DEFINE P == Units(f, T)
           Q == Units(f, S \ T)
<1>4. IsFiniteSet(P) /\ IsFiniteSet(Q)
  BY UnitsFinite
<1>5. /\ Load(f) = Cardinality(Units(f, S))
      /\ Load(g) = Cardinality(P) /\ Load(h) = Cardinality(Q)
  BY <1>1, <1>2, LoadCounts
<1> HIDE DEF P, Q, g, h
<1>6. Units(f, S) = P \cup Q /\ P \cap Q = {}
  BY <1>3 DEF P, Q
<1>7. Cardinality(P \cup Q) = Cardinality(P) + Cardinality(Q) - 0
  BY <1>4, <1>6, FS_Union, FS_EmptySet
<1>8. Cardinality(P) \in Nat /\ Cardinality(Q) \in Nat
  BY <1>4, FS_CardinalityType
<1> QED
  BY <1>5, <1>6, <1>7, <1>8 DEF g, h

(* A sum stays below what its summands stay below, as often as there are. *)
LEMMA LoadBound ==
  ASSUME NEW S, IsFiniteSet(S), NEW f \in [S -> Nat], NEW m \in Nat
  PROVE  /\ (\A x \in S : f[x] = m) => Load(f) = Cardinality(S) * m
         /\ (\A x \in S : f[x] <= m) => Load(f) <= Cardinality(S) * m
<1> DEFINE c == S \X (0..(m - 1))
<1>1. IsFiniteSet(0..(m - 1)) /\ Cardinality(0..(m - 1)) = m
  BY FS_Interval
<1>2. IsFiniteSet(c) /\ Cardinality(c) = Cardinality(S) * m
  BY <1>1, FS_Product
<1>3. Load(f) = Cardinality(Units(f, S))
  BY LoadCounts
<1>4. ASSUME \A x \in S : f[x] = m PROVE Units(f, S) = c
  <2>1. ASSUME NEW u \in Units(f, S) PROVE u \in c
    BY <1>4, <2>1 DEF Units
  <2>2. ASSUME NEW u \in c PROVE u \in Units(f, S)
    BY <1>4, <2>2 DEF Units
  <2> QED
    BY <2>1, <2>2
<1>5. ASSUME \A x \in S : f[x] <= m PROVE Units(f, S) \subseteq c
  BY <1>5 DEF Units
<1> HIDE DEF c
<1>6. ASSUME \A x \in S : f[x] <= m PROVE Cardinality(Units(f, S)) <= Cardinality(c)
  BY <1>2, <1>5, <1>6, FS_Subset
<1> QED
  BY <1>2, <1>3, <1>4, <1>6

LEMMA LoadEmpty ==
  ASSUME NEW f \in [{} -> Nat]
  PROVE  Load(f) = 0
<1>1. IsFiniteSet({}) /\ Cardinality({}) = 0
  BY FS_EmptySet
<1>2. \A x \in {} : f[x] = 0
  OBVIOUS
<1>3. Load(f) = Cardinality({}) * 0
  BY <1>1, <1>2, LoadBound
<1> QED
  BY <1>1, <1>3

(* A sum is the same in whatever order its summands are counted. *)
LEMMA LoadRenamed ==
  ASSUME NEW I, IsFiniteSet(I), NEW T, NEW q \in Bijection(I, T),
         NEW f \in [T -> Nat], NEW g \in [I -> Nat], \A i \in I : g[i] = f[q[i]]
  PROVE  Load(g) = Load(f)
<1> DEFINE b == [u \in Units(g, I) |-> <<q[u[1]], u[2]>>]
<1>1. /\ q \in [I -> T] /\ \A i \in I : \A j \in I : q[i] = q[j] => i = j
      /\ \A x \in T : \E i \in I : q[i] = x
  BY DEF Bijection, Injection, Surjection, IsInjective
<1>2. IsFiniteSet(T)
  BY FS_Bijection DEF ExistsBijection
<1>3. b \in Bijection(Units(g, I), Units(f, T))
  <2>1. ASSUME NEW u \in Units(g, I) PROVE b[u] \in Units(f, T)
    BY <1>1, <2>1 DEF Units
  <2>2. ASSUME NEW u \in Units(g, I), NEW v \in Units(g, I), b[u] = b[v] PROVE u = v
    BY <1>1, <2>2 DEF Units
  <2>3. ASSUME NEW w \in Units(f, T) PROVE \E u \in Units(g, I) : b[u] = w
    <3>1. PICK x \in T, n \in Nat : w = <<x, n>> /\ n < f[x]
      BY DEF Units
    <3>2. PICK i \in I : q[i] = x
      BY <1>1
    <3>3. <<i, n>> \in Units(g, I)
      BY <3>1, <3>2 DEF Units
    <3> QED
      BY <3>1, <3>2, <3>3
  <2>4. b \in [Units(g, I) -> Units(f, T)]
    BY <2>1
  <2> HIDE DEF b
  <2> QED
    BY <2>2, <2>3, <2>4 DEF Bijection, Injection, Surjection, IsInjective
<1> HIDE DEF b
<1>4. IsFiniteSet(Units(g, I)) /\ Load(g) = Cardinality(Units(g, I))
  BY UnitsFinite, LoadCounts
<1>5. Cardinality(Units(f, T)) = Cardinality(Units(g, I))
  BY <1>3, <1>4, FS_Bijection DEF ExistsBijection
<1>6. Load(f) = Cardinality(Units(f, T))
  BY <1>2, LoadCounts
<1> QED
  BY <1>4, <1>5, <1>6

LEMMA LoadWithout ==
  ASSUME NEW S, IsFiniteSet(S), NEW f \in [S -> Nat], NEW x \in S
  PROVE  /\ Load(f) = f[x] + Load(Restrict(f, S \ {x}))
         /\ Load(Restrict(f, S \ {x})) \in Nat /\ Load(f) \in Nat
<1> DEFINE one == Restrict(f, {x})
           rest == Restrict(f, S \ {x})
<1>1. Load(f) = Load(one) + Load(rest)
  BY LoadSplit
<1>2. one \in [{x} -> Nat] /\ rest \in [S \ {x} -> Nat] /\ IsFiniteSet(S \ {x})
  BY FS_Subset DEF Restrict
<1>3. IsFiniteSet({x}) /\ Cardinality({x}) = 1
  BY FS_Singleton
<1>4. f[x] \in Nat /\ \A y \in {x} : one[y] = f[x]
  BY DEF Restrict
<1> HIDE DEF one, rest
<1>5. Load(one) = 1 * f[x]
  BY <1>2, <1>3, <1>4, LoadBound
<1>6. Load(rest) \in Nat /\ Load(f) \in Nat
  BY <1>2, LoadCounts
<1> QED
  BY <1>1, <1>4, <1>5, <1>6 DEF rest

(* What one loses and another gains changes no sum. *)
LEMMA LoadMoved ==
  ASSUME NEW S, IsFiniteSet(S), NEW f \in [S -> Nat], NEW g \in [S -> Nat],
         NEW s \in S, NEW t \in S, s # t, NEW n \in Nat,
         g[s] = f[s] - n, g[t] = f[t] + n, \A x \in S \ {s, t} : g[x] = f[x]
  PROVE  Load(g) = Load(f)
<1> DEFINE R == S \ {s}
           fr == Restrict(f, R)
           gr == Restrict(g, R)
<1>1. /\ Load(f) = f[s] + Load(fr) /\ Load(fr) \in Nat
      /\ Load(g) = g[s] + Load(gr) /\ Load(gr) \in Nat
  BY LoadWithout
<1>2. fr \in [R -> Nat] /\ gr \in [R -> Nat] /\ IsFiniteSet(R) /\ t \in R
  BY FS_Subset DEF Restrict
<1>3. Restrict(fr, R \ {t}) = Restrict(gr, R \ {t})
  BY DEF Restrict
<1>4. fr[t] = f[t] /\ gr[t] = g[t]
  BY DEF Restrict
<1> HIDE DEF R, fr, gr
<1>5. /\ Load(fr) = fr[t] + Load(Restrict(fr, R \ {t})) /\ Load(Restrict(fr, R \ {t})) \in Nat
      /\ Load(gr) = gr[t] + Load(Restrict(gr, R \ {t}))
  BY <1>2, LoadWithout
<1> QED
  BY <1>1, <1>3, <1>4, <1>5

LEMMA EvenSum ==
  ASSUME NEW n \in Nat, NEW k \in Nat \ {0}
  PROVE  Load(Even(n, k)) = n
<1> DEFINE q == n \div k
           r == n % k
           low == Restrict(Even(n, k), 1..r)
           high == Restrict(Even(n, k), (1..k) \ (1..r))
<1>1. q \in Nat /\ r \in 0..(k - 1) /\ n = k * q + r
  BY Division
<1>2. Even(n, k) = [i \in 1..k |-> q + (IF i <= r THEN 1 ELSE 0)]
  BY DEF Even
<1> HIDE DEF q, r
<1>3. Even(n, k) \in [1..k -> Nat]
  BY <1>1, <1>2
<1>4. 1..r \in SUBSET (1..k) /\ (1..k) \ (1..r) = (r + 1)..k
  BY <1>1
<1>5. /\ IsFiniteSet(1..k) /\ IsFiniteSet(1..r) /\ Cardinality(1..r) = r
      /\ IsFiniteSet((1..k) \ (1..r)) /\ Cardinality((1..k) \ (1..r)) = k - r
  <2>1. IsFiniteSet((r + 1)..k) /\ Cardinality((r + 1)..k) = k - r
    BY <1>1, FS_Interval
  <2>2. IsFiniteSet(1..r) /\ Cardinality(1..r) = r /\ IsFiniteSet(1..k)
    BY <1>1, FS_Interval
  <2> QED
    BY <1>4, <2>1, <2>2
<1>6. low \in [1..r -> Nat] /\ \A i \in 1..r : low[i] = q + 1
  BY <1>1, <1>2, <1>3, <1>4 DEF Restrict
<1>7. high \in [(1..k) \ (1..r) -> Nat] /\ \A i \in (1..k) \ (1..r) : high[i] = q
  BY <1>1, <1>2, <1>3, <1>4 DEF Restrict
<1>8. Load(Even(n, k)) = Load(low) + Load(high)
  <2> DEFINE f == Even(n, k)
             T == 1..r
  <2>1. f \in [1..k -> Nat] /\ T \in SUBSET (1..k) /\ IsFiniteSet(1..k)
    BY <1>3, <1>4, <1>5
  <2> HIDE DEF f, T
  <2>2. Load(f) = Load(Restrict(f, T)) + Load(Restrict(f, (1..k) \ T))
    BY <2>1, LoadSplit
  <2> QED
    BY <2>2 DEF f, T
<1> HIDE DEF low, high
<1>9. q + 1 \in Nat
  BY <1>1
<1>10. Load(low) = r * (q + 1)
  BY <1>5, <1>6, <1>9, LoadBound
<1>11. Load(high) = (k - r) * q
  BY <1>1, <1>5, <1>7, LoadBound
<1>12. r * (q + 1) + (k - r) * q = k * q + r
  BY <1>1, Z3
<1> QED
  BY <1>1, <1>8, <1>10, <1>11, <1>12

LEMMA Numbered ==
  ASSUME NEW j \in Nat
  PROVE  IsFiniteSet(1..j) /\ Cardinality(1..j) = j
  BY FS_Interval

(* The groups of TailDeal hold what was dealt out. *)
LEMMA TailSum ==
  ASSUME NEW n \in Nat, NEW most \in Nat \ {0}, NEW least \in Nat, NEW k \in Nat \ {0},
         k = Groups(n, most), ~Exact(n, least, most), n - most * (k - 1) \in Nat
  PROVE  Load(Sizes(n, least, most)) = n
<1> DEFINE f == Sizes(n, least, most)
           tail == n - most * (k - 1)
           full == Restrict(f, (1..k) \ {k})
<1>1. tail \in Nat /\ f = [i \in 1..k |-> IF i < k THEN most ELSE tail]
  BY DEF Sizes
<1> HIDE DEF f, tail
<1>2. f \in [1..k -> Nat] /\ f[k] = tail /\ k \in 1..k
  BY <1>1
<1>3. Load(f) = f[k] + Load(full)
  BY <1>2, Numbered, LoadWithout, ZenonT(60)
<1>4. IsFiniteSet((1..k) \ {k}) /\ Cardinality((1..k) \ {k}) = k - 1
  <2>1. ASSUME NEW j \in Nat \ {0} PROVE (1..j) \ {j} = 1..(j - 1)
    OBVIOUS
  <2>2. k - 1 \in Nat
    OBVIOUS
  <2> QED
    BY <2>1, <2>2, Numbered
<1>5. full \in [(1..k) \ {k} -> Nat] /\ \A i \in (1..k) \ {k} : full[i] = most
  BY <1>1, <1>2 DEF Restrict
<1> HIDE DEF full
<1>6. Load(full) = (k - 1) * most
  BY <1>4, <1>5, LoadBound
<1>7. (k - 1) * most = most * (k - 1) /\ most * (k - 1) \in Nat
  BY Z3
<1> QED
  BY <1>2, <1>3, <1>6, <1>7 DEF f, tail

-----------------------------------------------------------------------------
(* Deals. *)

LEMMA ProductOrder ==
  ASSUME NEW a \in Nat, NEW b \in Nat, NEW c \in Nat \ {0}, c * a < c * b
  PROVE  a < b
  BY Z3

(* An even deal of n into k groups keeps every group between any two bounds
   that n respects on average (_balanced_partition_sizes). *)
LEMMA EvenDeal ==
  ASSUME NEW n \in Nat, NEW k \in Nat \ {0}, NEW least \in Nat, NEW most \in Nat,
         k * least <= n, n <= k * most
  PROVE  Even(n, k) \in [1..k -> least..most]
<1> DEFINE q == n \div k
           r == n % k
<1>1. q \in Nat /\ r \in 0..(k - 1) /\ n = k * q + r
  BY Division
<1>2. least <= q
  <2>1. k * least < k * q + k
    BY <1>1, Z3
  <2>2. k * least < k * (q + 1)
    BY <1>1, <2>1, Z3
  <2> HIDE DEF q, r
  <2>3. least < q + 1
    BY <1>1, <2>2, ProductOrder
  <2> QED
    BY <1>1, <2>3
<1>3. q <= most
  <2>1. k * q < k * (most + 1)
    BY <1>1, Z3
  <2> HIDE DEF q, r
  <2>2. q < most + 1
    BY <1>1, <2>1, ProductOrder
  <2> QED
    BY <1>1, <2>2
<1>4. ASSUME r > 0
      PROVE  q < most
  <2>1. k * q < k * most
    BY <1>1, <1>4, Z3
  <2> HIDE DEF q, r
  <2> QED
    BY <1>1, <2>1, ProductOrder
<1>5. ASSUME NEW i \in 1..k
      PROVE  q + (IF i <= r THEN 1 ELSE 0) \in least..most
  <2> HIDE DEF q, r
  <2> QED
    BY <1>1, <1>2, <1>3, <1>4
<1> QED
  BY <1>5 DEF Even

(* The deal that cannot be exact: full groups and a last one that holds what is
   left, which is never empty. *)
LEMMA TailDeal ==
  ASSUME NEW n \in Nat \ {0}, NEW least \in Nat, NEW most \in Nat \ {0},
         ~Exact(n, least, most)
  PROVE  /\ Groups(n, most) \in Nat \ {0}
         /\ Sizes(n, least, most) \in [1..Groups(n, most) -> 1..most]
         /\ n - most * (Groups(n, most) - 1) \in Nat
<1> DEFINE k == Groups(n, most)
           r == (n + most - 1) % most
<1>1. k \in Nat /\ r \in 0..(most - 1) /\ n + most - 1 = most * k + r
  <2> DEFINE m == n + most - 1
  <2>1. m \in Nat
    OBVIOUS
  <2> HIDE DEF m
  <2>2. /\ m \div most \in Nat /\ m % most \in 0..(most - 1)
        /\ m = most * (m \div most) + (m % most)
    BY <2>1, Division
  <2> QED
    BY <2>2, Zenon DEF m, Groups
<1>2. k # 0
  BY <1>1, Z3
<1>3. most * (k - 1) = most * k - most
  BY <1>1, Z3
<1>4. n - most * (k - 1) \in 1..most
  <2> HIDE DEF k, r
  <2>1. n - most * (k - 1) = r + 1
    BY <1>1, <1>3, Z3
  <2> QED
    BY <1>1, <2>1
<1>5. Sizes(n, least, most) = [i \in 1..k |-> IF i < k THEN most ELSE n - most * (k - 1)]
  BY DEF Sizes
<1> HIDE DEF k, r
<1> QED
  BY <1>1, <1>2, <1>4, <1>5 DEF k

(* As many full groups as it takes hold n, and one fewer do not. *)
LEMMA GroupsHold ==
  ASSUME NEW n \in Nat \ {0}, NEW most \in Nat \ {0}
  PROVE  /\ Groups(n, most) \in Nat \ {0} /\ n <= Groups(n, most) * most
         /\ \A k \in Nat : n <= k * most => Groups(n, most) <= k
<1> DEFINE m == n + most - 1
           g == Groups(n, most)
<1>1. m \in Nat /\ g = m \div most
  BY DEF Groups
<1> HIDE DEF m, g
<1>2. /\ m \div most \in Nat /\ m % most \in 0..(most - 1)
      /\ m = most * (m \div most) + (m % most)
  BY <1>1, Division
<1>3. m = n + most - 1
  BY DEF m
<1>4. g \in Nat /\ n <= g * most
  BY <1>1, <1>2, <1>3, Z3
<1>5. g # 0
  BY <1>4, Z3
<1>6. ASSUME NEW k \in Nat, n <= k * most
      PROVE  g <= k
  <2>1. most * g < most * (k + 1)
    BY <1>1, <1>2, <1>3, <1>4, <1>6, Z3
  <2>2. g < k + 1
    BY <1>4, <2>1, ProductOrder
  <2> QED
    BY <1>4, <2>2
<1> QED
  BY <1>4, <1>5, <1>6 DEF g

-----------------------------------------------------------------------------
(* More about sums: of nothing, of one, of sums. *)

Rated(w, A) == w \in [A -> Nat]

LEMMA LoadZero ==
  ASSUME NEW S, IsFiniteSet(S), NEW f \in [S -> Nat], \A x \in S : f[x] = 0
  PROVE  Load(f) = 0
<1>1. Load(f) = Cardinality(S) * 0
  BY LoadBound
<1>2. Cardinality(S) \in Nat
  BY FS_CardinalityType
<1> QED
  BY <1>1, <1>2

LEMMA LoadSingle ==
  ASSUME NEW S, IsFiniteSet(S), NEW f \in [S -> Nat], NEW x \in S,
         \A y \in S \ {x} : f[y] = 0
  PROVE  Load(f) = f[x]
<1> DEFINE rest == Restrict(f, S \ {x})
<1>1. IsFiniteSet(S \ {x})
  BY FS_Subset
<1>2. rest \in [S \ {x} -> Nat] /\ \A y \in S \ {x} : rest[y] = 0
  BY DEF Restrict
<1>3. Load(f) = f[x] + Load(rest)
  BY LoadWithout
<1> HIDE DEF rest
<1>4. Load(rest) = 0
  BY <1>1, <1>2, LoadZero
<1> QED
  BY <1>3, <1>4

LEMMA LoadChanged ==
  ASSUME NEW S, IsFiniteSet(S), NEW f \in [S -> Nat], NEW g \in [S -> Nat], NEW x \in S,
         \A y \in S \ {x} : g[y] = f[y]
  PROVE  Load(g) + f[x] = Load(f) + g[x]
<1>1. Restrict(f, S \ {x}) = Restrict(g, S \ {x})
  BY DEF Restrict
<1>2. /\ Load(f) = f[x] + Load(Restrict(f, S \ {x})) /\ Load(f) \in Nat
      /\ Load(Restrict(f, S \ {x})) \in Nat
  BY LoadWithout
<1>3. Load(g) = g[x] + Load(Restrict(g, S \ {x})) /\ Load(g) \in Nat
  BY LoadWithout
<1>4. f[x] \in Nat /\ g[x] \in Nat
  OBVIOUS
<1> QED
  BY <1>1, <1>2, <1>3, <1>4

LEMMA LoadLess ==
  ASSUME NEW S, IsFiniteSet(S), NEW f \in [S -> Nat], NEW T \in SUBSET S
  PROVE  Load(Restrict(f, T)) \in Nat /\ Load(f) \in Nat /\ Load(Restrict(f, T)) <= Load(f)
<1>1. Restrict(f, T) \in [T -> Nat] /\ Restrict(f, S \ T) \in [S \ T -> Nat]
  BY DEF Restrict
<1>2. IsFiniteSet(T) /\ IsFiniteSet(S \ T)
  BY FS_Subset
<1>3. Load(Restrict(f, T)) \in Nat /\ Load(Restrict(f, S \ T)) \in Nat
  BY <1>1, <1>2, LoadCounts
<1>4. Load(f) = Load(Restrict(f, T)) + Load(Restrict(f, S \ T))
  BY LoadSplit
<1> QED
  BY <1>3, <1>4

LEMMA LoadJoined ==
  ASSUME NEW R, IsFiniteSet(R), NEW x, x \notin R, NEW f \in [R \cup {x} -> Nat]
  PROVE  Load(f) = f[x] + Load(Restrict(f, R)) /\ Load(Restrict(f, R)) \in Nat
<1>1. IsFiniteSet(R \cup {x})
  BY FS_AddElement
<1>2. (R \cup {x}) \ {x} = R
  OBVIOUS
<1> DEFINE S == R \cup {x}
<1>3. x \in S /\ IsFiniteSet(S) /\ f \in [S -> Nat] /\ S \ {x} = R
  BY <1>1, <1>2
<1> HIDE DEF S
<1> QED
  BY <1>3, LoadWithout

LEMMA LoadAdded ==
  ASSUME NEW S, IsFiniteSet(S), NEW f \in [S -> Nat], NEW g \in [S -> Nat]
  PROVE  Load([x \in S |-> f[x] + g[x]]) = Load(f) + Load(g)
<1> DEFINE b == [x \in S |-> f[x] + g[x]]
           G == {R \in SUBSET S : Load(Restrict(b, R)) = Load(Restrict(f, R)) + Load(Restrict(g, R))}
<1>1. b \in [S -> Nat] /\ \A x \in S : b[x] = f[x] + g[x]
  OBVIOUS
<1>2. \A R \in SUBSET S : R \in G <=> Load(Restrict(b, R)) = Load(Restrict(f, R)) + Load(Restrict(g, R))
  OBVIOUS
<1> HIDE DEF b, G
<1>3. {} \in G
  <2>1. \A e \in [S -> Nat] : Restrict(e, {}) \in [{} -> Nat]
    BY DEF Restrict
  <2>2. \A e \in [S -> Nat] : Load(Restrict(e, {})) = 0
    BY <2>1, LoadEmpty
  <2> QED
    BY <1>1, <1>2, <2>2
<1>4. ASSUME NEW R \in SUBSET S, NEW x \in S \ R, R \in G
      PROVE  R \cup {x} \in G
  <2>1. IsFiniteSet(R)
    BY FS_Subset
  <2>2. ASSUME NEW e \in [S -> Nat]
        PROVE  Load(Restrict(e, R \cup {x})) = e[x] + Load(Restrict(e, R)) /\ Load(Restrict(e, R)) \in Nat
    <3> DEFINE d == Restrict(e, R \cup {x})
    <3>1. d \in [R \cup {x} -> Nat] /\ d[x] = e[x] /\ Restrict(d, R) = Restrict(e, R)
      BY DEF Restrict
    <3> HIDE DEF d
    <3>2. Load(d) = d[x] + Load(Restrict(d, R)) /\ Load(Restrict(d, R)) \in Nat
      BY <2>1, <3>1, LoadJoined
    <3> QED
      BY <3>1, <3>2 DEF d
  <2>3. Load(Restrict(b, R)) = Load(Restrict(f, R)) + Load(Restrict(g, R))
    BY <1>2, <1>4
  <2>4. R \cup {x} \in SUBSET S /\ b[x] = f[x] + g[x] /\ f[x] \in Nat /\ g[x] \in Nat
    BY <1>1
  <2>5. /\ Load(Restrict(b, R \cup {x})) = b[x] + Load(Restrict(b, R))
        /\ Load(Restrict(f, R \cup {x})) = f[x] + Load(Restrict(f, R)) /\ Load(Restrict(f, R)) \in Nat
        /\ Load(Restrict(g, R \cup {x})) = g[x] + Load(Restrict(g, R)) /\ Load(Restrict(g, R)) \in Nat
    BY <1>1, <2>2
  <2>6. Load(Restrict(b, R \cup {x})) = Load(Restrict(f, R \cup {x})) + Load(Restrict(g, R \cup {x}))
    BY <2>3, <2>4, <2>5
  <2> QED
    BY <1>2, <2>4, <2>6
<1>5. S \in G
  BY <1>3, <1>4, SetInduction
<1>6. Restrict(b, S) = b /\ Restrict(f, S) = f /\ Restrict(g, S) = g
  BY <1>1 DEF Restrict
<1>7. Load(b) = Load(f) + Load(g)
  BY <1>2, <1>5, <1>6
<1> QED
  BY <1>7 DEF b

(* A sum of sums is the same by rows and by columns. *)
Table(M, S, T) == M \in [S -> [T -> Nat]]
ByRow(M, S) == [s \in S |-> Load(M[s])]
ByColumn(M, S, T) == [t \in T |-> Load([s \in S |-> M[s][t]])]

LEMMA LoadSwapped ==
  ASSUME NEW S, IsFiniteSet(S), NEW T, IsFiniteSet(T), NEW M, Table(M, S, T)
  PROVE  /\ Rated(ByRow(M, S), S) /\ Rated(ByColumn(M, S, T), T)
         /\ Load(ByRow(M, S)) = Load(ByColumn(M, S, T))
<1> DEFINE row == [s \in S |-> Load(M[s])]
           col(t) == [s \in S |-> M[s][t]]
           columns(R) == [t \in T |-> Load(Restrict(col(t), R))]
           G == {R \in SUBSET S : Load(Restrict(row, R)) = Load(columns(R))}
<1>0. M \in [S -> [T -> Nat]]
  BY DEF Table
<1>1. row \in [S -> Nat]
  <2>1. \A s \in S : Load(M[s]) \in Nat
    BY <1>0, LoadCounts
  <2> QED
    BY <2>1
<1>2. \A R \in SUBSET S : R \in G <=> Load(Restrict(row, R)) = Load(columns(R))
  OBVIOUS
<1>3. \A t \in T : col(t) \in [S -> Nat] /\ \A s \in S : col(t)[s] = M[s][t]
  BY <1>0
<1>4. \A s \in S : row[s] = Load(M[s])
  OBVIOUS
<1> HIDE DEF row, col, G
<1>5. ASSUME NEW R \in SUBSET S
      PROVE  columns(R) \in [T -> Nat] /\ \A t \in T : columns(R)[t] = Load(Restrict(col(t), R))
  <2>1. ASSUME NEW t \in T PROVE Load(Restrict(col(t), R)) \in Nat
    BY <1>3, LoadLess
  <2> QED
    BY <2>1
<1> HIDE DEF columns
<1>6. {} \in G
  <2>1. \A e \in [S -> Nat] : Restrict(e, {}) \in [{} -> Nat]
    BY DEF Restrict
  <2>2. \A e \in [S -> Nat] : Load(Restrict(e, {})) = 0
    BY <2>1, LoadEmpty
  <2>3. columns({}) \in [T -> Nat] /\ \A t \in T : columns({})[t] = 0
    BY <1>3, <1>5, <2>2
  <2>4. Load(columns({})) = 0
    BY <2>3, LoadZero
  <2> QED
    BY <1>1, <1>2, <2>2, <2>4
<1>7. ASSUME NEW R \in SUBSET S, NEW x \in S \ R, R \in G
      PROVE  R \cup {x} \in G
  <2>1. IsFiniteSet(R) /\ R \cup {x} \in SUBSET S
    BY FS_Subset
  <2>2. ASSUME NEW e \in [S -> Nat]
        PROVE  Load(Restrict(e, R \cup {x})) = e[x] + Load(Restrict(e, R)) /\ Load(Restrict(e, R)) \in Nat
    <3> DEFINE d == Restrict(e, R \cup {x})
    <3>1. d \in [R \cup {x} -> Nat] /\ d[x] = e[x] /\ Restrict(d, R) = Restrict(e, R)
      BY DEF Restrict
    <3> HIDE DEF d
    <3>2. Load(d) = d[x] + Load(Restrict(d, R)) /\ Load(Restrict(d, R)) \in Nat
      BY <2>1, <3>1, LoadJoined
    <3> QED
      BY <3>1, <3>2 DEF d
  <2>3. Load(Restrict(row, R \cup {x})) = Load(M[x]) + Load(Restrict(row, R))
    BY <1>1, <1>4, <2>2
  <2>4. ASSUME NEW t \in T
        PROVE  columns(R \cup {x})[t] = M[x][t] + columns(R)[t]
    BY <1>3, <1>5, <2>1, <2>2
  <2> DEFINE c == columns(R)
  <2>5. c \in [T -> Nat] /\ M[x] \in [T -> Nat]
    BY <1>0, <1>5
  <2>6. columns(R \cup {x}) = [t \in T |-> M[x][t] + c[t]]
    BY <1>5, <2>1, <2>4
  <2> HIDE DEF c
  <2>7. Load(columns(R \cup {x})) = Load(M[x]) + Load(c)
    BY <2>5, <2>6, LoadAdded
  <2>8. Load(Restrict(row, R)) = Load(c)
    BY <1>2, <1>7 DEF c
  <2> QED
    BY <1>2, <2>1, <2>3, <2>7, <2>8
<1>8. S \in G
  BY <1>6, <1>7, SetInduction
<1>9. Restrict(row, S) = row /\ \A t \in T : Restrict(col(t), S) = col(t)
  BY <1>1, <1>3 DEF Restrict
<1>10. Load(row) = Load(columns(S))
  BY <1>2, <1>8, <1>9
<1>11. columns(S) = [t \in T |-> Load(col(t))]
  BY <1>5, <1>9
<1>12. columns(S) \in [T -> Nat]
  BY <1>5
<1>13. columns(S) = [t \in T |-> Load([s \in S |-> M[s][t]])]
  BY <1>11 DEF col
<1> QED
  BY <1>1, <1>10, <1>12, <1>13 DEF row, Rated, ByRow, ByColumn

-----------------------------------------------------------------------------
(* Least and greatest numbers, and counting up. *)

LEMMA LeastNumber ==
  ASSUME NEW A \in SUBSET Nat, A # {}
  PROVE  \E m \in A : \A x \in A : m <= x
<1>1. PICK a \in A : TRUE
  OBVIOUS
<1> DEFINE S == 1..a
           D == {1..i : i \in {j \in A : j <= a}}
<1>2. IsFiniteSet(S)
  BY FS_Interval
<1>3. D \in SUBSET (SUBSET S)
  BY <1>1
<1>4. D # {}
  BY <1>1
<1>5. \A x \in A : x <= a => 1..x \in D
  OBVIOUS
<1>6. \A T \in D : \E i \in A : i <= a /\ T = 1..i
  OBVIOUS
<1> HIDE DEF D, S
<1>7. PICK T \in D : \A U \in SUBSET T : U # T => U \notin D
  BY <1>2, <1>3, <1>4, SmallestSet
<1>8. PICK m \in A : m <= a /\ T = 1..m
  BY <1>6
<1>9. ASSUME NEW x \in A, x < m
      PROVE  FALSE
  <2>1. 1..x \in D
    BY <1>1, <1>5, <1>8, <1>9
  <2>2. 1..x \in SUBSET (1..m) /\ m \notin 1..x /\ m \in 1..m
    BY <1>9
  <2> QED
    BY <1>7, <1>8, <2>1, <2>2
<1> QED
  BY <1>8, <1>9

LEMMA GreatestNumber ==
  ASSUME NEW n \in Nat, NEW A \in SUBSET (0..n), A # {}
  PROVE  \E m \in A : \A x \in A : x <= m
<1> DEFINE B == {n - x : x \in A}
<1>1. B \in SUBSET Nat /\ B # {}
  <2>1. \A x \in A : n - x \in Nat
    OBVIOUS
  <2> QED
    BY <2>1
<1>2. PICK b \in B : \A y \in B : b <= y
  BY <1>1, LeastNumber
<1>3. PICK m \in A : b = n - m
  OBVIOUS
<1>4. ASSUME NEW x \in A PROVE x <= m
  <2>1. n - x \in B
    OBVIOUS
  <2> HIDE DEF B
  <2> QED
    BY <1>2, <1>3, <2>1
<1> QED
  BY <1>4

LEMMA CountUp ==
  ASSUME NEW n \in Nat, NEW G, 0 \in G, \A i \in 0..(n - 1) : i \in G => i + 1 \in G
  PROVE  \A i \in 0..n : i \in G
<1> SUFFICES ASSUME NEW k \in 0..n, k \notin G PROVE FALSE
  OBVIOUS
<1> DEFINE A == {i \in 0..n : i \notin G}
<1>1. A \in SUBSET Nat /\ k \in A
  OBVIOUS
<1>2. PICK m \in A : \A x \in A : m <= x
  BY <1>1, LeastNumber
<1>3. m \in 0..n /\ m \notin G /\ m # 0
  OBVIOUS
<1>4. m - 1 \in 0..(n - 1) /\ m - 1 \in 0..n /\ (m - 1) + 1 = m /\ ~(m <= m - 1)
  BY <1>3
<1>5. m - 1 \in G
  BY <1>2, <1>4
<1> QED
  BY <1>3, <1>4, <1>5

-----------------------------------------------------------------------------
(* Orders: the place of an element, the elements in their order. *)

(* Counting what comes before it gives each element a place of its own. *)
LEMMA Places ==
  ASSUME NEW S, IsFiniteSet(S), NEW B \in SUBSET (S \X S),
         \A x \in S : <<x, x>> \in B,
         \A x, y \in S : <<x, y>> \in B \/ <<y, x>> \in B,
         \A x, y \in S : <<x, y>> \in B /\ <<y, x>> \in B => x = y,
         \A x, y, z \in S : <<x, y>> \in B /\ <<y, z>> \in B => <<x, z>> \in B
  PROVE  [x \in S |-> Cardinality({y \in S : <<y, x>> \in B})] \in Bijection(S, 1..Cardinality(S))
<1> DEFINE n == Cardinality(S)
           upTo(x) == {y \in S : <<y, x>> \in B}
           p == [x \in S |-> Cardinality(upTo(x))]
<1>1. n \in Nat /\ IsFiniteSet(1..n) /\ Cardinality(1..n) = n
  BY FS_CardinalityType, Numbered
<1>2. ASSUME NEW x \in S
      PROVE  IsFiniteSet(upTo(x)) /\ Cardinality(upTo(x)) \in 1..n /\ x \in upTo(x)
  <2>1. upTo(x) \in SUBSET S /\ x \in upTo(x)
    OBVIOUS
  <2>2. IsFiniteSet(upTo(x)) /\ Cardinality(upTo(x)) <= n
    BY <2>1, FS_Subset
  <2> DEFINE u == upTo(x)
  <2>3. IsFiniteSet(u) /\ x \in u /\ Cardinality(u) <= n
    BY <2>1, <2>2
  <2> HIDE DEF u
  <2>4. Cardinality(u) \in Nat /\ Cardinality(u) # 0
    BY <2>3, FS_CardinalityType, FS_EmptySet
  <2>5. Cardinality(u) \in 1..n
    BY <1>1, <2>3, <2>4
  <2> QED
    BY <2>3, <2>5 DEF u
<1>3. ASSUME NEW x \in S, NEW y \in S, <<x, y>> \in B, x # y
      PROVE  Cardinality(upTo(x)) # Cardinality(upTo(y))
  <2> DEFINE u == upTo(x)
             v == upTo(y)
  <2>1. u \in SUBSET v /\ y \in v /\ y \notin u
    BY <1>3
  <2>2. IsFiniteSet(v)
    BY <1>2
  <2> HIDE DEF u, v
  <2>3. Cardinality(u) # Cardinality(v)
    BY <2>1, <2>2, FS_Subset
  <2> QED
    BY <2>3 DEF u, v
<1>4. \A x \in S : p[x] = Cardinality(upTo(x))
  OBVIOUS
<1>5. p \in [S -> 1..n]
  BY <1>2
<1> HIDE DEF p, n, upTo
<1>6. \A x \in S : \A y \in S : p[x] = p[y] => x = y
  BY <1>3, <1>4
<1>7. p \in Injection(S, 1..n)
  BY <1>5, <1>6 DEF Injection, IsInjective
<1>8. p \in Surjection(S, 1..n)
  <2>1. Cardinality(S) = Cardinality(1..n)
    BY <1>1 DEF n
  <2> QED
    BY <1>1, <1>7, <2>1, FS_Injection
<1>9. p \in Bijection(S, 1..n)
  BY <1>7, <1>8 DEF Bijection
<1> QED
  BY <1>9 DEF p, n, upTo

LEMMA AscendingRank ==
  ASSUME NEW S \in SUBSET Nat, IsFiniteSet(S)
  PROVE  /\ Cardinality(S) \in Nat
         /\ Ascending(S) \in Bijection(1..Cardinality(S), S)
         /\ \A k \in 1..Cardinality(S) :
              /\ Ascending(S)[k] \in S
              /\ Cardinality({y \in S : y <= Ascending(S)[k]}) = k
         /\ \A x \in S : \E k \in 1..Cardinality(S) : Ascending(S)[k] = x
<1> DEFINE n == Cardinality(S)
           B == {b \in S \X S : b[1] <= b[2]}
           p == [x \in S |-> Cardinality({y \in S : <<y, x>> \in B})]
           inOrder == Ascending(S)
<1>1. n \in Nat
  BY FS_CardinalityType
<1>2. \A x, y \in S : <<x, y>> \in B <=> x <= y
  OBVIOUS
<1>3. p \in Bijection(S, 1..n)
  <2>1. B \in SUBSET (S \X S)
    OBVIOUS
  <2>2. /\ \A x \in S : <<x, x>> \in B
        /\ \A x, y \in S : <<x, y>> \in B \/ <<y, x>> \in B
        /\ \A x, y \in S : <<x, y>> \in B /\ <<y, x>> \in B => x = y
        /\ \A x, y, z \in S : <<x, y>> \in B /\ <<y, z>> \in B => <<x, z>> \in B
    <3> HIDE DEF B
    <3> QED
      BY <1>2
  <2> HIDE DEF B
  <2> QED
    BY <2>1, <2>2, Places, Zenon
<1>4. ASSUME NEW x \in S PROVE p[x] = Cardinality({y \in S : y <= x})
  <2>1. {y \in S : <<y, x>> \in B} = {y \in S : y <= x}
    OBVIOUS
  <2> QED
    BY <2>1
<1> HIDE DEF p, B
<1>5. /\ p \in [S -> 1..n] /\ \A x \in S : \A y \in S : p[x] = p[y] => x = y
      /\ \A k \in 1..n : \E x \in S : p[x] = k
  BY <1>3 DEF Bijection, Injection, Surjection, IsInjective
<1>6. inOrder = [k \in 1..n |-> CHOOSE x \in S : Cardinality({y \in S : y <= x}) = k]
  BY DEF Ascending
<1> HIDE DEF n, inOrder
<1>7. ASSUME NEW k \in 1..n
      PROVE  inOrder[k] \in S /\ p[inOrder[k]] = k
  <2>1. PICK x \in S : p[x] = k
    BY <1>5
  <2>2. Cardinality({y \in S : y <= x}) = k
    BY <1>4, <2>1
  <2> DEFINE c == CHOOSE z \in S : Cardinality({y \in S : y <= z}) = k
  <2>3. c \in S /\ Cardinality({y \in S : y <= c}) = k
    BY <2>2
  <2> HIDE DEF c
  <2>4. p[c] = k
    BY <1>4, <2>3
  <2>5. inOrder[k] = c
    BY <1>6 DEF c
  <2> QED
    BY <2>3, <2>4, <2>5
<1>8. inOrder \in [1..n -> S]
  BY <1>6, <1>7
<1>9. \A i \in 1..n : \A j \in 1..n : inOrder[i] = inOrder[j] => i = j
  BY <1>7
<1>10. ASSUME NEW x \in S
       PROVE  \E k \in 1..n : inOrder[k] = x
  <2>1. p[x] \in 1..n
    BY <1>5
  <2>2. inOrder[p[x]] = x
    BY <1>5, <1>7, <2>1
  <2> QED
    BY <2>1, <2>2
<1>11. inOrder \in Bijection(1..n, S)
  BY <1>8, <1>9, <1>10 DEF Bijection, Injection, Surjection, IsInjective
<1>12. \A k \in 1..n : Cardinality({y \in S : y <= inOrder[k]}) = k
  BY <1>4, <1>7
<1> QED
  BY <1>1, <1>7, <1>10, <1>11, <1>12 DEF n, inOrder

LEMMA AscendingOrder ==
  ASSUME NEW S \in SUBSET Nat, IsFiniteSet(S)
  PROVE  /\ Cardinality(S) \in Nat
         /\ Ascending(S) \in Bijection(1..Cardinality(S), S)
  BY AscendingRank

-----------------------------------------------------------------------------
(* Tiles: parts that do not meet and are as many, taken together, as the whole. *)

Apart(P) == \A s \in DOMAIN P : \A t \in DOMAIN P : s # t => P[s] \cap P[t] = {}
Counts(P) == [t \in DOMAIN P |-> Cardinality(P[t])]
Pieces(P, C) == [t \in DOMAIN P |-> P[t] \cap C]

LEMMA TileCount ==
  ASSUME NEW T, IsFiniteSet(T), NEW V, IsFiniteSet(V), NEW P \in [T -> SUBSET V], Apart(P)
  PROVE  Counts(P) \in [T -> Nat] /\ Load(Counts(P)) = Cardinality(UNION Range(P))
<1> DEFINE c == Counts(P)
           U(R) == UNION {P[t] : t \in R}
           G == {R \in SUBSET T : Load(Restrict(c, R)) = Cardinality(U(R))}
<1>1. \A R \in SUBSET T : U(R) \in SUBSET V
  OBVIOUS
<1>2. \A R \in SUBSET T : IsFiniteSet(U(R))
  BY <1>1, FS_Subset
<1>3. ASSUME NEW t \in T PROVE IsFiniteSet(P[t]) /\ c[t] = Cardinality(P[t]) /\ c[t] \in Nat
  <2>1. IsFiniteSet(P[t])
    BY FS_Subset
  <2> QED
    BY <2>1, FS_CardinalityType DEF Counts
<1>4. c \in [T -> Nat]
  BY <1>3 DEF Counts
<1>5. U({}) = {}
  OBVIOUS
<1>6. ASSUME NEW R \in SUBSET T, NEW x \in T \ R
      PROVE  U(R \cup {x}) = U(R) \cup P[x] /\ U(R) \cap P[x] = {}
  BY DEF Apart
<1>7. \A R \in SUBSET T : R \in G <=> Load(Restrict(c, R)) = Cardinality(U(R))
  OBVIOUS
<1> HIDE DEF c, U, G
<1>8. {} \in G
  <2>1. Restrict(c, {}) \in [{} -> Nat]
    BY DEF Restrict
  <2> QED
    BY <1>5, <1>7, <2>1, LoadEmpty, FS_EmptySet
<1>9. ASSUME NEW R \in SUBSET T, NEW x \in T \ R, R \in G
      PROVE  R \cup {x} \in G
  <2>1. IsFiniteSet(R) /\ R \cup {x} \in SUBSET T
    BY FS_Subset
  <2> DEFINE d == Restrict(c, R \cup {x})
  <2>2. d \in [R \cup {x} -> Nat] /\ d[x] = c[x] /\ Restrict(d, R) = Restrict(c, R)
    BY <1>4 DEF Restrict
  <2> HIDE DEF d
  <2>3. Load(d) = d[x] + Load(Restrict(d, R)) /\ Load(Restrict(d, R)) \in Nat
    BY <2>1, <2>2, LoadJoined
  <2> DEFINE A == U(R)
             E == P[x]
  <2>4. IsFiniteSet(A) /\ IsFiniteSet(E) /\ A \cap E = {} /\ U(R \cup {x}) = A \cup E
    BY <1>2, <1>3, <1>6
  <2>5. Load(Restrict(c, R)) = Cardinality(A) /\ c[x] = Cardinality(E)
    BY <1>3, <1>7, <1>9
  <2> HIDE DEF A, E
  <2>6. Cardinality(A \cup E) = Cardinality(A) + Cardinality(E) - 0
    BY <2>4, FS_Union, FS_EmptySet
  <2>7. Cardinality(A) \in Nat /\ Cardinality(E) \in Nat
    BY <2>4, FS_CardinalityType
  <2>8. Load(d) = Cardinality(E) + Cardinality(A)
    BY <2>2, <2>3, <2>5
  <2>9. Cardinality(U(R \cup {x})) = Cardinality(A) + Cardinality(E) - 0
    BY <2>4, <2>6
  <2>10. Load(d) = Cardinality(U(R \cup {x}))
    BY <2>7, <2>8, <2>9
  <2> QED
    BY <1>7, <2>1, <2>10 DEF d
<1>10. T \in G
  BY <1>8, <1>9, SetInduction
<1>11. Restrict(c, T) = c
  BY <1>4 DEF Restrict
<1>12. U(T) = UNION Range(P)
  BY DEF U, Range
<1> QED
  BY <1>4, <1>7, <1>10, <1>11, <1>12 DEF c

(* Tiles cover the whole, and cut each part of it into pieces that make it up. *)
LEMMA Tiled ==
  ASSUME NEW T, IsFiniteSet(T), NEW V, IsFiniteSet(V), NEW P \in [T -> SUBSET V], Apart(P),
         Load(Counts(P)) = Cardinality(V), NEW C \in SUBSET V
  PROVE  Counts(Pieces(P, C)) \in [T -> Nat] /\ Load(Counts(Pieces(P, C))) = Cardinality(C)
<1> DEFINE Q == Pieces(P, C)
<1>1. UNION Range(P) \in SUBSET V
  BY DEF Range
<1>2. UNION Range(P) = V
  <2>1. Cardinality(UNION Range(P)) = Cardinality(V)
    BY TileCount
  <2> QED
    BY <1>1, <2>1, FS_Subset
<1>3. Q \in [T -> SUBSET V] /\ Apart(Q)
  BY DEF Pieces, Apart
<1>4. UNION Range(Q) = C
  BY <1>2 DEF Range, Pieces
<1> HIDE DEF Q
<1>5. Counts(Q) \in [T -> Nat] /\ Load(Counts(Q)) = Cardinality(UNION Range(Q))
  BY <1>3, TileCount
<1> QED
  BY <1>4, <1>5 DEF Q

-----------------------------------------------------------------------------
(* Sums along a sequence: of what w gives for each of its elements.  What types
   a name has is said by Rated and ListOf, which the provers do not look into. *)

ListOf(s, A) == s \in Seq(A)
Weights(w, s) == [i \in DOMAIN s |-> w[s[i]]]
SumOver(w, s) == Load(Weights(w, s))

LEMMA Listed ==
  ASSUME NEW A, NEW s, ListOf(s, A)
  PROVE  Len(s) \in Nat /\ DOMAIN s = 1..Len(s) /\ \A j \in 1..Len(s) : s[j] \in A
BY LenProperties, ElementOfSeq DEF ListOf

LEMMA Lists ==
  ASSUME NEW A, NEW n \in Nat, NEW s, DOMAIN s = 1..n, s = [j \in 1..n |-> s[j]],
         \A j \in 1..n : s[j] \in A
  PROVE  ListOf(s, A) /\ Len(s) = n
<1>1. s \in [1..n -> A]
  OBVIOUS
<1>2. s \in Seq(A)
  BY <1>1, IsASeq
<1> QED
  BY <1>1, <1>2, LenProperties DEF ListOf

LEMMA SameLists ==
  ASSUME NEW A, NEW s, ListOf(s, A), NEW t, ListOf(t, A), Len(s) = Len(t),
         \A j \in 1..Len(s) : s[j] = t[j]
  PROVE  s = t
BY SeqEqual DEF ListOf

LEMMA JoinedSeq ==
  ASSUME NEW A, NEW s, ListOf(s, A), NEW t, ListOf(t, A)
  PROVE  ListOf(s \o t, A) /\ Len(s \o t) = Len(s) + Len(t)
BY LenProperties, ConcatProperties DEF ListOf

LEMMA JoinedLeft ==
  ASSUME NEW A, NEW s, ListOf(s, A), NEW t, ListOf(t, A), NEW j \in 1..Len(s)
  PROVE  (s \o t)[j] = s[j]
<1>1. Len(s) \in Nat /\ Len(t) \in Nat
  BY Listed
<1>2. j \in 1..(Len(s) + Len(t)) /\ j <= Len(s)
  BY <1>1
<1> QED
  BY <1>2, ConcatProperties DEF ListOf

LEMMA JoinedRight ==
  ASSUME NEW A, NEW s, ListOf(s, A), NEW t, ListOf(t, A), NEW j \in 1..Len(t)
  PROVE  (s \o t)[Len(s) + j] = t[j]
<1>1. Len(s) \in Nat /\ Len(t) \in Nat
  BY Listed
<1> DEFINE k == Len(s) + j
<1>2. k \in 1..(Len(s) + Len(t)) /\ ~(k <= Len(s)) /\ k - Len(s) = j
  BY <1>1
<1> HIDE DEF k
<1>3. (s \o t)[k] = t[k - Len(s)]
  BY <1>2, ConcatProperties DEF ListOf
<1> QED
  BY <1>2, <1>3 DEF k

LEMMA SumIsNumber ==
  ASSUME NEW A, NEW w, Rated(w, A), NEW s, ListOf(s, A)
  PROVE  /\ Rated(Weights(w, s), 1..Len(s)) /\ SumOver(w, s) \in Nat
         /\ \A i \in 1..Len(s) : Weights(w, s)[i] = w[s[i]]
<1>1. Len(s) \in Nat /\ DOMAIN s = 1..Len(s) /\ \A j \in 1..Len(s) : s[j] \in A
  BY Listed
<1>2. /\ Weights(w, s) \in [1..Len(s) -> Nat]
      /\ \A i \in 1..Len(s) : Weights(w, s)[i] = w[s[i]]
  BY <1>1 DEF Weights, Rated
<1>3. Load(Weights(w, s)) \in Nat
  BY <1>1, <1>2, Numbered, LoadCounts
<1> QED
  BY <1>2, <1>3 DEF SumOver, Rated

LEMMA WeightAt ==
  ASSUME NEW A, NEW w, Rated(w, A), NEW s, ListOf(s, A), NEW i \in 1..Len(s)
  PROVE  Weights(w, s)[i] = w[s[i]]
BY SumIsNumber

(* A sum is the same when its summands are named otherwise. *)
Follows(g, f, q) == \A i \in DOMAIN g : g[i] = f[q[i]]

LEMMA LoadFollows ==
  ASSUME NEW I, IsFiniteSet(I), NEW T, NEW q, q \in Bijection(I, T),
         NEW f, Rated(f, T), NEW g, Rated(g, I), Follows(g, f, q)
  PROVE  Load(g) = Load(f)
<1>1. f \in [T -> Nat] /\ g \in [I -> Nat]
  BY DEF Rated
<1>2. \A i \in I : g[i] = f[q[i]]
  BY <1>1 DEF Follows
<1> QED
  BY ONLY <1>1, <1>2, IsFiniteSet(I), q \in Bijection(I, T), LoadRenamed, SMTT(60)

(* A sum over the numbers from 1 is that over the first n of them and the rest. *)
LEMMA LoadTail ==
  ASSUME NEW n \in Nat, NEW m \in Nat, NEW f \in [1..(n + m) -> Nat],
         NEW e \in [1..n -> Nat], NEW g \in [1..m -> Nat],
         \A i \in 1..n : f[i] = e[i], \A i \in 1..m : f[n + i] = g[i]
  PROVE  Load(f) = Load(e) + Load(g)
<1> DEFINE S == 1..(n + m)
           R == 1..n
           T == S \ R
           r == Restrict(f, T)
           q == [i \in 1..m |-> n + i]
<1>1. IsFiniteSet(S) /\ R \in SUBSET S /\ f \in [S -> Nat]
  BY Numbered
<1>2. e = Restrict(f, R)
  BY DEF Restrict
<1>3. \A i \in 1..m : q[i] = n + i /\ n + i \in T
  OBVIOUS
<1>4. q \in Bijection(1..m, T)
  <2>1. q \in [1..m -> T]
    BY <1>3
  <2>2. \A i \in 1..m : \A j \in 1..m : q[i] = q[j] => i = j
    BY <1>3
  <2>3. ASSUME NEW x \in T PROVE \E i \in 1..m : q[i] = x
    <3>1. x - n \in 1..m /\ n + (x - n) = x
      OBVIOUS
    <3> QED
      BY <1>3, <3>1
  <2> HIDE DEF q, T
  <2> QED
    BY <2>1, <2>2, <2>3 DEF Bijection, Injection, Surjection, IsInjective
<1>5. r \in [T -> Nat] /\ \A x \in T : r[x] = f[x]
  BY DEF Restrict
<1>6. \A i \in 1..m : g[i] = r[q[i]]
  BY <1>3, <1>5
<1>7. Load(f) = Load(Restrict(f, R)) + Load(r)
  <2> HIDE DEF S, R
  <2> QED
    BY <1>1, LoadSplit
<1>8. IsFiniteSet(1..m)
  BY Numbered
<1> HIDE DEF S, R, T, q, r
<1>9. Load(g) = Load(r)
  <2>1. Rated(r, T) /\ Rated(g, 1..m)
    BY <1>5 DEF Rated
  <2>2. Follows(g, r, q)
    BY <1>6 DEF Follows
  <2> QED
    BY <1>4, <1>8, <2>1, <2>2, LoadFollows
<1> QED
  BY <1>2, <1>7, <1>9

LEMMA SumConcat ==
  ASSUME NEW A, NEW w, Rated(w, A), NEW s, ListOf(s, A), NEW t, ListOf(t, A)
  PROVE  SumOver(w, s \o t) = SumOver(w, s) + SumOver(w, t)
<1> DEFINE n == Len(s)
           m == Len(t)
           c == s \o t
           f == Weights(w, c)
           e == Weights(w, s)
           g == Weights(w, t)
<1>1. n \in Nat /\ m \in Nat
  BY Listed
<1>2. ListOf(c, A) /\ Len(c) = n + m
  BY JoinedSeq
<1>3. \A i \in 1..n : c[i] = s[i]
  BY JoinedLeft
<1>4. \A i \in 1..m : c[n + i] = t[i]
  BY JoinedRight
<1> HIDE DEF c
<1>5. Rated(f, 1..(n + m)) /\ Rated(e, 1..n) /\ Rated(g, 1..m)
  BY <1>2, SumIsNumber
<1>6. \A i \in 1..Len(c) : f[i] = w[c[i]]
  BY <1>2, WeightAt
<1>7. \A i \in 1..n : e[i] = w[s[i]]
  BY WeightAt
<1>8. \A i \in 1..m : g[i] = w[t[i]]
  BY WeightAt
<1> HIDE DEF f, e, g, n, m
<1>9. ASSUME NEW i \in 1..n PROVE f[i] = e[i]
  <2>1. i \in 1..(n + m)
    BY <1>1
  <2> QED
    BY <1>2, <1>3, <1>6, <1>7, <2>1
<1>10. ASSUME NEW i \in 1..m PROVE f[n + i] = g[i]
  <2>1. n + i \in 1..(n + m)
    BY <1>1
  <2> QED
    BY <1>2, <1>4, <1>6, <1>8, <2>1
<1>11. Load(f) = Load(e) + Load(g)
  BY <1>1, <1>5, <1>9, <1>10, LoadTail DEF Rated
<1> QED
  BY <1>11 DEF SumOver, f, e, g, c

LEMMA SumOne ==
  ASSUME NEW A, NEW w, Rated(w, A), NEW x \in A
  PROVE  ListOf(<<x>>, A) /\ Len(<<x>>) = 1 /\ <<x>>[1] = x /\ SumOver(w, <<x>>) = w[x]
<1> DEFINE s == <<x>>
           f == Weights(w, s)
           S == 1..1
<1>1. ListOf(s, A) /\ Len(s) = 1 /\ s[1] = x
  BY DEF ListOf
<1> HIDE DEF s
<1>2. f \in [S -> Nat] /\ f[1] = w[x] /\ 1 \in S /\ S \ {1} = {}
  <2>1. f \in [1..Len(s) -> Nat] /\ \A i \in 1..Len(s) : f[i] = w[s[i]]
    <3> HIDE DEF f
    <3>1. f = Weights(w, s)
      BY DEF f
    <3>2. /\ Rated(Weights(w, s), 1..Len(s))
          /\ \A i \in 1..Len(s) : Weights(w, s)[i] = w[s[i]]
      BY ONLY Rated(w, A), <1>1, SumIsNumber
    <3> QED
      BY <3>1, <3>2 DEF Rated
  <2>2. 1 \in S /\ S \ {1} = {}
    OBVIOUS
  <2> HIDE DEF f
  <2> QED
    BY <1>1, <2>1, <2>2
<1>3. IsFiniteSet(S)
  BY Numbered
<1> HIDE DEF f, S
<1>4. Load(f) = f[1]
  BY <1>2, <1>3, LoadSingle
<1> QED
  BY <1>1, <1>2, <1>4 DEF SumOver, s, f

LEMMA SumNone ==
  ASSUME NEW A, NEW w, Rated(w, A)
  PROVE  ListOf(<<>>, A) /\ Len(<<>>) = 0 /\ SumOver(w, <<>>) = 0
<1> DEFINE s == <<>>
<1>1. ListOf(s, A) /\ Len(s) = 0
  BY DEF ListOf
<1> HIDE DEF s
<1>2. Weights(w, s) \in [1..0 -> Nat]
  <2>1. Rated(Weights(w, s), 1..Len(s))
    BY <1>1, SumIsNumber
  <2> QED
    BY <1>1, <2>1 DEF Rated
<1>3. 1..0 = {}
  OBVIOUS
<1>4. Load(Weights(w, s)) = 0
  BY <1>2, <1>3, LoadEmpty
<1> QED
  BY <1>1, <1>4 DEF SumOver, s

(* Cutting a list in two; taking an element out; putting another in its place. *)
LEMMA CutList ==
  ASSUME NEW A, NEW s, ListOf(s, A), NEW i \in 0..Len(s), NEW k \in i..Len(s)
  PROVE  /\ ListOf(SubSeq(s, i + 1, k), A) /\ Len(SubSeq(s, i + 1, k)) = k - i
         /\ \A j \in 1..(k - i) : SubSeq(s, i + 1, k)[j] = s[i + j]
<1> DEFINE n == Len(s)
           b == SubSeq(s, i + 1, k)
<1>1. n \in Nat /\ \A j \in 1..n : s[j] \in A
  BY Listed
<1>2. \A j \in (i + 1)..k : s[j] \in A
  BY <1>1
<1>3. /\ b \in Seq(A) /\ Len(b) = IF i + 1 <= k THEN k - (i + 1) + 1 ELSE 0
      /\ \A j \in 1..(k - (i + 1) + 1) : b[j] = s[(i + 1) + j - 1]
  BY <1>1, <1>2, SubSeqProperties DEF ListOf
<1>4. \A j \in 1..(k - i) : j \in 1..(k - (i + 1) + 1) /\ (i + 1) + j - 1 = i + j
  BY <1>1
<1> HIDE DEF b
<1>5. Len(b) = k - i
  BY <1>1, <1>3
<1>6. \A j \in 1..(k - i) : b[j] = s[i + j]
  BY <1>3, <1>4
<1> QED
  BY <1>3, <1>5, <1>6 DEF ListOf, b

LEMMA SumRemoved ==
  ASSUME NEW A, NEW w, Rated(w, A), NEW s, ListOf(s, A), NEW i \in 1..Len(s)
  PROVE  /\ ListOf(RemoveAt(s, i), A) /\ Len(RemoveAt(s, i)) = Len(s) - 1
         /\ SumOver(w, s) = w[s[i]] + SumOver(w, RemoveAt(s, i))
<1> DEFINE n == Len(s)
           x == s[i]
           a == SubSeq(s, 1, i - 1)
           b == SubSeq(s, i + 1, n)
           c == SubSeq(s, 1, i)
           one == <<x>>
<1>1. n \in Nat /\ i \in 1..n /\ x \in A
  BY Listed
<1>2. ListOf(a, A) /\ Len(a) = i - 1 /\ \A j \in 1..(i - 1) : a[j] = s[j]
  <2> DEFINE z == 0
             y == i - 1
  <2>1. z \in 0..Len(s) /\ y \in z..Len(s) /\ z + 1 = 1 /\ y - z = i - 1
    BY <1>1
  <2> HIDE DEF y, z
  <2>2. /\ ListOf(SubSeq(s, z + 1, y), A) /\ Len(SubSeq(s, z + 1, y)) = y - z
        /\ \A j \in 1..(y - z) : SubSeq(s, z + 1, y)[j] = s[z + j]
    BY <2>1, CutList
  <2>3. \A j \in 1..(i - 1) : z + j = j
    BY DEF z
  <2> QED
    BY <2>1, <2>2, <2>3 DEF y
<1>3. ListOf(b, A) /\ Len(b) = n - i /\ \A j \in 1..(n - i) : b[j] = s[i + j]
  <2>1. i \in 0..Len(s) /\ n \in i..Len(s)
    BY <1>1
  <2> QED
    BY <2>1, CutList
<1>4. ListOf(one, A) /\ Len(one) = 1 /\ one[1] = x /\ SumOver(w, one) = w[x]
  BY <1>1, SumOne
<1>5. RemoveAt(s, i) = a \o b
  BY DEF RemoveAt
<1> HIDE DEF a, b, one
<1>6. ListOf(a \o b, A) /\ Len(a \o b) = n - 1
  <2>1. ListOf(a, A) /\ ListOf(b, A)
    BY <1>2, <1>3
  <2>2. ListOf(a \o b, A) /\ Len(a \o b) = Len(a) + Len(b)
    BY ONLY <2>1, JoinedSeq
  <2> QED
    BY <1>1, <1>2, <1>3, <2>2
<1> DEFINE d == a \o one
<1>7. ListOf(d, A) /\ Len(d) = i
  <2>1. ListOf(a, A) /\ ListOf(one, A)
    BY <1>2, <1>4
  <2>2. ListOf(d, A) /\ Len(d) = Len(a) + Len(one)
    BY ONLY <2>1, JoinedSeq
  <2> QED
    BY <1>1, <1>2, <1>4, <2>2
<1>8. \A j \in 1..i : d[j] = s[j]
  <2>1. ASSUME NEW j \in 1..(i - 1) PROVE d[j] = s[j]
    BY <1>2, <1>4, JoinedLeft
  <2>2. d[Len(a) + 1] = one[1]
    <3>1. 1 \in 1..Len(one)
      BY <1>4
    <3> QED
      BY <1>2, <1>4, <3>1, JoinedRight
  <2>3. Len(a) + 1 = i
    BY <1>1, <1>2
  <2>4. \A j \in 1..i : j = i \/ j \in 1..(i - 1)
    BY <1>1
  <2> HIDE DEF d
  <2> QED
    BY <1>4, <2>1, <2>2, <2>3, <2>4
<1>9. SumOver(w, d) = SumOver(w, a) + w[x]
  BY <1>2, <1>4, SumConcat
<1> HIDE DEF d
<1>10. s = d \o b
  <2> DEFINE e == d \o b
  <2>1. ListOf(e, A) /\ Len(e) = n
    <3>1. ListOf(d, A) /\ ListOf(b, A)
      BY <1>3, <1>7
    <3>2. ListOf(e, A) /\ Len(e) = Len(d) + Len(b)
      BY ONLY <3>1, JoinedSeq
    <3> QED
      BY <1>1, <1>3, <1>7, <3>2
  <2>2. ASSUME NEW j \in 1..i PROVE e[j] = s[j]
    BY <1>3, <1>7, <1>8, JoinedLeft
  <2>3. ASSUME NEW j \in 1..(n - i) PROVE e[i + j] = s[i + j]
    BY <1>3, <1>7, JoinedRight
  <2> HIDE DEF e
  <2>4. ASSUME NEW j \in 1..n PROVE s[j] = e[j]
    <3>1. CASE j <= i
      BY <1>1, <2>2, <3>1
    <3>2. CASE ~(j <= i)
      <4> DEFINE k == j - i
      <4>1. k \in 1..(n - i) /\ i + k = j
        BY <1>1, <3>2
      <4> HIDE DEF k
      <4> QED
        BY <2>3, <4>1
    <3> QED
      BY <3>1, <3>2
  <2>5. s = e
    BY <2>1, <2>4, SameLists
  <2> QED
    BY <2>5 DEF e
<1>11. SumOver(w, s) = (SumOver(w, a) + w[x]) + SumOver(w, b)
  BY <1>3, <1>7, <1>9, <1>10, SumConcat
<1>12. SumOver(w, a \o b) = SumOver(w, a) + SumOver(w, b)
  BY <1>2, <1>3, SumConcat
<1>13. SumOver(w, a) \in Nat /\ SumOver(w, b) \in Nat /\ w[x] \in Nat
  BY <1>1, <1>2, <1>3, SumIsNumber DEF Rated
<1>14. SumOver(w, s) = w[x] + SumOver(w, a \o b)
  BY <1>11, <1>12, <1>13
<1> QED
  BY <1>5, <1>6, <1>14

LEMMA SumReplaced ==
  ASSUME NEW A, NEW w, Rated(w, A), NEW s, ListOf(s, A), NEW i \in 1..Len(s), NEW y \in A
  PROVE  /\ ListOf([s EXCEPT ![i] = y], A) /\ Len([s EXCEPT ![i] = y]) = Len(s)
         /\ SumOver(w, [s EXCEPT ![i] = y]) + w[s[i]] = SumOver(w, s) + w[y]
<1> DEFINE n == Len(s)
           t == [s EXCEPT ![i] = y]
           f == Weights(w, s)
           g == Weights(w, t)
           S == 1..n
<1>1. n \in Nat /\ DOMAIN s = 1..n /\ \A j \in 1..n : s[j] \in A
  BY Listed
<1>2. t[i] = y /\ \A j \in S \ {i} : t[j] = s[j]
  BY <1>1
<1>3. ListOf(t, A) /\ Len(t) = n
  <2>1. DOMAIN t = 1..n /\ t = [j \in 1..n |-> t[j]]
    BY <1>1
  <2>2. \A j \in 1..n : t[j] \in A
    BY <1>1, <1>2
  <2> HIDE DEF t, n
  <2> QED
    BY <1>1, <2>1, <2>2, Lists
<1> HIDE DEF t
<1>4. Rated(f, S) /\ Rated(g, S)
  BY <1>3, SumIsNumber
<1>5. /\ \A j \in 1..Len(s) : f[j] = w[s[j]]
      /\ \A j \in 1..Len(t) : g[j] = w[t[j]]
  BY <1>3, WeightAt
<1>6. i \in S /\ \A j \in S \ {i} : g[j] = f[j]
  BY <1>2, <1>3, <1>5
<1>7. f[i] = w[s[i]] /\ g[i] = w[y]
  BY <1>2, <1>3, <1>5
<1>8. IsFiniteSet(S)
  BY <1>1, Numbered
<1>9. f \in [S -> Nat] /\ g \in [S -> Nat]
  BY <1>4 DEF Rated
<1> HIDE DEF f, g, S, n
<1>10. Load(g) + f[i] = Load(f) + g[i]
  BY <1>6, <1>8, <1>9, LoadChanged
<1> QED
  BY <1>3, <1>7, <1>10 DEF SumOver, f, g, t, n

(* Joining the lists of a list of lists, one after the other. *)
Flattens(f, ss, m) ==
  /\ DOMAIN f = 1..m /\ f = [i \in 1..m |-> f[i]]
  /\ \A i \in 1..m : f[i] = IF i = 1 THEN ss[i] ELSE f[i - 1] \o ss[i]

LEMMA FlattenExists ==
  ASSUME NEW n \in Nat, NEW ss
  PROVE  \E f : Flattens(f, ss, n)
<1> DEFINE G == {m \in 0..n : \E f : Flattens(f, ss, m)}
<1>1. 0 \in G
  <2>1. Flattens([i \in 1..0 |-> i], ss, 0)
    BY DEF Flattens
  <2> QED
    BY <2>1
<1>2. ASSUME NEW m \in 0..(n - 1), m \in G
      PROVE  m + 1 \in G
  <2>1. PICK f : Flattens(f, ss, m)
    BY <1>2
  <2> DEFINE x == IF m + 1 = 1 THEN ss[m + 1] ELSE f[m] \o ss[m + 1]
             g == [i \in 1..(m + 1) |-> IF i = m + 1 THEN x ELSE f[i]]
  <2> HIDE DEF x
  <2>2. g[m + 1] = x /\ \A i \in 1..m : g[i] = f[i]
    OBVIOUS
  <2>3. DOMAIN g = 1..(m + 1) /\ g = [i \in 1..(m + 1) |-> g[i]]
    OBVIOUS
  <2> HIDE DEF g
  <2>4. ASSUME NEW i \in 1..(m + 1)
        PROVE  g[i] = IF i = 1 THEN ss[i] ELSE g[i - 1] \o ss[i]
    <3>1. CASE i = m + 1
      <4>1. CASE m = 0
        BY <2>2, <3>1, <4>1 DEF x
      <4>2. CASE m # 0
        <5>1. m \in 1..m /\ i - 1 = m /\ m + 1 # 1
          BY <3>1, <4>2
        <5>2. g[i - 1] = f[m]
          BY <2>2, <5>1
        <5>3. g[i] = f[m] \o ss[m + 1]
          BY <2>2, <3>1, <5>1 DEF x
        <5> QED
          BY <3>1, <5>1, <5>2, <5>3
      <4> QED
        BY <4>1, <4>2
    <3>2. CASE i # m + 1
      <4>1. i \in 1..m /\ (i # 1 => i - 1 \in 1..m)
        BY <3>2
      <4>2. f[i] = IF i = 1 THEN ss[i] ELSE f[i - 1] \o ss[i]
        BY <2>1, <4>1 DEF Flattens
      <4>3. g[i] = f[i] /\ (i # 1 => g[i - 1] = f[i - 1])
        BY <2>2, <4>1
      <4> QED
        BY <4>2, <4>3
    <3> QED
      BY <3>1, <3>2
  <2>5. Flattens(g, ss, m + 1)
    BY <2>3, <2>4 DEF Flattens
  <2> QED
    BY <2>5
<1>3. \A i \in 0..n : i \in G
  <2> HIDE DEF G
  <2> QED
    BY <1>1, <1>2, CountUp
<1>4. n \in G
  BY <1>3
<1> QED
  BY <1>4

LEMMA FlattenLast ==
  ASSUME NEW A, NEW ss, ListOf(ss, A), Len(ss) > 0
  PROVE  \E f : Flattens(f, ss, Len(ss)) /\ FlattenSeq(ss) = f[Len(ss)]
<1> DEFINE n == Len(ss)
           flat == CHOOSE f : f = [i \in 1..n |-> IF i = 1 THEN ss[i] ELSE f[i - 1] \o ss[i]]
<1>1. n \in Nat
  BY Listed
<1>2. PICK f : Flattens(f, ss, n)
  BY <1>1, FlattenExists
<1>3. f = [i \in 1..n |-> IF i = 1 THEN ss[i] ELSE f[i - 1] \o ss[i]]
  BY <1>2 DEF Flattens
<1>4. flat = [i \in 1..n |-> IF i = 1 THEN ss[i] ELSE flat[i - 1] \o ss[i]]
  <2> HIDE DEF n
  <2> QED
    BY <1>3
<1>5. FlattenSeq(ss) = flat[n]
  BY DEF FlattenSeq
<1> HIDE DEF flat
<1>6. Flattens(flat, ss, n)
  <2>1. DOMAIN flat = 1..n /\ flat = [i \in 1..n |-> flat[i]]
    BY <1>4
  <2>2. \A i \in 1..n : flat[i] = IF i = 1 THEN ss[i] ELSE flat[i - 1] \o ss[i]
    BY <1>4
  <2> QED
    BY <2>1, <2>2 DEF Flattens
<1> QED
  BY <1>5, <1>6

LEMMA LoadUpTo ==
  ASSUME NEW n \in Nat, NEW f, Rated(f, 1..n), NEW i \in 1..n
  PROVE  /\ Load(Restrict(f, 1..i)) = Load(Restrict(f, 1..(i - 1))) + f[i]
         /\ Load(Restrict(f, 1..(i - 1))) \in Nat /\ f[i] \in Nat
<1> DEFINE R == 1..(i - 1)
           d == Restrict(f, 1..i)
<1>1. IsFiniteSet(R) /\ i \notin R /\ 1..i = R \cup {i}
  BY Numbered
<1>2. d \in [R \cup {i} -> Nat] /\ d[i] = f[i] /\ Restrict(d, R) = Restrict(f, R) /\ f[i] \in Nat
  BY <1>1 DEF Restrict, Rated
<1> HIDE DEF d, R
<1>3. Load(d) = d[i] + Load(Restrict(d, R)) /\ Load(Restrict(d, R)) \in Nat
  BY <1>1, <1>2, LoadJoined
<1> QED
  BY <1>2, <1>3 DEF d, R

RowSums(w, ss) == [i \in DOMAIN ss |-> SumOver(w, ss[i])]
ListsOf(ss, A) == \A i \in DOMAIN ss : ListOf(ss[i], A)

LEMMA RowSum ==
  ASSUME NEW A, NEW w, Rated(w, A), NEW B, NEW ss, ListOf(ss, B), ListsOf(ss, A)
  PROVE  /\ Rated(RowSums(w, ss), 1..Len(ss))
         /\ \A i \in 1..Len(ss) : RowSums(w, ss)[i] = SumOver(w, ss[i]) /\ ListOf(ss[i], A)
<1>1. DOMAIN ss = 1..Len(ss)
  BY Listed
<1>2. \A i \in 1..Len(ss) : ListOf(ss[i], A)
  BY <1>1 DEF ListsOf
<1>3. \A i \in 1..Len(ss) : SumOver(w, ss[i]) \in Nat
  BY <1>2, SumIsNumber
<1> QED
  BY <1>1, <1>2, <1>3 DEF RowSums, Rated

LEMMA Flattened ==
  ASSUME NEW A, NEW w, Rated(w, A), NEW B, NEW ss, ListOf(ss, B), ListsOf(ss, A)
  PROVE  ListOf(FlattenSeq(ss), A) /\ SumOver(w, FlattenSeq(ss)) = Load(RowSums(w, ss))
<1> DEFINE n == Len(ss)
           row == RowSums(w, ss)
<1>1. n \in Nat /\ DOMAIN ss = 1..n
  BY Listed
<1>2. Rated(row, 1..n) /\ \A i \in 1..n : row[i] = SumOver(w, ss[i]) /\ ListOf(ss[i], A)
  BY RowSum
<1> HIDE DEF row
<1>3. CASE n = 0
  <2>1. FlattenSeq(ss) = ss
    BY <1>3 DEF FlattenSeq
  <2>2. ss = <<>>
    BY <1>3, EmptySeq DEF ListOf
  <2>3. row \in [{} -> Nat]
    <3>1. 1..0 = {}
      OBVIOUS
    <3> QED
      BY <1>2, <1>3, <3>1 DEF Rated
  <2>4. Load(row) = 0
    BY <2>3, LoadEmpty
  <2>5. ListOf(<<>>, A) /\ SumOver(w, <<>>) = 0
    BY SumNone
  <2> QED
    BY <2>1, <2>2, <2>4, <2>5 DEF row
<1>4. CASE n > 0
  <2>1. PICK f : Flattens(f, ss, n) /\ FlattenSeq(ss) = f[n]
    BY <1>4, FlattenLast
  <2> HIDE DEF n
  <2>2. \A i \in 1..n : f[i] = IF i = 1 THEN ss[i] ELSE f[i - 1] \o ss[i]
    BY <2>1 DEF Flattens
  <2> DEFINE upTo(i) == Load(Restrict(row, 1..i))
             Good(i) == ListOf(f[i], A) /\ SumOver(w, f[i]) = upTo(i)
             G == {i \in 0..n : i = 0 \/ Good(i)}
  <2>3. 0 \in G
    BY <1>1
  <2>4. ASSUME NEW m \in 0..(n - 1), m \in G
        PROVE  m + 1 \in G
    <3> DEFINE i == m + 1
    <3>1. i \in 1..n /\ i - 1 = m /\ i \in 0..n
      BY <1>1
    <3> HIDE DEF i
    <3>2. upTo(i) = upTo(m) + row[i] /\ upTo(m) \in Nat /\ row[i] \in Nat
      BY <1>1, <1>2, <3>1, LoadUpTo
    <3>3. row[i] = SumOver(w, ss[i]) /\ ListOf(ss[i], A)
      BY <1>2, <3>1
    <3>4. CASE m = 0
      <4>1. f[i] = ss[i]
        BY <2>2, <3>1, <3>4
      <4>2. upTo(m) = 0
        <5>1. 1..m = {}
          BY <3>4
        <5>2. Restrict(row, {}) \in [{} -> Nat]
          BY DEF Restrict
        <5>3. Load(Restrict(row, {})) = 0
          BY <5>2, LoadEmpty
        <5> QED
          BY <5>1, <5>3
      <4>3. Good(i)
        <5> HIDE DEF upTo
        <5> QED
          BY <3>2, <3>3, <4>1, <4>2
      <4> QED
        BY <3>1, <4>3 DEF i
    <3>5. CASE m # 0
      <4>1. f[i] = f[m] \o ss[i]
        <5>1. i # 1
          BY <3>1, <3>5
        <5>2. f[i] = f[i - 1] \o ss[i]
          BY <2>2, <3>1, <5>1
        <5> QED
          BY <3>1, <5>2
      <4>2. Good(m)
        BY <2>4, <3>5
      <4>3. ListOf(f[m], A) /\ SumOver(w, f[m]) = upTo(m)
        BY <4>2
      <4>4. ListOf(f[m] \o ss[i], A) /\ SumOver(w, f[m] \o ss[i]) = SumOver(w, f[m]) + SumOver(w, ss[i])
        BY <3>3, <4>3, JoinedSeq, SumConcat
      <4>5. Good(i)
        <5> HIDE DEF upTo
        <5> QED
          BY <3>2, <3>3, <4>1, <4>3, <4>4
      <4> QED
        BY <3>1, <4>5 DEF i
    <3> QED
      BY <3>4, <3>5
  <2>5. \A i \in 0..n : i \in G
    <3> HIDE DEF G
    <3> QED
      BY <1>1, <2>3, <2>4, CountUp
  <2>6. n \in 0..n /\ n # 0
    BY <1>1, <1>4
  <2>7. Good(n)
    BY <2>5, <2>6
  <2>8. Restrict(row, 1..n) = row
    BY <1>2 DEF Restrict, Rated
  <2> QED
    BY <2>1, <2>7, <2>8 DEF row
<1> QED
  BY <1>1, <1>3, <1>4

LEMMA FlattenedList ==
  ASSUME NEW A, NEW B, NEW ss, ListOf(ss, B), ListsOf(ss, A)
  PROVE  ListOf(FlattenSeq(ss), A)
<1>1. Rated([a \in A |-> 0], A)
  BY DEF Rated
<1> QED
  BY <1>1, Flattened

(* What _balanced_partition_sizes deals: as many as there are, no group empty or
   over the maximum, and when the deal is exact no group under the minimum. *)
DealsOut(sizes, k, n, most) ==
  Rated(sizes, 1..k) /\ Load(sizes) = n /\ \A i \in 1..k : sizes[i] \in 1..most

LEMMA SizesDeal ==
  ASSUME NEW n \in Nat, NEW least \in Nat \ {0}, NEW most \in Nat, least <= most
  PROVE  /\ Groups(n, most) \in Nat /\ DealsOut(Sizes(n, least, most), Groups(n, most), n, most)
         /\ \A m \in Nat : n <= m * most => Groups(n, most) <= m
         /\ Exact(n, least, most) => \A i \in 1..Groups(n, most) : Sizes(n, least, most)[i] >= least
<1> DEFINE k == Groups(n, most)
           f == Sizes(n, least, most)
<1>0. most \in Nat \ {0}
  OBVIOUS
<1>1. CASE n = 0
  <2>1. k = 0
    <3>1. /\ (most - 1) \div most \in Nat /\ (most - 1) % most \in 0..(most - 1)
          /\ most - 1 = most * ((most - 1) \div most) + ((most - 1) % most)
      <4>1. most - 1 \in Nat
        BY <1>0
      <4> QED
        BY <1>0, <4>1, Division
    <3>2. (most - 1) \div most = 0
      BY <1>0, <3>1, Z3
    <3>3. n + most - 1 = most - 1
      BY <1>1
    <3> QED
      BY <3>2, <3>3 DEF Groups
  <2>2. DOMAIN f = 1..k
    BY DEF Sizes
  <2>3. f = [i \in 1..k |-> f[i]]
    BY DEF Sizes
  <2> HIDE DEF k, f
  <2>4. 1..k = {}
    BY <2>1
  <2>5. f \in [{} -> Nat]
    BY <2>3, <2>4
  <2>6. Load(f) = 0
    BY <2>5, LoadEmpty
  <2>7. DealsOut(f, k, n, most)
    BY <1>1, <2>4, <2>5, <2>6 DEF DealsOut, Rated
  <2> QED
    BY <2>1, <2>4, <2>7 DEF k, f
<1>2. CASE n # 0 /\ Exact(n, least, most)
  <2>1. k \in Nat \ {0} /\ n <= k * most /\ \A m \in Nat : n <= m * most => k <= m
    BY <1>0, <1>2, GroupsHold
  <2>2. k * least <= n
    BY <1>2 DEF Exact
  <2>3. f = Even(n, k)
    BY <1>2 DEF Sizes, Even
  <2> HIDE DEF k, f
  <2>4. f \in [1..k -> least..most]
    BY <2>1, <2>2, <2>3, EvenDeal
  <2>5. Load(f) = n
    BY <2>1, <2>3, EvenSum
  <2>6. f \in [1..k -> Nat] /\ \A i \in 1..k : f[i] \in 1..most /\ f[i] >= least
    BY <2>4
  <2>7. DealsOut(f, k, n, most)
    BY <2>5, <2>6 DEF DealsOut, Rated
  <2> QED
    BY <2>1, <2>6, <2>7 DEF k, f
<1>3. CASE n # 0 /\ ~Exact(n, least, most)
  <2>1. k \in Nat \ {0} /\ \A m \in Nat : n <= m * most => k <= m
    BY <1>0, <1>3, GroupsHold
  <2>2. f \in [1..k -> 1..most] /\ n - most * (k - 1) \in Nat
    BY <1>0, <1>3, TailDeal
  <2>3. Load(f) = n
    BY <1>0, <1>3, <2>1, <2>2, TailSum
  <2> HIDE DEF k, f
  <2>4. f \in [1..k -> Nat] /\ \A i \in 1..k : f[i] \in 1..most
    BY <2>2
  <2>5. DealsOut(f, k, n, most)
    BY <2>3, <2>4 DEF DealsOut, Rated
  <2> QED
    BY <1>3, <2>1, <2>5 DEF k, f
<1> QED
  BY <1>1, <1>2, <1>3

-----------------------------------------------------------------------------
(* Slices: homes and pieces are tiles of the demand, each a stretch of numbers,
   and a piece has of a home what the two stretches share. *)

LEMMA Stretch ==
  ASSUME NEW a \in Nat, NEW b \in Nat
  PROVE  /\ IsFiniteSet((a + 1)..b)
         /\ Cardinality((a + 1)..b) = IF a <= b THEN b - a ELSE 0
<1>1. a + 1 \in Int /\ b \in Int
  OBVIOUS
<1>2. /\ IsFiniteSet((a + 1)..b)
      /\ Cardinality((a + 1)..b) = IF a + 1 > b THEN 0 ELSE b - (a + 1) + 1
  BY <1>1, FS_Interval
<1> QED
  BY <1>2

LEMMA SharedStretch ==
  ASSUME NEW a \in Nat, NEW b \in Nat, NEW c \in Nat, NEW d \in Nat
  PROVE  /\ Cardinality(((a + 1)..b) \cap ((c + 1)..d)) = Larger(0, Smaller(b, d) - Larger(a, c))
         /\ Larger(0, Smaller(b, d) - Larger(a, c)) \in Nat
<1> DEFINE l == Larger(a, c)
           r == Smaller(b, d)
<1>1. l \in Nat /\ r \in Nat
  BY DEF Larger, Smaller
<1>2. ((a + 1)..b) \cap ((c + 1)..d) = (l + 1)..r
  BY DEF Larger, Smaller
<1>3. Cardinality((l + 1)..r) = Larger(0, r - l) /\ Larger(0, r - l) \in Nat
  <2> HIDE DEF l, r
  <2>1. Cardinality((l + 1)..r) = IF l <= r THEN r - l ELSE 0
    BY <1>1, Stretch
  <2>2. Larger(0, r - l) = IF l <= r THEN r - l ELSE 0
    BY <1>1 DEF Larger
  <2> QED
    BY <1>1, <2>1, <2>2
<1> QED
  BY <1>2, <1>3, Zenon

(* Things in a row: where each of them begins and ends. *)
Ranked(rank, S) ==
  /\ \A x \in S : rank[x] \in Nat
  /\ \A x, y \in S : rank[x] = rank[y] => x = y

From(f, rank, x) == Load([y \in {y \in DOMAIN f : rank[y] < rank[x]} |-> f[y]])
Row(f, rank) == [x \in DOMAIN f |-> (From(f, rank, x) + 1)..(From(f, rank, x) + f[x])]

LEMMA RowTiles ==
  ASSUME NEW S, IsFiniteSet(S), NEW f, Rated(f, S), NEW rank, Ranked(rank, S)
  PROVE  /\ \A x \in S : /\ From(f, rank, x) \in Nat /\ f[x] \in Nat
                         /\ From(f, rank, x) + f[x] <= Load(f)
         /\ Row(f, rank) \in [S -> SUBSET (1..Load(f))] /\ Apart(Row(f, rank))
         /\ Counts(Row(f, rank)) = f
<1> DEFINE ahead(x) == {y \in S : rank[y] < rank[x]}
           from(x) == From(f, rank, x)
           row == Row(f, rank)
<1>1. f \in [S -> Nat] /\ DOMAIN f = S
  BY DEF Rated
<1>2. ASSUME NEW x \in S
      PROVE  /\ from(x) = Load(Restrict(f, ahead(x))) /\ ahead(x) \in SUBSET S
             /\ IsFiniteSet(ahead(x)) /\ x \notin ahead(x)
  <2>1. from(x) = Load(Restrict(f, ahead(x)))
    BY <1>1 DEF From, Restrict
  <2>2. ahead(x) \in SUBSET S
    OBVIOUS
  <2>3. x \notin ahead(x)
    BY DEF Ranked
  <2> HIDE DEF ahead
  <2> QED
    BY <2>1, <2>2, <2>3, FS_Subset
<1>3. ASSUME NEW x \in S, NEW T \in SUBSET S, ahead(x) \cup {x} \in SUBSET T
      PROVE  /\ from(x) \in Nat /\ f[x] \in Nat /\ Load(Restrict(f, T)) \in Nat
             /\ from(x) + f[x] <= Load(Restrict(f, T))
  <2> DEFINE R == ahead(x)
             U == R \cup {x}
             d == Restrict(f, U)
             e == Restrict(f, T)
  <2>1. R \in SUBSET S /\ x \notin R /\ IsFiniteSet(R) /\ from(x) = Load(Restrict(f, R))
    BY <1>2
  <2> HIDE DEF R
  <2>2. U \in SUBSET S /\ IsFiniteSet(T) /\ U \in SUBSET T
    BY <1>3, <2>1, FS_Subset DEF R
  <2>3. d \in [R \cup {x} -> Nat] /\ d[x] = f[x] /\ Restrict(d, R) = Restrict(f, R)
    BY <1>1, <2>2 DEF Restrict
  <2>4. e \in [T -> Nat] /\ Restrict(e, U) = d
    BY <1>1, <2>2 DEF Restrict
  <2> HIDE DEF d, e
  <2>5. Load(d) = d[x] + Load(Restrict(d, R)) /\ Load(Restrict(d, R)) \in Nat
    BY <2>1, <2>3, LoadJoined
  <2>6. Load(Restrict(e, U)) \in Nat /\ Load(e) \in Nat /\ Load(Restrict(e, U)) <= Load(e)
    BY <2>2, <2>4, LoadLess
  <2>7. f[x] \in Nat
    BY <1>1
  <2> QED
    BY <2>1, <2>3, <2>4, <2>5, <2>6, <2>7 DEF e
<1>4. ASSUME NEW x \in S
      PROVE  from(x) \in Nat /\ f[x] \in Nat /\ Load(f) \in Nat /\ from(x) + f[x] <= Load(f)
  <2>1. Restrict(f, S) = f
    BY <1>1 DEF Restrict
  <2>2. S \in SUBSET S /\ ahead(x) \cup {x} \in SUBSET S
    BY <1>2
  <2> HIDE DEF ahead, from
  <2> QED
    BY <1>3, <2>1, <2>2
<1>5. ASSUME NEW x \in S, NEW y \in S, rank[x] < rank[y]
      PROVE  from(x) + f[x] <= from(y)
  <2>1. ahead(x) \cup {x} \in SUBSET ahead(y)
    BY <1>5 DEF Ranked
  <2>2. ahead(y) \in SUBSET S /\ from(y) = Load(Restrict(f, ahead(y)))
    BY <1>2
  <2> HIDE DEF ahead, from
  <2> QED
    BY <1>3, <2>1, <2>2
<1>6. DOMAIN row = S /\ \A x \in S : row[x] = (from(x) + 1)..(from(x) + f[x])
  BY <1>1 DEF Row
<1>7. row = [x \in S |-> row[x]]
  BY <1>1 DEF Row
<1> HIDE DEF row, from, ahead
<1>8. \A x \in S : row[x] \in SUBSET (1..Load(f))
  BY <1>4, <1>6
<1>9. Apart(row)
  <2>1. ASSUME NEW x \in S, NEW y \in S, rank[x] < rank[y]
        PROVE  row[x] \cap row[y] = {}
    BY <1>4, <1>5, <1>6, <2>1
  <2>2. ASSUME NEW x \in S, NEW y \in S, x # y
        PROVE  row[x] \cap row[y] = {}
    <3>1. rank[x] \in Nat /\ rank[y] \in Nat /\ rank[x] # rank[y]
      BY <2>2 DEF Ranked
    <3>2. rank[x] < rank[y] \/ rank[y] < rank[x]
      BY <3>1
    <3> QED
      BY <2>1, <3>2
  <2> QED
    BY <1>6, <2>2 DEF Apart
<1>10. Counts(row) = f
  <2>1. ASSUME NEW x \in S PROVE Cardinality(row[x]) = f[x]
    <3> DEFINE a == from(x)
               b == from(x) + f[x]
    <3>1. a \in Nat /\ b \in Nat /\ f[x] \in Nat /\ row[x] = (a + 1)..b
      BY <1>4, <1>6
    <3>2. a <= b /\ b - a = f[x]
      BY <1>4
    <3> HIDE DEF a, b
    <3>3. Cardinality((a + 1)..b) = b - a
      BY <3>1, <3>2, Stretch
    <3> QED
      BY <3>1, <3>2, <3>3
  <2>2. Counts(row) = [x \in S |-> f[x]]
    BY <1>6, <2>1 DEF Counts
  <2> QED
    BY <1>1, <2>2
<1>11. row \in [S -> SUBSET (1..Load(f))]
  BY <1>7, <1>8
<1> QED
  BY <1>4, <1>9, <1>10, <1>11 DEF from, row

(* The slices of a demand: every piece is as large as it should be, and every
   home gets all it needs (the groups of a segment, the FATs of a pool). *)
Cuts(slices, f, k, sizes) ==
  /\ DOMAIN slices = 1..k /\ slices = [i \in 1..k |-> slices[i]]
  /\ \A i \in 1..k : Rated(slices[i], DOMAIN f) /\ Load(slices[i]) = sizes[i]
  /\ \A x \in DOMAIN f : LET got == [i \in 1..k |-> slices[i][x]]
                          IN Rated(got, 1..k) /\ Load(got) = f[x]

LEMMA Sliced ==
  ASSUME NEW S, IsFiniteSet(S), NEW f, Rated(f, S), NEW rank, Ranked(rank, S),
         NEW k \in Nat, NEW sizes, Rated(sizes, 1..k), Load(sizes) = Load(f)
  PROVE  Cuts(Slices(f, rank, sizes), f, k, sizes)
<1> DEFINE N == Load(f)
           V == 1..N
           K == 1..k
           homes == Row(f, rank)
           self == [i \in K |-> i]
           pieces == Row(sizes, self)
           slices == Slices(f, rank, sizes)
           from(x) == From(f, rank, x)
           upTo(i) == From(sizes, self, i) + sizes[i]
<1>1. DOMAIN f = S /\ DOMAIN sizes = K
  BY DEF Rated
<1>2. IsFiniteSet(K) /\ Ranked(self, K)
  BY Numbered DEF Ranked
<1>3. N \in Nat /\ IsFiniteSet(V) /\ Cardinality(V) = N
  <2>1. N \in Nat
    BY LoadCounts DEF Rated
  <2> QED
    BY <2>1, Numbered
<1>4. /\ homes \in [S -> SUBSET V] /\ Apart(homes) /\ Counts(homes) = f
      /\ \A x \in S : from(x) \in Nat /\ f[x] \in Nat
  BY RowTiles
<1>5. /\ pieces \in [K -> SUBSET V] /\ Apart(pieces) /\ Counts(pieces) = sizes
      /\ \A i \in K : From(sizes, self, i) \in Nat /\ sizes[i] \in Nat
  <2>1. /\ pieces \in [K -> SUBSET (1..Load(sizes))] /\ Apart(pieces) /\ Counts(pieces) = sizes
        /\ \A i \in K : From(sizes, self, i) \in Nat /\ sizes[i] \in Nat
    <3> HIDE DEF K, self
    <3> QED
      BY <1>2, RowTiles DEF K
  <2> QED
    BY <2>1
<1>6. /\ \A x \in S : homes[x] = (from(x) + 1)..(from(x) + f[x])
      /\ \A i \in K : pieces[i] = (From(sizes, self, i) + 1)..upTo(i)
  BY <1>1 DEF Row
<1>7. ASSUME NEW i \in K
      PROVE  /\ Load([j \in 1..i |-> sizes[j]]) = upTo(i)
             /\ Load([j \in 1..(i - 1) |-> sizes[j]]) = From(sizes, self, i)
  <2>1. {j \in K : self[j] < self[i]} = 1..(i - 1)
    OBVIOUS
  <2>2. Load([j \in 1..(i - 1) |-> sizes[j]]) = From(sizes, self, i)
    BY <1>1, <2>1 DEF From
  <2>3. /\ Restrict(sizes, 1..i) = [j \in 1..i |-> sizes[j]]
        /\ Restrict(sizes, 1..(i - 1)) = [j \in 1..(i - 1) |-> sizes[j]]
    BY DEF Restrict
  <2>4. Load(Restrict(sizes, 1..i)) = Load(Restrict(sizes, 1..(i - 1))) + sizes[i]
    BY LoadUpTo
  <2> QED
    BY <2>2, <2>3, <2>4
<1>8. /\ DOMAIN slices = K /\ slices = [i \in K |-> slices[i]]
      /\ \A i \in K : slices[i] = [x \in S |-> slices[i][x]]
  BY <1>1 DEF Slices
<1>9. ASSUME NEW i \in K, NEW x \in S
      PROVE  slices[i][x] = Larger(0, Smaller(from(x) + f[x], upTo(i)) - Larger(from(x), From(sizes, self, i)))
  <2>1. from(x) = Load([g \in {g \in S : rank[g] < rank[x]} |-> f[g]])
    BY <1>1 DEF From
  <2> HIDE DEF from, upTo
  <2>2. slices[i][x] = Larger(0,
          Smaller(from(x) + f[x], Load([j \in 1..i |-> sizes[j]]))
          - Larger(from(x), Load([j \in 1..(i - 1) |-> sizes[j]])))
    BY <1>1, <2>1 DEF Slices
  <2> QED
    BY <1>7, <2>2
<1>10. ASSUME NEW i \in K, NEW x \in S
       PROVE  slices[i][x] = Cardinality(homes[x] \cap pieces[i]) /\ slices[i][x] \in Nat
  <2> DEFINE a == from(x)
             b == from(x) + f[x]
             c == From(sizes, self, i)
             d == upTo(i)
  <2>1. a \in Nat /\ b \in Nat /\ c \in Nat /\ d \in Nat
    BY <1>4, <1>5
  <2>2. homes[x] = (a + 1)..b /\ pieces[i] = (c + 1)..d
    BY <1>6
  <2>3. slices[i][x] = Larger(0, Smaller(b, d) - Larger(a, c))
    BY <1>9
  <2> HIDE DEF a, b, c, d, slices, homes, pieces
  <2> QED
    BY <2>1, <2>2, <2>3, SharedStretch
<1> HIDE DEF slices, homes, pieces, N, V, from, upTo, self
<1>11. ASSUME NEW i \in K
       PROVE  Rated(slices[i], S) /\ Load(slices[i]) = sizes[i]
  <2> DEFINE C == pieces[i]
             Q == Pieces(homes, C)
  <2>1. C \in SUBSET V /\ Cardinality(C) = sizes[i]
    <3>1. Counts(pieces)[i] = Cardinality(pieces[i])
      BY <1>5 DEF Counts
    <3> QED
      BY <1>5, <3>1
  <2>2. slices[i] = Counts(Q)
    <3>1. Counts(Q) = [x \in S |-> Cardinality(homes[x] \cap C)]
      BY <1>4 DEF Counts, Pieces
    <3> QED
      BY <1>8, <1>10, <3>1
  <2> HIDE DEF C
  <2>3. Load(Counts(homes)) = Cardinality(V)
    BY <1>3, <1>4 DEF N
  <2>4. Counts(Q) \in [S -> Nat] /\ Load(Counts(Q)) = Cardinality(C)
    BY <1>3, <1>4, <2>1, <2>3, Tiled
  <2> QED
    BY <2>1, <2>2, <2>4 DEF Rated
<1>12. ASSUME NEW x \in S
       PROVE  Rated([i \in K |-> slices[i][x]], K) /\ Load([i \in K |-> slices[i][x]]) = f[x]
  <2> DEFINE C == homes[x]
             Q == Pieces(pieces, C)
             got == [i \in K |-> slices[i][x]]
  <2>1. C \in SUBSET V /\ Cardinality(C) = f[x]
    <3>1. Counts(homes)[x] = Cardinality(homes[x])
      BY <1>4 DEF Counts
    <3> QED
      BY <1>4, <3>1
  <2>2. got = Counts(Q)
    <3>1. Counts(Q) = [i \in K |-> Cardinality(pieces[i] \cap C)]
      BY <1>5 DEF Counts, Pieces
    <3>2. \A i \in K : pieces[i] \cap C = C \cap pieces[i]
      OBVIOUS
    <3> QED
      BY <1>10, <3>1, <3>2
  <2> HIDE DEF C, got
  <2>3. Load(Counts(pieces)) = Cardinality(V)
    BY <1>3, <1>5 DEF N
  <2>4. Counts(Q) \in [K -> Nat] /\ Load(Counts(Q)) = Cardinality(C)
    BY <1>2, <1>3, <1>5, <2>1, <2>3, Tiled
  <2>5. Rated(got, K) /\ Load(got) = f[x]
    BY <2>1, <2>2, <2>4 DEF Rated
  <2> QED
    BY <2>5 DEF got
<1> QED
  BY <1>1, <1>8, <1>11, <1>12 DEF Cuts, slices

-----------------------------------------------------------------------------
(* From FATs to FDTs: what the deals and the pools come to. *)

LEMMA Bounds ==
  ASSUME pons \in 1..2
  PROVE  /\ Least \in Nat \ {0} /\ Most \in Nat \ {0} /\ Least < Most
         /\ 4 * MaxWing \in Nat /\ Most <= 4 * MaxWing
<1>1. CASE pons = 1
  BY <1>1, ProfileAssumption DEF Least, Most
<1>2. CASE pons = 2
  BY <1>2, ProfileAssumption DEF Least, Most
<1> QED
  BY <1>1, <1>2

(* The numbers of groups of an exact deal. *)
LEMMA DealtGroups ==
  ASSUME NEW n \in Nat \ {0}, Least \in Nat \ {0}, Most \in Nat \ {0},
         NEW k \in Groups(n, Most)..MostGroups(n)
  PROVE  k \in Nat \ {0} /\ k * Least <= n /\ n <= k * Most
<1> DEFINE g == Groups(n, Most)
<1>1. MostGroups(n) \in Nat /\ MostGroups(n) * Least <= n
  <2>1. /\ n \div Least \in Nat /\ n % Least \in 0..(Least - 1)
        /\ n = Least * (n \div Least) + (n % Least)
    BY Division
  <2> HIDE DEF g
  <2>2. MostGroups(n) = n \div Least
    BY DEF MostGroups
  <2> QED
    BY <2>1, <2>2, Z3
<1>2. g \in Nat \ {0} /\ n <= g * Most
  BY GroupsHold
<1> HIDE DEF g
<1>3. k \in Nat \ {0}
  BY <1>1, <1>2 DEF g
<1>4. k * Least <= MostGroups(n) * Least
  BY <1>1, <1>3, Z3
<1>5. g * Most <= k * Most
  <2>1. g <= k
    BY DEF g
  <2> QED
    BY <1>2, <1>3, <2>1, Z3
<1>6. k * Least \in Nat /\ k * Most \in Nat /\ g * Most \in Nat /\ MostGroups(n) * Least \in Nat
  BY <1>1, <1>2, <1>3, Z3
<1> HIDE DEF Least, Most, MostGroups
<1> QED
  BY <1>1, <1>2, <1>3, <1>4, <1>5, <1>6

-----------------------------------------------------------------------------
(* Pools: who is in them, what they hold, what they are dealt. *)

LEMMA LiveFinite ==
  /\ IsFiniteSet(FDTs) /\ IsFiniteSet(Live) /\ IsFiniteSet(Short)
  /\ Cardinality(Short) \in Nat /\ Cardinality(FDTs) \in Nat
<1>1. Live \subseteq FDTs /\ Short \subseteq FDTs
  BY DEF Live, Short
<1> QED
  BY <1>1, JobAssumption, FS_Subset, FS_CardinalityType

(* A pool begins with the FDT it is for, and no FDT is in it twice. *)
LEMMA PoolShape ==
  ASSUME NEW v \in Live, NEW pool \in Pools(v)
  PROVE  /\ Len(pool) \in Nat \ {0} /\ pool \in [1..Len(pool) -> Live] /\ pool[1] = v
         /\ \A i \in 1..Len(pool) : \A j \in 1..Len(pool) : pool[i] = pool[j] => i = j
<1>1. PICK q \in SetToAllKPermutations(Live \ {v}) : pool = <<v>> \o q
  BY DEF Pools
<1>2. PICK s \in SUBSET (Live \ {v}) : q \in SetToSeqs(s)
  BY <1>1 DEF SetToAllKPermutations
<1> DEFINE n == Cardinality(s)
<1>3. /\ q \in [1..n -> s]
      /\ \A i \in 1..n : \A j \in 1..n : i # j => q[i] # q[j]
  BY <1>2 DEF SetToSeqs
<1>4. n \in Nat
  BY <1>2, LiveFinite, FS_Subset, FS_CardinalityType
<1> HIDE DEF n
<1>5. q \in Seq(Live) /\ Len(q) = n /\ <<v>> \in Seq(Live) /\ Len(<<v>>) = 1 /\ <<v>>[1] = v
  BY <1>2, <1>3, <1>4
<1>6. /\ pool \in Seq(Live) /\ Len(pool) = 1 + n
      /\ \A i \in 1..(1 + n) : pool[i] = IF i <= 1 THEN <<v>>[i] ELSE q[i - 1]
  BY <1>1, <1>5, ConcatProperties
<1>7. pool \in [1..Len(pool) -> Live] /\ Len(pool) \in Nat \ {0} /\ pool[1] = v
  BY <1>4, <1>5, <1>6, LenProperties
<1>8. ASSUME NEW i \in 1..Len(pool), NEW j \in 1..Len(pool), pool[i] = pool[j]
      PROVE  i = j
  <2>1. \A k \in 1..(1 + n) : k # 1 => pool[k] = q[k - 1] /\ k - 1 \in 1..n /\ pool[k] # v
    BY <1>2, <1>3, <1>4, <1>6
  <2>2. i \in 1..(1 + n) /\ j \in 1..(1 + n)
    BY <1>6
  <2>3. CASE i = 1 \/ j = 1
    BY <1>7, <1>8, <2>1, <2>2, <2>3
  <2>4. CASE i # 1 /\ j # 1
    BY <1>3, <1>4, <1>8, <2>1, <2>2, <2>4
  <2> QED
    BY <2>3, <2>4
<1> QED
  BY <1>7, <1>8

(* What a pool holds, and what it holds without its last FDT. *)
LEMMA PoolHolds ==
  ASSUME TypeOK, NEW L \in Nat \ {0}, NEW pool \in [1..L -> FDTs], Len(pool) = L
  PROVE  /\ Held(pool) \in Nat /\ Held(pool) <= L * Most
         /\ Held(pool) = fats[pool[L]] + Held(SubSeq(pool, 1, L - 1))
         /\ L = 1 => Held(pool) = fats[pool[1]]
<1> DEFINE h == [i \in 1..L |-> fats[pool[i]]]
           part == SubSeq(pool, 1, L - 1)
<1>1. Most \in Nat /\ fats \in [FDTs -> 0..Most]
  BY Bounds DEF TypeOK
<1> HIDE DEF Most
<1>2. h \in [1..L -> Nat] /\ \A i \in 1..L : h[i] <= Most
  BY <1>1
<1>3. DOMAIN pool = 1..L /\ pool \in Seq(FDTs)
  OBVIOUS
<1>4. Held(pool) = Load(h)
  BY <1>3 DEF Held
<1>5. part = Restrict(pool, 1..(L - 1))
  BY <1>3, SubSeqRestrict
<1>6. (1..L) \ {L} = 1..(L - 1)
  OBVIOUS
<1>7. Held(part) = Load(Restrict(h, (1..L) \ {L}))
  <2>1. DOMAIN part = 1..(L - 1) /\ \A i \in 1..(L - 1) : part[i] = pool[i]
    BY <1>5 DEF Restrict
  <2>2. [i \in DOMAIN part |-> fats[part[i]]] = Restrict(h, (1..L) \ {L})
    BY <1>6, <2>1 DEF Restrict
  <2> QED
    BY <2>2, Zenon DEF Held
<1> HIDE DEF h, part
<1>8. h[L] = fats[pool[L]] /\ L \in 1..L
  BY DEF h
<1>9. /\ Load(h) = h[L] + Load(Restrict(h, (1..L) \ {L})) /\ Load(h) \in Nat
      /\ Load(Restrict(h, (1..L) \ {L})) \in Nat
  BY <1>2, <1>8, Numbered, LoadWithout, SMTT(60)
<1>10. Load(h) <= L * Most
  BY <1>1, <1>2, Numbered, LoadBound
<1>11. ASSUME L = 1
       PROVE  Load(Restrict(h, (1..L) \ {L})) = 0
  <2>1. Restrict(h, (1..L) \ {L}) \in [{} -> Nat]
    BY <1>11 DEF Restrict
  <2> QED
    BY <2>1, LoadEmpty
<1>12. h[L] \in Nat
  BY <1>2, <1>8
<1> QED
  BY <1>4, <1>7, <1>8, <1>9, <1>10, <1>11, <1>12 DEF part

(* A deal hands out all that is held: in full-sized groups, no more than fit,
   or else in full groups but for the last. *)
LEMMA DealSum ==
  ASSUME pons \in 1..2, NEW n \in Nat \ {0}, NEW sizes \in Deals(n)
  PROVE  /\ Len(sizes) \in Nat \ {0} /\ sizes \in [1..Len(sizes) -> 0..Most]
         /\ Load(sizes) = n
         /\ Exact(n, Least, Most) =>
              Len(sizes) * Least <= n /\ \A i \in 1..Len(sizes) : sizes[i] \in Least..Most
         /\ ~Exact(n, Least, Most) =>
              /\ Len(sizes) = Groups(n, Most)
              /\ \A i \in 1..(Len(sizes) - 1) : sizes[i] = Most
<1> DEFINE g == Groups(n, Most)
<1>1. Least \in Nat \ {0} /\ Most \in Nat \ {0}
  BY Bounds
<1>2. CASE Exact(n, Least, Most)
  <2>1. PICK k \in g..MostGroups(n) : sizes = Even(n, k)
    BY <1>2 DEF Deals
  <2>2. k \in Nat \ {0} /\ k * Least <= n /\ n <= k * Most
    BY <1>1, <1>2, <2>1, DealtGroups
  <2>3. sizes \in [1..k -> Least..Most]
    BY <1>1, <2>1, <2>2, EvenDeal
  <2>4. Load(sizes) = n
    BY <2>1, <2>2, EvenSum
  <2> HIDE DEF Least, Most, g
  <2>5. Len(sizes) = k
    BY <2>2, <2>3
  <2> QED
    BY <1>1, <1>2, <2>2, <2>3, <2>4, <2>5
<1>3. CASE ~Exact(n, Least, Most)
  <2>1. sizes = Sizes(n, Least, Most)
    BY <1>3 DEF Deals
  <2>2. g \in Nat \ {0} /\ sizes \in [1..g -> 1..Most] /\ n - Most * (g - 1) \in Nat
    BY <1>1, <1>3, <2>1, TailDeal
  <2>3. Load(sizes) = n
    BY <1>1, <1>3, <2>1, <2>2, TailSum
  <2>4. \A i \in 1..(g - 1) : sizes[i] = Most
    BY <1>3, <2>1, <2>2 DEF Sizes
  <2> HIDE DEF Most, g
  <2>5. Len(sizes) = g
    BY <2>2
  <2> QED
    BY <1>1, <1>3, <2>2, <2>3, <2>4, <2>5 DEF g
<1> QED
  BY <1>2, <1>3

(* A pool is just large enough for its deal: without its last FDT it was too
   small for full-sized groups, and the last FDT holds at most two of them. *)
LEMMA PoolRoom ==
  ASSUME TypeOK, NEW v \in Short, NEW pool \in Pools(v),
         Held(pool) # 0, NEW sizes \in Deals(Held(pool))
  PROVE  Len(sizes) <= Len(pool)
<1> DEFINE n == Held(pool)
           L == Len(pool)
           k == Len(sizes)
           part == SubSeq(pool, 1, L - 1)
           m == Held(part)
<1>1. /\ Least \in Nat \ {0} /\ Most \in Nat \ {0} /\ Most <= 2 * Least /\ pons \in 1..2
      /\ fats \in [FDTs -> 0..Most]
  <2>1. pons \in 1..2
    BY DEF TypeOK
  <2>2. Most <= 2 * Least
    <3>1. CASE pons = 1
      BY <3>1, ProfileAssumption DEF Least, Most
    <3>2. CASE pons = 2
      BY <3>2, ProfileAssumption DEF Least, Most
    <3> QED
      BY <2>1, <3>1, <3>2
  <2> QED
    BY <2>1, <2>2, Bounds DEF TypeOK
<1>2. v \in Live /\ fats[v] < Least /\ Live \subseteq FDTs
  BY DEF Short, Live
<1>3. L \in Nat \ {0} /\ pool \in [1..L -> Live] /\ pool[1] = v
  BY <1>2, PoolShape
<1>4. n \in Nat \ {0} /\ n <= L * Most /\ n = fats[pool[L]] + m /\ (L = 1 => n = fats[v])
  BY <1>2, <1>3, PoolHolds
<1>5. /\ k \in Nat \ {0}
      /\ Exact(n, Least, Most) => k * Least <= n
      /\ ~Exact(n, Least, Most) => k = Groups(n, Most)
  BY <1>1, <1>4, DealSum
<1>6. CASE ~Exact(n, Least, Most)
  BY <1>1, <1>3, <1>4, <1>5, <1>6, GroupsHold
<1>7. CASE Exact(n, Least, Most) /\ L = 1
  <2>1. k * Least < Least
    BY <1>1, <1>2, <1>3, <1>4, <1>5, <1>7
  <2> HIDE DEF k, Least
  <2> QED
    BY <1>1, <1>5, <2>1, Z3
<1>8. CASE Exact(n, Least, Most) /\ L # 1
  <2>1. L - 1 \in Nat \ {0} /\ L - 1 \in 1..(L - 1)
    BY <1>3, <1>8
  <2>2. ~Exact(m, Least, Most)
    BY <1>3, <2>1 DEF Pools, Fits
  <2>3. part \in [1..(L - 1) -> Live] /\ Len(part) = L - 1
    <3>1. \A i \in 1..(L - 1) : pool[i] \in Live
      BY <1>3
    <3>2. part \in Seq(Live) /\ Len(part) = L - 1
      BY <1>3, <2>1, <3>1, SubSeqProperties
    <3> QED
      BY <3>2, LenProperties
  <2>4. m \in Nat /\ m <= (L - 1) * Most /\ m = fats[part[L - 1]] + Held(SubSeq(part, 1, L - 1 - 1))
    <3>1. part \in [1..(L - 1) -> FDTs]
      BY <1>2, <2>3
    <3> HIDE DEF part, L
    <3> QED
      BY <2>1, <2>3, <3>1, PoolHolds
  <2>5. Groups(m, Most) * Least > m
    <3>1. Groups(m, Most) \in Nat
      <4>1. m + Most - 1 \in Nat
        BY <1>1, <2>4
      <4> QED
        BY <1>1, <4>1, Division DEF Groups
    <3>2. Groups(m, Most) * Least \in Nat
      BY <1>1, <3>1, Z3
    <3> QED
      BY <1>1, <2>2, <2>4, <3>2 DEF Exact
  <2>6. m < (L - 1) * Least
    <3>1. CASE m = 0
      BY <1>1, <2>1, <3>1, Z3
    <3>2. CASE m # 0
      <4>1. Groups(m, Most) \in Nat \ {0} /\ Groups(m, Most) <= L - 1
        BY <1>1, <2>1, <2>4, <3>2, GroupsHold
      <4>2. Groups(m, Most) * Least <= (L - 1) * Least
        BY <1>1, <2>1, <4>1, Z3
      <4> DEFINE a == Groups(m, Most) * Least
                 b == (L - 1) * Least
      <4>3. a \in Nat /\ b \in Nat /\ a <= b /\ m < a
        BY <1>1, <2>1, <2>5, <4>1, <4>2, Z3
      <4> HIDE DEF a, b
      <4> QED
        BY <2>4, <4>3 DEF b
    <3> QED
      BY <3>1, <3>2
  <2>7. n < (L + 1) * Least
    <3>1. fats[pool[L]] \in 0..Most
      BY <1>1, <1>2, <1>3
    <3>2. (L + 1) * Least = (L - 1) * Least + 2 * Least
      BY <1>1, <1>3, Z3
    <3>3. (L - 1) * Least \in Nat
      BY <1>1, <2>1, Z3
    <3> DEFINE a == (L - 1) * Least
               b == (L + 1) * Least
               last == fats[pool[L]]
    <3>4. /\ a \in Nat /\ m \in Nat /\ m < a /\ b = a + 2 * Least
          /\ last \in 0..Most /\ n = last + m
      BY <1>4, <2>4, <2>6, <3>1, <3>2, <3>3
    <3> HIDE DEF n, m, a, b, last, Least, Most
    <3>5. n < b
      BY <1>1, <3>4
    <3> QED
      BY <3>5 DEF b
  <2>8. Least * k < Least * (L + 1)
    <3>1. k * Least = Least * k /\ (L + 1) * Least = Least * (L + 1)
      BY <1>1, <1>3, <1>5, Z3
    <3>2. k * Least \in Nat /\ (L + 1) * Least \in Nat
      BY <1>1, <1>3, <1>5, Z3
    <3> HIDE DEF n, L, k, Least, Most
    <3> QED
      BY <1>4, <1>5, <1>8, <2>7, <3>1, <3>2
  <2> HIDE DEF L, k, Least
  <2>9. k < L + 1
    BY <1>1, <1>3, <1>5, <2>8, ProductOrder
  <2> QED
    BY <1>3, <1>5, <2>9 DEF L, k
<1> QED
  BY <1>6, <1>7, <1>8

(* What the deal makes of every FDT. *)
DealtSize(pool, sizes) ==
  [f \in FDTs |->
     IF \E i \in DOMAIN pool : pool[i] = f
     THEN LET i == CHOOSE i \in DOMAIN pool : pool[i] = f
          IN IF i \in DOMAIN sizes THEN sizes[i] ELSE 0
     ELSE fats[f]]

(* A pool of L FDTs and a deal of its FATs to the first k of them; what comes of it. *)
PoolDeal(L, pool, k, sizes) ==
  /\ L \in Nat \ {0} /\ pool \in [1..L -> FDTs]
  /\ \A i \in 1..L : \A j \in 1..L : pool[i] = pool[j] => i = j
  /\ k \in Nat /\ k <= L /\ sizes \in [1..k -> 0..Most]
DealtBy(g, L, pool, k, sizes) ==
  /\ g \in [FDTs -> 0..Most]
  /\ \A i \in 1..L : g[pool[i]] = IF i \in 1..k THEN sizes[i] ELSE 0
  /\ \A f \in FDTs : (\A i \in 1..L : pool[i] # f) => g[f] = fats[f]

LEMMA DealtSizes ==
  ASSUME TypeOK, NEW L, NEW pool, NEW k, NEW sizes, PoolDeal(L, pool, k, sizes)
  PROVE  DealtBy(DealtSize(pool, sizes), L, pool, k, sizes)
<1> DEFINE g == DealtSize(pool, sizes)
           at(f) == CHOOSE i \in 1..L : pool[i] = f
<1>0. /\ L \in Nat \ {0} /\ pool \in [1..L -> FDTs]
      /\ k \in Nat /\ k <= L /\ sizes \in [1..k -> 0..Most]
      /\ \A i \in 1..L : \A j \in 1..L : pool[i] = pool[j] => i = j
  BY DEF PoolDeal
<1>1. Most \in Nat /\ fats \in [FDTs -> 0..Most]
  BY Bounds DEF TypeOK
<1> HIDE DEF Most
<1>2. DOMAIN pool = 1..L /\ DOMAIN sizes = 1..k
  BY <1>0
<1>3. g = [f \in FDTs |-> IF \E i \in 1..L : pool[i] = f
                          THEN IF at(f) \in 1..k THEN sizes[at(f)] ELSE 0
                          ELSE fats[f]]
  BY <1>2, Zenon DEF DealtSize
<1> HIDE DEF g
<1>4. ASSUME NEW i \in 1..L
      PROVE  at(pool[i]) = i
  BY <1>0
<1> HIDE DEF at
<1>5. ASSUME NEW i \in 1..L
      PROVE  g[pool[i]] = IF i \in 1..k THEN sizes[i] ELSE 0
  BY <1>0, <1>3, <1>4
<1>6. ASSUME NEW f \in FDTs, \A i \in 1..L : pool[i] # f
      PROVE  g[f] = fats[f]
  BY <1>3, <1>6
<1>7. ASSUME NEW f \in FDTs
      PROVE  g[f] \in 0..Most
  <2>1. CASE \E i \in 1..L : pool[i] = f
    <3>1. PICK i \in 1..L : pool[i] = f
      BY <2>1
    <3>2. i \in 1..k => sizes[i] \in 0..Most
      BY <1>0
    <3>3. 0 \in 0..Most
      BY <1>1
    <3>4. g[f] = IF i \in 1..k THEN sizes[i] ELSE 0
      BY <1>5, <3>1
    <3> QED
      BY <3>2, <3>3, <3>4
  <2>2. CASE ~\E i \in 1..L : pool[i] = f
    BY <1>1, <1>6, <2>2
  <2> QED
    BY <2>1, <2>2
<1>8. g \in [FDTs -> 0..Most]
  BY <1>3, <1>7
<1> QED
  BY <1>5, <1>6, <1>8 DEF DealtBy, g

(* What the members of a pool have is the same by place and by member. *)
LEMMA PooledSum ==
  ASSUME NEW f \in [FDTs -> Nat], NEW L \in Nat, NEW pool \in [1..L -> FDTs],
         \A i \in 1..L : \A j \in 1..L : pool[i] = pool[j] => i = j
  PROVE  Load([i \in 1..L |-> f[pool[i]]]) = Load(Restrict(f, {pool[i] : i \in 1..L}))
<1> DEFINE I == 1..L
           T == {pool[i] : i \in 1..L}
           r == Restrict(f, T)
           held == [i \in 1..L |-> f[pool[i]]]
<1>1. IsFiniteSet(I)
  BY Numbered
<1>2. pool \in Bijection(I, T)
  BY DEF Bijection, Injection, Surjection, IsInjective
<1>3. r \in [T -> Nat]
  BY DEF Restrict
<1>4. held \in [I -> Nat]
  OBVIOUS
<1>5. \A i \in I : held[i] = r[pool[i]]
  BY DEF Restrict
<1> HIDE DEF I, T, r, held
<1>6. Load(held) = Load(r)
  BY ONLY <1>1, <1>2, <1>3, <1>4, <1>5, LoadRenamed, SMTT(60)
<1> QED
  BY <1>6 DEF held, r, T

(* A deal of what the pool holds loses no FAT and makes none. *)
LEMMA DealtSum ==
  ASSUME TypeOK, NEW L, NEW pool, NEW k, NEW sizes, PoolDeal(L, pool, k, sizes),
         Load(sizes) = Held(pool)
  PROVE  Load(DealtSize(pool, sizes)) = Load(fats)
<1> DEFINE g == DealtSize(pool, sizes)
           T == {pool[i] : i \in 1..L}
           new == [i \in 1..L |-> g[pool[i]]]
<1>0. /\ L \in Nat \ {0} /\ pool \in [1..L -> FDTs]
      /\ k \in Nat /\ k <= L /\ sizes \in [1..k -> 0..Most]
      /\ \A i \in 1..L : \A j \in 1..L : pool[i] = pool[j] => i = j
  BY DEF PoolDeal
<1>1. /\ Most \in Nat /\ fats \in [FDTs -> 0..Most] /\ IsFiniteSet(FDTs)
      /\ IsFiniteSet(1..L)
  BY <1>0, Bounds, JobAssumption, Numbered DEF TypeOK
<1>2. /\ g \in [FDTs -> 0..Most]
      /\ \A i \in 1..L : g[pool[i]] = IF i \in 1..k THEN sizes[i] ELSE 0
      /\ \A f \in FDTs : (\A i \in 1..L : pool[i] # f) => g[f] = fats[f]
  <2>1. DealtBy(g, L, pool, k, sizes)
    BY ONLY PoolDeal(L, pool, k, sizes), TypeOK, DealtSizes
  <2> HIDE DEF g
  <2> QED
    BY <2>1 DEF DealtBy
<1> HIDE DEF Most, g
<1>3. g \in [FDTs -> Nat] /\ fats \in [FDTs -> Nat] /\ T \in SUBSET FDTs
  BY <1>0, <1>1, <1>2
<1>4. /\ Load(g) = Load(Restrict(g, T)) + Load(Restrict(g, FDTs \ T))
      /\ Load(fats) = Load(Restrict(fats, T)) + Load(Restrict(fats, FDTs \ T))
  <2> HIDE DEF T
  <2> QED
    BY <1>1, <1>3, LoadSplit
<1>5. Restrict(g, FDTs \ T) = Restrict(fats, FDTs \ T)
  BY <1>2 DEF Restrict
<1>6. /\ Load(new) = Load(Restrict(g, T))
      /\ Load([i \in 1..L |-> fats[pool[i]]]) = Load(Restrict(fats, T))
  <2>1. \A f \in [FDTs -> Nat] : Load([i \in 1..L |-> f[pool[i]]]) = Load(Restrict(f, T))
    BY <1>0, <1>1, PooledSum
  <2> QED
    BY ONLY <1>3, <2>1, Zenon
<1>7. Load(new) = Load(sizes)
  <2> DEFINE rest == Restrict(new, (1..L) \ (1..k))
  <2>1. new \in [1..L -> Nat] /\ 1..k \in SUBSET (1..L)
    BY <1>0, <1>3
  <2>2. Load(new) = Load(Restrict(new, 1..k)) + Load(rest)
    <3> DEFINE S == 1..L
               U == 1..k
    <3>1. new \in [S -> Nat] /\ U \in SUBSET S /\ IsFiniteSet(S)
      BY <1>1, <2>1
    <3> HIDE DEF S, U, new
    <3>2. Load(new) = Load(Restrict(new, U)) + Load(Restrict(new, S \ U))
      BY <3>1, LoadSplit
    <3> QED
      BY <3>2 DEF S, U
  <2>3. Restrict(new, 1..k) = sizes
    BY <1>0, <1>2, <2>1 DEF Restrict
  <2>4. rest \in [(1..L) \ (1..k) -> Nat] /\ \A i \in (1..L) \ (1..k) : rest[i] = 0
    BY <1>0, <1>2, <2>1 DEF Restrict
  <2>5. IsFiniteSet((1..L) \ (1..k)) /\ Cardinality((1..L) \ (1..k)) \in Nat
    BY <1>1, FS_Difference, FS_CardinalityType
  <2> HIDE DEF new, rest
  <2>6. Load(rest) = Cardinality((1..L) \ (1..k)) * 0
    BY <2>4, <2>5, LoadBound
  <2>7. Load(rest) = 0
    BY <2>5, <2>6
  <2>8. Load(sizes) \in Nat
    <3>1. sizes \in [1..k -> Nat]
      BY <1>0, <1>1
    <3> QED
      BY <1>0, <3>1, Numbered, LoadCounts
  <2> QED
    BY <2>2, <2>3, <2>7, <2>8
<1>8. Held(pool) = Load([i \in 1..L |-> fats[pool[i]]])
  <2>1. DOMAIN pool = 1..L
    BY <1>0
  <2> QED
    BY <2>1 DEF Held
<1>9. Load(Restrict(g, T)) = Load(Restrict(fats, T))
  <2> HIDE DEF new, T
  <2> QED
    BY <1>6, <1>7, <1>8
<1> QED
  BY <1>4, <1>5, <1>9 DEF g

-----------------------------------------------------------------------------
(* Wings: what one FAT more or less does to them. *)

LEMMA PonWings ==
  ASSUME NEW x \in Wings
  PROVE  Pon(x) \subseteq Wings /\ x \in Pon(x)
  BY DEF Pon, Wings

LEMMA TakeOne ==
  ASSUME NEW w \in Layouts, NEW x \in Wings, w[x] > 0
  PROVE  Without(w, x) \in Layouts /\ Placed(Without(w, x)) = Placed(w) - 1
<1>1. Without(w, x) \in Layouts
  BY ProfileAssumption DEF Without, Layouts
<1>2. Placed(Without(w, x)) = Placed(w) - 1
  BY ProfileAssumption DEF Without, Layouts, Placed, Wings
<1> QED
  BY <1>1, <1>2

LEMMA PlaceOne ==
  ASSUME NEW w \in Layouts, NEW pon \in SUBSET Wings, NEW v \in Inserted(w, pon)
  PROVE  v \in Layouts /\ Placed(v) = Placed(w) + 1
<1>1. PICK x \in pon : w[x] < MaxWing /\ v = With(w, x)
  BY DEF Inserted
<1>2. x \in Wings
  OBVIOUS
<1>3. v \in Layouts
  BY <1>1, <1>2, ProfileAssumption DEF With, Layouts
<1>4. Placed(v) = Placed(w) + 1
  BY <1>1, <1>2, ProfileAssumption DEF With, Layouts, Placed, Wings
<1> QED
  BY <1>3, <1>4

LEMMA PlacedCounts ==
  ASSUME NEW w \in Layouts
  PROVE  Placed(w) \in Nat
  BY ProfileAssumption DEF Layouts, Placed, Wings

LEMMA ReplaceOne ==
  ASSUME NEW w \in Layouts, NEW pon \in SUBSET Wings, NEW v \in Replaced(w, pon)
  PROVE  v \in Layouts /\ Placed(v) = Placed(w)
<1>1. PICK x \in pon : w[x] > 0 /\ v \in Inserted(Without(w, x), pon)
  BY DEF Replaced
<1>2. Without(w, x) \in Layouts /\ Placed(Without(w, x)) = Placed(w) - 1
  BY <1>1, TakeOne
<1>3. v \in Layouts /\ Placed(v) = Placed(Without(w, x)) + 1
  BY <1>1, <1>2, PlaceOne
<1> QED
  BY <1>2, <1>3, PlacedCounts

(* The FDTs that are cut into wings again carry their new sizes. *)
LEMMA Renumbered ==
  ASSUME TypeOK, UNCHANGED pons, fats' \in [FDTs -> 0..Most],
         NEW S \in SUBSET FDTs, NEW split \in {AnySplit, EvenSplit}, Renumber(S, split)
  PROVE  /\ wing' \in [FDTs -> Layouts]
         /\ \A f \in S : Placed(wing'[f]) = fats'[f]
         /\ \A f \in FDTs \ S : wing'[f] = wing[f]
<1>1. PICK w \in [S -> UNION {split[pons][fats'[f]] : f \in S}] :
        /\ \A f \in S : w[f] \in split[pons][fats'[f]]
        /\ wing' = [f \in FDTs |-> IF f \in S THEN w[f] ELSE wing[f]]
  BY DEF Renumber
<1>2. ASSUME NEW p \in 1..2, NEW n \in 0..4 * MaxWing, NEW v \in split[p][n]
      PROVE  v \in Layouts /\ Placed(v) = n
  <2>1. EvenSplit[p][n] \subseteq AnySplit[p][n]
    BY DEF EvenSplit
  <2>2. v \in AnySplit[p][n]
    BY <2>1
  <2> QED
    BY <2>2 DEF AnySplit
<1>3. ASSUME NEW f \in S
      PROVE  w[f] \in Layouts /\ Placed(w[f]) = fats'[f]
  <2>1. fats'[f] \in 0..4 * MaxWing /\ pons \in 1..2
    BY Bounds DEF TypeOK
  <2> QED
    BY <1>1, <1>2, <2>1
<1>4. wing \in [FDTs -> Layouts]
  BY DEF TypeOK
<1> QED
  BY <1>1, <1>3, <1>4

LEMMA Transferred ==
  ASSUME TypeOK, NEW s \in FDTs, NEW t \in FDTs, s # t, NEW n \in Nat,
         n <= fats[s], fats[t] + n <= Most, Transfer(s, t, n)
  PROVE  /\ fats' \in [FDTs -> 0..Most]
         /\ fats'[s] = fats[s] - n /\ fats'[t] = fats[t] + n
         /\ \A f \in FDTs \ {s, t} : fats'[f] = fats[f]
         /\ Load(fats') = Load(fats)
<1>1. Most \in Nat /\ fats \in [FDTs -> 0..Most]
  BY Bounds DEF TypeOK
<1> HIDE DEF Most
<1>2. /\ fats' \in [FDTs -> 0..Most]
      /\ fats'[s] = fats[s] - n /\ fats'[t] = fats[t] + n
      /\ \A f \in FDTs \ {s, t} : fats'[f] = fats[f]
  BY <1>1 DEF TypeOK, Transfer
<1>3. fats \in [FDTs -> Nat] /\ fats' \in [FDTs -> Nat]
  BY <1>1, <1>2
<1>4. Load(fats') = Load(fats)
  BY <1>2, <1>3, JobAssumption, LoadMoved
<1> QED
  BY <1>2, <1>4

-----------------------------------------------------------------------------
(* The inductive invariant. *)

WingsCarryFats ==
  stage \in Repairing \cup Settling => \A f \in FDTs : Placed(wing[f]) = fats[f]

(* While FDTs are offered FATs, none of them is dissolved. *)
Offered == stage = "absorb" => left \subseteq Live

IInv == TypeOK /\ WingsCarryFats /\ Offered

KeepsRange ==
  stage \notin {"generate", "pool", "last"} =>
    \A f \in FDTs : InRange(fats[f]) => fats'[f] \in Least..Most

(* No FAT is lost or placed twice, and an FDT that is dissolved stays so. *)
KeepsFats ==
  stage # "generate" =>
    Load(fats') = Load(fats) /\ \A f \in FDTs : fats[f] = 0 => fats'[f] = 0

LEMMA InitInv == Init => IInv
<1> SUFFICES ASSUME Init PROVE IInv
  OBVIOUS
<1>1. pons \in 1..2 /\ total \in Nat
  BY JobAssumption DEF Init
<1>2. 0 \in 0..Most
  BY <1>1, Bounds
<1>3. NoWings \in Layouts
  BY ProfileAssumption DEF NoWings, Layouts
<1>4. stage = "generate" /\ stage \in Stages
  BY DEF Init, Stages
<1>5. TypeOK
  <2>1. fats \in [FDTs -> 0..Most]
    BY <1>2 DEF Init
  <2>2. wing \in [FDTs -> Layouts] /\ before \in [FDTs -> Layouts]
    BY <1>3 DEF Init
  <2>3. tries \in 0..MaxRebalances
    BY ProfileAssumption DEF Init
  <2> QED
    BY <1>1, <1>4, <2>1, <2>2, <2>3, Zenon DEF Init, TypeOK
<1>6. WingsCarryFats /\ Offered
  BY <1>4 DEF WingsCarryFats, Offered, Repairing, Settling
<1> QED
  BY <1>5, <1>6 DEF IInv

(* The steps that change no size and no wing. *)
LEMMA QuietSteps ==
  ASSUME IInv,
         \/ RelayDone \/ BorrowDone \/ Block \/ PoolDone \/ RelaxDone \/ NoDonor
         \/ AbsorbDone \/ SwapDone \/ PassDone \/ Settled \/ Audit \/ CheckGraphs
         \/ Ended \/ UNCHANGED vars
  PROVE  IInv' /\ KeepsRange /\ KeepsFats
<1> USE DEF IInv, TypeOK, Least, Most, Live, Short, Smallest
<1>1. UNCHANGED <<fats, wing, pons>>
  BY DEF RelayDone, BorrowDone, Block, PoolDone, RelaxDone, NoDonor, AbsorbDone,
         SwapDone, PassDone, Settled, Audit, CheckGraphs, Ended, vars
<1>2. KeepsRange
  BY <1>1 DEF KeepsRange, InRange
<1>3. before' \in [FDTs -> Layouts]
  <2>1. [f \in FDTs |-> NoWings] \in [FDTs -> Layouts]
    BY ProfileAssumption DEF NoWings, Layouts
  <2> QED
    BY <2>1 DEF RelayDone, BorrowDone, Block, PoolDone, RelaxDone, NoDonor, AbsorbDone,
         SwapDone, PassDone, Settled, Audit, CheckGraphs, Ended, vars
<1>4. TypeOK'
  <2>1. stage' \in Stages
    BY DEF RelayDone, BorrowDone, Block, PoolDone, RelaxDone, NoDonor, AbsorbDone, SwapDone,
         PassDone, Settled, Audit, CheckGraphs, Ended, vars, Stages, Repairing, Settling
  <2>2. UNCHANGED total /\ tries' \in 0..MaxRebalances
    <3>1. /\ UNCHANGED total
          /\ tries' = tries \/ tries' = 0 \/ (tries < MaxRebalances /\ tries' = tries + 1)
      BY DEF RelayDone, BorrowDone, Block, PoolDone, RelaxDone, NoDonor, AbsorbDone, SwapDone,
         PassDone, Settled, Audit, CheckGraphs, Ended, vars
    <3>2. tries \in 0..MaxRebalances
      OBVIOUS
    <3> QED
      BY <3>1, <3>2, ProfileAssumption
  <2>3. flagged' \subseteq FDTs /\ linked' \subseteq FDTs /\ left' \subseteq FDTs
    BY DEF RelayDone, BorrowDone, Block, PoolDone, RelaxDone, NoDonor, AbsorbDone, SwapDone,
         PassDone, Settled, Audit, CheckGraphs, Ended, vars
  <2>4. blocked' \subseteq FDTs /\ swapped' \in BOOLEAN
    BY DEF RelayDone, BorrowDone, Block, PoolDone, RelaxDone, NoDonor, AbsorbDone, SwapDone,
         PassDone, Settled, Audit, CheckGraphs, Ended, vars
  <2> QED
    BY <1>1, <1>3, <2>1, <2>2, <2>3, <2>4
<1>5. WingsCarryFats'
  BY <1>1 DEF WingsCarryFats, RelayDone, BorrowDone, Block, PoolDone, RelaxDone, NoDonor,
         AbsorbDone, SwapDone, PassDone, Settled, Audit, CheckGraphs, Ended, vars,
         Repairing, Settling
<1>6. Offered'
  BY <1>1 DEF Offered, RelayDone, BorrowDone, Block, PoolDone, RelaxDone, NoDonor,
         AbsorbDone, SwapDone, PassDone, Settled, Audit, CheckGraphs, Ended, vars
<1> QED
  BY <1>1, <1>2, <1>4, <1>5, <1>6 DEF KeepsFats

(* The rest of the state, for the steps that only touch sizes, wings and links. *)
LEMMA RestTyped ==
  ASSUME TypeOK, stage' \in Stages, UNCHANGED <<pons, total, flagged, before>>,
         fats' \in [FDTs -> 0..Most], wing' \in [FDTs -> Layouts],
         linked' \subseteq FDTs, left' \subseteq FDTs, blocked' \subseteq FDTs,
         tries' \in 0..MaxRebalances, swapped' \in BOOLEAN
  PROVE  TypeOK'
  BY DEF TypeOK, Most

LEMMA GenerateStep ==
  ASSUME IInv, Generate
  PROVE  IInv' /\ KeepsRange /\ KeepsFats
<1>1. TypeOK'
  BY RestTyped DEF IInv, TypeOK, Generate, Stages
<1> QED
  BY <1>1 DEF IInv, Generate, WingsCarryFats, Offered, KeepsRange, KeepsFats, Repairing, Settling

(* One FAT goes from an FDT above its floor to one below its maximum. *)
LEMMA MoveOne ==
  ASSUME TypeOK, UNCHANGED pons, NEW s \in FDTs, NEW t \in FDTs, s # t,
         MayGive(s), MayTake(t), Transfer(s, t, 1)
  PROVE  /\ fats' \in [FDTs -> 0..Most]
         /\ fats'[s] = fats[s] - 1 /\ fats'[t] = fats[t] + 1
         /\ \A f \in FDTs \ {s, t} : fats'[f] = fats[f]
         /\ \A f \in FDTs : fats[f] > 0 => fats'[f] > 0
         /\ KeepsRange /\ KeepsFats
<1>1. fats \in [FDTs -> 0..Most] /\ Least \in Nat \ {0} /\ Most \in Nat
  BY Bounds DEF TypeOK
<1>2. fats[s] > Least /\ fats[t] \in 1..(Most - 1)
  BY DEF MayGive, MayTake
<1> HIDE DEF Least, Most
<1>3. /\ fats' \in [FDTs -> 0..Most]
      /\ fats'[s] = fats[s] - 1 /\ fats'[t] = fats[t] + 1
      /\ \A f \in FDTs \ {s, t} : fats'[f] = fats[f]
      /\ Load(fats') = Load(fats)
  <2>1. 1 \in Nat /\ 1 <= fats[s] /\ fats[t] + 1 <= Most
    BY <1>1, <1>2
  <2> QED
    BY <2>1, Transferred
<1>4. KeepsRange
  BY <1>1, <1>2, <1>3 DEF KeepsRange, InRange
<1>5. KeepsFats /\ \A f \in FDTs : fats[f] > 0 => fats'[f] > 0
  BY <1>1, <1>2, <1>3 DEF KeepsFats
<1> QED
  BY <1>3, <1>4, <1>5

LEMMA RelayStep ==
  ASSUME IInv, Relay
  PROVE  IInv' /\ KeepsRange /\ KeepsFats
<1>1. TypeOK /\ WingsCarryFats
  BY DEF IInv
<1>2. PICK s \in Live, t \in Live :
        /\ s # t
        /\ (MayGive(s) /\ MayTake(t) /\ Transfer(s, t, 1)) \/ UNCHANGED fats
        /\ Renumber({s, t}, EvenSplit)
  BY DEF Relay
<1>3. s \in FDTs /\ t \in FDTs /\ s # t /\ UNCHANGED pons
  BY <1>2 DEF Live, Relay
<1>4. /\ fats' \in [FDTs -> 0..Most] /\ KeepsRange /\ KeepsFats
      /\ \A f \in FDTs \ {s, t} : fats'[f] = fats[f]
  <2>1. CASE UNCHANGED fats
    BY <1>1, <1>3, <2>1 DEF TypeOK, KeepsRange, KeepsFats, InRange, Most
  <2>2. CASE MayGive(s) /\ MayTake(t) /\ Transfer(s, t, 1)
    BY <1>1, <1>3, <2>2, MoveOne
  <2> QED
    BY <1>2, <2>1, <2>2
<1>5. /\ wing' \in [FDTs -> Layouts]
      /\ \A f \in {s, t} : Placed(wing'[f]) = fats'[f]
      /\ \A f \in FDTs \ {s, t} : wing'[f] = wing[f]
  BY <1>1, <1>2, <1>3, <1>4, Renumbered
<1>6. TypeOK'
  BY <1>1, <1>4, <1>5, RestTyped DEF TypeOK, Relay
<1>7. WingsCarryFats'
  BY <1>1, <1>4, <1>5 DEF WingsCarryFats, Relay
<1>8. Offered'
  BY DEF Relay, Offered
<1> QED
  BY <1>4, <1>6, <1>7, <1>8 DEF IInv

LEMMA BorrowStep ==
  ASSUME IInv, Borrow
  PROVE  IInv' /\ KeepsRange /\ KeepsFats
<1>1. TypeOK
  BY DEF IInv
<1>2. PICK r \in Short \ flagged, d \in Live :
        /\ MayGive(d)
        /\ \E n \in 1..Smaller(Least - fats[r], fats[d] - Least) : Transfer(d, r, n)
  BY DEF Borrow
<1>3. fats \in [FDTs -> 0..Most] /\ Least \in Nat \ {0} /\ Most \in Nat /\ Least < Most
  BY <1>1, Bounds DEF TypeOK
<1>4. r \in FDTs /\ d \in FDTs /\ fats[r] > 0 /\ fats[r] < Least /\ fats[d] > Least
  BY <1>2 DEF Short, Live, MayGive
<1> HIDE DEF Least, Most
<1>5. PICK n \in Nat :
        n <= Least - fats[r] /\ n <= fats[d] - Least /\ Transfer(d, r, n)
  BY <1>2, <1>3, <1>4 DEF Smaller
<1>6. r # d
  BY <1>3, <1>4
<1>7. /\ fats' \in [FDTs -> 0..Most]
      /\ fats'[d] = fats[d] - n /\ fats'[r] = fats[r] + n
      /\ \A f \in FDTs \ {d, r} : fats'[f] = fats[f]
      /\ Load(fats') = Load(fats)
  <2>1. n <= fats[d] /\ fats[r] + n <= Most
    BY <1>3, <1>4, <1>5
  <2> QED
    BY <1>1, <1>2, <1>4, <1>5, <1>6, <2>1, Transferred
<1>8. KeepsRange
  BY <1>3, <1>4, <1>5, <1>7 DEF KeepsRange, InRange
<1>9. TypeOK'
  BY <1>1, <1>7, RestTyped DEF TypeOK, Borrow
<1>10. KeepsFats
  BY <1>3, <1>4, <1>7 DEF KeepsFats
<1> QED
  BY <1>8, <1>9, <1>10 DEF IInv, Borrow, WingsCarryFats, Offered, Repairing, Settling

(* A deal keeps every FDT within its maximum and loses no FAT.  Whoever is dealt
   to is of full size after an exact deal, and all but one after any other. *)
LEMMA DealStep ==
  ASSUME TypeOK, NEW v \in Short, NEW pool \in Pools(v), Deal(pool)
  PROVE  /\ fats' \in [FDTs -> 0..Most] /\ UNCHANGED stage
         /\ Load(fats') = Load(fats) /\ \A f \in FDTs : fats[f] = 0 => fats'[f] = 0
         /\ \A f \in FDTs : (\A i \in 1..Len(pool) : pool[i] # f) => fats'[f] = fats[f]
         /\ Fits(pool) =>
              \A i \in 1..Len(pool) : fats'[pool[i]] = 0 \/ fats'[pool[i]] \in Least..Most
         /\ ~Fits(pool) =>
              \E k \in 1..Len(pool) : \A i \in 1..Len(pool) :
                i = k \/ fats'[pool[i]] = 0 \/ fats'[pool[i]] = Most
<1> DEFINE L == Len(pool)
<1>1. PICK n \in 1..total : n = Held(pool) /\ \E sizes \in Deals(n) : DealOut(pool, sizes)
  BY DEF Deal
<1>2. PICK sizes \in Deals(n) : DealOut(pool, sizes)
  BY <1>1
<1> DEFINE k == Len(sizes)
<1>3. n \in Nat \ {0} /\ n = Held(pool) /\ pons \in 1..2
  BY <1>1 DEF TypeOK
<1>4. /\ k \in Nat \ {0} /\ sizes \in [1..k -> 0..Most] /\ Load(sizes) = n
      /\ Exact(n, Least, Most) => \A i \in 1..k : sizes[i] \in Least..Most
      /\ ~Exact(n, Least, Most) => \A i \in 1..(k - 1) : sizes[i] = Most
  BY <1>3, DealSum
<1>5. v \in Live /\ Live \subseteq FDTs
  BY DEF Short, Live
<1>6. /\ L \in Nat \ {0} /\ pool \in [1..L -> FDTs]
      /\ \A i \in 1..L : \A j \in 1..L : pool[i] = pool[j] => i = j
      /\ \A i \in 1..L : fats[pool[i]] > 0
  <2>1. /\ L \in Nat \ {0} /\ pool \in [1..L -> Live]
        /\ \A i \in 1..L : \A j \in 1..L : pool[i] = pool[j] => i = j
    BY <1>5, PoolShape
  <2> QED
    BY <1>5, <2>1 DEF Live
<1>7. k <= L
  BY <1>3, PoolRoom
<1> HIDE DEF L, k
<1>8. UNCHANGED stage /\ fats' = DealtSize(pool, sizes)
  <2>1. ~(k > L)
    BY <1>4, <1>6, <1>7
  <2> QED
    BY <1>2, <2>1, Zenon DEF DealOut, DealtSize, k, L
<1>9. PoolDeal(L, pool, k, sizes)
  BY <1>4, <1>6, <1>7 DEF PoolDeal
<1>10. /\ fats' \in [FDTs -> 0..Most]
       /\ \A i \in 1..L : fats'[pool[i]] = IF i \in 1..k THEN sizes[i] ELSE 0
       /\ \A f \in FDTs : (\A i \in 1..L : pool[i] # f) => fats'[f] = fats[f]
  <2> DEFINE g == DealtSize(pool, sizes)
  <2>1. /\ g \in [FDTs -> 0..Most]
        /\ \A i \in 1..L : g[pool[i]] = IF i \in 1..k THEN sizes[i] ELSE 0
        /\ \A f \in FDTs : (\A i \in 1..L : pool[i] # f) => g[f] = fats[f]
    <3>1. DealtBy(g, L, pool, k, sizes)
      BY ONLY TypeOK, <1>9, DealtSizes
    <3> HIDE DEF g
    <3> QED
      BY <3>1 DEF DealtBy
  <2> HIDE DEF g
  <2>2. fats' = g
    BY <1>8 DEF g
  <2> QED
    BY <2>1, <2>2, Zenon
<1>11. Load(fats') = Load(fats)
  BY <1>3, <1>4, <1>8, <1>9, DealtSum
<1>12. ASSUME NEW f \in FDTs, fats[f] = 0
       PROVE  fats'[f] = 0
  BY <1>6, <1>10, <1>12
<1>13. Fits(pool) <=> Exact(n, Least, Most)
  BY <1>3 DEF Fits
<1>14. ASSUME Exact(n, Least, Most), NEW i \in 1..L
       PROVE  fats'[pool[i]] = 0 \/ fats'[pool[i]] \in Least..Most
  BY <1>4, <1>10, <1>14
<1>15. ASSUME ~Exact(n, Least, Most), NEW i \in 1..L, i # k
       PROVE  fats'[pool[i]] = 0 \/ fats'[pool[i]] = Most
  BY <1>4, <1>10, <1>15
<1>16. k \in 1..L
  BY <1>4, <1>6, <1>7
<1> QED
  BY <1>8, <1>10, <1>11, <1>12, <1>13, <1>14, <1>15, <1>16 DEF L

LEMMA PoolStep ==
  ASSUME IInv, Pool \/ LastResort
  PROVE  IInv' /\ KeepsRange /\ KeepsFats
<1>1. TypeOK
  BY DEF IInv
<1>2. PICK v \in Short : \E pool \in Pools(v) : Deal(pool)
  BY DEF Pool, LastResort, Smallest
<1>3. PICK pool \in Pools(v) : Deal(pool)
  BY <1>2
<1>4. /\ fats' \in [FDTs -> 0..Most] /\ UNCHANGED stage
      /\ Load(fats') = Load(fats) /\ \A f \in FDTs : fats[f] = 0 => fats'[f] = 0
  BY <1>1, <1>3, DealStep
<1>5. stage \in {"pool", "last"} /\ stage' \in Stages
  BY <1>4 DEF Pool, LastResort, Stages
<1>6. /\ UNCHANGED <<pons, total, wing, flagged, linked, left, swapped, before>>
      /\ blocked' \subseteq FDTs
      /\ tries < MaxRebalances /\ tries' = tries + 1
  BY <1>1 DEF Pool, LastResort, TypeOK
<1>7. tries' \in 0..MaxRebalances
  BY <1>1, <1>6, ProfileAssumption DEF TypeOK
<1>8. TypeOK'
  BY <1>1, <1>4, <1>5, <1>6, <1>7, RestTyped DEF TypeOK
<1> QED
  BY <1>4, <1>5, <1>8 DEF IInv, WingsCarryFats, Offered, KeepsRange, KeepsFats, Repairing, Settling

(* All FDTs are cut into wings again, after their sizes changed or not. *)
LEMMA RenumberAll ==
  ASSUME TypeOK, UNCHANGED <<pons, total, before>>, stage' \in Stages,
         fats' \in [FDTs -> 0..Most], NEW split \in {AnySplit, EvenSplit}, Renumber(FDTs, split),
         flagged' \subseteq FDTs, linked' \subseteq FDTs, left' \subseteq FDTs,
         blocked' \subseteq FDTs, tries' \in 0..MaxRebalances, swapped' \in BOOLEAN
  PROVE  TypeOK' /\ WingsCarryFats'
<1>1. wing' \in [FDTs -> Layouts] /\ \A f \in FDTs : Placed(wing'[f]) = fats'[f]
  BY Renumbered
<1>2. TypeOK'
  BY <1>1 DEF TypeOK, Most
<1> QED
  BY <1>1, <1>2 DEF WingsCarryFats

LEMMA FlagStep ==
  ASSUME IInv, Flag
  PROVE  IInv' /\ KeepsRange /\ KeepsFats
<1>1. TypeOK
  BY DEF IInv
<1>2. /\ stage = "last" /\ stage' = "boundary" /\ tries' = 0 /\ linked' = {}
      /\ UNCHANGED <<fats, pons, total, blocked, left, swapped, before>>
      /\ Renumber(FDTs, EvenSplit)
  BY DEF Flag
<1>3. flagged' \subseteq FDTs
  BY <1>1 DEF Flag, TypeOK, Short, Live
<1>4. stage' \in Stages
  BY <1>2 DEF Stages
<1>5. fats' \in [FDTs -> 0..Most] /\ tries' \in 0..MaxRebalances
  BY <1>1, <1>2, ProfileAssumption DEF TypeOK
<1>6. TypeOK' /\ WingsCarryFats'
  BY <1>1, <1>2, <1>3, <1>4, <1>5, RenumberAll DEF TypeOK
<1> QED
  BY <1>2, <1>6 DEF IInv, KeepsRange, KeepsFats, Offered

LEMMA BoundaryStep ==
  ASSUME IInv, Boundary
  PROVE  IInv' /\ KeepsRange /\ KeepsFats
<1>1. TypeOK
  BY DEF IInv
<1>2. PICK s \in Live, t \in Live : s # t /\ MayGive(s) /\ MayTake(t) /\ Transfer(s, t, 1)
  BY DEF Boundary
<1>3. fats' \in [FDTs -> 0..Most] /\ KeepsRange /\ KeepsFats
  BY <1>1, <1>2, MoveOne DEF Boundary, Live
<1>4. TypeOK'
  BY <1>1, <1>3, RestTyped DEF Boundary, TypeOK
<1> QED
  BY <1>3, <1>4 DEF IInv, Boundary, WingsCarryFats, Offered, Repairing, Settling

LEMMA AssignStep ==
  ASSUME IInv, AssignWings
  PROVE  IInv' /\ KeepsRange /\ KeepsFats
<1>1. TypeOK
  BY DEF IInv
<1>2. stage' \in Stages /\ UNCHANGED fats /\ UNCHANGED pons
  BY DEF AssignWings, Stages, Repairing
<1>3. TypeOK' /\ WingsCarryFats'
  BY <1>1, <1>2, RenumberAll DEF TypeOK, AssignWings
<1>4. KeepsRange /\ KeepsFats
  BY <1>1, <1>2, Bounds DEF KeepsRange, KeepsFats, InRange, TypeOK
<1> QED
  BY <1>3, <1>4 DEF IInv, Offered, AssignWings

LEMMA RelaxStep ==
  ASSUME IInv, Relax
  PROVE  IInv' /\ KeepsRange /\ KeepsFats
<1>1. TypeOK
  BY DEF IInv
<1>2. PICK s \in Live, t \in Live : s # t /\ Relaxes(s, t) /\ Transfer(s, t, 1)
  BY DEF Relax
<1>3. fats' \in [FDTs -> 0..Most] /\ KeepsRange /\ KeepsFats
  BY <1>1, <1>2, MoveOne DEF Relax, Relaxes, Live
<1>4. TypeOK' /\ WingsCarryFats'
  BY <1>1, <1>3, RenumberAll DEF Relax, TypeOK
<1> QED
  BY <1>3, <1>4 DEF IInv, Offered, Relax

LEMMA AbsorbStep ==
  ASSUME IInv, Absorb
  PROVE  IInv' /\ KeepsRange /\ KeepsFats
<1>1. TypeOK /\ WingsCarryFats
  BY DEF IInv
<1>2. PICK r \in left, d \in FDTs :
        /\ d \in Donors(r)
        /\ \E n \in 0..Smaller(MaxAbsorb, Smaller(Most - fats[r], fats[d] - Least)) :
             Transfer(d, r, n)
        /\ left' = left \ {r}
        /\ Renumber({r, d}, EvenSplit)
  BY DEF Absorb, Donors, Live
<1>3. /\ r \in FDTs /\ d # r /\ fats[r] > 0 /\ fats[r] < Most /\ fats[d] > Least
      /\ UNCHANGED <<stage, pons>> /\ left \subseteq Live
  BY <1>1, <1>2 DEF IInv, Offered, Live, Donors, MayGive, TypeOK, Absorb
<1>4. fats \in [FDTs -> 0..Most] /\ Least \in Nat \ {0} /\ Most \in Nat
  BY <1>1, Bounds DEF TypeOK
<1> HIDE DEF Least, Most
<1>5. PICK n \in Nat : n <= Most - fats[r] /\ n <= fats[d] - Least /\ Transfer(d, r, n)
  BY <1>2, <1>3, <1>4, ProfileAssumption DEF Smaller
<1>6. /\ fats' \in [FDTs -> 0..Most]
      /\ fats'[d] = fats[d] - n /\ fats'[r] = fats[r] + n
      /\ \A f \in FDTs \ {d, r} : fats'[f] = fats[f]
      /\ Load(fats') = Load(fats)
  <2>1. n <= fats[d] /\ fats[r] + n <= Most
    BY <1>3, <1>4, <1>5
  <2> QED
    BY <1>1, <1>3, <1>5, <2>1, Transferred
<1>7. KeepsRange
  BY <1>3, <1>4, <1>5, <1>6 DEF KeepsRange, InRange
<1>8. /\ wing' \in [FDTs -> Layouts]
      /\ \A f \in {r, d} : Placed(wing'[f]) = fats'[f]
      /\ \A f \in FDTs \ {r, d} : wing'[f] = wing[f]
  BY <1>1, <1>2, <1>3, <1>6, Renumbered
<1>9. TypeOK'
  BY <1>1, <1>2, <1>6, <1>8, RestTyped DEF TypeOK, Absorb
<1>10. WingsCarryFats'
  BY <1>1, <1>6, <1>8 DEF WingsCarryFats, Absorb, Repairing
<1>11. KeepsFats /\ \A f \in FDTs : fats[f] > 0 => fats'[f] > 0
  BY <1>3, <1>4, <1>5, <1>6 DEF KeepsFats
<1>12. Offered'
  BY <1>2, <1>3, <1>11 DEF Offered, Live
<1> QED
  BY <1>7, <1>9, <1>10, <1>11, <1>12 DEF IInv

LEMMA LinkStep ==
  ASSUME IInv, Cascade \/ Validate
  PROVE  IInv' /\ KeepsRange /\ KeepsFats
<1>1. TypeOK /\ WingsCarryFats
  BY DEF IInv
<1>2. stage \in Repairing \cup Settling /\ stage' \in Stages
  BY DEF Cascade, Validate, Repairing, Settling, Stages
<1>3. UNCHANGED fats
  BY <1>1, <1>2 DEF Cascade, Validate, LinkAll, WingsCarryFats, TypeOK
<1>4. UNCHANGED <<pons, total, wing, flagged, blocked, tries, left, before>>
  BY DEF Cascade, Validate
<1>5. linked' \subseteq FDTs /\ swapped' \in BOOLEAN
  BY <1>1 DEF Cascade, Validate, LinkAll, TypeOK
<1>6. TypeOK'
  BY <1>1, <1>2, <1>3, <1>4, <1>5, RestTyped DEF TypeOK
<1>7. WingsCarryFats'
  BY <1>1, <1>2, <1>3, <1>4 DEF WingsCarryFats
<1>8. KeepsRange /\ KeepsFats
  BY <1>1, <1>3 DEF KeepsRange, KeepsFats, InRange
<1>9. Offered'
  BY DEF Offered, Cascade, Validate
<1> QED
  BY <1>6, <1>7, <1>8, <1>9 DEF IInv

(* A step of the chain repair: the wings and the sizes it leaves agree. *)
LEMMA ChainTyped ==
  ASSUME IInv, Chaining \/ stage \in {"swap", "settle swap"},
         UNCHANGED <<stage, pons, total, flagged, blocked, tries, left, before>>,
         fats' \in [FDTs -> 0..Most], wing' \in [FDTs -> Layouts],
         \A f \in FDTs : Placed(wing'[f]) = fats'[f],
         linked' \subseteq FDTs, swapped' \in BOOLEAN
  PROVE  IInv'
<1>1. TypeOK'
  BY RestTyped DEF IInv, TypeOK
<1> QED
  BY <1>1 DEF IInv, WingsCarryFats, Offered, Chaining

LEMMA Carried ==
  ASSUME IInv, Chaining \/ stage \in {"swap", "settle swap"}
  PROVE  /\ stage \in Repairing \cup Settling
         /\ fats \in [FDTs -> 0..Most] /\ wing \in [FDTs -> Layouts]
         /\ \A f \in FDTs : Placed(wing[f]) = fats[f]
  BY DEF IInv, TypeOK, WingsCarryFats, Chaining, Repairing, Settling

LEMMA WingSwapStep ==
  ASSUME IInv, WingSwap
  PROVE  IInv' /\ KeepsRange /\ KeepsFats
<1>1. TypeOK /\ stage \in {"swap", "settle swap"}
  BY DEF IInv, WingSwap
<1>2. PICK f \in FDTs, a \in Wings, b \in Wings :
        /\ b # a /\ wing[f][a] > 0 /\ linked' = linked \ {f}
        /\ \/ wing[f][b] < MaxWing /\ wing' = [wing EXCEPT ![f] = With(Without(@, a), b)]
           \/ UNCHANGED wing
  BY PonWings DEF WingSwap, Live
<1>3. /\ fats \in [FDTs -> 0..Most] /\ wing \in [FDTs -> Layouts]
      /\ \A g \in FDTs : Placed(wing[g]) = fats[g]
  BY <1>1, Carried
<1>4. wing' \in [FDTs -> Layouts] /\ \A g \in FDTs : Placed(wing'[g]) = fats[g]
  <2>1. CASE UNCHANGED wing
    BY <1>3, <2>1
  <2>2. CASE wing[f][b] < MaxWing /\ wing' = [wing EXCEPT ![f] = With(Without(@, a), b)]
    <3>1. Without(wing[f], a) \in Layouts /\ Placed(Without(wing[f], a)) = Placed(wing[f]) - 1
      BY <1>2, <1>3, TakeOne
    <3>2. Without(wing[f], a)[b] = wing[f][b]
      BY <1>2, <1>3 DEF Without, Layouts
    <3>3. With(Without(wing[f], a), b) \in Inserted(Without(wing[f], a), Wings)
      BY <2>2, <3>2 DEF Inserted
    <3>4. /\ With(Without(wing[f], a), b) \in Layouts
          /\ Placed(With(Without(wing[f], a), b)) = Placed(Without(wing[f], a)) + 1
      BY <3>1, <3>3, PlaceOne
    <3>5. Placed(wing[f]) \in Nat
      BY <1>3, PlacedCounts
    <3> QED
      BY <1>2, <1>3, <2>2, <3>1, <3>4, <3>5
  <2> QED
    BY <1>2, <2>1, <2>2
<1>5. UNCHANGED <<stage, pons, total, fats, flagged, blocked, tries, left, before>>
  BY DEF WingSwap
<1>6. linked' \subseteq FDTs /\ swapped' \in BOOLEAN
  BY <1>1, <1>2 DEF TypeOK, WingSwap
<1>7. IInv'
  BY <1>1, <1>3, <1>4, <1>5, <1>6, ChainTyped
<1>8. KeepsRange /\ KeepsFats
  BY <1>3, <1>5 DEF KeepsRange, KeepsFats, InRange
<1> QED
  BY <1>7, <1>8

LEMMA ReseatStep ==
  ASSUME IInv, Reseat
  PROVE  IInv' /\ KeepsRange /\ KeepsFats
<1>1. TypeOK /\ Chaining
  BY DEF IInv, Reseat
<1>2. PICK s \in FDTs, x \in Wings, y \in Wings :
        /\ wing[s][x] > 0 /\ linked' = linked \ {s}
        /\ With(Without(wing[s], x), y) \in Inserted(Without(wing[s], x), {y})
        /\ wing' = [wing EXCEPT ![s] = With(Without(@, x), y)]
  BY PonWings DEF Reseat, Live
<1>3. /\ fats \in [FDTs -> 0..Most] /\ wing \in [FDTs -> Layouts]
      /\ \A f \in FDTs : Placed(wing[f]) = fats[f]
  BY <1>1, Carried
<1>4. wing' \in [FDTs -> Layouts] /\ \A f \in FDTs : Placed(wing'[f]) = fats[f]
  <2>1. Without(wing[s], x) \in Layouts /\ Placed(Without(wing[s], x)) = Placed(wing[s]) - 1
    BY <1>2, <1>3, TakeOne
  <2>2. /\ With(Without(wing[s], x), y) \in Layouts
        /\ Placed(With(Without(wing[s], x), y)) = Placed(Without(wing[s], x)) + 1
    BY <1>2, <2>1, PlaceOne
  <2>3. Placed(wing[s]) \in Nat
    BY <1>3, PlacedCounts
  <2> QED
    BY <1>2, <1>3, <2>1, <2>2, <2>3
<1>5. UNCHANGED <<stage, pons, total, fats, flagged, blocked, tries, left, swapped, before>>
  BY DEF Reseat
<1>6. linked' \subseteq FDTs /\ swapped' \in BOOLEAN
  BY <1>1, <1>2, <1>5 DEF TypeOK
<1>7. IInv'
  BY <1>1, <1>3, <1>4, <1>5, <1>6, ChainTyped
<1>8. KeepsRange /\ KeepsFats
  BY <1>3, <1>5 DEF KeepsRange, KeepsFats, InRange
<1> QED
  BY <1>7, <1>8

LEMMA HandOverStep ==
  ASSUME IInv, HandOver
  PROVE  IInv' /\ KeepsRange /\ KeepsFats
<1>1. TypeOK /\ Chaining /\ UNCHANGED pons
  BY DEF IInv, HandOver
<1>2. PICK s \in FDTs, x \in Wings, t \in FDTs :
        /\ s # t /\ wing[s][x] > 0 /\ MayGive(s) /\ MayTake(t) /\ Transfer(s, t, 1)
        /\ \E w \in Inserted(wing[t], Pon(x)) :
             wing' = [wing EXCEPT ![s] = Without(@, x), ![t] = w]
        /\ linked' = linked \ {s, t}
  BY DEF HandOver, Live
<1>3. PICK w \in Inserted(wing[t], Pon(x)) :
        wing' = [wing EXCEPT ![s] = Without(@, x), ![t] = w]
  BY <1>2
<1>4. /\ fats \in [FDTs -> 0..Most] /\ wing \in [FDTs -> Layouts]
      /\ \A f \in FDTs : Placed(wing[f]) = fats[f]
  BY <1>1, Carried
<1>5. /\ fats' \in [FDTs -> 0..Most]
      /\ fats'[s] = fats[s] - 1 /\ fats'[t] = fats[t] + 1
      /\ \A f \in FDTs \ {s, t} : fats'[f] = fats[f]
      /\ KeepsRange /\ KeepsFats
  BY <1>1, <1>2, MoveOne
<1>6. wing' \in [FDTs -> Layouts] /\ \A f \in FDTs : Placed(wing'[f]) = fats'[f]
  <2>1. Without(wing[s], x) \in Layouts /\ Placed(Without(wing[s], x)) = Placed(wing[s]) - 1
    BY <1>2, <1>4, TakeOne
  <2>2. w \in Layouts /\ Placed(w) = Placed(wing[t]) + 1
    BY <1>4, PonWings, PlaceOne
  <2> QED
    BY <1>2, <1>3, <1>4, <1>5, <2>1, <2>2
<1>7. UNCHANGED <<stage, pons, total, flagged, blocked, tries, left, swapped, before>>
  BY DEF HandOver
<1>8. linked' \subseteq FDTs /\ swapped' \in BOOLEAN
  BY <1>1, <1>2, <1>7 DEF TypeOK
<1>9. IInv'
  BY <1>1, <1>5, <1>6, <1>7, <1>8, ChainTyped
<1> QED
  BY <1>5, <1>9

LEMMA ExchangeStep ==
  ASSUME IInv, Exchange
  PROVE  IInv' /\ KeepsRange /\ KeepsFats
<1>1. TypeOK /\ Chaining
  BY DEF IInv, Exchange
<1>2. PICK s \in FDTs, x \in Wings, y \in Wings, t \in FDTs :
        /\ s # t /\ wing[s][x] > 0 /\ wing[t][y] > 0
        /\ \E ws \in Inserted(Without(wing[s], x), Pon(y)),
              wt \in Inserted(Without(wing[t], y), Pon(x)) :
             wing' = [wing EXCEPT ![s] = ws, ![t] = wt]
        /\ linked' = linked \ {s, t}
  BY DEF Exchange, Live
<1>3. PICK ws \in Inserted(Without(wing[s], x), Pon(y)),
           wt \in Inserted(Without(wing[t], y), Pon(x)) :
        wing' = [wing EXCEPT ![s] = ws, ![t] = wt]
  BY <1>2
<1>4. /\ fats \in [FDTs -> 0..Most] /\ wing \in [FDTs -> Layouts]
      /\ \A f \in FDTs : Placed(wing[f]) = fats[f]
  BY <1>1, Carried
<1>5. wing' \in [FDTs -> Layouts] /\ \A f \in FDTs : Placed(wing'[f]) = fats[f]
  <2>1. Without(wing[s], x) \in Layouts /\ Placed(Without(wing[s], x)) = Placed(wing[s]) - 1
    BY <1>2, <1>4, TakeOne
  <2>2. Without(wing[t], y) \in Layouts /\ Placed(Without(wing[t], y)) = Placed(wing[t]) - 1
    BY <1>2, <1>4, TakeOne
  <2>3. ws \in Layouts /\ Placed(ws) = Placed(wing[s]) - 1 + 1
    BY <2>1, PonWings, PlaceOne
  <2>4. wt \in Layouts /\ Placed(wt) = Placed(wing[t]) - 1 + 1
    BY <2>2, PonWings, PlaceOne
  <2>5. Placed(wing[s]) \in Nat /\ Placed(wing[t]) \in Nat
    BY <1>4, PlacedCounts
  <2>6. Placed(ws) = Placed(wing[s]) /\ Placed(wt) = Placed(wing[t])
    BY <2>3, <2>4, <2>5
  <2> QED
    BY <1>2, <1>3, <1>4, <2>3, <2>4, <2>6
<1>6. UNCHANGED <<stage, pons, total, fats, flagged, blocked, tries, left, swapped, before>>
  BY DEF Exchange
<1>7. linked' \subseteq FDTs /\ swapped' \in BOOLEAN
  BY <1>1, <1>2, <1>6 DEF TypeOK
<1>8. IInv'
  BY <1>1, <1>4, <1>5, <1>6, <1>7, ChainTyped
<1>9. KeepsRange /\ KeepsFats
  BY <1>4, <1>6 DEF KeepsRange, KeepsFats, InRange
<1> QED
  BY <1>8, <1>9

(* A chain of moves gives its last FDT the FAT its first one loses. *)
LEMMA PassedOn ==
  ASSUME pons \in 1..2, NEW s \in FDTs, NEW x \in Wings,
         NEW held \in [FDTs -> 0..Most], NEW ws \in [FDTs -> Layouts],
         \A f \in FDTs : Placed(ws[f]) = held[f],
         ws[s][x] > 0, linked \subseteq FDTs, s \in Live, PassOn(s, x, held, ws)
  PROVE  /\ fats' \in [FDTs -> 0..Most] /\ wing' \in [FDTs -> Layouts]
         /\ linked' \subseteq FDTs
         /\ \A f \in FDTs : Placed(wing'[f]) = fats'[f]
         /\ fats'[s] = held[s] - 1
         /\ \A f \in FDTs \ {s} :
              fats'[f] = held[f] \/ (f \in Live /\ fats'[f] = held[f] + 1)
         /\ Load(fats') = Load(held)
<1>1. PICK t \in Live : \E mid \in SUBSET FDTs :
        /\ t # s /\ held[t] < Most /\ s \notin mid /\ t \notin mid
        /\ \E w \in Inserted(ws[t], Pon(x)),
              via \in [mid -> UNION {Replaced(ws[f], Pon(x)) : f \in mid}] :
             /\ \A f \in mid : via[f] \in Replaced(ws[f], Pon(x))
             /\ wing' = [f \in FDTs |-> IF f = s THEN Without(ws[f], x)
                                        ELSE IF f = t THEN w
                                        ELSE IF f \in mid THEN via[f] ELSE ws[f]]
             /\ fats' = [held EXCEPT ![s] = @ - 1, ![t] = @ + 1]
             /\ linked' = (linked \ {s, t}) \ mid
  BY DEF PassOn
<1>2. t \in FDTs
  BY DEF Live
<1>3. PICK mid \in SUBSET FDTs :
        /\ t # s /\ held[t] < Most /\ s \notin mid /\ t \notin mid
        /\ \E w \in Inserted(ws[t], Pon(x)),
              via \in [mid -> UNION {Replaced(ws[f], Pon(x)) : f \in mid}] :
             /\ \A f \in mid : via[f] \in Replaced(ws[f], Pon(x))
             /\ wing' = [f \in FDTs |-> IF f = s THEN Without(ws[f], x)
                                        ELSE IF f = t THEN w
                                        ELSE IF f \in mid THEN via[f] ELSE ws[f]]
             /\ fats' = [held EXCEPT ![s] = @ - 1, ![t] = @ + 1]
             /\ linked' = (linked \ {s, t}) \ mid
  BY <1>1
<1>4. PICK w \in Inserted(ws[t], Pon(x)),
           via \in [mid -> UNION {Replaced(ws[f], Pon(x)) : f \in mid}] :
        /\ \A f \in mid : via[f] \in Replaced(ws[f], Pon(x))
        /\ wing' = [f \in FDTs |-> IF f = s THEN Without(ws[f], x)
                                   ELSE IF f = t THEN w
                                   ELSE IF f \in mid THEN via[f] ELSE ws[f]]
        /\ fats' = [held EXCEPT ![s] = @ - 1, ![t] = @ + 1]
        /\ linked' = (linked \ {s, t}) \ mid
  BY <1>3
<1>5. Most \in Nat
  BY Bounds
<1> HIDE DEF Most
<1>6. Without(ws[s], x) \in Layouts /\ Placed(Without(ws[s], x)) = held[s] - 1
  BY TakeOne
<1>7. w \in Layouts /\ Placed(w) = held[t] + 1
  BY <1>2, PonWings, PlaceOne
<1>8. ASSUME NEW f \in mid
      PROVE  via[f] \in Layouts /\ Placed(via[f]) = held[f]
  <2>1. Pon(x) \in SUBSET Wings /\ ws[f] \in Layouts /\ f \in FDTs
    BY PonWings
  <2> QED
    BY <1>4, <2>1, ReplaceOne
<1>9. held[s] - 1 \in 0..Most
  <2>1. Placed(Without(ws[s], x)) \in Nat
    BY <1>6, PlacedCounts
  <2> QED
    BY <1>5, <1>6, <2>1
<1>10. held[t] + 1 \in 0..Most
  BY <1>2, <1>3, <1>5
<1>11. /\ fats' \in [FDTs -> 0..Most] /\ fats'[s] = held[s] - 1 /\ fats'[t] = held[t] + 1
       /\ \A f \in FDTs \ {s, t} : fats'[f] = held[f]
  BY <1>2, <1>3, <1>4, <1>9, <1>10
<1>12. wing' \in [FDTs -> Layouts]
  <2>1. ASSUME NEW f \in FDTs
        PROVE  (IF f = s THEN Without(ws[f], x) ELSE IF f = t THEN w
                ELSE IF f \in mid THEN via[f] ELSE ws[f]) \in Layouts
    BY <1>6, <1>7, <1>8
  <2> QED
    BY <1>4, <2>1
<1>13. ASSUME NEW f \in FDTs
       PROVE  Placed(wing'[f]) = fats'[f]
  <2>1. wing'[f] = IF f = s THEN Without(ws[f], x) ELSE IF f = t THEN w
                   ELSE IF f \in mid THEN via[f] ELSE ws[f]
    BY <1>4
  <2> QED
    BY <1>3, <1>6, <1>7, <1>8, <1>11, <2>1
<1>14. Load(fats') = Load(held)
  <2>1. held \in [FDTs -> Nat] /\ fats' \in [FDTs -> Nat]
    BY <1>5, <1>11
  <2>2. 1 \in Nat /\ s # t
    BY <1>3
  <2> QED
    BY <1>11, <1>2, <2>1, <2>2, JobAssumption, LoadMoved
<1> QED
  BY <1>2, <1>4, <1>11, <1>12, <1>13, <1>14

LEMMA CascadeRelayStep ==
  ASSUME IInv, CascadeRelay
  PROVE  IInv' /\ KeepsRange /\ KeepsFats
<1>1. TypeOK /\ Chaining /\ pons \in 1..2 /\ linked \subseteq FDTs
  BY DEF IInv, TypeOK, CascadeRelay
<1>2. PICK s \in FDTs, x \in Wings :
        s \in Live /\ wing[s][x] > 0 /\ fats[s] > Least /\ PassOn(s, x, fats, wing)
  BY DEF CascadeRelay, Live, MayGive
<1>3. /\ fats \in [FDTs -> 0..Most] /\ wing \in [FDTs -> Layouts]
      /\ \A f \in FDTs : Placed(wing[f]) = fats[f]
  BY <1>1, Carried
<1>4. /\ fats' \in [FDTs -> 0..Most] /\ wing' \in [FDTs -> Layouts]
      /\ linked' \subseteq FDTs
      /\ \A f \in FDTs : Placed(wing'[f]) = fats'[f]
      /\ fats'[s] = fats[s] - 1
      /\ \A f \in FDTs \ {s} :
           fats'[f] = fats[f] \/ (f \in Live /\ fats'[f] = fats[f] + 1)
      /\ Load(fats') = Load(fats)
  BY <1>1, <1>2, <1>3, PassedOn
<1>5. UNCHANGED <<stage, pons, total, flagged, blocked, tries, left, swapped, before>>
  BY DEF CascadeRelay
<1>6. IInv'
  <2>1. swapped' \in BOOLEAN
    BY <1>1, <1>5 DEF TypeOK
  <2> QED
    BY <1>1, <1>4, <1>5, <2>1, ChainTyped
<1>7. Least \in Nat /\ Most \in Nat
  BY <1>1, Bounds
<1> HIDE DEF Least, Most
<1>8. KeepsRange
  BY <1>2, <1>3, <1>4, <1>7 DEF KeepsRange, InRange
<1>9. KeepsFats
  BY <1>2, <1>3, <1>4, <1>7 DEF KeepsFats, Live
<1> QED
  BY <1>6, <1>8, <1>9

LEMMA BackfillStep ==
  ASSUME IInv, Backfill
  PROVE  IInv' /\ KeepsRange /\ KeepsFats
<1>1. TypeOK /\ Chaining /\ pons \in 1..2 /\ linked \subseteq FDTs
  BY DEF IInv, TypeOK, Backfill
<1>2. PICK s \in FDTs, x \in Wings, y \in Wings, d \in FDTs :
        /\ s \in Live /\ d # s /\ wing[s][x] > 0 /\ ~(fats[s] > Least) /\ fats[d] > Least /\ wing[d][y] > 0
        /\ \E w \in Inserted(wing[s], Pon(y)) :
             LET held == [fats EXCEPT ![s] = @ + 1, ![d] = @ - 1]
                 ws == [wing EXCEPT ![s] = w, ![d] = Without(@, y)]
             IN \/ PassOn(s, x, held, ws)
                \/ wing' = ws /\ fats' = held /\ linked' = linked \ {s, d}
  BY ZenonT(60) DEF Backfill, Live, MayGive
<1>3. PICK w \in Inserted(wing[s], Pon(y)) :
        LET held == [fats EXCEPT ![s] = @ + 1, ![d] = @ - 1]
            ws == [wing EXCEPT ![s] = w, ![d] = Without(@, y)]
        IN \/ PassOn(s, x, held, ws)
           \/ wing' = ws /\ fats' = held /\ linked' = linked \ {s, d}
  BY <1>2
<1> DEFINE held == [fats EXCEPT ![s] = @ + 1, ![d] = @ - 1]
           ws == [wing EXCEPT ![s] = w, ![d] = Without(@, y)]
<1>4. /\ fats \in [FDTs -> 0..Most] /\ wing \in [FDTs -> Layouts]
      /\ \A f \in FDTs : Placed(wing[f]) = fats[f]
  BY <1>1, Carried
<1>5. Least \in Nat \ {0} /\ Most \in Nat /\ Least < Most
  BY <1>1, Bounds
<1> HIDE DEF Least, Most
<1>6. w \in Layouts /\ Placed(w) = fats[s] + 1 /\ w[x] > 0
  <2>1. w \in Layouts /\ Placed(w) = fats[s] + 1
    BY <1>4, PonWings, PlaceOne
  <2>2. PICK z \in Pon(y) : w = With(wing[s], z)
    BY DEF Inserted
  <2>3. z \in Wings
    BY PonWings
  <2>4. w[x] > 0
    <3>1. wing[s][x] \in Nat /\ wing[s][z] \in Nat
      BY <1>4, <2>3, ProfileAssumption DEF Layouts
    <3>2. w[x] = IF x = z THEN wing[s][x] + 1 ELSE wing[s][x]
      BY <1>4, <2>2 DEF With, Layouts
    <3> QED
      BY <1>2, <3>1, <3>2
  <2> QED
    BY <2>1, <2>4
<1>7. Without(wing[d], y) \in Layouts /\ Placed(Without(wing[d], y)) = fats[d] - 1
  BY <1>2, <1>4, TakeOne
<1>8. held \in [FDTs -> 0..Most]
  BY <1>2, <1>4, <1>5
<1>9. ws \in [FDTs -> Layouts] /\ \A f \in FDTs : Placed(ws[f]) = held[f]
  BY <1>2, <1>4, <1>6, <1>7
<1>10. ws[s][x] > 0
  BY <1>2, <1>4, <1>6
<1>11. PassOn(s, x, held, ws) \/ (wing' = ws /\ fats' = held /\ linked' = linked \ {s, d})
  BY <1>3
<1>12. /\ held[s] = fats[s] + 1 /\ held[d] = fats[d] - 1
       /\ \A f \in FDTs \ {s, d} : held[f] = fats[f]
  BY <1>2, <1>4
<1> HIDE DEF held, ws
<1>13. /\ fats' \in [FDTs -> 0..Most] /\ wing' \in [FDTs -> Layouts]
       /\ linked' \subseteq FDTs
       /\ \A f \in FDTs : Placed(wing'[f]) = fats'[f]
       /\ fats'[s] = held[s] - 1 \/ fats'[s] = held[s]
       /\ \A f \in FDTs \ {s} :
            fats'[f] = held[f] \/ (f \in Live /\ fats'[f] = held[f] + 1)
       /\ Load(fats') = Load(held)
  <2>1. CASE PassOn(s, x, held, ws)
    BY <1>1, <1>2, <1>8, <1>9, <1>10, <2>1, PassedOn
  <2>2. CASE wing' = ws /\ fats' = held /\ linked' = linked \ {s, d}
    BY <1>1, <1>8, <1>9, <2>2
  <2> QED
    BY <1>11, <2>1, <2>2
<1>14. UNCHANGED <<stage, pons, total, flagged, blocked, tries, left, swapped, before>>
  BY DEF Backfill
<1>15. IInv'
  <2>1. swapped' \in BOOLEAN
    BY <1>1, <1>14 DEF TypeOK
  <2> QED
    BY <1>1, <1>13, <1>14, <2>1, ChainTyped
<1>16. KeepsRange
  <2>1. ASSUME NEW f \in FDTs, fats[f] \in Least..Most
        PROVE  fats'[f] \in Least..Most
    <3>1. CASE f = s
      BY <1>2, <1>4, <1>5, <1>12, <1>13, <2>1, <3>1
    <3>2. CASE f # s
      BY <1>2, <1>4, <1>5, <1>12, <1>13, <2>1, <3>2
    <3> QED
      BY <3>1, <3>2
  <2> QED
    BY <2>1 DEF KeepsRange, InRange
<1>17. KeepsFats
  <2>1. Load(held) = Load(fats)
    <3>1. fats \in [FDTs -> Nat] /\ held \in [FDTs -> Nat]
      BY <1>4, <1>5, <1>8
    <3>2. 1 \in Nat /\ fats[s] \in Nat /\ held[d] = fats[d] - 1 /\ held[s] = fats[s] + 1
      BY <1>12, <3>1
    <3>3. \A f \in FDTs \ {d, s} : held[f] = fats[f]
      BY <1>12
    <3> QED
      BY <1>2, <3>1, <3>2, <3>3, JobAssumption, LoadMoved
  <2>2. ASSUME NEW f \in FDTs, fats[f] = 0
        PROVE  fats'[f] = 0
    <3>1. f # s /\ f # d /\ f \notin Live
      BY <1>2, <1>4, <1>5, <2>2 DEF Live
    <3> QED
      BY <1>12, <1>13, <2>2, <3>1
  <2> QED
    BY <1>13, <2>1, <2>2 DEF KeepsFats
<1> QED
  BY <1>15, <1>16, <1>17

LEMMA Step == IInv /\ [Next]_vars => IInv' /\ KeepsRange /\ KeepsFats
<1> SUFFICES ASSUME IInv, [Next]_vars PROVE IInv' /\ KeepsRange /\ KeepsFats
  OBVIOUS
<1> QED
  BY QuietSteps, GenerateStep, RelayStep, BorrowStep, PoolStep, FlagStep, BoundaryStep,
     AssignStep, RelaxStep, AbsorbStep, LinkStep, WingSwapStep, ReseatStep, HandOverStep,
     ExchangeStep, CascadeRelayStep, BackfillStep DEF Next

LEMMA Inductive == Spec => []IInv
<1>1. IInv /\ [Next]_vars => IInv'
  BY Step
<1> QED
  BY <1>1, InitInv, PTL DEF Spec

-----------------------------------------------------------------------------
(* Every FAT has its place, and who is short after the rebalancing. *)

Balanced == {"boundary"} \cup Repairing \cup Settling

AllPlaced == stage # "generate" => Load(fats) = total

(* The last resort makes one FDT less short in each of its iterations, or
   leaves no more than one short at once. *)
LastCount ==
  stage = "last" => Cardinality(Short) <= 1 \/ Cardinality(Short) + tries <= Cardinality(FDTs)

(* There are iterations enough to help every FDT but one. *)
EnoughTries == Cardinality(FDTs) <= MaxRebalances + 1

Excused == stage \in Balanced => Cardinality(Short) <= 1 /\ Short \subseteq flagged

FInv ==
  /\ IInv /\ AllPlaced /\ stage # "overflow" /\ LastCount
  /\ EnoughTries => Excused /\ stage # "short"

(* A step that keeps full-sized FDTs so and dissolved ones makes none short. *)
LEMMA ShortShrinks ==
  ASSUME IInv, UNCHANGED pons, KeepsRange, KeepsFats, stage \notin {"generate", "pool", "last"},
         fats' \in [FDTs -> 0..Most]
  PROVE  Short' \subseteq Short
<1>1. fats \in [FDTs -> 0..Most] /\ Least \in Nat \ {0} /\ Most \in Nat
  BY Bounds DEF IInv, TypeOK
<1>2. Least' = Least
  BY DEF Least
<1>3. Short' = {f \in FDTs : fats'[f] > 0 /\ fats'[f] < Least'}
  BY DEF Short, Live
<1>4. Short = {f \in FDTs : fats[f] > 0 /\ fats[f] < Least}
  BY DEF Short, Live
<1> HIDE DEF Least, Most
<1>5. ASSUME NEW f \in FDTs, fats'[f] > 0, fats'[f] < Least
      PROVE  fats[f] > 0 /\ fats[f] < Least
  BY <1>1, <1>5 DEF KeepsRange, KeepsFats, InRange
<1> QED
  BY <1>2, <1>3, <1>4, <1>5

(* A deal in the pool of a short FDT: no longer short are that FDT and all it
   was pooled with, or all but one FDT. *)
LEMMA ShortAfterDeal ==
  ASSUME TypeOK, UNCHANGED pons, NEW v \in Short, NEW pool \in Pools(v), Deal(pool),
         Fits(pool) \/ Everyone(pool)
  PROVE  Short' \subseteq Short \ {v} \/ \E x \in FDTs : Short' \subseteq {x}
<1> DEFINE L == Len(pool)
<1>1. /\ fats \in [FDTs -> 0..Most] /\ Least \in Nat \ {0} /\ Most \in Nat /\ Least < Most
      /\ Least' = Least
  BY Bounds DEF TypeOK, Least
<1>2. v \in Live /\ Live \subseteq FDTs
  BY DEF Short, Live
<1>3. L \in Nat \ {0} /\ pool \in [1..L -> FDTs] /\ pool[1] = v
  BY <1>2, PoolShape
<1>4. /\ \A f \in FDTs : (\A i \in 1..L : pool[i] # f) => fats'[f] = fats[f]
      /\ \A f \in FDTs : fats[f] = 0 => fats'[f] = 0
      /\ Fits(pool) =>
           \A i \in 1..L : fats'[pool[i]] = 0 \/ fats'[pool[i]] \in Least..Most
      /\ ~Fits(pool) =>
           \E k \in 1..L : \A i \in 1..L :
             i = k \/ fats'[pool[i]] = 0 \/ fats'[pool[i]] = Most
  BY DealStep
<1>5. /\ Short' = {f \in FDTs : fats'[f] > 0 /\ fats'[f] < Least}
      /\ Short = {f \in FDTs : fats[f] > 0 /\ fats[f] < Least}
  BY <1>1 DEF Short, Live
<1> HIDE DEF Least, Most, L
<1>6. CASE Fits(pool)
  <2>1. ASSUME NEW f \in Short'
        PROVE  f \in Short \ {v}
    <3>1. \A i \in 1..L : pool[i] # f
      BY <1>1, <1>4, <1>5, <1>6, <2>1
    <3>2. 1 \in 1..L
      BY <1>3
    <3> QED
      BY <1>3, <1>4, <1>5, <2>1, <3>1, <3>2
  <2> QED
    BY <2>1
<1>7. CASE ~Fits(pool)
  <2>1. PICK k \in 1..L : \A i \in 1..L :
          i = k \/ fats'[pool[i]] = 0 \/ fats'[pool[i]] = Most
    BY <1>4, <1>7
  <2>2. \A f \in Live : \E i \in 1..L : pool[i] = f
    <3>1. DOMAIN pool = 1..L
      BY <1>3
    <3> QED
      BY <1>7, <3>1 DEF Everyone
  <2>3. ASSUME NEW f \in Short'
        PROVE  f = pool[k]
    <3>1. f \in FDTs /\ fats'[f] > 0 /\ fats'[f] < Least
      BY <1>5, <2>3
    <3>2. f \in Live
      BY <1>1, <1>4, <3>1 DEF Live
    <3>3. PICK i \in 1..L : pool[i] = f
      BY <2>2, <3>2
    <3> QED
      BY <1>1, <2>1, <3>1, <3>3
  <2>4. pool[k] \in FDTs
    BY <1>3
  <2> QED
    BY <2>3, <2>4
<1> QED
  BY <1>6, <1>7

LEMMA FewerShort ==
  ASSUME NEW S, IsFiniteSet(S), NEW T
  PROVE  /\ T \subseteq S => Cardinality(T) <= Cardinality(S)
         /\ \A x \in S : T \subseteq S \ {x} => Cardinality(T) < Cardinality(S)
<1>1. ASSUME T \subseteq S
      PROVE  Cardinality(T) <= Cardinality(S)
  BY <1>1, FS_Subset
<1>2. ASSUME NEW x \in S, T \subseteq S \ {x}
      PROVE  Cardinality(T) < Cardinality(S)
  <2>1. T \subseteq S /\ T # S
    BY <1>2
  <2>2. Cardinality(T) <= Cardinality(S) /\ Cardinality(T) # Cardinality(S)
    BY <2>1, FS_Subset
  <2> QED
    BY <2>1, <2>2, FS_Subset, FS_CardinalityType
<1> QED
  BY <1>1, <1>2

LEMMA AtMostOne ==
  ASSUME NEW x, NEW T, T \subseteq {x}
  PROVE  Cardinality(T) <= 1
<1>1. IsFiniteSet({x}) /\ Cardinality({x}) = 1
  BY FS_Singleton
<1> QED
  BY <1>1, FewerShort

(* The steps of Next that change who is short, or what is excused, stand out. *)
LEMMA PlainSteps ==
  ASSUME IInv, [Next]_vars, ~Flag, ~Pool, ~LastResort, ~Generate
  PROVE  /\ UNCHANGED <<pons, total, flagged>>
         /\ stage # "overflow" => stage' # "overflow"
         /\ stage = "generate" <=> stage' = "generate"
         /\ stage' \in Balanced => stage \in Balanced
         /\ stage' = "last" => UNCHANGED <<stage, tries, fats>> \/ PoolDone
         /\ stage' = "short" => stage = "short" \/ Validate
         /\ stage \in {"pool", "last"} => UNCHANGED fats
<1>1. CASE UNCHANGED vars
  BY <1>1 DEF vars
<1>2. CASE RelayDone \/ BorrowDone \/ Block \/ PoolDone \/ RelaxDone \/ NoDonor
           \/ AbsorbDone \/ SwapDone \/ PassDone \/ Settled \/ Audit \/ CheckGraphs \/ Ended
  BY <1>2 DEF RelayDone, BorrowDone, Block, PoolDone, RelaxDone, NoDonor, AbsorbDone,
     SwapDone, PassDone, Settled, Audit, CheckGraphs, Ended, vars, Balanced, Repairing, Settling
<1>3. CASE Relay \/ Borrow \/ Boundary \/ AssignWings \/ Relax \/ Absorb \/ Cascade \/ Validate
  BY <1>3 DEF Relay, Borrow, Boundary, AssignWings, Relax, Absorb, Cascade, Validate,
     Balanced, Repairing, Settling
<1>4. CASE WingSwap \/ Reseat \/ HandOver \/ Exchange \/ CascadeRelay \/ Backfill
  BY <1>4 DEF WingSwap, Reseat, HandOver, Exchange, CascadeRelay, Backfill, Chaining
<1> QED
  BY <1>1, <1>2, <1>3, <1>4 DEF Next

LEMMA FInit == Init => FInv
<1> SUFFICES ASSUME Init PROVE FInv
  OBVIOUS
<1>1. IInv /\ stage = "generate"
  BY InitInv DEF Init
<1> QED
  BY <1>1 DEF FInv, AllPlaced, LastCount, Excused, Balanced, Repairing, Settling

LEMMA FDeal ==
  ASSUME FInv, Pool \/ LastResort
  PROVE  FInv'
<1>1. IInv /\ TypeOK /\ AllPlaced /\ LastCount /\ stage # "overflow"
  BY DEF FInv, IInv
<1>2. IInv' /\ KeepsFats
  BY <1>1, PoolStep
<1>3. PICK v \in Short : \E pool \in Pools(v) : Deal(pool) /\ (LastResort => Fits(pool) \/ Everyone(pool))
  BY DEF Pool, LastResort, Smallest
<1>4. PICK pool \in Pools(v) : Deal(pool) /\ (LastResort => Fits(pool) \/ Everyone(pool))
  BY <1>3
<1>5. UNCHANGED <<stage, pons, total>> /\ stage \in {"pool", "last"}
  <2>1. UNCHANGED stage
    BY <1>1, <1>4, DealStep
  <2> QED
    BY <2>1 DEF Pool, LastResort
<1>6. AllPlaced'
  BY <1>1, <1>2, <1>5 DEF AllPlaced, KeepsFats
<1>7. LastCount'
  <2>1. SUFFICES ASSUME stage = "last"
                 PROVE  Cardinality(Short') <= 1
                        \/ Cardinality(Short') + tries' <= Cardinality(FDTs)
    BY <1>5 DEF LastCount
  <2>2. LastResort
    BY <2>1 DEF Pool
  <2>3. tries' = tries + 1 /\ tries \in Nat
    BY <1>1, <2>2 DEF LastResort, TypeOK
  <2>4. Cardinality(Short) + tries <= Cardinality(FDTs) /\ Cardinality(Short) > 1
    BY <1>1, <2>1, <2>2, LiveFinite DEF LastCount, LastResort, Several
  <2>5. Short' \subseteq Short \ {v} \/ \E x \in FDTs : Short' \subseteq {x}
    BY <1>1, <1>4, <1>5, <2>2, ShortAfterDeal
  <2>6. CASE Short' \subseteq Short \ {v}
    <3>1. Cardinality(Short') < Cardinality(Short)
      BY <2>6, LiveFinite, FewerShort
    <3>2. Cardinality(Short') \in Nat
      BY <2>6, LiveFinite, FS_Subset, FS_CardinalityType
    <3> QED
      BY <2>3, <2>4, <3>1, <3>2, LiveFinite
  <2>7. CASE \E x \in FDTs : Short' \subseteq {x}
    BY <2>7, AtMostOne
  <2> QED
    BY <2>5, <2>6, <2>7
<1>8. stage' \notin Balanced /\ stage' \notin {"overflow", "short"}
  BY <1>5 DEF Balanced, Repairing, Settling
<1> QED
  BY <1>2, <1>6, <1>7, <1>8 DEF FInv, Excused

LEMMA FFlag ==
  ASSUME FInv, Flag
  PROVE  FInv'
<1>1. IInv /\ TypeOK /\ AllPlaced /\ LastCount
  BY DEF FInv, IInv
<1>2. IInv'
  BY <1>1, FlagStep
<1>3. /\ stage = "last" /\ stage' = "boundary" /\ UNCHANGED <<fats, pons, total>>
      /\ ~Several \/ tries = MaxRebalances
      /\ flagged' = IF Cardinality(Short) = 1 THEN flagged \cup Short ELSE flagged
  BY DEF Flag
<1>4. Short' = Short
  BY <1>3 DEF Short, Live, Least
<1>5. AllPlaced'
  BY <1>1, <1>3 DEF AllPlaced
<1>6. ASSUME EnoughTries
      PROVE  Cardinality(Short') <= 1 /\ Short' \subseteq flagged'
  <2>1. Cardinality(Short) <= 1
    BY <1>1, <1>3, <1>6, LiveFinite, ProfileAssumption DEF LastCount, EnoughTries, Several
  <2>2. CASE Cardinality(Short) = 1
    BY <1>3, <1>4, <2>1, <2>2
  <2>3. CASE Cardinality(Short) = 0
    <3>1. Short = {}
      BY <2>3, LiveFinite, FS_EmptySet
    <3> QED
      BY <1>4, <2>1, <3>1
  <2> QED
    BY <2>1, <2>2, <2>3, LiveFinite
<1> QED
  BY <1>2, <1>3, <1>5, <1>6 DEF FInv, Excused, LastCount

LEMMA FStep == FInv /\ [Next]_vars => FInv'
<1> SUFFICES ASSUME FInv, [Next]_vars PROVE FInv'
  OBVIOUS
<1>1. IInv /\ TypeOK /\ WingsCarryFats /\ AllPlaced /\ stage # "overflow" /\ LastCount
  BY DEF FInv, IInv
<1>2. IInv' /\ KeepsRange /\ KeepsFats
  BY <1>1, Step
<1>3. CASE Pool \/ LastResort
  BY <1>3, FDeal
<1>4. CASE Flag
  BY <1>4, FFlag
<1>5. CASE Generate
  <2>1. Load(fats') = total /\ total' = total /\ stage' = "generated"
    BY <1>5 DEF Generate
  <2> QED
    BY <1>2, <2>1 DEF FInv, AllPlaced, LastCount, Excused, Balanced, Repairing, Settling
<1>6. CASE ~Pool /\ ~LastResort /\ ~Flag /\ ~Generate
  <2>1. /\ UNCHANGED <<pons, total, flagged>>
        /\ stage' # "overflow"
        /\ stage = "generate" <=> stage' = "generate"
        /\ stage' \in Balanced => stage \in Balanced
        /\ stage' = "last" => UNCHANGED <<stage, tries, fats>> \/ PoolDone
        /\ stage' = "short" => stage = "short" \/ Validate
    BY <1>1, <1>6, PlainSteps
  <2>2. AllPlaced'
    BY <1>1, <1>2, <2>1 DEF AllPlaced, KeepsFats
  <2>3. LastCount'
    <3>1. CASE UNCHANGED <<stage, tries, fats>>
      <4>1. Short' = Short
        BY <2>1, <3>1 DEF Short, Live, Least
      <4> QED
        BY <1>1, <3>1, <4>1 DEF LastCount
    <3>2. CASE PoolDone
      <4>1. Short' = Short /\ tries' = 0
        BY <3>2 DEF Short, Live, Least, PoolDone
      <4>2. Short \subseteq FDTs
        BY DEF Short, Live
      <4>3. Cardinality(Short) <= Cardinality(FDTs)
        BY <4>2, LiveFinite, FewerShort
      <4> QED
        BY <4>1, <4>3, LiveFinite DEF LastCount
    <3> QED
      BY <2>1, <3>1, <3>2 DEF LastCount
  <2>4. ASSUME EnoughTries, stage \in Balanced
        PROVE  Cardinality(Short') <= 1 /\ Short' \subseteq flagged'
    <3>1. Cardinality(Short) <= 1 /\ Short \subseteq flagged
      BY <2>4 DEF FInv, Excused
    <3>2. stage \notin {"generate", "pool", "last"}
      BY <2>4 DEF Balanced, Repairing, Settling
    <3>3. fats' \in [FDTs -> 0..Most]
      BY <1>2, <2>1 DEF IInv, TypeOK, Most
    <3>4. Short' \subseteq Short
      BY <1>1, <1>2, <2>1, <3>2, <3>3, ShortShrinks
    <3>5. Cardinality(Short') <= Cardinality(Short) /\ Cardinality(Short') \in Nat
      BY <3>4, LiveFinite, FS_Subset, FS_CardinalityType
    <3> QED
      BY <2>1, <3>1, <3>4, <3>5, LiveFinite
  <2>5. ASSUME EnoughTries, Validate
        PROVE  stage' # "short"
    <3>1. stage = "validate"
      BY <2>5 DEF Validate
    <3>2. stage \in Balanced /\ stage \in Repairing \cup Settling
      BY <3>1 DEF Balanced, Settling
    <3>3. Cardinality(Short) <= 1 /\ Short \subseteq flagged
      BY <2>5, <3>2 DEF FInv, Excused
    <3>4. \A f \in Live : Placed(wing[f]) = fats[f]
      BY <1>1, <3>2 DEF WingsCarryFats, Live
    <3> QED
      BY <2>5, <3>3, <3>4 DEF Validate
  <2>6. EnoughTries => Excused' /\ stage' # "short"
    BY <2>1, <2>4, <2>5 DEF FInv, Excused
  <2> QED
    BY <1>2, <2>1, <2>2, <2>3, <2>6 DEF FInv, EnoughTries
<1> QED
  BY <1>3, <1>4, <1>5, <1>6

LEMMA FInductive == Spec => []FInv
  BY FInit, FStep, PTL DEF Spec

(* Sizes, wings and passes stay within the bounds of the profile, for any
   number of FDTs and FATs: no FDT ever holds more than its maximum. *)
THEOREM TypeCorrect == Spec => []TypeOK
<1>1. IInv => TypeOK
  BY DEF IInv
<1> QED
  BY <1>1, Inductive, PTL

(* From the first wings to the last link, the wings of an FDT carry exactly the
   FATs it holds. *)
THEOREM WingsCarry == Spec => []WingsCarryFats
<1>1. IInv => WingsCarryFats
  BY DEF IInv
<1> QED
  BY <1>1, Inductive, PTL

(* Outside the rebalancing no move takes an FDT out of the range of its
   profile, neither an exchange, nor a chain of moves, nor one that fails. *)
THEOREM RangeKept == Spec => CapacityKept
<1>1. IInv /\ [Next]_vars => [KeepsRange]_vars
  BY Step
<1>2. [KeepsRange]_vars =>
        [stage \notin {"generate", "pool", "last"} =>
           \A f \in FDTs : InRange(fats[f]) => fats'[f] \in Least..Most]_vars
  BY DEF KeepsRange
<1>3. Spec => [][KeepsRange]_vars
  BY <1>1, Inductive, PTL DEF Spec
<1> QED
  BY <1>3, PTL DEF CapacityKept, KeepsRange

(* No FAT is lost or placed twice by a deal, a move or a chain of moves, for
   any number of FDTs and FATs: the sizes always add up to the FATs there are,
   and the wings of each FDT to its size. *)
THEOREM FatsPlaced == Spec => []EveryFatHasAPlace
<1>1. FInv => EveryFatHasAPlace
  BY DEF FInv, IInv, AllPlaced, WingsCarryFats, EveryFatHasAPlace
<1> QED
  BY <1>1, FInductive, PTL

(* The unchecked indexing of _materialize_pool is safe: a pool that grew one
   FDT at a time is never dealt more groups than it has FDTs. *)
THEOREM DealsFit == Spec => []PoolsHoldTheirDeal
<1>1. FInv => PoolsHoldTheirDeal
  BY DEF FInv, PoolsHoldTheirDeal
<1> QED
  BY <1>1, FInductive, PTL

(* With no more FDTs than the rebalancing has iterations, and one, at most one
   of them is short when it ends; it is excused, and the design is not refused
   for it, whatever the later moves. *)
THEOREM OneShort == Spec => [](EnoughTries => OneShortAtMost)
<1>1. FInv => (EnoughTries => OneShortAtMost)
  BY DEF FInv, Excused, Balanced, OneShortAtMost
<1> QED
  BY <1>1, FInductive, PTL

-----------------------------------------------------------------------------
(* From homes to FATs: what groups, FATs and pools serve. *)

Full == {a \in [Homes -> Nat] : Load(a) \in 1..MaxFat}
Of(h) == [a \in Full |-> a[h]]

LEMMA Assumptions ==
  /\ Homes \in SUBSET Nat /\ IsFiniteSet(Homes)
  /\ IsFiniteSet(Roads) /\ Cardinality(Roads) \in Nat /\ Roads = 1..Cardinality(Roads)
  /\ None \notin Roads /\ Coverage \in Nat /\ MaxFatRebalances \in Nat
  /\ MinFat \in Nat \ {0} /\ MaxFat \in Nat \ {0} /\ MinFat <= MaxFat
<1>1. /\ Homes \in SUBSET Nat /\ IsFiniteSet(Homes) /\ IsFiniteSet(Roads)
      /\ Roads = 1..Cardinality(Roads) /\ None \notin Roads /\ Coverage \in Nat
  BY FieldAssumption
<1>2. Cardinality(Roads) \in Nat
  BY <1>1, FS_CardinalityType
<1>3. /\ MaxFatRebalances \in Nat /\ MinFat \in Nat \ {0} /\ MaxFat \in Nat \ {0}
      /\ MinFat <= MaxFat
  BY CapacityAssumption
<1> QED
  BY <1>1, <1>2, <1>3

LEMMA RatedOf == \A h \in Homes : Rated(Of(h), Full) /\ \A a \in Full : Of(h)[a] = a[h]
BY DEF Rated, Of, Full

(* Together the groups of a segment serve its homes, and no others. *)
LEMMA SegmentServed ==
  ASSUME Rated(demand, Homes), NEW segment
  PROVE  /\ ListOf(SegmentClusters(segment), Full)
         /\ \A h \in Homes : SumOver(Of(h), SegmentClusters(segment))
                             = IF h \in segment THEN demand[h] ELSE 0
<1> DEFINE load == [h \in Homes |-> IF h \in segment THEN demand[h] ELSE 0]
           n == Load(load)
           self == [h \in Homes |-> h]
           k == Groups(n, MaxFat)
           sizes == Sizes(n, MinFat, MaxFat)
           s == SegmentClusters(segment)
<1>1. Rated(load, Homes) /\ DOMAIN load = Homes
  BY DEF Rated
<1>2. \A h \in Homes : load[h] = IF h \in segment THEN demand[h] ELSE 0
  OBVIOUS
<1>3. s = Slices(load, self, sizes)
  BY DEF SegmentClusters
<1>4. IsFiniteSet(Homes) /\ Ranked(self, Homes)
  BY Assumptions DEF Ranked
<1> HIDE DEF load, self, s
<1>5. n \in Nat
  BY <1>1, <1>4, LoadCounts DEF Rated
<1>6. k \in Nat /\ Rated(sizes, 1..k) /\ Load(sizes) = n /\ \A i \in 1..k : sizes[i] \in 1..MaxFat
  <2>1. k \in Nat /\ DealsOut(sizes, k, n, MaxFat)
    BY <1>5, Assumptions, SizesDeal
  <2> QED
    BY <2>1 DEF DealsOut
<1> HIDE DEF n, k, sizes
<1>7. Cuts(s, load, k, sizes)
  BY <1>1, <1>3, <1>4, <1>6, Sliced DEF n
<1>8. /\ DOMAIN s = 1..k /\ s = [i \in 1..k |-> s[i]]
      /\ \A i \in 1..k : Rated(s[i], Homes) /\ Load(s[i]) = sizes[i]
  BY <1>1, <1>7 DEF Cuts
<1>9. \A i \in 1..k : s[i] \in Full
  BY <1>6, <1>8 DEF Full, Rated
<1>10. ListOf(s, Full) /\ Len(s) = k
  BY <1>6, <1>8, <1>9, Lists
<1>11. ASSUME NEW h \in Homes
       PROVE  SumOver(Of(h), s) = IF h \in segment THEN demand[h] ELSE 0
  <2> DEFINE got == [i \in 1..k |-> s[i][h]]
  <2>1. Load(got) = load[h]
    BY <1>1, <1>7 DEF Cuts
  <2>2. \A i \in 1..k : Of(h)[s[i]] = s[i][h]
    BY <1>9, RatedOf
  <2>3. Weights(Of(h), s) = got
    BY <1>8, <2>2 DEF Weights
  <2> QED
    BY <1>2, <2>1, <2>3 DEF SumOver
<1> QED
  BY <1>10, <1>11 DEF s

(* Together the groups of a road serve its homes, and no others: a gap begins a
   segment, and each home is in the last one that begins before it. *)
LEMMA RoadServed ==
  ASSUME Rated(demand, Homes), NEW r, NEW gaps
  PROVE  /\ ListOf(RoadClusters(r, gaps), Full)
         /\ \A h \in Homes : SumOver(Of(h), RoadClusters(r, gaps))
                             = IF road[h] = r THEN demand[h] ELSE 0
<1> DEFINE homes == {h \in Homes : road[h] = r}
           starts == {h \in homes : h \in gaps \/ \A g \in homes : g >= h}
           segment(s) == {h \in homes : h >= s /\ \A t \in starts : t > s => h < t}
           c == Cardinality(starts)
           inOrder == Ascending(starts)
           ss == [i \in DOMAIN inOrder |-> SegmentClusters(segment(inOrder[i]))]
<1>1. RoadClusters(r, gaps) = FlattenSeq(ss)
  <2>1. Ascending(starts) = Ascending(starts)
    OBVIOUS
  <2>2. RoadClusters(r, gaps)
        = FlattenSeq([i \in DOMAIN Ascending(starts) |-> SegmentClusters(segment(Ascending(starts)[i]))])
    BY DEF RoadClusters, HomesOn
  <2>3. RoadClusters(r, gaps) = FlattenSeq(ss)
    BY <2>1, <2>2
  <2> HIDE DEF ss
  <2> QED
    BY <2>3
<1>2. /\ homes \in SUBSET Nat /\ starts \in SUBSET homes
      /\ \A h \in homes : (\A g \in homes : g >= h) => h \in starts
  BY Assumptions
<1>3. IsFiniteSet(starts) /\ starts \in SUBSET Nat
  <2>1. starts \in SUBSET Homes
    OBVIOUS
  <2> HIDE DEF starts
  <2> QED
    BY <1>2, <2>1, Assumptions, FS_Subset
<1>4. \A s, h : h \in segment(s) <=> h \in homes /\ h >= s /\ \A t \in starts : t > s => h < t
  OBVIOUS
<1>5. \A h \in Homes : h \in homes <=> road[h] = r
  OBVIOUS
<1> HIDE DEF homes, starts, segment
<1>6. c \in Nat /\ inOrder \in Bijection(1..c, starts)
  BY <1>3, AscendingOrder
<1>7. /\ DOMAIN inOrder = 1..c /\ \A i \in 1..c : inOrder[i] \in starts
      /\ \A i \in 1..c : \A j \in 1..c : inOrder[i] = inOrder[j] => i = j
      /\ \A t \in starts : \E i \in 1..c : inOrder[i] = t
  BY <1>6 DEF Bijection, Injection, Surjection, IsInjective
<1> HIDE DEF c, inOrder
<1>8. DOMAIN ss = 1..c /\ \A i \in 1..c : ss[i] = SegmentClusters(segment(inOrder[i]))
  BY <1>7
<1>9. ss = [i \in 1..c |-> ss[i]]
  BY <1>7
<1> HIDE DEF ss
<1>10. \A i \in 1..c : ListOf(ss[i], Full)
  BY <1>8, SegmentServed
<1>11. ListsOf(ss, Full)
  BY <1>8, <1>10 DEF ListsOf
<1>12. ListOf(ss, Seq(Full)) /\ Len(ss) = c
  <2>1. \A i \in 1..c : ss[i] \in Seq(Full)
    BY <1>10 DEF ListOf
  <2> QED
    BY <1>6, <1>8, <1>9, <2>1, Lists
<1>13. ASSUME NEW h \in Homes
       PROVE  /\ ListOf(FlattenSeq(ss), Full)
              /\ SumOver(Of(h), FlattenSeq(ss)) = Load(RowSums(Of(h), ss))
              /\ Rated(RowSums(Of(h), ss), 1..c)
              /\ \A i \in 1..c : RowSums(Of(h), ss)[i] = IF h \in segment(inOrder[i]) THEN demand[h] ELSE 0
  <2>1. Rated(Of(h), Full)
    BY RatedOf
  <2>2. ListOf(FlattenSeq(ss), Full) /\ SumOver(Of(h), FlattenSeq(ss)) = Load(RowSums(Of(h), ss))
    BY <1>11, <1>12, <2>1, Flattened
  <2>3. Rated(RowSums(Of(h), ss), 1..c) /\ \A i \in 1..c : RowSums(Of(h), ss)[i] = SumOver(Of(h), ss[i])
    BY <1>11, <1>12, <2>1, RowSum
  <2>4. \A i \in 1..c : SumOver(Of(h), ss[i]) = IF h \in segment(inOrder[i]) THEN demand[h] ELSE 0
    BY <1>8, SegmentServed
  <2> QED
    BY <2>2, <2>3, <2>4
<1>14. IsFiniteSet(1..c)
  BY <1>6, Numbered
<1>15. ASSUME NEW h \in Homes, road[h] = r
       PROVE  Load(RowSums(Of(h), ss)) = demand[h]
  <2> DEFINE A == {t \in starts : t <= h}
             row == RowSums(Of(h), ss)
  <2>1. h \in homes /\ h \in Nat
    BY <1>2, <1>5, <1>15
  <2>2. A # {}
    <3>1. PICK m \in homes : \A g \in homes : m <= g
      BY <1>2, <2>1, LeastNumber
    <3>2. \A g \in homes : g >= m
      BY <1>2, <3>1
    <3>3. m \in starts /\ m <= h
      BY <1>2, <2>1, <3>1, <3>2
    <3> QED
      BY <3>3
  <2>3. A \in SUBSET (0..h)
    <3>1. ASSUME NEW t \in A PROVE t \in 0..h
      <4>1. t \in Nat /\ t <= h
        BY <1>3
      <4> QED
        BY <2>1, <4>1
    <3> QED
      BY <3>1
  <2>4. PICK s \in A : \A t \in A : t <= s
    BY <2>1, <2>2, <2>3, GreatestNumber
  <2>5. s \in starts /\ s <= h /\ \A t \in starts : t <= h => t <= s
    BY <2>4
  <2> HIDE DEF A
  <2>6. h \in segment(s)
    <3>1. ASSUME NEW t \in starts, t > s PROVE h < t
      BY <1>3, <2>1, <2>5, <3>1
    <3> QED
      BY <1>3, <1>4, <2>1, <2>5, <3>1
  <2>7. ASSUME NEW t \in starts, t # s PROVE h \notin segment(t)
    <3>1. CASE t > s
      BY <1>3, <1>4, <2>1, <2>6, <3>1
    <3>2. CASE s > t
      BY <1>3, <1>4, <2>1, <2>5, <3>2
    <3> QED
      BY <1>3, <2>5, <2>7, <3>1, <3>2
  <2>8. PICK i \in 1..c : inOrder[i] = s
    BY <1>7, <2>5
  <2>9. row[i] = demand[h]
    BY <1>13, <2>6, <2>8
  <2>10. \A j \in (1..c) \ {i} : row[j] = 0
    <3>1. ASSUME NEW j \in (1..c) \ {i} PROVE row[j] = 0
      <4>1. inOrder[j] \in starts /\ inOrder[j] # s
        BY <1>7, <2>8
      <4> QED
        BY <1>13, <2>7, <4>1
    <3> QED
      BY <3>1
  <2>11. row \in [1..c -> Nat]
    BY <1>13 DEF Rated
  <2> HIDE DEF row
  <2> DEFINE S == 1..c
  <2>12. i \in S /\ IsFiniteSet(S) /\ row \in [S -> Nat] /\ \A j \in S \ {i} : row[j] = 0
    BY <1>14, <2>10, <2>11
  <2> HIDE DEF S
  <2>13. Load(row) = row[i]
    BY <2>12, LoadSingle
  <2> QED
    BY <2>9, <2>13 DEF row
<1>16. ASSUME NEW h \in Homes, road[h] # r
       PROVE  Load(RowSums(Of(h), ss)) = 0
  <2> DEFINE row == RowSums(Of(h), ss)
             S == 1..c
  <2>1. \A i \in 1..c : h \notin segment(inOrder[i])
    BY <1>4, <1>5, <1>16
  <2>2. row \in [S -> Nat] /\ \A j \in S : row[j] = 0
    BY <1>13, <2>1 DEF Rated
  <2> HIDE DEF row, S
  <2>3. Load(row) = 0
    BY <1>14, <2>2, LoadZero DEF S
  <2> QED
    BY <2>3 DEF row
<1>17. ListOf(FlattenSeq(ss), Full)
  BY <1>11, <1>12, FlattenedList
<1> QED
  BY <1>1, <1>13, <1>15, <1>16, <1>17

(* What the groups of the roads, or the FATs, serve of a home. *)
GroupedSum(groups, h) == Load([r \in Roads |-> SumOver(Of(h), groups[r])])
Served(built, h) == Load([f \in DOMAIN built |-> built[f][h]])

(* Groups and FATs are never empty and never over the maximum. *)
Grouping(groups) ==
  /\ DOMAIN groups = Roads /\ groups = [r \in Roads |-> groups[r]]
  /\ \A r \in Roads : ListOf(groups[r], Full)
Standing(built) ==
  /\ IsFiniteSet(DOMAIN built) /\ DOMAIN built \subseteq Nat
  /\ built = [f \in DOMAIN built |-> built[f]] /\ \A f \in DOMAIN built : built[f] \in Full

Serving == {"rebalance", "done"}

FieldInv ==
  /\ phase \in Phases \ {"failed"}
  /\ road \in [Homes -> Roads \cup {None}] /\ Rated(demand, Homes)
  /\ \A h \in Homes : road[h] = None => demand[h] = 0
  /\ Grouping(clusters) /\ Standing(serves)
  /\ phase = "borrow" => \A h \in Homes : GroupedSum(clusters, h) = demand[h]
  /\ phase \in Serving => \A h \in Homes : Served(serves, h) = demand[h]
  /\ phase \notin Serving => unmatched = {}
  /\ phase # "done" => excused = {}
  /\ turn \in 0..2 * Cardinality(Roads) /\ rounds \in 0..MaxFatRebalances
  /\ unmatched \subseteq DOMAIN serves /\ excused \subseteq DOMAIN serves

LEMMA NoGroups == Grouping([r \in Roads |-> <<>>])
<1>1. ListOf(<<>>, Full)
  BY DEF ListOf
<1> QED
  BY <1>1 DEF Grouping

LEMMA NoFats == Standing(<<>>)
<1>1. DOMAIN <<>> = {}
  OBVIOUS
<1> QED
  BY <1>1, FS_EmptySet DEF Standing

LEMMA FieldStart == ASSUME FieldInit PROVE FieldInv
<1>1. /\ phase = "assign" /\ turn = 0 /\ rounds = 0
      /\ road = [h \in Homes |-> None] /\ demand = [h \in Homes |-> 0]
      /\ clusters = [r \in Roads |-> <<>>] /\ serves = <<>>
      /\ unmatched = {} /\ excused = {}
  BY DEF FieldInit
<1>2. Grouping(clusters) /\ Standing(serves)
  BY <1>1, NoGroups, NoFats
<1>3. turn \in 0..2 * Cardinality(Roads) /\ rounds \in 0..MaxFatRebalances
  BY <1>1, Assumptions
<1>4. Rated(demand, Homes)
  BY <1>1 DEF Rated
<1>5. phase \in Phases \ {"failed"} /\ phase \notin Serving
  BY <1>1 DEF Phases, Serving
<1> QED
  BY <1>1, <1>2, <1>3, <1>4, <1>5 DEF FieldInv

LEMMA FieldAssign == ASSUME FieldInv, Assign PROVE FieldInv'
<1>1. /\ phase = "assign" /\ phase' \in {"trim", "group"}
      /\ UNCHANGED <<clusters, serves, turn, unmatched, rounds, excused>>
  BY DEF Assign
<1>2. PICK to \in [Homes -> Roads \cup {None}] :
        /\ road' = to
        /\ \E count \in [Homes -> UNION {Customers[h] : h \in Homes}] :
             /\ \A h \in Homes : count[h] \in Customers[h]
             /\ demand' = [h \in Homes |-> IF to[h] = None THEN 0 ELSE count[h]]
  BY DEF Assign
<1>3. PICK count \in [Homes -> UNION {Customers[h] : h \in Homes}] :
        /\ \A h \in Homes : count[h] \in Customers[h]
        /\ demand' = [h \in Homes |-> IF to[h] = None THEN 0 ELSE count[h]]
  BY <1>2
<1>4. \A h \in Homes : count[h] \in Nat
  BY <1>3, FieldAssumption
<1>5. Rated(demand', Homes) /\ \A h \in Homes : road'[h] = None => demand'[h] = 0
  BY <1>2, <1>3, <1>4 DEF Rated
<1>6. phase' \in Phases \ {"failed"} /\ phase' \notin Serving /\ phase \notin Serving
  BY <1>1 DEF Phases, Serving
<1>7. (Grouping(clusters) /\ Standing(serves))'
  BY <1>1 DEF FieldInv, Grouping, Standing
<1>8. /\ phase' # "borrow" /\ phase' # "done" /\ unmatched' = {} /\ excused' = {}
      /\ turn' \in 0..2 * Cardinality(Roads) /\ rounds' \in 0..MaxFatRebalances
  BY <1>1, <1>6 DEF FieldInv
<1> QED
  BY <1>2, <1>5, <1>6, <1>7, <1>8 DEF FieldInv

LEMMA RoundedUp ==
  ASSUME NEW n \in Nat
  PROVE  Rounded(n, 100) \in Nat
<1>1. n \div 100 \in Nat
  BY Division
<1> QED
  BY <1>1 DEF Rounded

LEMMA FieldTrim == ASSUME FieldInv, Trim PROVE FieldInv'
<1> DEFINE onRoad(r) == [h \in HomesOn(r) |-> demand[h]]
           quota(r) == Rounded(Load(onRoad(r)) * Coverage, 100)
           ahead(h) == Load([g \in {g \in HomesOn(road[h]) : g < h} |-> demand[g]])
           rest(h) == quota(road[h]) - ahead(h)
<1>1. /\ phase = "trim" /\ phase' = "group"
      /\ UNCHANGED <<road, clusters, serves, turn, unmatched, rounds, excused>>
      /\ demand' = [h \in Homes |-> IF road[h] = None THEN 0 ELSE Share(demand[h], rest(h))]
  BY DEF Trim
<1>2. demand \in [Homes -> Nat] /\ IsFiniteSet(Homes)
  BY Assumptions DEF FieldInv, Rated
<1>3. ASSUME NEW T \in SUBSET Homes
      PROVE  Load([h \in T |-> demand[h]]) \in Nat
  <2>1. IsFiniteSet(T) /\ [h \in T |-> demand[h]] \in [T -> Nat]
    BY <1>2, FS_Subset
  <2>2. Load([h \in T |-> demand[h]]) \in Nat
    BY <2>1, LoadCounts
  <2> QED
    BY <2>2
<1>4. ASSUME NEW h \in Homes PROVE rest(h) \in Int
  <2>1. /\ HomesOn(road[h]) \in SUBSET Homes
        /\ {g \in HomesOn(road[h]) : g < h} \in SUBSET Homes
    BY DEF HomesOn
  <2>2. Load(onRoad(road[h])) \in Nat /\ ahead(h) \in Nat
    BY <1>3, <2>1
  <2>3. quota(road[h]) \in Nat
    <3> DEFINE n == Load(onRoad(road[h]))
    <3>1. n * Coverage \in Nat
      <4>1. n \in Nat /\ Coverage \in Nat
        BY <2>2, Assumptions
      <4> HIDE DEF n
      <4> QED
        BY <4>1
    <3> QED
      BY <3>1, RoundedUp
  <2> HIDE DEF quota, ahead
  <2> QED
    BY <2>2, <2>3
<1> HIDE DEF rest
<1>5. ASSUME NEW h \in Homes PROVE Share(demand[h], rest(h)) \in Nat
  <2>1. Share(demand[h], rest(h)) = Larger(0, Smaller(demand[h], rest(h)))
    BY DEF Share
  <2>2. demand[h] \in Nat /\ rest(h) \in Int
    BY <1>2, <1>4
  <2> QED
    BY <2>1, <2>2 DEF Larger, Smaller
<1>6. Rated(demand', Homes) /\ \A h \in Homes : road'[h] = None => demand'[h] = 0
  BY <1>1, <1>5 DEF Rated
<1>7. phase' \in Phases \ {"failed"} /\ phase' \notin Serving /\ phase \notin Serving
  BY <1>1 DEF Phases, Serving
<1>8. (Grouping(clusters) /\ Standing(serves))'
  BY <1>1 DEF FieldInv, Grouping, Standing
<1>9. /\ phase' # "borrow" /\ phase' # "done" /\ unmatched' = {} /\ excused' = {}
      /\ road' \in [Homes -> Roads \cup {None}]
      /\ turn' \in 0..2 * Cardinality(Roads) /\ rounds' \in 0..MaxFatRebalances
  BY <1>1, <1>7 DEF FieldInv
<1> QED
  BY <1>6, <1>7, <1>8, <1>9 DEF FieldInv

LEMMA FieldGroup == ASSUME FieldInv, Group PROVE FieldInv'
<1>1. /\ phase = "group" /\ phase' = "borrow"
      /\ UNCHANGED <<road, demand, serves, turn, unmatched, rounds, excused>>
  BY DEF Group
<1>2. PICK gaps \in SUBSET Homes : clusters' = [r \in Roads |-> RoadClusters(r, gaps)]
  BY DEF Group
<1>3. Rated(demand, Homes) /\ IsFiniteSet(Roads) /\ None \notin Roads
  BY Assumptions DEF FieldInv
<1>4. ASSUME NEW r \in Roads
      PROVE  /\ ListOf(RoadClusters(r, gaps), Full)
             /\ \A h \in Homes : SumOver(Of(h), RoadClusters(r, gaps))
                                 = IF road[h] = r THEN demand[h] ELSE 0
  BY <1>3, RoadServed
<1>5. Grouping(clusters')
  BY <1>2, <1>4 DEF Grouping
<1>6. ASSUME NEW h \in Homes
      PROVE  GroupedSum(clusters', h) = demand[h]
  <2> DEFINE part == [r \in Roads |-> SumOver(Of(h), clusters'[r])]
  <2>1. \A r \in Roads : part[r] = IF road[h] = r THEN demand[h] ELSE 0
    BY <1>2, <1>4
  <2>2. demand[h] \in Nat
    BY <1>3 DEF Rated
  <2>3. part \in [Roads -> Nat]
    BY <2>1, <2>2
  <2> HIDE DEF part
  <2>4. CASE road[h] = None
    <3>1. \A r \in Roads : part[r] = 0
      BY <1>3, <2>1, <2>4
    <3>2. Load(part) = 0
      BY <1>3, <2>3, <3>1, LoadZero
    <3>3. demand[h] = 0
      BY <2>4 DEF FieldInv
    <3> QED
      BY <3>2, <3>3 DEF GroupedSum, part
  <2>5. CASE road[h] # None
    <3>1. road[h] \in Roads
      BY <2>5 DEF FieldInv
    <3>2. \A r \in Roads \ {road[h]} : part[r] = 0
      BY <2>1
    <3>3. Load(part) = part[road[h]]
      BY <1>3, <2>3, <3>1, <3>2, LoadSingle
    <3> QED
      BY <2>1, <3>1, <3>3 DEF GroupedSum, part
  <2> QED
    BY <2>4, <2>5
<1>7. phase' \in Phases \ {"failed"} /\ phase' \notin Serving /\ phase \notin Serving
  BY <1>1 DEF Phases, Serving
<1>8. Standing(serves') /\ Rated(demand', Homes)
  BY <1>1 DEF FieldInv
<1>9. /\ phase' # "done" /\ unmatched' = {} /\ excused' = {}
      /\ road' \in [Homes -> Roads \cup {None}]
      /\ \A h \in Homes : road'[h] = None => demand'[h] = 0
      /\ turn' \in 0..2 * Cardinality(Roads) /\ rounds' \in 0..MaxFatRebalances
  BY <1>1, <1>7 DEF FieldInv
<1>10. \A h \in Homes : GroupedSum(clusters', h) = demand'[h]
  BY <1>1, <1>6
<1> QED
  BY <1>5, <1>7, <1>8, <1>9, <1>10 DEF FieldInv, GroupedSum

LEMMA TurnRoad ==
  ASSUME turn \in 0..2 * Cardinality(Roads), turn < 2 * Cardinality(Roads)
  PROVE  Turn[1] \in Roads /\ turn + 1 \in 0..2 * Cardinality(Roads)
<1> DEFINE c == Cardinality(Roads)
<1>1. c \in Nat /\ Roads = 1..c
  BY Assumptions
<1> HIDE DEF c
<1>2. turn \in Nat /\ turn < 2 * c /\ turn \in 0..2 * c
  BY <1>1 DEF c
<1>3. /\ turn \div 2 \in Nat /\ turn % 2 \in 0..1
      /\ turn = 2 * (turn \div 2) + (turn % 2)
  BY <1>2
<1>4. (turn \div 2) + 1 \in 1..c
  BY <1>1, <1>2, <1>3
<1>5. Turn[1] = (turn \div 2) + 1
  BY DEF Turn
<1> QED
  BY <1>1, <1>2, <1>4, <1>5 DEF c

(* Two groups that fit one FAT are a group. *)
LEMMA TogetherFits ==
  ASSUME NEW a \in Full, NEW b \in Full, Room(a, b)
  PROVE  /\ Together(a, b) \in Full
         /\ \A h \in Homes : Together(a, b)[h] = a[h] + b[h]
<1> DEFINE ab == Together(a, b)
<1>1. ab = [h \in Homes |-> a[h] + b[h]]
  BY DEF Together
<1>2. a \in [Homes -> Nat] /\ b \in [Homes -> Nat] /\ IsFiniteSet(Homes)
  BY Assumptions DEF Full
<1>3. ab \in [Homes -> Nat] /\ \A h \in Homes : ab[h] = a[h] + b[h]
  BY <1>1, <1>2
<1>4. Load(ab) = Load(a) + Load(b)
  BY <1>1, <1>2, LoadAdded
<1>5. Load(a) + Load(b) <= MaxFat
  BY DEF Room
<1>6. Load(a) \in 1..MaxFat /\ Load(b) \in 1..MaxFat /\ MaxFat \in Nat
  BY Assumptions DEF Full
<1> HIDE DEF ab
<1>7. Load(ab) \in 1..MaxFat
  BY <1>4, <1>5, <1>6
<1> QED
  BY <1>3, <1>7 DEF Full, ab

LEMMA FieldBorrow == ASSUME FieldInv, LendTail PROVE FieldInv'
<1> DEFINE r == Turn[1]
           end == Turn[2]
           i == Outermost(r, end)
<1>1. /\ phase = "borrow" /\ turn < 2 * Cardinality(Roads) /\ turn' = turn + 1
      /\ UNCHANGED <<phase, road, demand, serves, unmatched, rounds, excused>>
      /\ Len(clusters[r]) >= 2
  BY DEF LendTail, NextTurn
<1>2. PICK n \in Lenders(r, end) :
        LET b == Outermost(n, EndAt(n, Ends[r][end]))
        IN /\ Room(clusters[n][b], clusters[r][i])
           /\ clusters' = [clusters EXCEPT ![n][b] = Together(@, clusters[r][i]),
                                           ![r] = RemoveAt(@, i)]
  BY DEF LendTail
<1> DEFINE b == Outermost(n, EndAt(n, Ends[r][end]))
<1>3. /\ Room(clusters[n][b], clusters[r][i])
      /\ clusters' = [clusters EXCEPT ![n][b] = Together(@, clusters[r][i]),
                                      ![r] = RemoveAt(@, i)]
  BY <1>2
<1>4. r \in Roads /\ turn' \in 0..2 * Cardinality(Roads)
  BY <1>1, TurnRoad DEF FieldInv
<1>5. n \in Roads /\ n # r /\ clusters[n] # <<>>
  BY DEF Lenders
<1>6. DOMAIN clusters = Roads /\ clusters = [q \in Roads |-> clusters[q]] /\ \A q \in Roads : ListOf(clusters[q], Full)
  BY DEF FieldInv, Grouping
<1>7. i \in 1..Len(clusters[r])
  <2>1. Len(clusters[r]) \in Nat /\ Len(clusters[r]) >= 2
    BY <1>1, <1>4, <1>6, Listed
  <2>2. i = 1 \/ i = Len(clusters[r])
    BY DEF Outermost
  <2> QED
    BY <2>1, <2>2
<1>8. b \in 1..Len(clusters[n])
  <2>1. Len(clusters[n]) \in Nat /\ Len(clusters[n]) # 0
    <3>1. clusters[n] \in Seq(Full)
      BY <1>5, <1>6 DEF ListOf
    <3> QED
      BY <1>5, <3>1, EmptySeq, LenProperties
  <2>2. b = 1 \/ b = Len(clusters[n])
    BY DEF Outermost
  <2> QED
    BY <2>1, <2>2
<1> HIDE DEF r, end, i, b
<1> DEFINE x == clusters[r][i]
           a == clusters[n][b]
           ax == Together(a, x)
           shorter == RemoveAt(clusters[r], i)
           longer == [clusters[n] EXCEPT ![b] = ax]
<1>9. x \in Full /\ a \in Full
  BY <1>4, <1>5, <1>6, <1>7, <1>8, Listed
<1>10. ax \in Full /\ \A h \in Homes : ax[h] = a[h] + x[h]
  BY <1>3, <1>9, TogetherFits
<1>11. /\ DOMAIN clusters' = Roads /\ clusters' = [q \in Roads |-> clusters'[q]]
       /\ clusters'[r] = shorter /\ clusters'[n] = longer
       /\ \A q \in Roads \ {r, n} : clusters'[q] = clusters[q]
  BY <1>3, <1>4, <1>5, <1>6
<1> HIDE DEF x, a, ax, shorter, longer
<1>12. /\ ListOf(shorter, Full)
       /\ \A h \in Homes : SumOver(Of(h), clusters[r]) = x[h] + SumOver(Of(h), shorter)
  <2>1. ASSUME NEW h \in Homes
        PROVE  ListOf(shorter, Full) /\ SumOver(Of(h), clusters[r]) = x[h] + SumOver(Of(h), shorter)
    <3>1. Rated(Of(h), Full) /\ Of(h)[x] = x[h] /\ ListOf(clusters[r], Full)
      BY <1>4, <1>6, <1>9, RatedOf
    <3>2. /\ ListOf(shorter, Full)
          /\ SumOver(Of(h), clusters[r]) = Of(h)[x] + SumOver(Of(h), shorter)
      BY <1>7, <3>1, SumRemoved DEF x, shorter
    <3> QED
      BY <3>1, <3>2
  <2>2. ListOf(shorter, Full)
    <3> DEFINE w == [y \in Full |-> 0]
    <3>1. Rated(w, Full) /\ ListOf(clusters[r], Full)
      BY <1>4, <1>6 DEF Rated
    <3> HIDE DEF w
    <3> QED
      BY <1>7, <3>1, SumRemoved DEF shorter
  <2> QED
    BY <2>1, <2>2
<1>13. /\ ListOf(longer, Full)
       /\ \A h \in Homes : SumOver(Of(h), longer) = SumOver(Of(h), clusters[n]) + x[h]
  <2>1. ASSUME NEW h \in Homes
        PROVE  SumOver(Of(h), longer) = SumOver(Of(h), clusters[n]) + x[h]
    <3>1. /\ Rated(Of(h), Full) /\ Of(h)[a] = a[h] /\ Of(h)[ax] = ax[h]
          /\ ListOf(clusters[n], Full)
      BY <1>5, <1>6, <1>9, <1>10, RatedOf
    <3>2. /\ ListOf(longer, Full)
          /\ SumOver(Of(h), longer) + Of(h)[a] = SumOver(Of(h), clusters[n]) + Of(h)[ax]
      BY <1>8, <1>10, <3>1, SumReplaced DEF a, longer
    <3>3. SumOver(Of(h), longer) \in Nat /\ SumOver(Of(h), clusters[n]) \in Nat
      BY <3>1, <3>2, SumIsNumber
    <3>4. a[h] \in Nat /\ x[h] \in Nat
      BY <1>9 DEF Full
    <3> QED
      BY <1>10, <3>1, <3>2, <3>3, <3>4
  <2>2. ListOf(longer, Full)
    <3> DEFINE w == [y \in Full |-> 0]
    <3>1. Rated(w, Full) /\ ListOf(clusters[n], Full)
      BY <1>5, <1>6 DEF Rated
    <3> HIDE DEF w
    <3> QED
      BY <1>8, <1>10, <3>1, SumReplaced DEF longer
  <2> QED
    BY <2>1, <2>2
<1>14. ASSUME NEW h \in Homes
       PROVE  GroupedSum(clusters', h) = GroupedSum(clusters, h)
  <2> DEFINE f == [q \in Roads |-> SumOver(Of(h), clusters[q])]
             g == [q \in Roads |-> SumOver(Of(h), clusters'[q])]
             m == x[h]
  <2>1. m \in Nat /\ Rated(Of(h), Full)
    BY <1>9, RatedOf DEF Full
  <2>2. \A q \in Roads : ListOf(clusters[q], Full) /\ ListOf(clusters'[q], Full)
    BY <1>6, <1>11, <1>12, <1>13
  <2>3. \A q \in Roads : SumOver(Of(h), clusters[q]) \in Nat /\ SumOver(Of(h), clusters'[q]) \in Nat
    BY <2>1, <2>2, SumIsNumber
  <2>4. f \in [Roads -> Nat] /\ g \in [Roads -> Nat]
    BY <2>3
  <2>5. g[r] = f[r] - m
    <3>1. f[r] = m + g[r]
      BY <1>4, <1>11, <1>12
    <3>2. f[r] \in Nat /\ g[r] \in Nat
      BY <1>4, <2>4
    <3> QED
      BY <2>1, <3>1, <3>2
  <2>6. g[n] = f[n] + m
    BY <1>5, <1>11, <1>13
  <2>7. \A q \in Roads \ {r, n} : g[q] = f[q]
    BY <1>11
  <2> HIDE DEF f, g, m
  <2>8. IsFiniteSet(Roads)
    BY Assumptions
  <2> DEFINE S == Roads
  <2>9. r \in S /\ n \in S /\ r # n /\ IsFiniteSet(S) /\ f \in [S -> Nat] /\ g \in [S -> Nat]
    BY <1>4, <1>5, <2>4, <2>8
  <2>10. \A q \in S \ {r, n} : g[q] = f[q]
    BY <2>7
  <2> HIDE DEF S
  <2>11. Load(g) = Load(f)
    BY ONLY <2>1, <2>5, <2>6, <2>9, <2>10, LoadMoved
  <2> QED
    BY <2>11 DEF GroupedSum, f, g
<1>15. Grouping(clusters')
  <2>1. \A q \in Roads : ListOf(clusters'[q], Full)
    BY <1>6, <1>11, <1>12, <1>13
  <2> QED
    BY <1>11, <2>1 DEF Grouping
<1>16. \A h \in Homes : GroupedSum(clusters', h) = demand[h]
  BY <1>1, <1>14 DEF FieldInv
<1>17. phase' \notin Serving /\ phase' # "done" /\ unmatched' = {} /\ excused' = {}
  BY <1>1 DEF FieldInv, Serving
<1>18. /\ phase' \in Phases \ {"failed"} /\ Standing(serves') /\ Rated(demand', Homes)
       /\ road' \in [Homes -> Roads \cup {None}] /\ rounds' \in 0..MaxFatRebalances
       /\ \A h \in Homes : road'[h] = None => demand'[h] = 0
  BY <1>1 DEF FieldInv
<1> QED
  BY <1>1, <1>4, <1>15, <1>16, <1>17, <1>18 DEF FieldInv, GroupedSum

LEMMA FieldKeepTail == ASSUME FieldInv, KeepTail PROVE FieldInv'
<1>1. /\ phase = "borrow" /\ turn < 2 * Cardinality(Roads) /\ turn' = turn + 1
      /\ UNCHANGED <<phase, road, demand, clusters, serves, unmatched, rounds, excused>>
  BY DEF KeepTail, NextTurn
<1>2. turn' \in 0..2 * Cardinality(Roads)
  BY <1>1, TurnRoad DEF FieldInv
<1> QED
  BY <1>1, <1>2 DEF FieldInv, Grouping, Standing, GroupedSum, Served

(* What FATs taken together serve is what they serve of each home. *)
Merged(m, P) == [h \in Homes |-> Load([f \in P |-> m[f][h]])]
Loads(m, P) == [f \in P |-> Load(m[f])]

LEMMA PoolLoad ==
  ASSUME NEW P, IsFiniteSet(P), NEW m, \A f \in P : m[f] \in Full
  PROVE  Rated(Merged(m, P), Homes) /\ Rated(Loads(m, P), P) /\ Load(Merged(m, P)) = Load(Loads(m, P))
<1> DEFINE M == [f \in P |-> m[f]]
<1>1. IsFiniteSet(Homes)
  BY Assumptions
<1>2. Table(M, P, Homes)
  BY DEF Full, Table
<1>3. Loads(m, P) = ByRow(M, P) /\ Merged(m, P) = ByColumn(M, P, Homes)
  BY DEF Loads, Merged, ByRow, ByColumn
<1> HIDE DEF M
<1> QED
  BY <1>1, <1>2, <1>3, LoadSwapped

LEMMA FieldCreate == ASSUME FieldInv, Create PROVE FieldInv'
<1> DEFINE c == Cardinality(Roads)
           ss == [r \in 1..c |-> clusters[r]]
           built == FlattenSeq(ss)
<1>1. c \in Nat /\ Roads = 1..c
  BY Assumptions
<1>2. /\ DOMAIN clusters = Roads /\ clusters = [q \in Roads |-> clusters[q]]
      /\ \A q \in Roads : ListOf(clusters[q], Full)
  BY DEF FieldInv, Grouping
<1>3. FlattenSeq([r \in 1..Cardinality(Roads) |-> clusters[r]]) = built
  <2>1. [r \in 1..Cardinality(Roads) |-> clusters[r]] = ss
    OBVIOUS
  <2> HIDE DEF ss
  <2> QED
    BY <2>1
<1>4. DOMAIN ss = 1..c /\ ss = [r \in 1..c |-> ss[r]] /\ \A r \in 1..c : ss[r] = clusters[r]
  OBVIOUS
<1>5. ss = clusters
  BY <1>1, <1>2
<1> HIDE DEF c, ss
<1>6. ListsOf(ss, Full) /\ ListOf(ss, Seq(Full)) /\ Len(ss) = c
  <2>1. \A r \in 1..c : ListOf(ss[r], Full)
    BY <1>1, <1>2, <1>4
  <2>2. \A r \in 1..c : ss[r] \in Seq(Full)
    BY <2>1 DEF ListOf
  <2>3. ListOf(ss, Seq(Full)) /\ Len(ss) = c
    BY <1>1, <1>4, <2>2, Lists
  <2> QED
    BY <1>4, <2>1, <2>3 DEF ListsOf
<1>7. ListOf(built, Full)
  BY <1>6, FlattenedList
<1>8. ASSUME NEW h \in Homes PROVE SumOver(Of(h), built) = GroupedSum(clusters, h)
  <2>1. Rated(Of(h), Full)
    BY RatedOf
  <2>2. SumOver(Of(h), built) = Load(RowSums(Of(h), ss))
    BY <1>6, <2>1, Flattened
  <2>3. RowSums(Of(h), ss) = [r \in Roads |-> SumOver(Of(h), clusters[r])]
    BY <1>1, <1>4, <1>5 DEF RowSums
  <2> QED
    BY <2>2, <2>3 DEF GroupedSum
<1> HIDE DEF built
<1> DEFINE k == Len(built)
<1>9. k \in Nat /\ DOMAIN built = 1..k /\ \A f \in 1..k : built[f] \in Full
  BY <1>7, Listed
<1>10. built = [f \in DOMAIN built |-> built[f]]
  <2>1. built \in [1..k -> Full]
    BY <1>7, LenProperties DEF ListOf
  <2> QED
    BY <1>9, <2>1
<1> HIDE DEF k
<1>11. Standing(built)
  <2>1. IsFiniteSet(1..k) /\ 1..k \subseteq Nat
    BY <1>9, Numbered
  <2> QED
    BY <1>9, <1>10, <2>1 DEF Standing
<1>12. /\ phase = "borrow" /\ serves' = built /\ clusters' = [r \in Roads |-> <<>>]
       /\ phase' = IF /\ \A f \in DOMAIN built : Load(built[f]) \in 1..MaxFat
                      /\ Load([f \in DOMAIN built |-> Load(built[f])]) = Load(demand)
                   THEN "rebalance" ELSE "failed"
       /\ UNCHANGED <<road, demand, turn, unmatched, rounds, excused>>
  BY <1>3 DEF Create
<1>13. ASSUME NEW h \in Homes PROVE Served(built, h) = demand[h]
  <2>1. Weights(Of(h), built) = [f \in DOMAIN built |-> built[f][h]]
    BY <1>9, RatedOf DEF Weights
  <2>2. GroupedSum(clusters, h) = demand[h]
    BY <1>12 DEF FieldInv
  <2> QED
    BY <1>8, <2>1, <2>2 DEF SumOver, Served
<1>14. Load(Loads(built, DOMAIN built)) = Load(demand)
  <2>1. Load(Merged(built, DOMAIN built)) = Load(Loads(built, DOMAIN built))
    BY <1>11, PoolLoad DEF Standing
  <2>2. Merged(built, DOMAIN built) = [h \in Homes |-> demand[h]]
    BY <1>13 DEF Merged, Served
  <2>3. demand = [h \in Homes |-> demand[h]]
    BY DEF FieldInv, Rated
  <2> QED
    BY <2>1, <2>2, <2>3
<1>15. phase' = "rebalance"
  <2>1. \A f \in DOMAIN built : Load(built[f]) = Load(built[f]) /\ Load(built[f]) \in 1..MaxFat
    BY <1>9 DEF Full
  <2>2. [f \in DOMAIN built |-> Load(built[f])] = Loads(built, DOMAIN built)
    BY <2>1 DEF Loads
  <2>3. Load([f \in DOMAIN built |-> Load(built[f])]) = Load(demand)
    BY <1>14, <2>2
  <2> QED
    BY <1>12, <2>1, <2>3
<1>16. Grouping(clusters')
  BY <1>12, NoGroups
<1>17. unmatched' = {} /\ excused' = {}
  BY <1>12 DEF FieldInv, Serving
<1>18. /\ Rated(demand', Homes) /\ road' \in [Homes -> Roads \cup {None}] /\ rounds' \in 0..MaxFatRebalances
       /\ \A h \in Homes : road'[h] = None => demand'[h] = 0
       /\ turn' \in 0..2 * Cardinality(Roads)
  BY <1>12 DEF FieldInv
<1>19. /\ phase' \in Phases \ {"failed"} /\ phase' \in Serving /\ phase' # "borrow" /\ phase' # "done"
  BY <1>15 DEF Phases, Serving
<1>20. Standing(serves') /\ \A h \in Homes : Served(serves', h) = demand'[h]
  BY <1>11, <1>12, <1>13
<1> QED
  BY <1>16, <1>17, <1>18, <1>19, <1>20 DEF FieldInv

(* The FATs of a pool from the largest to the smallest. *)
Ahead(w, y, x) == w[y] > w[x] \/ (w[y] = w[x] /\ y <= x)
PlaceIn(w, S) == [x \in S |-> Cardinality({y \in S : Ahead(w, y, x)})]

LEMMA Lined ==
  ASSUME NEW S \in SUBSET Nat, IsFiniteSet(S), NEW w, Rated(w, S)
  PROVE  PlaceIn(w, S) \in Bijection(S, 1..Cardinality(S))
<1> DEFINE B == {b \in S \X S : Ahead(w, b[1], b[2])}
<1>1. \A x, y \in S : <<y, x>> \in B <=> Ahead(w, y, x)
  OBVIOUS
<1>2. B \in SUBSET (S \X S)
  OBVIOUS
<1>3. \A x \in S : w[x] \in Nat /\ x \in Nat
  BY DEF Rated
<1> HIDE DEF B
<1>4. /\ \A x \in S : <<x, x>> \in B
      /\ \A x, y \in S : <<x, y>> \in B \/ <<y, x>> \in B
      /\ \A x, y \in S : <<x, y>> \in B /\ <<y, x>> \in B => x = y
  BY <1>1, <1>3 DEF Ahead
<1>5. \A x, y, z \in S : <<x, y>> \in B /\ <<y, z>> \in B => <<x, z>> \in B
  BY <1>1, <1>3 DEF Ahead
<1>6. [x \in S |-> Cardinality({y \in S : <<y, x>> \in B})] \in Bijection(S, 1..Cardinality(S))
  BY <1>2, <1>4, <1>5, Places, Zenon
<1>7. [x \in S |-> Cardinality({y \in S : <<y, x>> \in B})] = PlaceIn(w, S)
  <2>1. \A x \in S : {y \in S : <<y, x>> \in B} = {y \in S : Ahead(w, y, x)}
    BY <1>1
  <2> QED
    BY <2>1 DEF PlaceIn
<1> QED
  BY <1>6, <1>7

(* Some of the places from the first on are taken by just as many FATs. *)
LEMMA FirstPlaces ==
  ASSUME NEW S, NEW m \in Nat, NEW p, p \in Bijection(S, 1..m), NEW k \in 0..m
  PROVE  Restrict(p, {x \in S : p[x] \in 1..k}) \in Bijection({x \in S : p[x] \in 1..k}, 1..k)
<1> DEFINE T == {x \in S : p[x] \in 1..k}
           q == Restrict(p, T)
<1>1. /\ p \in [S -> 1..m] /\ \A x, y \in S : p[x] = p[y] => x = y
      /\ \A i \in 1..m : \E x \in S : p[x] = i
  BY DEF Bijection, Injection, Surjection, IsInjective
<1>2. T \in SUBSET S /\ \A x \in S : x \in T <=> p[x] \in 1..k
  OBVIOUS
<1>3. DOMAIN q = T /\ q = [x \in T |-> p[x]]
  BY DEF Restrict
<1> HIDE DEF T, q
<1>4. q \in [T -> 1..k] /\ \A x, y \in T : q[x] = q[y] => x = y
  BY <1>1, <1>2, <1>3
<1>5. \A i \in 1..k : \E x \in T : q[x] = i
  <2>1. ASSUME NEW i \in 1..k PROVE \E x \in T : q[x] = i
    <3>1. i \in 1..m
      OBVIOUS
    <3>2. PICK x \in S : p[x] = i
      BY <1>1, <3>1
    <3> QED
      BY <1>2, <1>3, <3>2
  <2> QED
    BY <2>1
<1>6. q \in Bijection(T, 1..k)
  BY <1>4, <1>5 DEF Bijection, Injection, Surjection, IsInjective
<1> QED
  BY <1>6 DEF T, q

(* What the pool is cut into: FATs that are full enough, no more than it has. *)
LEMMA PoolCut ==
  ASSUME NEW P, IsFiniteSet(P), NEW n \in Nat, Exact(n, MinFat, MaxFat),
         NEW w, Rated(w, P), \A x \in P : w[x] \in 1..MaxFat, n = Load(w)
  PROVE  /\ Groups(n, MaxFat) \in 0..Cardinality(P)
         /\ Rated(Sizes(n, MinFat, MaxFat), 1..Groups(n, MaxFat))
         /\ Load(Sizes(n, MinFat, MaxFat)) = n
         /\ \A i \in 1..Groups(n, MaxFat) : Sizes(n, MinFat, MaxFat)[i] \in MinFat..MaxFat
<1> DEFINE k == Groups(n, MaxFat)
           sizes == Sizes(n, MinFat, MaxFat)
           m == Cardinality(P)
<1>1. MinFat \in Nat \ {0} /\ MaxFat \in Nat /\ MinFat <= MaxFat
  BY Assumptions
<1>2. m \in Nat
  BY FS_CardinalityType
<1>3. n <= m * MaxFat
  <2>1. w \in [P -> Nat] /\ \A x \in P : w[x] <= MaxFat
    BY <1>1 DEF Rated
  <2> QED
    BY <1>1, <2>1, LoadBound
<1>4. /\ k \in Nat /\ DealsOut(sizes, k, n, MaxFat)
      /\ \A j \in Nat : n <= j * MaxFat => k <= j
      /\ \A i \in 1..k : sizes[i] >= MinFat
  BY <1>1, SizesDeal
<1> HIDE DEF k, sizes, m
<1>5. k \in 0..m
  BY <1>2, <1>3, <1>4
<1>6. \A i \in 1..k : sizes[i] \in 1..MaxFat /\ sizes[i] >= MinFat
  BY <1>4 DEF DealsOut
<1>7. \A i \in 1..k : sizes[i] \in MinFat..MaxFat
  BY <1>1, <1>6
<1>8. Rated(sizes, 1..k) /\ Load(sizes) = n
  BY <1>4 DEF DealsOut
<1> QED
  BY <1>5, <1>7, <1>8 DEF k, sizes, m

(* A pool that is dealt out: its largest FATs are dealt the slices. *)
PoolSizes(P) == Sizes(Load(Pooled(P)), MinFat, MaxFat)
PoolCount(P) == Groups(Load(Pooled(P)), MaxFat)
PoolPlace(P) == PlaceIn(Loads(serves, P), P)
PoolSlices(P, rank) == Slices(Pooled(P), rank, PoolSizes(P))
Kept(P) == {f \in P : PoolPlace(P)[f] \in 1..PoolCount(P)}
DealtOut(P, rank) ==
  [f \in (DOMAIN serves \ P) \cup Kept(P) |->
     IF f \in P THEN PoolSlices(P, rank)[PoolPlace(P)[f]] ELSE serves[f]]

LEMMA PlaceCount ==
  ASSUME NEW P, NEW f \in P
  PROVE  Cardinality({g \in P : Before(g, f)}) = PoolPlace(P)[f]
<1> DEFINE w == Loads(serves, P)
<1>1. \A g \in P : w[g] = Load(serves[g])
  BY DEF Loads
<1> HIDE DEF w
<1>2. {g \in P : Before(g, f)} = {g \in P : Ahead(w, g, f)}
  BY <1>1 DEF Before, Ahead
<1> QED
  BY <1>2 DEF PoolPlace, PlaceIn, w

LEMMA DealtForm ==
  ASSUME NEW P, NEW rank, DOMAIN PoolSizes(P) = 1..PoolCount(P)
  PROVE  Dealt(P, rank) = DealtOut(P, rank)
<1> DEFINE sizes == Sizes(Load(Pooled(P)), MinFat, MaxFat)
           slices == Slices(Pooled(P), rank, sizes)
           place(f) == Cardinality({g \in P : Before(g, f)})
<1>1. Dealt(P, rank) = [f \in (DOMAIN serves \ P) \cup {f \in P : place(f) \in DOMAIN sizes} |->
                            IF f \in P THEN slices[place(f)] ELSE serves[f]]
  BY DEF Dealt
<1>2. sizes = PoolSizes(P)
  BY DEF PoolSizes
<1>3. slices = PoolSlices(P, rank)
  BY <1>2 DEF PoolSlices
<1>4. \A f \in P : place(f) = PoolPlace(P)[f]
  BY PlaceCount
<1> HIDE DEF place, sizes, slices
<1>5. {f \in P : place(f) \in DOMAIN sizes} = Kept(P)
  BY <1>2, <1>4 DEF Kept
<1> QED
  BY <1>1, <1>3, <1>4, <1>5 DEF DealtOut

LEMMA PoolFacts ==
  ASSUME Standing(serves), NEW P \in SUBSET DOMAIN serves, Poolable(P)
  PROVE  /\ IsFiniteSet(P) /\ P \in SUBSET Nat /\ Rated(Pooled(P), Homes)
         /\ PoolCount(P) \in 0..Cardinality(P) /\ PoolCount(P) \in Nat /\ Cardinality(P) \in Nat
         /\ Rated(PoolSizes(P), 1..PoolCount(P)) /\ DOMAIN PoolSizes(P) = 1..PoolCount(P)
         /\ Load(PoolSizes(P)) = Load(Pooled(P))
         /\ \A i \in 1..PoolCount(P) : PoolSizes(P)[i] \in MinFat..MaxFat
         /\ PoolPlace(P) \in Bijection(P, 1..Cardinality(P))
<1> DEFINE w == Loads(serves, P)
           n == Load(Pooled(P))
<1>1. IsFiniteSet(P) /\ P \in SUBSET Nat /\ \A f \in P : serves[f] \in Full
  BY FS_Subset DEF Standing
<1>2. Rated(Pooled(P), Homes) /\ Rated(w, P) /\ n = Load(w)
  BY <1>1, PoolLoad DEF Pooled, Merged
<1>3. n \in Nat
  BY <1>2, Assumptions, LoadCounts DEF Rated
<1>4. \A x \in P : w[x] \in 1..MaxFat
  BY <1>1 DEF Loads, Full
<1>5. Exact(n, MinFat, MaxFat)
  BY DEF Poolable
<1> HIDE DEF w, n
<1>6. /\ Groups(n, MaxFat) \in 0..Cardinality(P)
      /\ Rated(Sizes(n, MinFat, MaxFat), 1..Groups(n, MaxFat))
      /\ Load(Sizes(n, MinFat, MaxFat)) = n
      /\ \A i \in 1..Groups(n, MaxFat) : Sizes(n, MinFat, MaxFat)[i] \in MinFat..MaxFat
  BY <1>1, <1>2, <1>3, <1>4, <1>5, PoolCut
<1>7. PoolPlace(P) \in Bijection(P, 1..Cardinality(P))
  BY <1>1, <1>2, Lined DEF PoolPlace, w
<1>8. PoolCount(P) = Groups(n, MaxFat) /\ PoolSizes(P) = Sizes(n, MinFat, MaxFat)
  BY DEF PoolCount, PoolSizes, n
<1>9. DOMAIN PoolSizes(P) = 1..PoolCount(P)
  BY <1>6, <1>8 DEF Rated
<1>10. Cardinality(P) \in Nat /\ PoolCount(P) \in Nat
  <2>1. Cardinality(P) \in Nat
    BY <1>1, FS_CardinalityType
  <2> QED
    BY <1>6, <1>8, <2>1
<1> QED
  BY <1>1, <1>2, <1>6, <1>7, <1>8, <1>9, <1>10 DEF n

LEMMA DealtSlices ==
  ASSUME Standing(serves), NEW P \in SUBSET DOMAIN serves, Poolable(P),
         NEW rank, Ranked(rank, Homes)
  PROVE  /\ Cuts(PoolSlices(P, rank), Pooled(P), PoolCount(P), PoolSizes(P))
         /\ \A i \in 1..PoolCount(P) : /\ PoolSlices(P, rank)[i] \in Full
                                       /\ Load(PoolSlices(P, rank)[i]) >= MinFat
<1> DEFINE k == PoolCount(P)
           sizes == PoolSizes(P)
           s == PoolSlices(P, rank)
           all == Pooled(P)
<1>1. /\ Rated(all, Homes) /\ k \in Nat /\ Rated(sizes, 1..k) /\ Load(sizes) = Load(all)
      /\ \A i \in 1..k : sizes[i] \in MinFat..MaxFat
  BY PoolFacts
<1>2. s = Slices(all, rank, sizes)
  BY DEF PoolSlices
<1>3. IsFiniteSet(Homes) /\ MinFat \in Nat \ {0} /\ MaxFat \in Nat
  BY Assumptions
<1>4. DOMAIN all = Homes
  BY <1>1 DEF Rated
<1> HIDE DEF k, sizes, s, all
<1>5. Cuts(s, all, k, sizes)
  BY <1>1, <1>2, <1>3, Sliced
<1>6. \A i \in 1..k : Rated(s[i], Homes) /\ Load(s[i]) = sizes[i]
  BY <1>4, <1>5 DEF Cuts
<1>7. \A i \in 1..k : Load(s[i]) \in 1..MaxFat /\ Load(s[i]) >= MinFat
  BY <1>1, <1>3, <1>6
<1>8. \A i \in 1..k : s[i] \in Full /\ Load(s[i]) >= MinFat
  BY <1>6, <1>7 DEF Full, Rated
<1> QED
  BY <1>5, <1>8 DEF k, sizes, s, all

DealtAs(built, P, rank) ==
  /\ Standing(built) /\ DOMAIN built = (DOMAIN serves \ P) \cup Kept(P) /\ Kept(P) \subseteq P
  /\ \A f \in DOMAIN serves \ P : built[f] = serves[f]
  /\ \A f \in Kept(P) : /\ built[f] = PoolSlices(P, rank)[PoolPlace(P)[f]]
                        /\ PoolPlace(P)[f] \in 1..PoolCount(P)
                        /\ Load(built[f]) >= MinFat

LEMMA DealtStanding ==
  ASSUME Standing(serves), NEW P \in SUBSET DOMAIN serves, Poolable(P),
         NEW rank, Ranked(rank, Homes), NEW built, built = Dealt(P, rank)
  PROVE  DealtAs(built, P, rank)
<1> DEFINE D == (DOMAIN serves \ P) \cup Kept(P)
<1>1. DOMAIN PoolSizes(P) = 1..PoolCount(P)
  BY PoolFacts
<1>2. built = [f \in D |-> IF f \in P THEN PoolSlices(P, rank)[PoolPlace(P)[f]] ELSE serves[f]]
  <2>1. built = DealtOut(P, rank)
    BY <1>1, DealtForm
  <2> QED
    BY <2>1 DEF DealtOut
<1>3. Kept(P) \subseteq P /\ \A f \in Kept(P) : PoolPlace(P)[f] \in 1..PoolCount(P)
  BY DEF Kept
<1>4. \A f \in DOMAIN serves \ P : built[f] = serves[f]
  BY <1>2
<1>5. \A f \in Kept(P) : built[f] = PoolSlices(P, rank)[PoolPlace(P)[f]]
  BY <1>2, <1>3
<1>6. DOMAIN built = D /\ built = [f \in D |-> built[f]]
  BY <1>2
<1>7. \A f \in Kept(P) : built[f] \in Full /\ Load(built[f]) >= MinFat
  BY <1>3, <1>5, DealtSlices
<1>8. \A f \in D : built[f] \in Full
  BY <1>4, <1>7 DEF Standing
<1>9. D \subseteq DOMAIN serves
  BY <1>3
<1>10. IsFiniteSet(D) /\ D \subseteq Nat
  BY <1>9, FS_Subset DEF Standing
<1>11. Standing(built)
  BY <1>6, <1>8, <1>10 DEF Standing
<1> QED
  BY <1>3, <1>4, <1>5, <1>6, <1>7, <1>11 DEF DealtAs

(* Dealing a pool out serves every home as before. *)
LEMMA DealtServes ==
  ASSUME Standing(serves), NEW P \in SUBSET DOMAIN serves, Poolable(P),
         NEW rank, Ranked(rank, Homes), NEW built, built = Dealt(P, rank), NEW h \in Homes
  PROVE  Served(built, h) = Served(serves, h)
<1> DEFINE K == Kept(P)
           rest == DOMAIN serves \ P
           k == PoolCount(P)
           m == Cardinality(P)
           p == PoolPlace(P)
           s == PoolSlices(P, rank)
           q == Restrict(p, K)
           old == [f \in DOMAIN serves |-> serves[f][h]]
           new == [f \in DOMAIN built |-> built[f][h]]
           got == [i \in 1..k |-> s[i][h]]
<1>1. /\ Standing(built) /\ DOMAIN built = rest \cup K /\ K \subseteq P
      /\ \A f \in rest : built[f] = serves[f]
      /\ \A f \in K : built[f] = s[p[f]] /\ p[f] \in 1..k
  <2>1. DealtAs(built, P, rank)
    BY DealtStanding
  <2> QED
    BY <2>1 DEF DealtAs
<1>2. /\ IsFiniteSet(P) /\ k \in 0..m /\ m \in Nat /\ p \in Bijection(P, 1..m)
  BY PoolFacts
<1>3. q \in Bijection(K, 1..k)
  <2>1. K = {x \in P : p[x] \in 1..k}
    BY DEF Kept
  <2> HIDE DEF K, p, k, m, q
  <2>2. Restrict(p, {x \in P : p[x] \in 1..k}) \in Bijection({x \in P : p[x] \in 1..k}, 1..k)
    BY <1>2, FirstPlaces
  <2> QED
    BY <2>1, <2>2 DEF q
<1>4. \A f \in K : q[f] = p[f]
  BY DEF Restrict
<1>5. Cuts(s, Pooled(P), k, PoolSizes(P)) /\ DOMAIN Pooled(P) = Homes
  <2>1. DOMAIN Pooled(P) = Homes
    BY PoolFacts DEF Rated
  <2> QED
    BY <2>1, DealtSlices
<1>6. Rated(got, 1..k) /\ Load(got) = Pooled(P)[h]
  BY <1>5 DEF Cuts
<1>7. /\ IsFiniteSet(DOMAIN serves) /\ IsFiniteSet(DOMAIN built)
      /\ old \in [DOMAIN serves -> Nat] /\ new \in [DOMAIN built -> Nat]
  BY <1>1 DEF Standing, Full
<1>8. Pooled(P)[h] = Load(Restrict(old, P))
  <2>1. Restrict(old, P) = [f \in P |-> serves[f][h]]
    BY DEF Restrict
  <2> QED
    BY <2>1 DEF Pooled, Merged
<1>9. Restrict(new, rest) = Restrict(old, rest)
  <2>1. \A f \in rest : new[f] = old[f]
    BY <1>1
  <2> HIDE DEF new, old, rest
  <2> QED
    BY <2>1 DEF Restrict
<1>10. DOMAIN built \ K = rest /\ DOMAIN serves \ P = rest /\ K \subseteq DOMAIN built /\ IsFiniteSet(K)
  BY <1>1, <1>2, FS_Subset
<1>11. \A f \in K : new[f] = got[q[f]]
  BY <1>1, <1>4
<1>12. Served(built, h) = Load(new) /\ Served(serves, h) = Load(old)
  BY DEF Served
<1> HIDE DEF K, rest, k, m, p, s, q, old, new, got
<1>13. /\ Load(old) = Load(Restrict(old, P)) + Load(Restrict(old, rest))
       /\ Load(new) = Load(Restrict(new, K)) + Load(Restrict(new, rest))
  <2>1. Load(old) = Load(Restrict(old, P)) + Load(Restrict(old, DOMAIN serves \ P))
    BY <1>7, LoadSplit
  <2>2. Load(new) = Load(Restrict(new, K)) + Load(Restrict(new, DOMAIN built \ K))
    <3>1. K \in SUBSET DOMAIN built
      BY <1>10
    <3> QED
      BY <1>7, <3>1, LoadSplit
  <2> QED
    BY <1>10, <2>1, <2>2
<1>14. Load(Restrict(new, K)) = Load(got)
  <2> DEFINE e == Restrict(new, K)
  <2>1. Rated(e, K) /\ Follows(e, got, q)
    <3>1. DOMAIN e = K /\ e = [f \in K |-> new[f]]
      BY DEF Restrict
    <3>2. \A f \in K : new[f] \in Nat
      BY <1>7, <1>10
    <3> HIDE DEF e
    <3> QED
      BY <1>11, <3>1, <3>2 DEF Rated, Follows
  <2> HIDE DEF e
  <2>2. Load(e) = Load(got)
    BY <1>3, <1>6, <1>10, <2>1, LoadFollows
  <2> QED
    BY <2>2 DEF e
<1> QED
  BY <1>6, <1>8, <1>9, <1>12, <1>13, <1>14

(* A repair deals out a pool that can be dealt out exactly, and the FAT that
   was short is one of it. *)
Repairs(v, P, rank) ==
  /\ v \in DOMAIN serves /\ Low(v) /\ v \in P /\ P \in SUBSET DOMAIN serves
  /\ Poolable(P) /\ Ranked(rank, Homes) /\ serves' = Dealt(P, rank)

LEMMA PartnersPool ==
  ASSUME NEW D, IsFiniteSet(D), NEW v \in D, D = DOMAIN serves, NEW q \in Partners(v)
  PROVE  LET P == {v} \cup {q[i] : i \in DOMAIN q}
         IN P \in SUBSET D /\ Poolable(P)
<1>1. /\ q \in SetToAllKPermutations(DOMAIN serves \ {v})
      /\ \A k \in 0..Len(q) : Poolable({v} \cup {q[i] : i \in 1..k}) <=> k = Len(q)
  BY DEF Partners
<1>2. PICK S \in SUBSET (D \ {v}) : q \in SetToSeqs(S)
  BY <1>1 DEF SetToAllKPermutations
<1> DEFINE c == Cardinality(S)
<1>3. q \in [1..c -> S]
  <2>1. Cardinality(S) = c
    OBVIOUS
  <2> QED
    BY <1>2, <2>1 DEF SetToSeqs
<1>4. c \in Nat
  <2>1. IsFiniteSet(S)
    <3>1. S \in SUBSET D
      OBVIOUS
    <3> QED
      BY <3>1, FS_Subset
  <2> QED
    BY <2>1, FS_CardinalityType
<1> HIDE DEF c
<1>5. q \in Seq(S)
  BY <1>3, <1>4, IsASeq
<1>6. Len(q) \in Nat /\ DOMAIN q = 1..Len(q)
  BY <1>5, LenProperties
<1>7. Poolable({v} \cup {q[i] : i \in DOMAIN q})
  <2>1. {v} \cup {q[i] : i \in DOMAIN q} = {v} \cup {q[i] : i \in 1..Len(q)}
    BY <1>6
  <2>2. Len(q) \in 0..Len(q)
    BY <1>6
  <2>3. Poolable({v} \cup {q[i] : i \in 1..Len(q)})
    BY <1>1, <2>2
  <2> QED
    BY <2>1, <2>3
<1>8. {v} \cup {q[i] : i \in DOMAIN q} \in SUBSET D
  BY <1>3
<1> QED
  BY <1>7, <1>8

LEMMA RepairForm ==
  ASSUME Standing(serves), Rebalance
  PROVE  \E v, P, rank : Repairs(v, P, rank)
<1>1. PICK v \in Emptiest(Victims), rank \in Injection(Homes, 1..Cardinality(Homes)) :
        \E q \in Partners(v) : serves' = Dealt({v} \cup {q[i] : i \in DOMAIN q}, rank)
  BY DEF Rebalance
<1>2. PICK q \in Partners(v) : serves' = Dealt({v} \cup {q[i] : i \in DOMAIN q}, rank)
  BY <1>1
<1> DEFINE P == {v} \cup {q[i] : i \in DOMAIN q}
<1>3. v \in DOMAIN serves /\ Low(v)
  BY DEF Emptiest, Victims
<1>4. IsFiniteSet(DOMAIN serves)
  BY DEF Standing
<1>5. P \in SUBSET DOMAIN serves /\ Poolable(P)
  BY <1>3, <1>4, PartnersPool
<1>6. v \in P /\ serves' = Dealt(P, rank)
  BY <1>2
<1>7. Ranked(rank, Homes)
  <2>1. rank \in [Homes -> 1..Cardinality(Homes)] /\ \A x, y \in Homes : rank[x] = rank[y] => x = y
    BY DEF Injection, IsInjective
  <2> QED
    BY <2>1 DEF Ranked
<1> HIDE DEF P
<1>8. Repairs(v, P, rank)
  BY <1>3, <1>5, <1>6, <1>7 DEF Repairs
<1> QED
  BY <1>8

LEMMA FieldRebalance == ASSUME FieldInv, Rebalance PROVE FieldInv'
<1>1. Standing(serves)
  BY DEF FieldInv
<1>2. PICK v, P, rank : Repairs(v, P, rank)
  BY <1>1, RepairForm
<1>3. /\ P \in SUBSET DOMAIN serves /\ Poolable(P) /\ Ranked(rank, Homes) /\ serves' = Dealt(P, rank)
  BY <1>2 DEF Repairs
<1>4. Standing(serves') /\ \A h \in Homes : Served(serves', h) = Served(serves, h)
  <2> DEFINE built == serves'
  <2>1. built = Dealt(P, rank)
    BY <1>3
  <2> HIDE DEF built
  <2>2. DealtAs(built, P, rank)
    BY <1>1, <1>3, <2>1, DealtStanding
  <2>3. ASSUME NEW h \in Homes PROVE Served(built, h) = Served(serves, h)
    BY <1>1, <1>3, <2>1, DealtServes
  <2> QED
    BY <2>2, <2>3 DEF built, DealtAs
<1>5. /\ phase = "rebalance" /\ rounds < MaxFatRebalances /\ rounds' = rounds + 1 /\ unmatched' = {}
      /\ phase' = IF \E f \in DOMAIN serves' : Load(serves'[f]) = 0 THEN "failed" ELSE phase
      /\ UNCHANGED <<road, demand, clusters, turn, excused>>
  BY DEF Rebalance, Balancing
<1>6. phase' = phase
  <2>1. \A f \in DOMAIN serves' : Load(serves'[f]) # 0
    BY <1>4 DEF Standing, Full
  <2>2. ~ \E f \in DOMAIN serves' : Load(serves'[f]) = 0
    BY <2>1
  <2> QED
    BY <1>5, <2>2
<1>7. rounds' \in 0..MaxFatRebalances
  <2>1. rounds \in 0..MaxFatRebalances /\ MaxFatRebalances \in Nat
    BY Assumptions DEF FieldInv
  <2> QED
    BY <1>5, <2>1
<1>8. excused' = {} /\ phase' \in Serving /\ phase' # "borrow" /\ phase' # "done" /\ phase' \in Phases \ {"failed"}
  BY <1>5, <1>6 DEF FieldInv, Serving
<1>9. \A h \in Homes : Served(serves', h) = demand'[h]
  BY <1>4, <1>5 DEF FieldInv, Serving
<1>10. /\ Rated(demand', Homes) /\ road' \in [Homes -> Roads \cup {None}] /\ Grouping(clusters')
       /\ \A h \in Homes : road'[h] = None => demand'[h] = 0
       /\ turn' \in 0..2 * Cardinality(Roads)
  BY <1>5 DEF FieldInv
<1> QED
  BY <1>4, <1>5, <1>7, <1>8, <1>9, <1>10 DEF FieldInv

LEMMA FieldBlock == ASSUME FieldInv, SetAside PROVE FieldInv'
<1>1. /\ phase = "rebalance" /\ rounds < MaxFatRebalances /\ rounds' = rounds + 1
      /\ UNCHANGED <<phase, road, demand, clusters, serves, turn, excused>>
  BY DEF SetAside, Balancing
<1>2. PICK v \in Emptiest(Victims) : unmatched' = unmatched \cup {v}
  BY DEF SetAside
<1>3. v \in DOMAIN serves
  BY DEF Emptiest, Victims
<1>4. rounds' \in 0..MaxFatRebalances
  <2>1. rounds \in 0..MaxFatRebalances /\ MaxFatRebalances \in Nat
    BY Assumptions DEF FieldInv
  <2> QED
    BY <1>1, <2>1
<1>5. unmatched' \subseteq DOMAIN serves' /\ phase' \in Serving
  BY <1>1, <1>2, <1>3 DEF FieldInv, Serving
<1>6. /\ phase' \in Phases \ {"failed"} /\ phase' # "borrow"
      /\ road' \in [Homes -> Roads \cup {None}] /\ Rated(demand', Homes)
      /\ \A h \in Homes : road'[h] = None => demand'[h] = 0
      /\ turn' \in 0..2 * Cardinality(Roads)
      /\ (phase' # "done" => excused' = {}) /\ excused' \subseteq DOMAIN serves'
  BY <1>1 DEF FieldInv
<1>7. Grouping(clusters') /\ Standing(serves')
  BY <1>1 DEF FieldInv
<1>8. \A h \in Homes : Served(serves', h) = demand'[h]
  BY <1>1 DEF FieldInv, Serving
<1> QED
  BY <1>4, <1>5, <1>6, <1>7, <1>8 DEF FieldInv

LEMMA FieldFinish == ASSUME FieldInv, Finish PROVE FieldInv'
<1> DEFINE low == {f \in DOMAIN serves : Low(f)}
<1>1. /\ phase = "rebalance"
      /\ phase' = IF Load(Pooled(DOMAIN serves)) = Load(demand) THEN "done" ELSE "failed"
      /\ excused' \in {low, {}}
      /\ UNCHANGED <<road, demand, clusters, serves, turn, unmatched, rounds>>
  BY DEF Finish
<1>2. Pooled(DOMAIN serves) = demand
  <2>1. \A h \in Homes : Load([f \in DOMAIN serves |-> serves[f][h]]) = demand[h]
    BY <1>1 DEF FieldInv, Serving, Served
  <2>2. demand = [h \in Homes |-> demand[h]]
    BY DEF FieldInv, Rated
  <2> QED
    BY <2>1, <2>2 DEF Pooled, Merged
<1>3. phase' = "done"
  BY <1>1, <1>2
<1>4. excused' \subseteq DOMAIN serves'
  BY <1>1
<1>5. /\ phase' \in Phases \ {"failed"} /\ phase' \in Serving /\ phase' # "borrow"
  BY <1>3 DEF Phases, Serving
<1>6. /\ road' \in [Homes -> Roads \cup {None}] /\ Rated(demand', Homes)
      /\ \A h \in Homes : road'[h] = None => demand'[h] = 0
      /\ turn' \in 0..2 * Cardinality(Roads) /\ rounds' \in 0..MaxFatRebalances
      /\ unmatched' \subseteq DOMAIN serves'
  BY <1>1 DEF FieldInv
<1>7. Grouping(clusters') /\ Standing(serves')
  BY <1>1 DEF FieldInv
<1>8. \A h \in Homes : Served(serves', h) = demand'[h]
  BY <1>1 DEF FieldInv, Serving
<1> QED
  BY <1>3, <1>4, <1>5, <1>6, <1>7, <1>8 DEF FieldInv

LEMMA FieldStep == ASSUME FieldInv, [FieldNext]_fieldVars PROVE FieldInv'
<1>1. CASE Assign
  BY <1>1, FieldAssign
<1>2. CASE Trim
  BY <1>2, FieldTrim
<1>3. CASE Group
  BY <1>3, FieldGroup
<1>4. CASE LendTail
  BY <1>4, FieldBorrow
<1>5. CASE KeepTail
  BY <1>5, FieldKeepTail
<1>6. CASE Create
  BY <1>6, FieldCreate
<1>7. CASE Rebalance
  BY <1>7, FieldRebalance
<1>8. CASE SetAside
  BY <1>8, FieldBlock
<1>9. CASE Finish
  BY <1>9, FieldFinish
<1>10. CASE UNCHANGED fieldVars
  BY <1>10 DEF fieldVars, FieldInv, Grouping, Standing, GroupedSum, Served
<1> QED
  BY <1>1, <1>2, <1>3, <1>4, <1>5, <1>6, <1>7, <1>8, <1>9, <1>10 DEF FieldNext, FieldEnded

LEMMA FieldInductive == FieldSpec => []FieldInv
<1>1. FieldInit => FieldInv
  BY FieldStart
<1>2. FieldInv /\ [FieldNext]_fieldVars => FieldInv'
  BY FieldStep
<1> QED
  BY <1>1, <1>2, PTL DEF FieldSpec

(* Every variable of EngineFats keeps to its type: road, demand, clusters and
   serves are what the engine's stages may make of them. *)
THEOREM FieldTypeCorrect == FieldSpec => []FieldTypeOK
<1>1. ASSUME FieldInv PROVE FieldTypeOK
  <2>1. Full \subseteq [Homes -> Nat]
    BY DEF Full
  <2>2. clusters \in [Roads -> Seq([Homes -> Nat])]
    <3>1. ASSUME NEW r \in Roads PROVE clusters[r] \in Seq([Homes -> Nat])
      <4>1. ListOf(clusters[r], Full)
        BY <1>1 DEF FieldInv, Grouping
      <4>2. clusters[r] \in Seq(Full)
        BY <4>1 DEF ListOf
      <4> QED
        BY <2>1, <4>2
    <3> QED
      BY <1>1, <3>1 DEF FieldInv, Grouping
  <2>3. DOMAIN serves \subseteq Nat /\ \A f \in DOMAIN serves : serves[f] \in [Homes -> Nat]
    BY <1>1, <2>1 DEF FieldInv, Standing
  <2>4. turn \in 0..2 * Cardinality(Roads)
    BY <1>1 DEF FieldInv
  <2>5. demand \in [Homes -> Nat]
    BY <1>1 DEF FieldInv, Rated
  <2> QED
    BY <1>1, <2>2, <2>3, <2>4, <2>5 DEF FieldInv, FieldTypeOK, Allocations
<1>2. FieldInv => FieldTypeOK
  BY <1>1
<1> QED
  BY <1>2, FieldInductive, PTL

(* EveryHomeServed: slices take a demand apart without a rest, a loan moves the
   tail with its customers, and a pool is dealt what its FATs served. *)
THEOREM HomesServed == FieldSpec => []EveryHomeServed
<1>1. ASSUME FieldInv PROVE EveryHomeServed
  <2>1. ASSUME NEW h \in Homes, phase = "borrow" PROVE GroupedFor(h) = demand[h]
    <3>1. ASSUME NEW r \in Roads
          PROVE  Load([i \in DOMAIN clusters[r] |-> clusters[r][i][h]]) = SumOver(Of(h), clusters[r])
      <4>1. ListOf(clusters[r], Full)
        BY <1>1 DEF FieldInv, Grouping
      <4>2. \A i \in DOMAIN clusters[r] : clusters[r][i] \in Full
        BY <4>1, Listed
      <4>3. [i \in DOMAIN clusters[r] |-> clusters[r][i][h]] = Weights(Of(h), clusters[r])
        BY <4>2, RatedOf DEF Weights
      <4> QED
        BY <4>3 DEF SumOver
    <3>2. [r \in Roads |-> Load([i \in DOMAIN clusters[r] |-> clusters[r][i][h]])]
          = [r \in Roads |-> SumOver(Of(h), clusters[r])]
      BY <3>1
    <3>3. GroupedFor(h) = GroupedSum(clusters, h)
      BY <3>2 DEF GroupedFor, GroupedSum
    <3> QED
      BY <1>1, <2>1, <3>3 DEF FieldInv
  <2>2. ASSUME NEW h \in Homes, phase \in {"rebalance", "done"} PROVE ServedBy(h) = demand[h]
    <3>1. ServedBy(h) = Served(serves, h)
      BY DEF ServedBy, Served
    <3> QED
      BY <1>1, <2>2, <3>1 DEF FieldInv, Serving
  <2> QED
    BY <2>1, <2>2 DEF EveryHomeServed
<1>2. FieldInv => EveryHomeServed
  BY <1>1
<1> QED
  BY <1>2, FieldInductive, PTL

(* NeverRefuses: the audits of Create, Rebalance and Finish cannot fail, since
   groups stay within 1..MaxFat through cutting, lending and dealing. *)
THEOREM NothingRefused == FieldSpec => []NeverRefuses
<1>1. ASSUME FieldInv PROVE NeverRefuses
  <2>1. \A f \in DOMAIN serves : Load(serves[f]) \in 1..MaxFat
    BY <1>1 DEF FieldInv, Standing, Full
  <2>2. \A f \in DOMAIN serves : Load(serves[f]) \in 1..MaxFat
    BY <2>1
  <2> QED
    BY <1>1, <2>2 DEF FieldInv, NeverRefuses
<1>2. FieldInv => NeverRefuses
  BY <1>1
<1> QED
  BY <1>2, FieldInductive, PTL

LEMMA RepairShrinks ==
  ASSUME FieldInv, Rebalance
  PROVE  /\ Cardinality({f \in DOMAIN serves' : Load(serves'[f]) \in 1..(MinFat - 1)}) < LowCount
         /\ DOMAIN serves' \subseteq DOMAIN serves
<1> DEFINE low == {f \in DOMAIN serves : Low(f)}
           low2 == {f \in DOMAIN serves' : Load(serves'[f]) \in 1..(MinFat - 1)}
<1>1. Standing(serves)
  BY DEF FieldInv
<1>2. PICK v, P, rank : Repairs(v, P, rank)
  BY <1>1, RepairForm
<1>3. /\ v \in DOMAIN serves /\ Low(v) /\ v \in P /\ P \in SUBSET DOMAIN serves
      /\ Poolable(P) /\ Ranked(rank, Homes) /\ serves' = Dealt(P, rank)
  BY <1>2 DEF Repairs
<1>4. /\ DOMAIN serves' = (DOMAIN serves \ P) \cup Kept(P) /\ Kept(P) \subseteq P
      /\ \A f \in DOMAIN serves \ P : serves'[f] = serves[f]
      /\ \A f \in Kept(P) : Load(serves'[f]) >= MinFat
  <2> DEFINE built == serves'
  <2>1. built = Dealt(P, rank)
    BY <1>3
  <2> HIDE DEF built
  <2>2. DealtAs(built, P, rank)
    BY <1>1, <1>3, <2>1, DealtStanding
  <2> QED
    BY <2>2 DEF built, DealtAs
<1>5. MinFat \in Nat
  BY Assumptions
<1>6. low2 \subseteq low \ {v}
  <2>1. ASSUME NEW f \in low2 PROVE f \in low \ {v}
    <3>1. f \notin Kept(P)
      <4>1. Load(serves'[f]) = Load(serves'[f])
        OBVIOUS
      <4>2. Load(serves'[f]) \in 1..(MinFat - 1)
        OBVIOUS
      <4> QED
        BY <1>4, <1>5, <4>1, <4>2
    <3>2. f \in DOMAIN serves \ P
      BY <1>4, <3>1
    <3> QED
      BY <1>3, <1>4, <3>2 DEF Low
  <2> QED
    BY <2>1
<1>7. v \in low /\ low \subseteq DOMAIN serves
  BY <1>3
<1> HIDE DEF low, low2
<1>8. IsFiniteSet(low)
  BY <1>1, <1>7, FS_Subset DEF Standing
<1>9. Cardinality(low2) < Cardinality(low)
  <2>1. low2 \in SUBSET low /\ low2 # low
    BY <1>6, <1>7
  <2>2. IsFiniteSet(low2) /\ Cardinality(low2) <= Cardinality(low) /\ Cardinality(low2) # Cardinality(low)
    BY <1>8, <2>1, FS_Subset
  <2>3. Cardinality(low2) \in Nat /\ Cardinality(low) \in Nat
    BY <1>8, <2>2, FS_CardinalityType
  <2> QED
    BY <2>2, <2>3
<1>10. Cardinality(low2) < LowCount
  <2>1. LowCount = Cardinality(low)
    BY DEF LowCount, low
  <2> QED
    BY <1>9, <2>1
<1>11. DOMAIN serves' \subseteq DOMAIN serves
  BY <1>3, <1>4
<1> QED
  BY <1>10, <1>11 DEF low2

(* RepairsHelp: a pool is dealt out only where every size is at least MinFat, to
   as many FATs as it has at most, and the FAT that was short was one of them. *)
THEOREM RepairsShrink == FieldSpec => RepairsHelp
<1>1. ASSUME FieldInv, [FieldNext]_fieldVars
      PROVE  [phase = "rebalance" /\ serves' # serves =>
                /\ Cardinality({f \in DOMAIN serves' : Load(serves'[f]) \in 1..(MinFat - 1)}) < LowCount
                /\ DOMAIN serves' \subseteq DOMAIN serves]_fieldVars
  <2> SUFFICES ASSUME phase = "rebalance", serves' # serves
               PROVE  /\ Cardinality({f \in DOMAIN serves' : Load(serves'[f]) \in 1..(MinFat - 1)}) < LowCount
                      /\ DOMAIN serves' \subseteq DOMAIN serves
    OBVIOUS
  <2>1. Rebalance
    BY <1>1 DEF FieldNext, fieldVars, Assign, Trim, Group, LendTail, KeepTail, NextTurn,
                Create, SetAside, Finish, FieldEnded
  <2> QED
    BY <1>1, <2>1, RepairShrinks
<1>2. FieldInv /\ [FieldNext]_fieldVars
      => [phase = "rebalance" /\ serves' # serves =>
            /\ Cardinality({f \in DOMAIN serves' : Load(serves'[f]) \in 1..(MinFat - 1)}) < LowCount
            /\ DOMAIN serves' \subseteq DOMAIN serves]_fieldVars
  BY <1>1
<1> QED
  BY <1>2, FieldInductive, PTL DEF FieldSpec, RepairsHelp
=============================================================================
