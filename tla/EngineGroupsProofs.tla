------------------------- MODULE EngineGroupsProofs -------------------------
(***************************************************************************)
(* What holds of generate_fdts on every network of roads: no FAT is lost,  *)
(* no group is too large, only a swap puts a FAT into two groups, and no   *)
(* combination makes more small groups than one.  Rests on the lemmas of   *)
(* EngineProofs about sums and about how a number is dealt out.            *)
(***************************************************************************)
EXTENDS EngineProofs, EngineGroups

-----------------------------------------------------------------------------
(* How often a thing is in a list. *)

Mark(f, A) == [x \in A |-> IF x = f THEN 1 ELSE 0]
Count(f, s) == Load([i \in DOMAIN s |-> IF s[i] = f THEN 1 ELSE 0])

LEMMA Marked ==
  ASSUME NEW A, NEW f
  PROVE  Rated(Mark(f, A), A) /\ \A x \in A : Mark(f, A)[x] = IF x = f THEN 1 ELSE 0
<1>1. Mark(f, A) \in [A -> Nat]
  BY DEF Mark
<1> QED
  BY <1>1 DEF Rated, Mark

LEMMA Counted ==
  ASSUME NEW A, NEW s, ListOf(s, A), NEW f
  PROVE  Count(f, s) = SumOver(Mark(f, A), s) /\ Count(f, s) \in Nat
<1> DEFINE w == Mark(f, A)
<1>1. DOMAIN s = 1..Len(s) /\ \A i \in 1..Len(s) : s[i] \in A
  BY Listed
<1>2. \A i \in DOMAIN s : w[s[i]] = IF s[i] = f THEN 1 ELSE 0
  BY <1>1, Marked
<1>3. Weights(w, s) = [i \in DOMAIN s |-> IF s[i] = f THEN 1 ELSE 0]
  <2> HIDE DEF w
  <2> QED
    BY <1>2 DEF Weights
<1>4. Rated(w, A)
  BY Marked
<1> HIDE DEF w
<1>5. SumOver(w, s) \in Nat
  BY <1>4, SumIsNumber
<1> QED
  BY <1>3, <1>5 DEF Count, SumOver, w

LEMMA CountJoined ==
  ASSUME NEW A, NEW s, ListOf(s, A), NEW t, ListOf(t, A), NEW f
  PROVE  Count(f, s \o t) = Count(f, s) + Count(f, t)
<1>1. ListOf(s \o t, A)
  BY JoinedSeq
<1>2. Rated(Mark(f, A), A)
  BY Marked
<1>3. SumOver(Mark(f, A), s \o t) = SumOver(Mark(f, A), s) + SumOver(Mark(f, A), t)
  BY <1>2, SumConcat
<1>4. /\ Count(f, s) = SumOver(Mark(f, A), s) /\ Count(f, t) = SumOver(Mark(f, A), t)
      /\ Count(f, s \o t) = SumOver(Mark(f, A), s \o t)
  BY <1>1, Counted
<1> QED
  BY <1>3, <1>4

LEMMA CountNone ==
  ASSUME NEW f
  PROVE  Count(f, <<>>) = 0
<1> DEFINE g == [i \in DOMAIN <<>> |-> IF <<>>[i] = f THEN 1 ELSE 0]
<1>1. g \in [{} -> Nat]
  OBVIOUS
<1> HIDE DEF g
<1>2. Load(g) = 0
  BY <1>1, LoadEmpty
<1> QED
  BY <1>2 DEF Count, g

(* A sum of ones and zeros counts the ones. *)
LEMMA LoadMarks ==
  ASSUME NEW S, IsFiniteSet(S), NEW g \in [S -> Nat], NEW T \in SUBSET S,
         \A x \in T : g[x] = 1, \A x \in S \ T : g[x] = 0
  PROVE  Load(g) = Cardinality(T) /\ IsFiniteSet(T) /\ Cardinality(T) \in Nat
<1> DEFINE a == Restrict(g, T)
           b == Restrict(g, S \ T)
<1>1. /\ a \in [T -> Nat] /\ \A i \in T : a[i] = 1
      /\ b \in [S \ T -> Nat] /\ \A i \in S \ T : b[i] = 0
  BY DEF Restrict
<1>2. IsFiniteSet(T) /\ IsFiniteSet(S \ T) /\ Cardinality(T) \in Nat
  BY FS_Subset, FS_CardinalityType
<1>3. Load(g) = Load(a) + Load(b)
  BY LoadSplit
<1> HIDE DEF a, b
<1>4. Load(b) = 0
  BY <1>1, <1>2, LoadZero
<1>5. Load(a) = Cardinality(T) * 1
  BY <1>1, <1>2, LoadBound
<1> QED
  BY <1>2, <1>3, <1>4, <1>5

LEMMA CountPlaces ==
  ASSUME NEW A, NEW s, ListOf(s, A), NEW f
  PROVE  /\ IsFiniteSet({i \in 1..Len(s) : s[i] = f})
         /\ Count(f, s) = Cardinality({i \in 1..Len(s) : s[i] = f})
<1> DEFINE S == 1..Len(s)
           T == {i \in S : s[i] = f}
           g == [i \in S |-> IF s[i] = f THEN 1 ELSE 0]
<1>1. DOMAIN s = S /\ IsFiniteSet(S)
  BY Listed, Numbered
<1>2. g \in [S -> Nat] /\ T \in SUBSET S
  OBVIOUS
<1>3. (\A i \in T : g[i] = 1) /\ \A i \in S \ T : g[i] = 0
  OBVIOUS
<1>4. Count(f, s) = Load(g)
  BY <1>1 DEF Count
<1> HIDE DEF g, S, T
<1>5. Load(g) = Cardinality(T) /\ IsFiniteSet(T)
  BY <1>1, <1>2, <1>3, LoadMarks
<1> QED
  BY <1>4, <1>5 DEF T, S

LEMMA CountSome ==
  ASSUME NEW A, NEW s, ListOf(s, A), NEW f
  PROVE  Count(f, s) # 0 <=> f \in ToSet(s)
<1> DEFINE T == {i \in 1..Len(s) : s[i] = f}
<1>1. IsFiniteSet(T) /\ Count(f, s) = Cardinality(T)
  BY CountPlaces
<1>2. T = {} <=> f \notin ToSet(s)
  BY Listed DEF ToSet
<1> HIDE DEF T
<1> QED
  BY <1>1, <1>2, FS_EmptySet

LEMMA CountTwice ==
  ASSUME NEW A, NEW s, ListOf(s, A), NEW f
  PROVE  Count(f, s) >= 2 <=> \E k \in 1..Len(s) : \E j \in 1..(k - 1) : s[j] = f /\ s[k] = f
<1> DEFINE T == {i \in 1..Len(s) : s[i] = f}
<1>1. IsFiniteSet(T) /\ Count(f, s) = Cardinality(T) /\ Cardinality(T) \in Nat
  BY CountPlaces, FS_CardinalityType
<1>2. Len(s) \in Nat
  BY Listed
<1>3. ASSUME Cardinality(T) >= 2
      PROVE  \E k \in 1..Len(s) : \E j \in 1..(k - 1) : s[j] = f /\ s[k] = f
  <2>1. PICK a \in T : TRUE
    BY <1>1, <1>3, FS_EmptySet
  <2>2. T # {a}
    <3>1. Cardinality({a}) = 1
      BY FS_Singleton
    <3> HIDE DEF T
    <3> QED
      BY <1>3, <3>1
  <2>3. PICK b \in T : b # a
    BY <2>1, <2>2
  <2>4. CASE a < b
    BY <1>2, <2>1, <2>3, <2>4
  <2>5. CASE b < a
    BY <1>2, <2>1, <2>3, <2>5
  <2> QED
    BY <1>2, <2>1, <2>3, <2>4, <2>5
<1>4. ASSUME NEW k \in 1..Len(s), NEW j \in 1..(k - 1), s[j] = f, s[k] = f
      PROVE  Cardinality(T) >= 2
  <2>1. j \in T /\ k \in T /\ j # k
    BY <1>2, <1>4
  <2> HIDE DEF T
  <2>2. Cardinality(T) # 0
    BY <1>1, <2>1, FS_EmptySet
  <2>3. Cardinality(T) # 1
    BY <1>1, <2>1, FS_Singleton
  <2> QED
    BY <1>1, <2>2, <2>3
<1> HIDE DEF T
<1> QED
  BY <1>1, <1>3, <1>4

(* One list for each member of a list. *)
Tally(ss, f) == [i \in DOMAIN ss |-> Count(f, ss[i])]

LEMMA CountFlat ==
  ASSUME NEW A, NEW B, NEW ss, ListOf(ss, B), ListsOf(ss, A), NEW f
  PROVE  /\ Count(f, FlattenSeq(ss)) = Load(Tally(ss, f)) /\ Rated(Tally(ss, f), 1..Len(ss))
         /\ Load(Tally(ss, f)) \in Nat
<1>1. Rated(Mark(f, A), A)
  BY Marked
<1>2. ListOf(FlattenSeq(ss), A) /\ SumOver(Mark(f, A), FlattenSeq(ss)) = Load(RowSums(Mark(f, A), ss))
  BY <1>1, Flattened
<1>3. DOMAIN ss = 1..Len(ss)
  BY Listed
<1>4. \A i \in DOMAIN ss : SumOver(Mark(f, A), ss[i]) = Count(f, ss[i])
  BY Counted DEF ListsOf
<1>5. RowSums(Mark(f, A), ss) = Tally(ss, f)
  BY <1>4 DEF RowSums, Tally
<1>6. Rated(Tally(ss, f), 1..Len(ss))
  BY <1>1, <1>5, RowSum
<1>7. Count(f, FlattenSeq(ss)) = Load(Tally(ss, f)) /\ Count(f, FlattenSeq(ss)) \in Nat
  BY <1>2, <1>5, Counted
<1> QED
  BY <1>6, <1>7

(* What is chosen from a list, in its order. *)
LEMMA ChosenList ==
  ASSUME NEW A, NEW s, ListOf(s, A), NEW S \in SUBSET (1..Len(s))
  PROVE  /\ ListOf(Chosen(s, S), A) /\ Len(Chosen(s, S)) = Cardinality(S)
         /\ Cardinality(S) \in Nat /\ IsFiniteSet(S)
         /\ Ascending(S) \in Bijection(1..Cardinality(S), S)
         /\ \A k \in 1..Cardinality(S) : Ascending(S)[k] \in S /\ Chosen(s, S)[k] = s[Ascending(S)[k]]
<1> DEFINE n == Cardinality(S)
           c == Chosen(s, S)
<1>1. Len(s) \in Nat /\ \A i \in 1..Len(s) : s[i] \in A
  BY Listed
<1>2. IsFiniteSet(S)
  BY <1>1, Numbered, FS_Subset
<1>3. S \in SUBSET Nat
  BY <1>1
<1>4. n \in Nat /\ Ascending(S) \in Bijection(1..n, S)
  BY <1>2, <1>3, AscendingOrder
<1>5. \A k \in 1..n : Ascending(S)[k] \in S
  <2> HIDE DEF n
  <2> QED
    BY <1>4 DEF Bijection, Injection
<1>6. c = [k \in 1..n |-> s[Ascending(S)[k]]]
  BY DEF Chosen
<1> HIDE DEF c, n
<1>7. DOMAIN c = 1..n /\ \A k \in 1..n : c[k] = s[Ascending(S)[k]]
  BY <1>6
<1>8. c = [k \in 1..n |-> c[k]]
  BY <1>6, <1>7
<1>9. \A k \in 1..n : c[k] \in A
  BY <1>1, <1>5, <1>7
<1>10. ListOf(c, A) /\ Len(c) = n
  BY <1>4, <1>7, <1>8, <1>9, Lists
<1> QED
  BY <1>2, <1>4, <1>5, <1>7, <1>10 DEF c, n

(* A sum over what is chosen is the sum over the places chosen. *)
LEMMA ChosenSum ==
  ASSUME NEW A, NEW s, ListOf(s, A), NEW S \in SUBSET (1..Len(s)), NEW w, Rated(w, S),
         NEW v, Rated(v, 1..Cardinality(S)), Follows(v, w, Ascending(S))
  PROVE  Load(v) = Load(w)
<1>1. /\ Cardinality(S) \in Nat /\ Ascending(S) \in Bijection(1..Cardinality(S), S)
  BY ChosenList
<1>2. IsFiniteSet(1..Cardinality(S))
  BY <1>1, Numbered
<1> QED
  BY ONLY <1>1, <1>2, Rated(w, S), Rated(v, 1..Cardinality(S)), Follows(v, w, Ascending(S)), LoadFollows

LEMMA CountChosen ==
  ASSUME NEW A, NEW s, ListOf(s, A), NEW S \in SUBSET (1..Len(s)), NEW f
  PROVE  Count(f, Chosen(s, S)) = Cardinality({i \in S : s[i] = f})
<1> DEFINE n == Cardinality(S)
           w == [i \in S |-> IF s[i] = f THEN 1 ELSE 0]
           v == [k \in 1..n |-> IF Chosen(s, S)[k] = f THEN 1 ELSE 0]
           T == {i \in S : s[i] = f}
<1>1. /\ ListOf(Chosen(s, S), A) /\ Len(Chosen(s, S)) = n
      /\ n \in Nat /\ IsFiniteSet(S)
      /\ \A k \in 1..n : Ascending(S)[k] \in S /\ Chosen(s, S)[k] = s[Ascending(S)[k]]
  BY ChosenList
<1>2. Rated(w, S) /\ Rated(v, 1..n)
  <2> HIDE DEF n
  <2> QED
    BY DEF Rated
<1>3. DOMAIN Chosen(s, S) = 1..n
  BY <1>1, Listed
<1>4. Load(v) = Count(f, Chosen(s, S))
  BY <1>3 DEF Count
<1>5. Follows(v, w, Ascending(S))
  <2> HIDE DEF n
  <2>1. DOMAIN v = 1..n
    OBVIOUS
  <2>2. \A k \in 1..n : v[k] = w[Ascending(S)[k]]
    BY <1>1
  <2> HIDE DEF v, w
  <2> QED
    BY <2>1, <2>2 DEF Follows
<1>6. w \in [S -> Nat] /\ T \in SUBSET S /\ (\A i \in T : w[i] = 1) /\ \A j \in S \ T : w[j] = 0
  OBVIOUS
<1> HIDE DEF n, w, v, T
<1>7. Load(v) = Load(w)
  BY <1>2, <1>5, ChosenSum DEF n
<1>8. Load(w) = Cardinality(T)
  <2>1. IsFiniteSet(S)
    BY <1>1
  <2>2. w \in [S -> Nat] /\ T \in SUBSET S
    BY <1>6
  <2>3. (\A x \in T : w[x] = 1) /\ \A x \in S \ T : w[x] = 0
    BY <1>6
  <2> QED
    BY ONLY <2>1, <2>2, <2>3, LoadMarks
<1> QED
  BY <1>4, <1>7, <1>8 DEF T

LEMMA TakenFirst ==
  ASSUME NEW A, NEW s, ListOf(s, A), NEW x \in ToSet(s)
  PROVE  /\ ListOf(RemoveFirst(s, x), A) /\ Len(RemoveFirst(s, x)) = Len(s) - 1
         /\ \A f : Count(f, s) = Count(f, RemoveFirst(s, x)) + (IF f = x THEN 1 ELSE 0)
<1> DEFINE I == {i \in 1..Len(s) : s[i] = x}
           m == Min(I)
           r == RemoveAt(s, m)
<1>1. Len(s) \in Nat /\ DOMAIN s = 1..Len(s)
  BY Listed
<1>2. I # {} /\ \E i \in 1..Len(s) : s[i] = x
  BY <1>1 DEF ToSet
<1>3. RemoveFirst(s, x) = r
  BY <1>2 DEF RemoveFirst, SelectInSeq
<1>4. m \in I
  <2>1. I \in SUBSET Nat
    BY <1>1
  <2>2. PICK i \in I : \A j \in I : i <= j
    BY <1>2, <2>1, LeastNumber
  <2> HIDE DEF I
  <2>3. \E k \in I : \A j \in I : k <= j
    BY <2>2
  <2> QED
    BY <2>3 DEF Min
<1>5. m \in 1..Len(s) /\ s[m] = x
  BY <1>4
<1> HIDE DEF I, m, r
<1>6. ASSUME NEW w, Rated(w, A)
      PROVE  ListOf(r, A) /\ Len(r) = Len(s) - 1 /\ SumOver(w, s) = w[s[m]] + SumOver(w, r)
  BY <1>5, <1>6, SumRemoved DEF r
<1>7. ListOf(r, A) /\ Len(r) = Len(s) - 1
  BY <1>6, Marked
<1>8. ASSUME NEW f
      PROVE  Count(f, s) = Count(f, r) + (IF f = x THEN 1 ELSE 0)
  <2>1. Rated(Mark(f, A), A) /\ s[m] \in A
    BY <1>5, Marked, Listed
  <2>2. SumOver(Mark(f, A), s) = Mark(f, A)[s[m]] + SumOver(Mark(f, A), r)
    BY <1>6, <2>1
  <2>3. Mark(f, A)[s[m]] = IF f = x THEN 1 ELSE 0
    BY <1>5, <2>1, Marked
  <2>4. /\ Count(f, s) = SumOver(Mark(f, A), s)
        /\ Count(f, r) = SumOver(Mark(f, A), r) /\ Count(f, r) \in Nat
    BY <1>7, Counted
  <2> QED
    BY <2>2, <2>3, <2>4
<1> QED
  BY <1>3, <1>7, <1>8

LEMMA CountAppended ==
  ASSUME NEW A, NEW s, ListOf(s, A), NEW x \in A
  PROVE  /\ ListOf(Append(s, x), A) /\ Len(Append(s, x)) = Len(s) + 1
         /\ \A i \in 1..Len(s) : Append(s, x)[i] = s[i]
         /\ Append(s, x)[Len(s) + 1] = x
         /\ \A f : Count(f, Append(s, x)) = Count(f, s) + (IF f = x THEN 1 ELSE 0)
<1>1. s \in Seq(A) /\ Len(s) \in Nat
  BY Listed DEF ListOf
<1>2. Append(s, x) = s \o <<x>>
  BY <1>1, AppendIsConcat
<1>3. ListOf(<<x>>, A) /\ Len(<<x>>) = 1 /\ <<x>>[1] = x
  <2>1. Rated(Mark(x, A), A)
    BY Marked
  <2> QED
    BY <2>1, SumOne
<1>4. ListOf(s \o <<x>>, A) /\ Len(s \o <<x>>) = Len(s) + 1
  BY <1>3, JoinedSeq
<1>5. \A i \in 1..Len(s) : (s \o <<x>>)[i] = s[i]
  BY <1>3, JoinedLeft
<1>6. (s \o <<x>>)[Len(s) + 1] = x
  <2>1. 1 \in 1..Len(<<x>>)
    BY <1>3
  <2> QED
    BY <1>3, <2>1, JoinedRight
<1>7. ASSUME NEW f
      PROVE  Count(f, s \o <<x>>) = Count(f, s) + (IF f = x THEN 1 ELSE 0)
  <2>1. Count(f, s \o <<x>>) = Count(f, s) + Count(f, <<x>>)
    BY <1>3, CountJoined
  <2>2. Count(f, <<x>>) = SumOver(Mark(f, A), <<x>>)
    BY <1>3, Counted
  <2>3. SumOver(Mark(f, A), <<x>>) = Mark(f, A)[x]
    BY Marked, SumOne
  <2>4. Mark(f, A)[x] = IF f = x THEN 1 ELSE 0
    BY Marked
  <2> QED
    BY <2>1, <2>2, <2>3, <2>4
<1> QED
  BY <1>2, <1>4, <1>5, <1>6, <1>7

-----------------------------------------------------------------------------
(* How often a FAT is in the groups of a list. *)

Carry(R, A) == \A g \in R : ListOf(g.fats, A)
Holds(f, R) == [g \in R |-> Count(f, g.fats)]
InAll(gs, f) == Load([i \in DOMAIN gs |-> Count(f, gs[i].fats)])

LEMMA HeldSum ==
  ASSUME NEW A, NEW R, Carry(R, A), NEW f
  PROVE  /\ Rated(Holds(f, R), R)
         /\ \A g \in R : Holds(f, R)[g] = Count(f, g.fats) /\ Count(f, g.fats) \in Nat
         /\ \A gs : ListOf(gs, R) => InAll(gs, f) = SumOver(Holds(f, R), gs) /\ InAll(gs, f) \in Nat
<1>1. \A g \in R : Count(f, g.fats) \in Nat
  BY Counted DEF Carry
<1>2. Rated(Holds(f, R), R)
  BY <1>1 DEF Rated, Holds
<1>3. ASSUME NEW gs, ListOf(gs, R)
      PROVE  InAll(gs, f) = SumOver(Holds(f, R), gs) /\ InAll(gs, f) \in Nat
  <2>1. \A i \in DOMAIN gs : Holds(f, R)[gs[i]] = Count(f, gs[i].fats)
    BY <1>3, Listed DEF Holds
  <2>2. Weights(Holds(f, R), gs) = [i \in DOMAIN gs |-> Count(f, gs[i].fats)]
    BY <2>1 DEF Weights
  <2>3. SumOver(Holds(f, R), gs) \in Nat
    BY <1>2, <1>3, SumIsNumber
  <2> QED
    BY <2>2, <2>3 DEF InAll, SumOver
<1> QED
  BY <1>1, <1>2, <1>3 DEF Holds

LEMMA AllJoined ==
  ASSUME NEW A, NEW R, Carry(R, A), NEW s, ListOf(s, R), NEW t, ListOf(t, R)
  PROVE  ListOf(s \o t, R) /\ \A f : InAll(s \o t, f) = InAll(s, f) + InAll(t, f)
<1>1. ListOf(s \o t, R)
  BY JoinedSeq
<1>2. ASSUME NEW f PROVE InAll(s \o t, f) = InAll(s, f) + InAll(t, f)
  <2>1. Rated(Holds(f, R), R)
    BY HeldSum
  <2>2. SumOver(Holds(f, R), s \o t) = SumOver(Holds(f, R), s) + SumOver(Holds(f, R), t)
    BY <2>1, SumConcat
  <2> QED
    BY <1>1, <2>2, HeldSum
<1> QED
  BY <1>1, <1>2

LEMMA AllNone ==
  ASSUME NEW f
  PROVE  InAll(<<>>, f) = 0
<1> DEFINE g == [i \in DOMAIN <<>> |-> Count(f, <<>>[i].fats)]
<1>1. g \in [{} -> Nat]
  OBVIOUS
<1> HIDE DEF g
<1>2. Load(g) = 0
  BY <1>1, LoadEmpty
<1> QED
  BY <1>2 DEF InAll, g

LEMMA AllOne ==
  ASSUME NEW A, NEW R, Carry(R, A), NEW g \in R
  PROVE  ListOf(<<g>>, R) /\ \A f : InAll(<<g>>, f) = Count(f, g.fats)
<1>1. ListOf(<<g>>, R)
  <2>1. Rated(Mark(g, R), R)
    BY Marked
  <2> QED
    BY <2>1, SumOne
<1>2. ASSUME NEW f PROVE InAll(<<g>>, f) = Count(f, g.fats)
  <2>1. Rated(Holds(f, R), R)
    BY HeldSum
  <2>2. SumOver(Holds(f, R), <<g>>) = Holds(f, R)[g]
    BY <2>1, SumOne
  <2> QED
    BY <1>1, <2>2, HeldSum
<1> QED
  BY <1>1, <1>2

LEMMA AllAppended ==
  ASSUME NEW A, NEW R, Carry(R, A), NEW s, ListOf(s, R), NEW g \in R
  PROVE  ListOf(Append(s, g), R) /\ \A f : InAll(Append(s, g), f) = InAll(s, f) + Count(f, g.fats)
<1>1. Append(s, g) = s \o <<g>>
  BY AppendIsConcat DEF ListOf
<1>2. ListOf(<<g>>, R) /\ \A f : InAll(<<g>>, f) = Count(f, g.fats)
  BY AllOne
<1>3. ListOf(s \o <<g>>, R) /\ \A f : InAll(s \o <<g>>, f) = InAll(s, f) + InAll(<<g>>, f)
  BY <1>2, AllJoined
<1> QED
  BY <1>1, <1>2, <1>3

LEMMA AllReplaced ==
  ASSUME NEW A, NEW R, Carry(R, A), NEW s, ListOf(s, R), NEW i \in 1..Len(s), NEW g \in R
  PROVE  /\ ListOf([s EXCEPT ![i] = g], R) /\ Len([s EXCEPT ![i] = g]) = Len(s)
         /\ \A f : InAll([s EXCEPT ![i] = g], f) + Count(f, s[i].fats) = InAll(s, f) + Count(f, g.fats)
<1> DEFINE t == [s EXCEPT ![i] = g]
<1>1. ListOf(t, R) /\ Len(t) = Len(s)
  <2>1. Rated(Mark(g, R), R)
    BY Marked
  <2> QED
    BY <2>1, SumReplaced
<1>2. s[i] \in R
  BY Listed
<1>3. ASSUME NEW f PROVE InAll(t, f) + Count(f, s[i].fats) = InAll(s, f) + Count(f, g.fats)
  <2>1. Rated(Holds(f, R), R)
    BY HeldSum
  <2>2. SumOver(Holds(f, R), t) + Holds(f, R)[s[i]] = SumOver(Holds(f, R), s) + Holds(f, R)[g]
    BY <2>1, SumReplaced
  <2>3. Holds(f, R)[s[i]] = Count(f, s[i].fats) /\ Holds(f, R)[g] = Count(f, g.fats)
    BY <1>2, HeldSum
  <2>4. InAll(t, f) = SumOver(Holds(f, R), t) /\ InAll(s, f) = SumOver(Holds(f, R), s)
    BY <1>1, HeldSum
  <2> QED
    BY <2>2, <2>3, <2>4
<1> QED
  BY <1>1, <1>3

(* The FATs of the groups of a list, one after the other. *)
LEMMA AllFats ==
  ASSUME NEW A, NEW R, Carry(R, A), NEW gs, ListOf(gs, R)
  PROVE  ListOf(InGroups(gs), A) /\ \A f : InAll(gs, f) = Count(f, InGroups(gs))
<1> DEFINE n == Len(gs)
           ss == [i \in DOMAIN gs |-> gs[i].fats]
<1>1. n \in Nat /\ DOMAIN gs = 1..n /\ \A i \in 1..n : gs[i] \in R
  BY Listed
<1>2. DOMAIN ss = 1..n /\ \A i \in 1..n : ss[i] = gs[i].fats
  BY <1>1
<1>3. \A i \in 1..n : ListOf(ss[i], A)
  BY <1>1, <1>2 DEF Carry
<1>4. ss = [i \in 1..n |-> ss[i]]
  BY <1>1, <1>2
<1>5. InGroups(gs) = FlattenSeq(ss)
  BY DEF InGroups
<1>6. ASSUME NEW f PROVE Tally(ss, f) = [i \in DOMAIN gs |-> Count(f, gs[i].fats)]
  BY <1>1, <1>2 DEF Tally
<1> HIDE DEF n, ss
<1> DEFINE B == Range(ss)
<1>7. ListOf(ss, B) /\ Len(ss) = n
  <2>1. \A i \in 1..n : ss[i] \in B
    BY <1>2 DEF Range
  <2> HIDE DEF B
  <2> QED
    BY <1>1, <1>2, <1>4, <2>1, Lists
<1>8. ListsOf(ss, A)
  BY <1>2, <1>3 DEF ListsOf
<1> HIDE DEF B
<1>9. ListOf(FlattenSeq(ss), A)
  BY <1>7, <1>8, FlattenedList
<1>10. ASSUME NEW f PROVE InAll(gs, f) = Count(f, FlattenSeq(ss))
  <2>1. Count(f, FlattenSeq(ss)) = Load(Tally(ss, f))
    BY <1>7, <1>8, CountFlat
  <2> QED
    BY <1>6, <2>1 DEF InAll
<1> QED
  BY <1>5, <1>9, <1>10

(* A FAT of a list of groups is in one of them. *)
LEMMA AllSome ==
  ASSUME NEW A, NEW R, Carry(R, A), NEW gs, ListOf(gs, R), NEW f
  PROVE  /\ InAll(gs, f) # 0 <=> f \in ToSet(InGroups(gs))
         /\ \A i \in 1..Len(gs) : Count(f, gs[i].fats) <= InAll(gs, f)
         /\ (\A i \in 1..Len(gs) : f \notin ToSet(gs[i].fats)) => InAll(gs, f) = 0
<1> DEFINE g == [i \in DOMAIN gs |-> Count(f, gs[i].fats)]
           S == 1..Len(gs)
<1>1. ListOf(InGroups(gs), A) /\ InAll(gs, f) = Count(f, InGroups(gs))
  BY AllFats
<1>2. DOMAIN gs = S /\ Len(gs) \in Nat /\ \A i \in S : ListOf(gs[i].fats, A)
  BY Listed DEF Carry
<1>3. \A i \in S : Count(f, gs[i].fats) \in Nat
  BY <1>2, Counted
<1>4. g \in [S -> Nat] /\ \A i \in S : g[i] = Count(f, gs[i].fats)
  BY <1>2, <1>3
<1>5. IsFiniteSet(S)
  BY <1>2, Numbered
<1>6. InAll(gs, f) = Load(g)
  BY DEF InAll
<1> HIDE DEF g, S
<1>7. ASSUME NEW i \in S PROVE g[i] <= Load(g)
  <2>1. Load(g) = g[i] + Load(Restrict(g, S \ {i})) /\ Load(Restrict(g, S \ {i})) \in Nat
    BY <1>4, <1>5, LoadWithout
  <2> QED
    BY <1>3, <1>4, <2>1
<1>8. ASSUME \A i \in S : f \notin ToSet(gs[i].fats) PROVE Load(g) = 0
  <2>1. \A i \in S : g[i] = 0
    BY <1>2, <1>4, <1>8, CountSome
  <2> QED
    BY <1>4, <1>5, <2>1, LoadZero
<1>9. InAll(gs, f) # 0 <=> f \in ToSet(InGroups(gs))
  BY <1>1, CountSome
<1> QED
  BY <1>4, <1>6, <1>7, <1>8, <1>9 DEF S

-----------------------------------------------------------------------------
(* How often a FAT is in some of the groups of a list. *)

HeldBy(gs, S, f) == Load([i \in S |-> Count(f, gs[i].fats)])

LEMMA HeldParts ==
  ASSUME NEW A, NEW R, Carry(R, A), NEW gs, ListOf(gs, R), NEW f,
         NEW S \in SUBSET (1..Len(gs)), NEW T \in SUBSET S
  PROVE  /\ HeldBy(gs, S, f) = HeldBy(gs, T, f) + HeldBy(gs, S \ T, f)
         /\ HeldBy(gs, T, f) \in Nat /\ HeldBy(gs, S \ T, f) \in Nat
<1> DEFINE g(U) == [i \in U |-> Count(f, gs[i].fats)]
<1>1. Len(gs) \in Nat /\ \A i \in 1..Len(gs) : Count(f, gs[i].fats) \in Nat
  <2>1. \A i \in 1..Len(gs) : ListOf(gs[i].fats, A)
    BY Listed DEF Carry
  <2> QED
    BY <2>1, Listed, Counted
<1>2. g(S) \in [S -> Nat] /\ g(T) \in [T -> Nat] /\ g(S \ T) \in [S \ T -> Nat]
  BY <1>1
<1>3. Restrict(g(S), T) = g(T) /\ Restrict(g(S), S \ T) = g(S \ T)
  BY DEF Restrict
<1>4. IsFiniteSet(S)
  BY <1>1, Numbered, FS_Subset
<1> DEFINE a == g(S)
<1>5. a \in [S -> Nat] /\ Restrict(a, T) = g(T) /\ Restrict(a, S \ T) = g(S \ T)
  BY <1>2, <1>3
<1> HIDE DEF a
<1>6. Load(a) = Load(Restrict(a, T)) + Load(Restrict(a, S \ T))
  BY <1>4, <1>5, LoadSplit
<1>7. Load(Restrict(a, T)) \in Nat /\ Load(Restrict(a, S \ T)) \in Nat
  <2>1. S \ T \in SUBSET S
    OBVIOUS
  <2> QED
    BY <1>4, <1>5, <2>1, LoadLess
<1> QED
  BY <1>5, <1>6, <1>7 DEF HeldBy, a

LEMMA AllChosen ==
  ASSUME NEW A, NEW R, Carry(R, A), NEW gs, ListOf(gs, R), NEW S \in SUBSET (1..Len(gs))
  PROVE  /\ ListOf(Chosen(gs, S), R)
         /\ \A f : InAll(Chosen(gs, S), f) = HeldBy(gs, S, f) /\ HeldBy(gs, S, f) \in Nat
<1>1. ListOf(Chosen(gs, S), R)
  BY ChosenList
<1>2. ASSUME NEW f PROVE InAll(Chosen(gs, S), f) = HeldBy(gs, S, f) /\ HeldBy(gs, S, f) \in Nat
  <2> DEFINE n == Cardinality(S)
             w == [i \in S |-> Count(f, gs[i].fats)]
             c == Chosen(gs, S)
             v == [k \in 1..n |-> Count(f, c[k].fats)]
  <2>1. /\ ListOf(c, R) /\ Len(c) = n /\ n \in Nat
        /\ \A k \in 1..n : Ascending(S)[k] \in S /\ c[k] = gs[Ascending(S)[k]]
    BY ChosenList
  <2>2. DOMAIN c = 1..n
    BY <2>1, Listed
  <2>3. /\ \A i \in 1..Len(gs) : Count(f, gs[i].fats) \in Nat
        /\ \A k \in 1..n : Count(f, c[k].fats) \in Nat
    <3> HIDE DEF c, n
    <3>1. \A i \in 1..Len(gs) : ListOf(gs[i].fats, A)
      BY Listed DEF Carry
    <3>2. \A k \in 1..n : ListOf(c[k].fats, A)
      BY <2>1, Listed DEF Carry
    <3> QED
      BY <3>1, <3>2, Counted
  <2>4. Rated(w, S) /\ Rated(v, 1..n)
    <3> HIDE DEF c, n
    <3> QED
      BY <2>3 DEF Rated
  <2>5. InAll(c, f) = Load(v)
    BY <2>2 DEF InAll
  <2>6. Follows(v, w, Ascending(S))
    <3> HIDE DEF c, n
    <3>1. DOMAIN v = 1..n
      OBVIOUS
    <3>2. \A k \in 1..n : v[k] = w[Ascending(S)[k]]
      BY <2>1
    <3> HIDE DEF v, w
    <3> QED
      BY <3>1, <3>2 DEF Follows
  <2>7. Load(w) \in Nat
    BY <2>5, HeldParts DEF HeldBy
  <2> HIDE DEF n, w, v
  <2>8. Load(v) = Load(w)
    BY <2>4, <2>6, ChosenSum DEF n
  <2> QED
    BY <2>5, <2>7, <2>8 DEF c, w, HeldBy
<1> QED
  BY <1>1, <1>2

(* All the groups, and a single one. *)
LEMMA HeldEnds ==
  ASSUME NEW A, NEW R, Carry(R, A), NEW gs, ListOf(gs, R), NEW f
  PROVE  /\ InAll(gs, f) = HeldBy(gs, 1..Len(gs), f)
         /\ HeldBy(gs, {}, f) = 0
         /\ \A i \in 1..Len(gs) : HeldBy(gs, {i}, f) = Count(f, gs[i].fats)
<1>1. DOMAIN gs = 1..Len(gs) /\ \A i \in 1..Len(gs) : Count(f, gs[i].fats) \in Nat
  <2>1. \A i \in 1..Len(gs) : ListOf(gs[i].fats, A)
    BY Listed DEF Carry
  <2> QED
    BY <2>1, Listed, Counted
<1>2. HeldBy(gs, {}, f) = 0
  <2> DEFINE g == [i \in {} |-> Count(f, gs[i].fats)]
  <2>1. g \in [{} -> Nat]
    OBVIOUS
  <2> HIDE DEF g
  <2>2. Load(g) = 0
    BY <2>1, LoadEmpty
  <2> QED
    BY <2>2 DEF HeldBy, g
<1>3. ASSUME NEW i \in 1..Len(gs) PROVE HeldBy(gs, {i}, f) = Count(f, gs[i].fats)
  <2> DEFINE S == {i}
             g == [j \in S |-> Count(f, gs[j].fats)]
  <2>1. g \in [S -> Nat] /\ i \in S /\ g[i] = Count(f, gs[i].fats) /\ \A y \in S \ {i} : g[y] = 0
    BY <1>1
  <2>2. IsFiniteSet(S)
    BY FS_Singleton
  <2>3. HeldBy(gs, {i}, f) = Load(g)
    BY DEF HeldBy
  <2> HIDE DEF g, S
  <2>4. Load(g) = g[i]
    BY <2>1, <2>2, LoadSingle
  <2> QED
    BY <2>1, <2>3, <2>4
<1> QED
  BY <1>1, <1>2, <1>3 DEF InAll, HeldBy

-----------------------------------------------------------------------------
(* A list cut into pieces holds what it held. *)

Ordinal(k) == [i \in 1..k |-> i]
CutFrom(sizes, k, i) == From(sizes, Ordinal(k), i)
CutOf(cs, s, sizes, k) ==
  /\ DOMAIN cs = 1..k
  /\ \A i \in 1..k : /\ Len(cs[i]) = sizes[i]
                     /\ \A j \in 1..sizes[i] : cs[i][j] = s[CutFrom(sizes, k, i) + j]

LEMMA CutPlaces ==
  ASSUME NEW k \in Nat, NEW sizes, Rated(sizes, 1..k)
  PROVE  /\ \A i \in 1..k : /\ CutFrom(sizes, k, i) \in Nat /\ sizes[i] \in Nat
                            /\ CutFrom(sizes, k, i) + sizes[i] <= Load(sizes)
                            /\ CutFrom(sizes, k, i) = Load([j \in 1..(i - 1) |-> sizes[j]])
         /\ Row(sizes, Ordinal(k)) \in [1..k -> SUBSET (1..Load(sizes))]
         /\ Apart(Row(sizes, Ordinal(k))) /\ Counts(Row(sizes, Ordinal(k))) = sizes
         /\ \A i \in 1..k : Row(sizes, Ordinal(k))[i] =
              (CutFrom(sizes, k, i) + 1)..(CutFrom(sizes, k, i) + sizes[i])
         /\ Load(sizes) \in Nat
<1>1. IsFiniteSet(1..k) /\ Ranked(Ordinal(k), 1..k)
  BY Numbered DEF Ranked, Ordinal
<1>2. /\ \A x \in 1..k : /\ From(sizes, Ordinal(k), x) \in Nat /\ sizes[x] \in Nat
                         /\ From(sizes, Ordinal(k), x) + sizes[x] <= Load(sizes)
      /\ Row(sizes, Ordinal(k)) \in [1..k -> SUBSET (1..Load(sizes))]
      /\ Apart(Row(sizes, Ordinal(k))) /\ Counts(Row(sizes, Ordinal(k))) = sizes
  BY <1>1, RowTiles
<1>3. DOMAIN sizes = 1..k
  BY DEF Rated
<1>4. \A i \in 1..k : {y \in 1..k : y < i} = 1..(i - 1)
  OBVIOUS
<1>5. \A i \in 1..k : {y \in 1..k : Ordinal(k)[y] < Ordinal(k)[i]} = {y \in 1..k : y < i}
  BY DEF Ordinal
<1>6. \A i \in 1..k : From(sizes, Ordinal(k), i) = Load([j \in 1..(i - 1) |-> sizes[j]])
  BY <1>3, <1>4, <1>5 DEF From
<1>7. \A i \in 1..k : Row(sizes, Ordinal(k))[i] =
          (From(sizes, Ordinal(k), i) + 1)..(From(sizes, Ordinal(k), i) + sizes[i])
  BY <1>3 DEF Row
<1>8. Load(sizes) \in Nat
  <2>1. sizes \in [1..k -> Nat]
    BY DEF Rated
  <2> QED
    BY <1>1, <2>1, LoadCounts
<1> QED
  BY <1>2, <1>6, <1>7, <1>8 DEF CutFrom

LEMMA Shifted ==
  ASSUME NEW a \in Nat, NEW n \in Nat, NEW C \in SUBSET ((a + 1)..(a + n))
  PROVE  Cardinality({j \in 1..n : a + j \in C}) = Cardinality(C)
<1> DEFINE D == {j \in 1..n : a + j \in C}
           b == [j \in D |-> a + j]
<1>1. b \in Bijection(D, C)
  <2>1. b \in [D -> C] /\ \A i, j \in D : b[i] = b[j] => i = j
    OBVIOUS
  <2>2. \A c \in C : c - a \in D /\ b[c - a] = c
    OBVIOUS
  <2> HIDE DEF D, b
  <2> QED
    BY <2>1, <2>2 DEF Bijection, Injection, Surjection, IsInjective
<1>2. IsFiniteSet(D)
  BY Numbered, FS_Subset
<1> HIDE DEF D, b
<1>3. Cardinality(D) = Cardinality(C)
  BY <1>1, <1>2, FS_Bijection DEF ExistsBijection
<1> QED
  BY <1>3 DEF D

LEMMA CutCounts ==
  ASSUME NEW A, NEW s, ListOf(s, A), NEW k \in Nat, NEW sizes, Rated(sizes, 1..k),
         Load(sizes) = Len(s), NEW cs, CutOf(cs, s, sizes, k), ListsOf(cs, A), NEW f
  PROVE  Load(Tally(cs, f)) = Count(f, s)
<1> DEFINE n == Len(s)
           V == 1..n
           T == 1..k
           C == {m \in V : s[m] = f}
           P == Row(sizes, Ordinal(k))
           q == Counts(Pieces(P, C))
<1>1. /\ P \in [T -> SUBSET V] /\ Apart(P) /\ Counts(P) = sizes
      /\ \A i \in T : P[i] = (CutFrom(sizes, k, i) + 1)..(CutFrom(sizes, k, i) + sizes[i])
      /\ \A i \in T : CutFrom(sizes, k, i) \in Nat /\ sizes[i] \in Nat
  BY CutPlaces
<1>2. n \in Nat /\ IsFiniteSet(V) /\ Cardinality(V) = n /\ IsFiniteSet(T)
  BY Listed, Numbered
<1>3. Count(f, s) = Cardinality(C)
  <2>1. Count(f, s) = Cardinality({m \in 1..Len(s) : s[m] = f})
    BY ONLY ListOf(s, A), CountPlaces
  <2> QED
    BY <2>1
<1>4. C \in SUBSET V
  OBVIOUS
<1>5. DOMAIN P = T
  BY <1>1
<1>6. q = [i \in T |-> Cardinality(P[i] \cap C)]
  BY <1>5 DEF Counts, Pieces
<1>7. ASSUME NEW i \in T PROVE Count(f, cs[i]) = Cardinality(P[i] \cap C)
  <2> DEFINE a == CutFrom(sizes, k, i)
             m == sizes[i]
             D == P[i] \cap C
  <2>1. a \in Nat /\ m \in Nat /\ P[i] = (a + 1)..(a + m)
    BY <1>1
  <2>2. D \in SUBSET ((a + 1)..(a + m))
    BY <2>1
  <2>3. ListOf(cs[i], A) /\ Len(cs[i]) = m /\ \A j \in 1..m : cs[i][j] = s[a + j]
    BY DEF CutOf, ListsOf
  <2>4. Count(f, cs[i]) = Cardinality({j \in 1..m : cs[i][j] = f})
    <3> DEFINE c == cs[i]
    <3>1. ListOf(c, A) /\ Len(c) = m
      BY <2>3
    <3> HIDE DEF c, m
    <3>2. Count(f, c) = Cardinality({j \in 1..Len(c) : c[j] = f})
      BY ONLY <3>1, CountPlaces
    <3> QED
      BY <3>1, <3>2 DEF c
  <2>5. \A j \in 1..m : a + j \in P[i] /\ a + j \in V
    BY <1>1, <2>1
  <2>6. {j \in 1..m : cs[i][j] = f} = {j \in 1..m : a + j \in D}
    BY <2>3, <2>5
  <2> HIDE DEF D, a, m
  <2>7. Cardinality({j \in 1..m : a + j \in D}) = Cardinality(D)
    BY <2>1, <2>2, Shifted, ZenonT(30)
  <2> QED
    BY <2>4, <2>6, <2>7 DEF D
<1>8. Tally(cs, f) = q
  BY <1>6, <1>7 DEF Tally, CutOf
<1> HIDE DEF P, q, V, T, C
<1>9. Load(Counts(P)) = Cardinality(V)
  BY <1>1, <1>2
<1>10. Load(q) = Cardinality(C)
  <2>1. Load(Counts(Pieces(P, C))) = Cardinality(C)
    BY <1>1, <1>2, <1>4, <1>9, Tiled
  <2> QED
    BY <2>1 DEF q
<1> QED
  BY <1>3, <1>8, <1>10

(* The numbers of a set, one after the other. *)
LEMMA AscendingSteps ==
  ASSUME NEW S \in SUBSET Nat, IsFiniteSet(S), NEW m, m = Cardinality(S), NEW b, b = Ascending(S)
  PROVE  /\ m \in Nat /\ \A i \in 1..m : b[i] \in S
         /\ \A i, j \in 1..m : i < j => b[i] < b[j]
         /\ \A x \in S : \E i \in 1..m : b[i] = x
<1>1. /\ m \in Nat
      /\ \A k \in 1..m : b[k] \in S /\ Cardinality({y \in S : y <= b[k]}) = k
      /\ \A x \in S : \E k \in 1..m : b[k] = x
  BY AscendingRank
<1>2. ASSUME NEW i \in 1..m, NEW j \in 1..m, i < j PROVE b[i] < b[j]
  <2> DEFINE I == {y \in S : y <= b[i]}
             J == {y \in S : y <= b[j]}
  <2>1. Cardinality(I) = i /\ Cardinality(J) = j /\ b[i] \in Nat /\ b[j] \in Nat
    BY <1>1
  <2>2. SUFFICES ASSUME b[j] <= b[i] PROVE FALSE
    BY <2>1
  <2>3. J \in SUBSET I
    <3>1. ASSUME NEW y \in J PROVE y \in I
      <4>1. y \in S /\ y \in Nat /\ y <= b[j]
        OBVIOUS
      <4> QED
        BY <2>1, <2>2, <4>1
    <3> HIDE DEF I, J
    <3> QED
      BY <3>1
  <2>4. IsFiniteSet(I)
    BY FS_Subset
  <2> HIDE DEF I, J
  <2>5. Cardinality(J) <= Cardinality(I)
    BY <2>3, <2>4, FS_Subset
  <2> QED
    BY <1>2, <2>1, <2>5
<1> QED
  BY <1>1, <1>2

(* Where a list is cut, each piece ends and the next one begins. *)
LEMMA CutsTile ==
  ASSUME NEW n \in Nat, NEW S \in SUBSET (0..n), 0 \in S, n \in S,
         NEW m, m = Cardinality(S), NEW b, b = Ascending(S), NEW d, d = [i \in 1..(m - 1) |-> b[i + 1] - b[i]]
  PROVE  /\ m \in Nat \ {0} /\ Rated(d, 1..(m - 1)) /\ Load(d) = n
         /\ \A i \in 1..(m - 1) : /\ CutFrom(d, m - 1, i) = b[i] /\ d[i] > 0
                                   /\ b[i] \in S /\ b[i + 1] \in S
                                   /\ \A x \in S : x <= b[i] \/ b[i + 1] <= x
<1>1. IsFiniteSet(S) /\ S \in SUBSET Nat
  <2>1. IsFiniteSet(0..n)
    BY FS_Interval
  <2>2. S \in SUBSET Nat
    OBVIOUS
  <2> QED
    BY <2>1, <2>2, FS_Subset
<1>2. /\ m \in Nat /\ \A i \in 1..m : b[i] \in S
      /\ \A i, j \in 1..m : i < j => b[i] < b[j]
      /\ \A x \in S : \E i \in 1..m : b[i] = x
  BY <1>1, AscendingSteps
<1>3. m \in Nat \ {0} /\ 1 \in 1..m /\ m \in 1..m
  BY <1>2
<1>4. b[1] = 0
  <2>1. PICK i \in 1..m : b[i] = 0
    BY <1>2
  <2>2. b[1] \in Nat /\ (1 < i => b[1] < b[i])
    BY <1>1, <1>2, <1>3
  <2> QED
    BY <1>3, <2>1, <2>2
<1>5. b[m] = n
  <2>1. PICK i \in 1..m : b[i] = n
    BY <1>2
  <2>2. b[m] \in 0..n /\ (i < m => b[i] < b[m])
    BY <1>2, <1>3
  <2> QED
    BY <1>3, <2>1, <2>2
<1>6. ASSUME NEW i \in 1..(m - 1)
      PROVE  /\ i \in 1..m /\ i + 1 \in 1..m /\ b[i] \in S /\ b[i + 1] \in S
             /\ b[i] \in Nat /\ b[i + 1] \in Nat /\ b[i] < b[i + 1] /\ d[i] = b[i + 1] - b[i]
  <2>1. i \in 1..m /\ i + 1 \in 1..m /\ i < i + 1
    BY <1>3
  <2>2. b[i] \in S /\ b[i + 1] \in S /\ b[i] < b[i + 1]
    BY <1>2, <2>1
  <2> QED
    BY <1>1, <2>1, <2>2
<1>7. Rated(d, 1..(m - 1))
  <2>1. \A i \in 1..(m - 1) : b[i + 1] - b[i] \in Nat
    BY <1>6
  <2> QED
    BY <2>1 DEF Rated
<1>8. ASSUME NEW i \in 1..(m - 1), NEW x \in S PROVE x <= b[i] \/ b[i + 1] <= x
  <2>1. PICK j \in 1..m : b[j] = x
    BY <1>2
  <2>2. (j < i => b[j] < b[i]) /\ (i + 1 < j => b[i + 1] < b[j])
    BY <1>2, <1>6
  <2>3. j < i \/ j = i \/ j = i + 1 \/ i + 1 < j
    BY <1>3
  <2>4. x \in Nat
    BY <1>1
  <2> QED
    BY <1>6, <2>1, <2>2, <2>3, <2>4
<1>9. \A i \in 0..(m - 1) : Load(Restrict(d, 1..i)) = b[i + 1]
  <2> DEFINE G == {i \in 0..(m - 1) : Load(Restrict(d, 1..i)) = b[i + 1]}
  <2>1. 0 \in G
    <3>1. Restrict(d, 1..0) \in [{} -> Nat]
      BY DEF Restrict
    <3>2. Load(Restrict(d, 1..0)) = 0
      BY <3>1, LoadEmpty
    <3> QED
      BY <1>3, <1>4, <3>2
  <2>2. ASSUME NEW i \in 0..((m - 1) - 1), i \in G PROVE i + 1 \in G
    <3>1. i + 1 \in 1..(m - 1) /\ i + 1 \in 0..(m - 1) /\ (i + 1) - 1 = i /\ m - 1 \in Nat
      BY <1>3
    <3>2. /\ Load(Restrict(d, 1..(i + 1))) = Load(Restrict(d, 1..((i + 1) - 1))) + d[i + 1]
          /\ Load(Restrict(d, 1..((i + 1) - 1))) \in Nat
      BY <1>7, <3>1, LoadUpTo
    <3>3. /\ d[i + 1] = b[(i + 1) + 1] - b[i + 1] /\ b[i + 1] \in Nat /\ b[(i + 1) + 1] \in Nat
      BY <1>6, <3>1
    <3> QED
      BY <2>2, <3>1, <3>2, <3>3
  <2>3. m - 1 \in Nat
    BY <1>3
  <2> HIDE DEF G
  <2>4. \A i \in 0..(m - 1) : i \in G
    BY <2>1, <2>2, <2>3, CountUp
  <2> QED
    BY <2>4 DEF G
<1>10. Load(d) = n
  <2>1. d = Restrict(d, 1..(m - 1))
    BY <1>7 DEF Rated, Restrict
  <2>2. Load(Restrict(d, 1..(m - 1))) = b[(m - 1) + 1]
    BY <1>3, <1>9
  <2>3. (m - 1) + 1 = m
    BY <1>3
  <2> QED
    BY <1>5, <2>1, <2>2, <2>3
<1>11. ASSUME NEW i \in 1..(m - 1) PROVE CutFrom(d, m - 1, i) = b[i]
  <2>1. CutFrom(d, m - 1, i) = Load([j \in 1..(i - 1) |-> d[j]])
    <3> DEFINE k == m - 1
    <3>1. k \in Nat /\ Rated(d, 1..k) /\ i \in 1..k
      BY <1>3, <1>7
    <3> HIDE DEF k
    <3>2. CutFrom(d, k, i) = Load([j \in 1..(i - 1) |-> d[j]])
      BY ONLY <3>1, CutPlaces
    <3> QED
      BY <3>2 DEF k
  <2>2. [j \in 1..(i - 1) |-> d[j]] = Restrict(d, 1..(i - 1))
    BY DEF Restrict
  <2>3. i - 1 \in 0..(m - 1) /\ (i - 1) + 1 = i
    BY <1>3
  <2>4. Load(Restrict(d, 1..(i - 1))) = b[(i - 1) + 1]
    BY <1>9, <2>3
  <2> QED
    BY <2>1, <2>2, <2>3, <2>4
<1>12. ASSUME NEW i \in 1..(m - 1) PROVE d[i] > 0
  BY <1>6
<1> QED
  BY <1>3, <1>6, <1>7, <1>8, <1>10, <1>11, <1>12

-----------------------------------------------------------------------------
(* Pieces of a list of FATs as groups. *)

LEMMA GroupsCarry ==
  /\ Carry(FatGroups, FATs)
  /\ \A s, r : ListOf(s, FATs) /\ r \in RoadIds =>
       FatGroup(s, r) \in FatGroups /\ FatGroup(s, r).fats = s /\ FatGroup(s, r).road = r
  /\ \A g \in FatGroups : ListOf(g.fats, FATs) /\ g.road \in RoadIds
BY DEF Carry, FatGroups, FatGroup, ListOf

LEMMA PiecesListed ==
  ASSUME NEW A, NEW k \in Nat, NEW cs, DOMAIN cs = 1..k, ListsOf(cs, A), cs = [i \in 1..k |-> cs[i]]
  PROVE  ListOf(cs, Range(cs)) /\ Len(cs) = k
<1> DEFINE B == Range(cs)
<1>1. \A i \in 1..k : cs[i] \in B
  BY DEF Range
<1> HIDE DEF B
<1> QED
  BY <1>1, Lists DEF B

LEMMA AsGroups ==
  ASSUME NEW k \in Nat, NEW cs, DOMAIN cs = 1..k, ListsOf(cs, FATs), NEW r \in RoadIds,
         NEW gs, gs = [i \in 1..k |-> FatGroup(cs[i], r)]
  PROVE  /\ ListOf(gs, FatGroups) /\ Len(gs) = k /\ \A i \in 1..k : gs[i].fats = cs[i]
         /\ \A f : InAll(gs, f) = Load(Tally(cs, f))
<1>1. \A i \in 1..k : ListOf(cs[i], FATs)
  BY DEF ListsOf
<1>2. \A i \in 1..k : gs[i] \in FatGroups /\ gs[i].fats = cs[i]
  BY <1>1, GroupsCarry
<1>3. DOMAIN gs = 1..k /\ gs = [i \in 1..k |-> gs[i]]
  OBVIOUS
<1>4. ASSUME NEW f PROVE InAll(gs, f) = Load(Tally(cs, f))
  <2>1. [i \in DOMAIN gs |-> Count(f, gs[i].fats)] = Tally(cs, f)
    BY <1>2, <1>3 DEF Tally
  <2> QED
    BY <2>1 DEF InAll
<1>5. ListOf(gs, FatGroups) /\ Len(gs) = k
  BY ONLY <1>2, <1>3, k \in Nat, Lists
<1> QED
  BY <1>2, <1>4, <1>5

LEMMA ChunkPieces ==
  ASSUME NEW A, NEW s, ListOf(s, A), NEW k \in Nat, NEW sizes, Rated(sizes, 1..k),
         Load(sizes) = Len(s), NEW cs, cs = Chunks(s, sizes)
  PROVE  /\ DOMAIN cs = 1..k /\ ListsOf(cs, A) /\ CutOf(cs, s, sizes, k)
         /\ \A i \in 1..k : Len(cs[i]) = sizes[i]
<1>1. /\ \A i \in 1..k : /\ CutFrom(sizes, k, i) \in Nat /\ sizes[i] \in Nat
                         /\ CutFrom(sizes, k, i) + sizes[i] <= Load(sizes)
                         /\ CutFrom(sizes, k, i) = Load([j \in 1..(i - 1) |-> sizes[j]])
      /\ Len(s) \in Nat
  BY CutPlaces, Listed
<1>2. DOMAIN sizes = 1..k
  BY DEF Rated
<1>3. DOMAIN cs = 1..k
  BY <1>2 DEF Chunks
<1>4. ASSUME NEW i \in 1..k
      PROVE  cs[i] = SubSeq(s, CutFrom(sizes, k, i) + 1, CutFrom(sizes, k, i) + sizes[i])
  BY <1>1, <1>2 DEF Chunks
<1>5. ASSUME NEW i \in 1..k
      PROVE  /\ ListOf(cs[i], A) /\ Len(cs[i]) = sizes[i]
             /\ \A j \in 1..sizes[i] : cs[i][j] = s[CutFrom(sizes, k, i) + j]
  <2> DEFINE a == CutFrom(sizes, k, i)
             b == a + sizes[i]
  <2>1. a \in 0..Len(s) /\ b \in a..Len(s) /\ b - a = sizes[i]
    <3>1. a \in Nat /\ sizes[i] \in Nat /\ a + sizes[i] <= Len(s) /\ Len(s) \in Nat
      BY <1>1
    <3> HIDE DEF a
    <3> QED
      BY <3>1
  <2>2. cs[i] = SubSeq(s, a + 1, b)
    BY <1>4
  <2> HIDE DEF a, b
  <2>3. /\ ListOf(SubSeq(s, a + 1, b), A) /\ Len(SubSeq(s, a + 1, b)) = b - a
        /\ \A j \in 1..(b - a) : SubSeq(s, a + 1, b)[j] = s[a + j]
    BY ONLY <2>1, ListOf(s, A), CutList
  <2> QED
    BY <2>1, <2>2, <2>3 DEF a
<1> QED
  BY <1>3, <1>5 DEF ListsOf, CutOf

LEMMA ChunkGroups ==
  ASSUME NEW s, ListOf(s, FATs), NEW k \in Nat, NEW sizes, Rated(sizes, 1..k),
         Load(sizes) = Len(s), NEW r \in RoadIds
  PROVE  /\ ListOf(GroupsOf(s, sizes, r), FatGroups) /\ Len(GroupsOf(s, sizes, r)) = k
         /\ \A i \in 1..k : Len(GroupsOf(s, sizes, r)[i].fats) = sizes[i]
         /\ \A f : InAll(GroupsOf(s, sizes, r), f) = Count(f, s)
<1> DEFINE cs == Chunks(s, sizes)
           gs == GroupsOf(s, sizes, r)
<1>1. /\ DOMAIN cs = 1..k /\ ListsOf(cs, FATs) /\ CutOf(cs, s, sizes, k)
      /\ \A i \in 1..k : Len(cs[i]) = sizes[i]
  BY ChunkPieces
<1>2. DOMAIN sizes = 1..k
  BY DEF Rated
<1>3. gs = [i \in 1..k |-> FatGroup(cs[i], r)]
  BY <1>2 DEF GroupsOf
<1> HIDE DEF cs, gs
<1>4. /\ ListOf(gs, FatGroups) /\ Len(gs) = k /\ \A i \in 1..k : gs[i].fats = cs[i]
      /\ \A f : InAll(gs, f) = Load(Tally(cs, f))
  BY <1>1, <1>3, AsGroups
<1>5. \A f : Load(Tally(cs, f)) = Count(f, s)
  BY <1>1, CutCounts
<1> QED
  BY <1>1, <1>4, <1>5 DEF gs

-----------------------------------------------------------------------------
(* A walk's pieces. *)

FatsOf(e) == [k \in 1..Len(e) |-> e[k].fat]
Entries == [fat : FATs, branch : RoadIds]
Covers(cuts, n, most) == \A x \in 0..n : x + most < n => \E c \in cuts : x < c /\ c <= x + most

CutUp(ps, A, e, n, cuts) ==
  \E k \in Nat \ {0} :
    /\ DOMAIN ps = 1..k /\ ps = [i \in 1..k |-> ps[i]] /\ ListsOf(ps, A)
    /\ \A i \in 1..k : Len(ps[i]) > 0
    /\ \A f : Load(Tally(ps, f)) = Count(f, FatsOf(e))
    /\ \A most \in Nat : Covers(cuts, n, most) => \A i \in 1..k : Len(ps[i]) <= most

LEMMA WalkPieces ==
  ASSUME NEW A, NEW E, \A g \in E : g.fat \in A,
         NEW e, ListOf(e, E), NEW n, n = Len(e), n > 0,
         NEW cuts, cuts \in SUBSET (1..(n - 1)),
         NEW ps, ps = CutAt(e, cuts)
  PROVE  CutUp(ps, A, e, n, cuts)
<1> DEFINE S == cuts \cup {0, n}
           m == Cardinality(S)
           b == Ascending(S)
           d == [i \in 1..(m - 1) |-> b[i + 1] - b[i]]
           k == m - 1
           s == FatsOf(e)
<1>1. n \in Nat /\ \A i \in 1..n : e[i] \in E
  BY Listed
<1>2. S \in SUBSET (0..n) /\ 0 \in S /\ n \in S
  <2>1. 0 \in 0..n /\ n \in 0..n /\ \A c \in 1..(n - 1) : c \in 0..n
    BY <1>1
  <2> QED
    BY <2>1
<1>3. /\ m \in Nat \ {0} /\ Rated(d, 1..(m - 1)) /\ Load(d) = n
      /\ \A i \in 1..(m - 1) : /\ CutFrom(d, m - 1, i) = b[i] /\ d[i] > 0
                                /\ b[i] \in S /\ b[i + 1] \in S
                                /\ \A x \in S : x <= b[i] \/ b[i + 1] <= x
  <2> HIDE DEF S
  <2> QED
    BY <1>1, <1>2, CutsTile
<1>4. Len(b) = m
  <2>1. S \in SUBSET Nat /\ IsFiniteSet(S)
    <3>1. IsFiniteSet(0..n)
      BY <1>1, FS_Interval
    <3>2. 0..n \in SUBSET Nat
      OBVIOUS
    <3> HIDE DEF S
    <3> QED
      BY <1>2, <3>1, <3>2, FS_Subset
  <2> HIDE DEF S
  <2>2. Ascending(S) \in Bijection(1..Cardinality(S), S)
    BY <2>1, AscendingOrder
  <2> HIDE DEF b, m
  <2>3. b \in [1..m -> S]
    BY <2>2 DEF b, m, Bijection, Injection
  <2>4. b = [i \in 1..m |-> b[i]] /\ DOMAIN b = 1..m
    BY <2>3
  <2> QED
    BY <1>3, <2>3, <2>4, Lists
<1>5. ps = [i \in 1..k |-> [j \in 1..(b[i + 1] - b[i]) |-> e[b[i] + j].fat]]
  BY <1>4 DEF CutAt
<1>6. /\ DOMAIN d = 1..k /\ k \in Nat /\ \A i \in 1..k : d[i] = b[i + 1] - b[i]
      /\ \A i \in 1..k : i \in 1..(m - 1)
  BY <1>3
<1>7. ListOf(s, A) /\ Len(s) = n /\ \A i \in 1..n : s[i] = e[i].fat
  <2>1. DOMAIN s = 1..n /\ s = [i \in 1..n |-> s[i]] /\ \A i \in 1..n : s[i] = e[i].fat
    BY DEF FatsOf
  <2>2. \A i \in 1..n : s[i] \in A
    BY <1>1, <2>1
  <2> HIDE DEF s
  <2> QED
    BY <1>1, <2>1, <2>2, Lists
<1> HIDE DEF S, m, b, d, s
<1>8. Rated(d, 1..k) /\ Load(d) = n /\ k \in Nat
  BY <1>3, <1>6
<1>9. \A i \in 1..k : /\ CutFrom(d, k, i) = b[i] /\ d[i] > 0 /\ b[i] \in S /\ b[i + 1] \in S
                       /\ \A x \in S : x <= b[i] \/ b[i + 1] <= x
  BY <1>3
<1> HIDE DEF k
<1>10. \A i \in 1..k : d[i] \in Nat /\ b[i] \in Nat /\ b[i] + d[i] <= n
  <2>1. \A i \in 1..k : /\ CutFrom(d, k, i) \in Nat /\ d[i] \in Nat
                         /\ CutFrom(d, k, i) + d[i] <= Load(d)
    BY ONLY <1>8, CutPlaces
  <2> QED
    BY <1>8, <1>9, <2>1
<1>11. ASSUME NEW i \in 1..k
       PROVE  /\ ListOf(ps[i], A) /\ Len(ps[i]) = d[i]
              /\ \A j \in 1..d[i] : ps[i][j] = s[b[i] + j]
  <2> DEFINE p == [j \in 1..d[i] |-> e[b[i] + j].fat]
  <2>1. ps[i] = p
    BY <1>5, <1>6
  <2>2. \A j \in 1..d[i] : b[i] + j \in 1..n
    BY <1>1, <1>10
  <2>3. DOMAIN p = 1..d[i] /\ p = [j \in 1..d[i] |-> p[j]] /\ \A j \in 1..d[i] : p[j] = e[b[i] + j].fat
    OBVIOUS
  <2> HIDE DEF p
  <2>4. \A j \in 1..d[i] : p[j] \in A /\ p[j] = s[b[i] + j]
    BY <1>1, <1>7, <2>2, <2>3
  <2>5. ListOf(p, A) /\ Len(p) = d[i]
    BY <1>10, <2>3, <2>4, Lists
  <2> QED
    BY <2>1, <2>4, <2>5
<1>12. DOMAIN ps = 1..k /\ ps = [i \in 1..k |-> ps[i]]
  BY <1>5
<1>13. ListsOf(ps, A) /\ CutOf(ps, s, d, k)
  BY <1>9, <1>11, <1>12 DEF ListsOf, CutOf
<1>14. \A f : Load(Tally(ps, f)) = Count(f, s)
  BY <1>7, <1>8, <1>13, CutCounts
<1>15. k > 0
  <2>1. SUFFICES ASSUME k = 0 PROVE FALSE
    BY <1>8
  <2>2. d \in [{} -> Nat]
    BY <1>8, <2>1 DEF Rated
  <2>3. Load(d) = 0
    BY <2>2, LoadEmpty
  <2> QED
    BY <1>8, <2>3
<1>16. ASSUME NEW most \in Nat, Covers(cuts, n, most), NEW i \in 1..k
       PROVE  Len(ps[i]) <= most
  <2>1. SUFFICES ASSUME d[i] > most PROVE FALSE
    BY <1>10, <1>11
  <2>2. b[i] \in 0..n /\ b[i] + most < n
    BY <1>1, <1>10, <2>1
  <2>3. PICK c \in cuts : b[i] < c /\ c <= b[i] + most
    BY <1>16, <2>2 DEF Covers
  <2>4. c \in S /\ c \in Nat
    BY DEF S
  <2>5. c <= b[i] \/ b[i + 1] <= c
    BY <1>9, <2>4
  <2>6. b[i + 1] = b[i] + d[i]
    <3>1. b[i + 1] \in Nat
      <4>1. b[i + 1] \in 0..n
        BY <1>2, <1>9
      <4> QED
        BY <1>1, <4>1
    <3> QED
      BY <1>6, <1>10, <3>1
  <2> QED
    BY <1>10, <2>1, <2>3, <2>4, <2>5, <2>6
<1>17. \A i \in 1..k : Len(ps[i]) > 0
  BY <1>9, <1>11
<1>18. k \in Nat \ {0}
  BY <1>8, <1>15
<1> QED
  BY <1>12, <1>13, <1>14, <1>16, <1>17, <1>18 DEF s, CutUp

-----------------------------------------------------------------------------
(* The FATs of groups put together, in the order of their cascade. *)

LEMMA WingBounds ==
  /\ Wing \in Nat /\ MAX_FAT_PER_FDT \in Nat \ {0} /\ MIN_FAT_PER_FDT \in Nat \ {0, 1}
  /\ MIN_FAT_PER_FDT + 1 = MAX_FAT_PER_FDT /\ Wing < MIN_FAT_PER_FDT /\ MAX_FAT_PER_FDT = 2 * Wing
BY WingAssumption DEF MAX_FAT_PER_FDT, MIN_FAT_PER_FDT

LEMMA Cascaded ==
  ASSUME NEW A, \A x \in A : x = <<x[1], x[2]>> /\ x[1] \in Nat /\ x[2] \in Nat,
         NEW s, ListOf(s, A)
  PROVE  /\ ListOf(InCascadeOrder(s), A) /\ Len(InCascadeOrder(s)) = Len(s)
         /\ \A f : Count(f, InCascadeOrder(s)) = Count(f, s)
<1> DEFINE n == Len(s)
           S == 1..n
           B == {b \in S \X S : Sooner(s, b[1], b[2])}
           p == [k \in S |-> Cardinality({j \in S : <<j, k>> \in B})]
           t == InCascadeOrder(s)
<1>1. n \in Nat /\ DOMAIN s = S /\ \A i \in S : s[i] \in A
  BY Listed
<1>2. \A i \in S : /\ s[i][1] \in Nat /\ s[i][2] \in Nat
                   /\ \A j \in S : s[i][1] = s[j][1] /\ s[i][2] = s[j][2] => s[i] = s[j]
  <2>1. \A i \in S : s[i] = <<s[i][1], s[i][2]>> /\ s[i][1] \in Nat /\ s[i][2] \in Nat
    BY <1>1
  <2> QED
    BY <2>1
<1>3. \A j, k \in S : <<j, k>> \in B <=> Sooner(s, j, k)
  OBVIOUS
<1>4. S \in SUBSET Nat /\ IsFiniteSet(S) /\ Cardinality(S) = n
  BY <1>1, Numbered
<1>5. p \in Bijection(S, 1..n)
  <2>1. B \in SUBSET (S \X S)
    OBVIOUS
  <2> HIDE DEF B, S
  <2>2. \A x \in S : <<x, x>> \in B
    BY <1>3, <1>4 DEF Sooner
  <2>3. \A x, y \in S : <<x, y>> \in B \/ <<y, x>> \in B
    <3>1. SUFFICES ASSUME NEW x \in S, NEW y \in S PROVE Sooner(s, x, y) \/ Sooner(s, y, x)
      BY <1>3
    <3>2. /\ s[x][1] \in Nat /\ s[x][2] \in Nat /\ s[y][1] \in Nat /\ s[y][2] \in Nat
          /\ x \in Nat /\ y \in Nat
      BY <1>2, <1>4
    <3>3. s[x][1] = s[y][1] /\ s[x][2] = s[y][2] => s[x] = s[y]
      BY <1>2
    <3> QED
      BY <3>2, <3>3 DEF Sooner
  <2>4. \A x, y \in S : <<x, y>> \in B /\ <<y, x>> \in B => x = y
    BY <1>2, <1>3, <1>4 DEF Sooner
  <2>5. \A x, y, z \in S : <<x, y>> \in B /\ <<y, z>> \in B => <<x, z>> \in B
    <3>1. SUFFICES ASSUME NEW x \in S, NEW y \in S, NEW z \in S, Sooner(s, x, y), Sooner(s, y, z)
                   PROVE  Sooner(s, x, z)
      BY <1>3
    <3>2. /\ s[x][1] \in Nat /\ s[x][2] \in Nat /\ s[y][1] \in Nat /\ s[y][2] \in Nat
          /\ s[z][1] \in Nat /\ s[z][2] \in Nat /\ x \in Nat /\ y \in Nat /\ z \in Nat
      BY <1>2, <1>4
    <3> QED
      BY <1>2, <3>1, <3>2 DEF Sooner
  <2>6. p \in Bijection(S, 1..Cardinality(S))
    BY <1>4, <2>1, <2>2, <2>3, <2>4, <2>5, Places, Zenon
  <2> QED
    BY <1>4, <2>6
<1>6. \A k \in S : p[k] = Cardinality({j \in DOMAIN s : Sooner(s, j, k)})
  <2>1. ASSUME NEW k \in S PROVE {j \in S : <<j, k>> \in B} = {j \in S : Sooner(s, j, k)}
    BY <1>3
  <2> HIDE DEF B
  <2> QED
    BY <1>1, <2>1
<1> HIDE DEF p, B
<1>7. /\ p \in [S -> 1..n] /\ \A x \in S : \A y \in S : p[x] = p[y] => x = y
      /\ \A k \in 1..n : \E x \in S : p[x] = k
  BY <1>5 DEF Bijection, Injection, Surjection, IsInjective
<1>8. t = [m \in S |-> s[CHOOSE k \in S : Cardinality({j \in S : Sooner(s, j, k)}) = m]]
  BY <1>1 DEF InCascadeOrder
<1> HIDE DEF t
<1>9. ASSUME NEW k \in S PROVE t[p[k]] = s[k]
  <2> DEFINE m == p[k]
             c == CHOOSE i \in S : Cardinality({j \in S : Sooner(s, j, i)}) = m
  <2>1. m \in S
    BY <1>7
  <2>2. t[m] = s[c]
    BY <1>8, <2>1
  <2>3. c \in S /\ Cardinality({j \in S : Sooner(s, j, c)}) = m
    <3>1. Cardinality({j \in S : Sooner(s, j, k)}) = m
      BY <1>1, <1>6
    <3> HIDE DEF m
    <3> QED
      BY <3>1
  <2> HIDE DEF c
  <2>4. p[c] = m
    BY <1>1, <1>6, <2>3
  <2>5. c = k
    BY <1>7, <2>3, <2>4
  <2> QED
    BY <2>2, <2>5
<1>10. \A m \in S : t[m] \in A
  <2>1. ASSUME NEW m \in S PROVE t[m] \in A
    <3>1. PICK k \in S : p[k] = m
      BY <1>7
    <3> QED
      BY <1>1, <1>9, <3>1
  <2> QED
    BY <2>1
<1>11. DOMAIN t = S /\ t = [m \in S |-> t[m]]
  BY <1>8
<1>12. ListOf(t, A) /\ Len(t) = n
  BY <1>1, <1>10, <1>11, Lists
<1>13. ASSUME NEW f PROVE Count(f, t) = Count(f, s)
  <2> DEFINE v == [m \in S |-> IF t[m] = f THEN 1 ELSE 0]
             w == [k \in S |-> IF s[k] = f THEN 1 ELSE 0]
  <2>1. Count(f, t) = Load(v) /\ Count(f, s) = Load(w)
    BY <1>1, <1>11 DEF Count
  <2>2. Rated(v, S) /\ Rated(w, S)
    BY DEF Rated
  <2>3. Follows(w, v, p)
    <3>1. \A k \in S : w[k] = v[p[k]]
      BY <1>7, <1>9
    <3>2. DOMAIN w = S
      OBVIOUS
    <3> HIDE DEF v, w
    <3> QED
      BY <3>1, <3>2 DEF Follows
  <2> HIDE DEF v, w
  <2>4. Load(w) = Load(v)
    BY ONLY <1>4, <1>5, <2>2, <2>3, LoadFollows
  <2> QED
    BY <2>1, <2>4
<1> QED
  BY <1>12, <1>13 DEF t

-----------------------------------------------------------------------------
(* The sizes in which FATs are dealt out to groups. *)

AtMostOneBelow(sizes, k, least) ==
  \A i, j \in 1..k : sizes[i] < least /\ sizes[j] < least => i = j

LEMMA SplitSizes ==
  ASSUME NEW n \in Nat, NEW sizes \in Splits(n)
  PROVE  \E k \in Nat :
           /\ DealsOut(sizes, k, n, MAX_FAT_PER_FDT) /\ DOMAIN sizes = 1..k /\ Len(sizes) = k
           /\ AtMostOneBelow(sizes, k, MIN_FAT_PER_FDT)
           /\ (n > 0 => k > 0)
           /\ \A i \in 1..(k - 1) : sizes[i] >= MIN_FAT_PER_FDT
<1> DEFINE most == MAX_FAT_PER_FDT
           least == MIN_FAT_PER_FDT
           g == Groups(n, most)
<1>1. /\ most \in Nat \ {0} /\ least \in Nat \ {0} /\ least + 1 = most /\ least <= most
  BY WingBounds
<1>2. /\ g \in Nat /\ DealsOut(Sizes(n, least, most), g, n, most)
  <2> HIDE DEF least, most
  <2> QED
    BY <1>1, SizesDeal
<1>3. ASSUME NEW k \in Nat, DealsOut(sizes, k, n, most), sizes = [i \in 1..k |-> sizes[i]],
             \A i \in 1..(k - 1) : sizes[i] >= least
      PROVE  \E j \in Nat :
           /\ DealsOut(sizes, j, n, MAX_FAT_PER_FDT) /\ DOMAIN sizes = 1..j /\ Len(sizes) = j
           /\ AtMostOneBelow(sizes, j, MIN_FAT_PER_FDT)
           /\ (n > 0 => j > 0)
           /\ \A i \in 1..(j - 1) : sizes[i] >= MIN_FAT_PER_FDT
  <2>1. DOMAIN sizes = 1..k
    BY <1>3
  <2>2. Len(sizes) = k
    <3>1. \A i \in 1..k : sizes[i] \in Nat
      BY <1>3 DEF DealsOut, Rated
    <3> QED
      BY <1>3, <2>1, <3>1, Lists
  <2>3. AtMostOneBelow(sizes, k, least)
    <3>1. SUFFICES ASSUME NEW i \in 1..k, NEW j \in 1..k, sizes[i] < least, sizes[j] < least
                   PROVE  i = j
      BY DEF AtMostOneBelow
    <3>2. sizes[i] \in Nat /\ sizes[j] \in Nat
      BY <1>3 DEF DealsOut, Rated
    <3>3. i \notin 1..(k - 1) /\ j \notin 1..(k - 1)
      <4>1. \A m \in 1..(k - 1) : sizes[m] >= least
        BY <1>3
      <4>2. least \in Nat
        BY <1>1
      <4> HIDE DEF least
      <4>3. ~(sizes[i] >= least) /\ ~(sizes[j] >= least)
        BY ONLY <3>1, <3>2, <4>2
      <4> QED
        BY <4>1, <4>3
    <3> QED
      BY <1>3, <3>3
  <2>4. n > 0 => k > 0
    <3>1. SUFFICES ASSUME k = 0 PROVE n = 0
      BY <1>3
    <3>2. sizes \in [{} -> Nat] /\ Load(sizes) = n
      BY <1>3, <3>1 DEF DealsOut, Rated
    <3> QED
      BY <3>2, LoadEmpty
  <2> QED
    BY <1>3, <2>1, <2>2, <2>3, <2>4
<1>4. CASE Exact(n, least, most)
  <2>1. PICK k \in g..MostFdts(n) :
          sizes = [i \in 1..k |-> n \div k + (IF i <= n % k THEN 1 ELSE 0)]
    BY <1>4 DEF Splits
  <2>2. n <= g * most
    <3>1. /\ n + most - 1 \in Nat /\ g = (n + most - 1) \div most
      BY <1>1 DEF Groups
    <3>2. /\ (n + most - 1) % most \in 0..(most - 1)
          /\ n + most - 1 = most * ((n + most - 1) \div most) + ((n + most - 1) % most)
      <4> DEFINE x == n + most - 1
      <4> HIDE DEF x, most
      <4> QED
        BY <1>1, <3>1, Division DEF x
    <3> HIDE DEF most, g
    <3> QED
      BY <1>1, <1>2, <3>1, <3>2
  <2>3. MostFdts(n) \in Nat /\ MostFdts(n) * least <= n
    <3>1. n \div least \in Nat /\ n % least \in 0..(least - 1) /\ n = least * (n \div least) + (n % least)
      BY <1>1, Division
    <3> HIDE DEF least
    <3>2. (n \div least) * least <= n
      BY <1>1, <3>1
    <3> QED
      BY <3>1, <3>2 DEF MostFdts, least
  <2>4. k \in Nat /\ k * least <= n /\ n <= k * most
    <3> HIDE DEF least, most, g
    <3>1. k \in Nat /\ g <= k /\ k <= MostFdts(n)
      BY <1>2, <2>3
    <3>2. k * least <= MostFdts(n) * least
      BY <1>1, <2>3, <3>1
    <3>3. g * most <= k * most
      BY <1>1, <1>2, <3>1
    <3>4. k * least \in Nat /\ k * most \in Nat /\ g * most \in Nat /\ MostFdts(n) * least \in Nat
      BY <1>1, <1>2, <2>3, <3>1
    <3> QED
      BY <2>2, <2>3, <3>1, <3>2, <3>3, <3>4
  <2>5. sizes = [i \in 1..k |-> sizes[i]]
    BY <2>1
  <2>6. CASE k = 0
    <3>1. n = 0
      BY <1>1, <2>4, <2>6
    <3>2. sizes \in [1..k -> Nat] /\ 1..k = {}
      BY <2>1, <2>6
    <3>3. Load(sizes) = 0
      BY <3>2, LoadEmpty
    <3>4. DealsOut(sizes, k, n, most)
      BY <3>1, <3>2, <3>3 DEF DealsOut, Rated
    <3>5. \A i \in 1..(k - 1) : sizes[i] >= least
      BY <2>6
    <3> QED
      BY <1>3, <2>4, <2>5, <3>4, <3>5
  <2>7. CASE k # 0
    <3>1. k \in Nat \ {0}
      BY <2>4, <2>7
    <3>2. sizes = Even(n, k)
      BY <2>1 DEF Even
    <3>3. Even(n, k) \in [1..k -> least..most] /\ Load(Even(n, k)) = n
      <4> HIDE DEF least, most
      <4> QED
        BY <1>1, <2>4, <3>1, EvenDeal, EvenSum
    <3>4. \A i \in 1..k : sizes[i] \in least..most
      <4> HIDE DEF least, most
      <4> QED
        BY <3>2, <3>3
    <3>5. DealsOut(sizes, k, n, most) /\ \A i \in 1..(k - 1) : sizes[i] >= least
      <4>1. \A i \in 1..k : sizes[i] \in 1..most /\ sizes[i] >= least
        <5> HIDE DEF least, most
        <5> QED
          BY <1>1, <3>4
      <4>2. Rated(sizes, 1..k)
        BY <2>5, <4>1 DEF Rated
      <4> QED
        BY <2>4, <3>2, <3>3, <4>1, <4>2 DEF DealsOut
    <3> QED
      BY <1>3, <2>4, <2>5, <3>5
  <2> QED
    BY <2>6, <2>7
<1>5. CASE ~Exact(n, least, most)
  <2>1. sizes = Sizes(n, least, most)
    BY <1>5 DEF Splits
  <2>2. /\ sizes = [i \in 1..g |-> sizes[i]]
        /\ \A i \in 1..g : i < g => sizes[i] = most
    BY <1>5, <2>1 DEF Sizes
  <2>3. \A i \in 1..(g - 1) : sizes[i] >= least
    <3> HIDE DEF least, most, g
    <3>1. \A i \in 1..(g - 1) : sizes[i] = most
      BY <1>2, <2>2
    <3> QED
      BY <1>1, <3>1
  <2> QED
    BY <1>2, <1>3, <2>1, <2>2, <2>3
<1> QED
  BY <1>4, <1>5

-----------------------------------------------------------------------------
(* What is walked on a road: its own FATs and what was handed on to it. *)

Hands == [at : {"front", "back"}, fats : Seq(FATs), src : RoadIds]
RoadHolds(own, inj, f) == Count(f, own) + InAll(inj, f)
FatMark(f) == [x \in Entries |-> IF x.fat = f THEN 1 ELSE 0]
FromBranch(seq, r) == [k \in DOMAIN seq |-> [fat |-> seq[k], branch |-> r]]

LEMMA HandsCarry == Carry(Hands, FATs) /\ \A h \in Hands : ListOf(h.fats, FATs) /\ h.src \in RoadIds
BY DEF Carry, Hands, ListOf

LEMMA FatMarked ==
  ASSUME NEW f
  PROVE  Rated(FatMark(f), Entries) /\ \A x \in Entries : FatMark(f)[x] = IF x.fat = f THEN 1 ELSE 0
<1>1. FatMark(f) \in [Entries -> Nat]
  BY DEF FatMark
<1> QED
  BY <1>1 DEF Rated, FatMark

LEMMA FatsCounted ==
  ASSUME NEW e, ListOf(e, Entries), NEW f
  PROVE  SumOver(FatMark(f), e) = Count(f, FatsOf(e)) /\ SumOver(FatMark(f), e) \in Nat
<1> DEFINE s == FatsOf(e)
<1>1. DOMAIN e = 1..Len(e) /\ \A i \in 1..Len(e) : e[i] \in Entries
  BY Listed
<1>2. DOMAIN s = 1..Len(e) /\ \A i \in 1..Len(e) : s[i] = e[i].fat
  BY DEF FatsOf
<1> HIDE DEF s
<1>3. Weights(FatMark(f), e) = [i \in 1..Len(e) |-> IF s[i] = f THEN 1 ELSE 0]
  <2>1. \A i \in 1..Len(e) : FatMark(f)[e[i]] = IF s[i] = f THEN 1 ELSE 0
    BY <1>1, <1>2, FatMarked
  <2> QED
    BY <1>1, <2>1 DEF Weights
<1>4. SumOver(FatMark(f), e) = Count(f, s)
  BY <1>2, <1>3 DEF SumOver, Count
<1>5. SumOver(FatMark(f), e) \in Nat
  BY FatMarked, SumIsNumber
<1> QED
  BY <1>4, <1>5 DEF s

LEMMA BranchEntries ==
  ASSUME NEW seq, ListOf(seq, FATs), NEW r \in RoadIds
  PROVE  /\ ListOf(FromBranch(seq, r), Entries) /\ Len(FromBranch(seq, r)) = Len(seq)
         /\ \A f : SumOver(FatMark(f), FromBranch(seq, r)) = Count(f, seq)
<1> DEFINE e == FromBranch(seq, r)
           n == Len(seq)
<1>1. n \in Nat /\ DOMAIN seq = 1..n /\ \A i \in 1..n : seq[i] \in FATs
  BY Listed
<1>2. /\ DOMAIN e = 1..n /\ e = [i \in 1..n |-> e[i]]
      /\ \A i \in 1..n : e[i] = [fat |-> seq[i], branch |-> r]
  BY <1>1 DEF FromBranch
<1> HIDE DEF e
<1>3. \A i \in 1..n : e[i] \in Entries /\ e[i].fat = seq[i]
  BY <1>1, <1>2 DEF Entries
<1>4. ListOf(e, Entries) /\ Len(e) = n
  BY <1>1, <1>2, <1>3, Lists
<1>5. FatsOf(e) = seq
  <2>1. seq \in Seq(FATs)
    BY DEF ListOf
  <2>2. seq = [i \in 1..n |-> seq[i]]
    BY <1>1, <2>1
  <2>3. FatsOf(e) = [i \in 1..n |-> seq[i]]
    BY <1>3, <1>4 DEF FatsOf
  <2> QED
    BY <2>2, <2>3
<1> QED
  BY <1>4, <1>5, FatsCounted DEF e

LEMMA InjectionEntries ==
  ASSUME NEW r \in RoadIds, ListOf(inject[r], Hands), NEW place
  PROVE  /\ ListOf(Injections(r, place), Entries)
         /\ \A f : SumOver(FatMark(f), Injections(r, place)) =
                     HeldBy(inject[r], {i \in DOMAIN inject[r] : inject[r][i].at = place}, f)
<1> DEFINE S == {i \in DOMAIN inject[r] : inject[r][i].at = place}
           here == Chosen(inject[r], S)
           n == Len(here)
           ss == [i \in DOMAIN here |-> FromBranch(here[i].fats, here[i].src)]
<1>1. S \in SUBSET (1..Len(inject[r]))
  BY Listed
<1>2. ListOf(here, Hands) /\ \A f : InAll(here, f) = HeldBy(inject[r], S, f)
  <2> HIDE DEF S
  <2> QED
    BY <1>1, AllChosen, HandsCarry
<1>3. Injections(r, place) = FlattenSeq(ss)
  BY DEF Injections, FromBranch
<1> HIDE DEF S, here
<1>4. n \in Nat /\ DOMAIN here = 1..n /\ \A i \in 1..n : ListOf(here[i].fats, FATs) /\ here[i].src \in RoadIds
  BY <1>2, Listed, HandsCarry
<1>5. /\ DOMAIN ss = 1..n /\ ss = [i \in 1..n |-> ss[i]]
      /\ \A i \in 1..n : ss[i] = FromBranch(here[i].fats, here[i].src)
  BY <1>4
<1> HIDE DEF ss, n
<1>6. /\ \A i \in 1..n : ListOf(ss[i], Entries)
      /\ \A i \in 1..n : \A f : SumOver(FatMark(f), ss[i]) = Count(f, here[i].fats)
  BY <1>4, <1>5, BranchEntries
<1>7. ListsOf(ss, Entries)
  BY <1>5, <1>6 DEF ListsOf
<1>8. ListOf(ss, Range(ss))
  BY <1>4, <1>5, <1>7, PiecesListed
<1>9. ASSUME NEW f
      PROVE  SumOver(FatMark(f), FlattenSeq(ss)) = InAll(here, f)
  <2>1. SumOver(FatMark(f), FlattenSeq(ss)) = Load(RowSums(FatMark(f), ss))
    BY <1>7, <1>8, FatMarked, Flattened
  <2>2. RowSums(FatMark(f), ss) = [i \in DOMAIN here |-> Count(f, here[i].fats)]
    BY <1>4, <1>5, <1>6 DEF RowSums
  <2> QED
    BY <2>1, <2>2 DEF InAll
<1>10. ListOf(FlattenSeq(ss), Entries)
  BY <1>7, <1>8, FlattenedList
<1> QED
  BY <1>2, <1>3, <1>9, <1>10 DEF S

LEMMA WalkedRoad ==
  ASSUME NEW r \in RoadIds, ListOf(inject[r], Hands), ListOf(fats_by_road[r], FATs)
  PROVE  /\ ListOf(Walked(r), Entries)
         /\ \A f : Count(f, FatsOf(Walked(r))) = RoadHolds(fats_by_road[r], inject[r], f)
<1> DEFINE front == Injections(r, "front")
           back == Injections(r, "back")
           own == FromBranch(fats_by_road[r], r)
           F == {i \in DOMAIN inject[r] : inject[r][i].at = "front"}
           B == {i \in DOMAIN inject[r] : inject[r][i].at = "back"}
           S == 1..Len(inject[r])
<1>1. /\ ListOf(front, Entries) /\ \A f : SumOver(FatMark(f), front) = HeldBy(inject[r], F, f)
      /\ ListOf(back, Entries) /\ \A f : SumOver(FatMark(f), back) = HeldBy(inject[r], B, f)
  BY InjectionEntries
<1>2. ListOf(own, Entries) /\ \A f : SumOver(FatMark(f), own) = Count(f, fats_by_road[r])
  BY BranchEntries
<1>3. F \in SUBSET S /\ B = S \ F
  <2>1. DOMAIN inject[r] = S /\ \A i \in S : inject[r][i] \in Hands
    BY Listed
  <2>2. \A h \in Hands : h.at = "front" \/ h.at = "back"
    BY DEF Hands
  <2> HIDE DEF S
  <2> QED
    BY <2>1, <2>2
<1>4. Walked(r) = (front \o own) \o back
  BY DEF Walked, FromBranch
<1> HIDE DEF front, back, own, F, B
<1>5. ListOf(front \o own, Entries) /\ ListOf((front \o own) \o back, Entries)
  BY <1>1, <1>2, JoinedSeq
<1>6. ASSUME NEW f
      PROVE  SumOver(FatMark(f), (front \o own) \o back) = RoadHolds(fats_by_road[r], inject[r], f)
  <2>1. Rated(FatMark(f), Entries)
    BY FatMarked
  <2>2. SumOver(FatMark(f), front \o own) = SumOver(FatMark(f), front) + SumOver(FatMark(f), own)
    BY ONLY <1>1, <1>2, <2>1, SumConcat
  <2>3. SumOver(FatMark(f), (front \o own) \o back)
          = SumOver(FatMark(f), front \o own) + SumOver(FatMark(f), back)
    BY ONLY <1>1, <1>5, <2>1, SumConcat
  <2>4. /\ HeldBy(inject[r], S, f) = HeldBy(inject[r], F, f) + HeldBy(inject[r], S \ F, f)
        /\ HeldBy(inject[r], F, f) \in Nat /\ HeldBy(inject[r], S \ F, f) \in Nat
    BY <1>3, HandsCarry, HeldParts
  <2>5. HeldBy(inject[r], S, f) = InAll(inject[r], f)
    BY HandsCarry, HeldEnds
  <2>6. Count(f, fats_by_road[r]) \in Nat
    BY Counted
  <2> QED
    BY <1>1, <1>2, <1>3, <2>2, <2>3, <2>4, <2>5, <2>6 DEF RoadHolds
<1>7. \A f : SumOver(FatMark(f), Walked(r)) = Count(f, FatsOf(Walked(r)))
  BY <1>4, <1>5, FatsCounted
<1> QED
  BY <1>4, <1>5, <1>6, <1>7

-----------------------------------------------------------------------------
(* Where a walk is cut. *)

LEMMA NearestExists ==
  ASSUME NEW S \in SUBSET Nat, S # {}, NEW cut \in Nat
  PROVE  Nearest(S, cut) \in S
<1> DEFINE off(x) == IF x < cut THEN cut - x ELSE x - cut
           D == {m \in Nat : \E x \in S : off(x) = m}
<1>1. \A x \in S : off(x) \in Nat
  OBVIOUS
<1>2. D \in SUBSET Nat /\ D # {}
  BY <1>1
<1>3. PICK m \in D : \A x \in D : m <= x
  <2> HIDE DEF D
  <2> QED
    BY <1>2, LeastNumber
<1> DEFINE C == {x \in S : off(x) = m}
<1>4. C \in SUBSET Nat /\ C # {}
  OBVIOUS
<1>5. PICK c \in C : \A x \in C : c <= x
  <2> HIDE DEF C
  <2> QED
    BY <1>4, LeastNumber
<1>6. \A d \in S : off(c) < off(d) \/ (off(c) = off(d) /\ c <= d)
  <2>1. SUFFICES ASSUME NEW d \in S PROVE off(c) < off(d) \/ (off(c) = off(d) /\ c <= d)
    OBVIOUS
  <2>2. off(d) \in Nat /\ off(c) = m /\ m \in Nat /\ m <= off(d)
    BY <1>1, <1>3
  <2>3. off(d) = m => c <= d
    BY <1>5
  <2> HIDE DEF off
  <2> QED
    BY <2>2, <2>3
<1>7. c \in S
  OBVIOUS
<1> DEFINE P(x) == \A d \in S : off(x) < off(d) \/ (off(x) = off(d) /\ x <= d)
<1>8. Nearest(S, cut) = CHOOSE x \in S : P(x)
  BY DEF Nearest
<1>9. P(c)
  BY <1>6
<1> HIDE DEF P, C, D, off
<1> QED
  BY <1>7, <1>8, <1>9

LEMMA CutsOf ==
  ASSUME NEW n \in Nat, NEW most \in Nat, NEW k \in Nat \ {0}, NEW sizes,
         DealsOut(sizes, k, n, most), DOMAIN sizes = 1..k, Len(sizes) = k
  PROVE  /\ CutPoints(sizes) \in SUBSET (1..(n - 1)) /\ Covers(CutPoints(sizes), n, most)
         /\ sizes[k] \in 1..most /\ n - sizes[k] \in Nat
         /\ k > 1 => /\ n - sizes[k] \in CutPoints(sizes) /\ sizes[k - 1] \in 1..most
                     /\ n - sizes[k] - sizes[k - 1] \in Nat
                     /\ n - sizes[k] - sizes[k - 1] # 0 =>
                          n - sizes[k] - sizes[k - 1] \in CutPoints(sizes)
<1> DEFINE c == [i \in 0..k |-> Load(Restrict(sizes, 1..i))]
<1>1. Rated(sizes, 1..k) /\ Load(sizes) = n /\ \A i \in 1..k : sizes[i] \in 1..most
  BY DEF DealsOut
<1>2. \A i \in 1..k : /\ c[i] = c[i - 1] + sizes[i] /\ c[i - 1] \in Nat
  <2>1. ASSUME NEW i \in 1..k PROVE c[i] = c[i - 1] + sizes[i] /\ c[i - 1] \in Nat
    <3>1. i \in 0..k /\ i - 1 \in 0..k
      OBVIOUS
    <3>2. c[i] = Load(Restrict(sizes, 1..i)) /\ c[i - 1] = Load(Restrict(sizes, 1..(i - 1)))
      BY <3>1
    <3> HIDE DEF c
    <3>3. /\ Load(Restrict(sizes, 1..i)) = Load(Restrict(sizes, 1..(i - 1))) + sizes[i]
          /\ Load(Restrict(sizes, 1..(i - 1))) \in Nat
      BY <1>1, LoadUpTo
    <3> QED
      BY <3>2, <3>3
  <2> HIDE DEF c
  <2> QED
    BY <2>1
<1>3. c[0] = 0
  <2>1. Restrict(sizes, 1..0) \in [{} -> Nat]
    BY DEF Restrict
  <2> QED
    BY <2>1, LoadEmpty
<1>4. c[k] = n
  <2>1. sizes = Restrict(sizes, 1..k)
    BY <1>1 DEF Rated, Restrict
  <2> QED
    BY <1>1, <2>1
<1>5. CutPoints(sizes) = {c[i] : i \in 1..(k - 1)}
  <2>1. \A i \in 1..(k - 1) : [j \in 1..i |-> sizes[j]] = Restrict(sizes, 1..i)
    BY DEF Restrict
  <2>2. \A i \in 1..(k - 1) : c[i] = Load([j \in 1..i |-> sizes[j]])
    BY <2>1
  <2> HIDE DEF c
  <2> QED
    BY <2>2 DEF CutPoints
<1> HIDE DEF c
<1>6. \A i \in 0..k : c[i] \in Nat
  <2>1. ASSUME NEW i \in 1..k PROVE c[i] \in Nat
    <3>1. sizes[i] \in Nat
      BY <1>1
    <3>2. c[i] = c[i - 1] + sizes[i] /\ c[i - 1] \in Nat
      BY <1>2
    <3> QED
      BY <3>1, <3>2
  <2>2. \A i \in 0..k : i = 0 \/ i \in 1..k
    OBVIOUS
  <2> QED
    BY <1>3, <2>1, <2>2
<1>7. \A i \in 0..k : c[i] <= n
  <2> DEFINE G == {i \in 0..k : c[k - i] <= n}
  <2>1. 0 \in G
    BY <1>4
  <2>2. ASSUME NEW i \in 0..(k - 1), i \in G PROVE i + 1 \in G
    <3> DEFINE j == k - i
    <3>1. j \in 1..k /\ k - (i + 1) = j - 1 /\ i + 1 \in 0..k
      OBVIOUS
    <3>2. c[j] = c[j - 1] + sizes[j] /\ c[j - 1] \in Nat /\ sizes[j] \in Nat /\ c[j] <= n
      BY <1>1, <1>2, <2>2, <3>1
    <3>3. c[j - 1] <= n
      BY <3>2
    <3> QED
      BY <3>1, <3>3
  <2> HIDE DEF G
  <2>3. \A i \in 0..k : i \in G
    BY <2>1, <2>2, CountUp
  <2>4. ASSUME NEW i \in 0..k PROVE c[i] <= n
    <3>1. k - i \in 0..k /\ k - (k - i) = i
      OBVIOUS
    <3> QED
      BY <2>3, <3>1 DEF G
  <2> QED
    BY <2>4
<1>8. CutPoints(sizes) \in SUBSET (1..(n - 1))
  <2>1. ASSUME NEW i \in 1..(k - 1) PROVE c[i] \in 1..(n - 1)
    <3>1. i \in 1..k /\ i + 1 \in 1..k /\ (i + 1) - 1 = i /\ i \in 0..k /\ i + 1 \in 0..k
      OBVIOUS
    <3>2. c[i] = c[i - 1] + sizes[i] /\ c[i - 1] \in Nat /\ sizes[i] \in 1..most
      BY <1>1, <1>2, <3>1
    <3>3. c[i + 1] = c[i] + sizes[i + 1] /\ sizes[i + 1] \in 1..most /\ c[i + 1] <= n
      BY <1>1, <1>2, <1>7, <3>1
    <3> QED
      BY <3>2, <3>3
  <2> QED
    BY <1>5, <2>1
<1>9. Covers(CutPoints(sizes), n, most)
  <2>1. SUFFICES ASSUME NEW x \in 0..n, x + most < n
                 PROVE  \E d \in CutPoints(sizes) : x < d /\ d <= x + most
    BY DEF Covers
  <2> DEFINE I == {i \in 0..k : x < c[i]}
  <2>2. k \in I
    BY <1>4, <2>1
  <2>3. I \in SUBSET Nat /\ I # {}
    BY <2>2
  <2>4. PICK i \in I : \A j \in I : i <= j
    <3> HIDE DEF I
    <3> QED
      BY <2>3, LeastNumber
  <2>5. i \in 0..k /\ x < c[i] /\ i # 0
    BY <1>3
  <2>6. i \in 1..k /\ i - 1 \in 0..k /\ i - 1 \notin I
    BY <2>4, <2>5
  <2>7. c[i] = c[i - 1] + sizes[i] /\ c[i - 1] \in Nat /\ sizes[i] \in 1..most /\ c[i - 1] <= x
    BY <1>1, <1>2, <2>6
  <2>8. c[i] <= x + most
    BY <2>7
  <2>9. i \in 1..(k - 1)
    BY <1>4, <2>1, <2>6, <2>8
  <2> QED
    BY <1>5, <2>5, <2>8, <2>9
<1>10. c[k - 1] = n - sizes[k] /\ c[k - 1] \in Nat /\ sizes[k] \in 1..most
  <2>1. k \in 1..k
    OBVIOUS
  <2> QED
    BY <1>1, <1>2, <1>4, <2>1
<1>11. ASSUME k > 1
       PROVE  /\ c[k - 2] = n - sizes[k] - sizes[k - 1] /\ c[k - 2] \in Nat /\ sizes[k - 1] \in 1..most
              /\ k - 1 \in 1..(k - 1) /\ (c[k - 2] # 0 => k - 2 \in 1..(k - 1))
  <2>1. k - 1 \in 1..k /\ (k - 1) - 1 = k - 2
    BY <1>11
  <2>2. c[k - 1] = c[k - 2] + sizes[k - 1] /\ c[k - 2] \in Nat /\ sizes[k - 1] \in 1..most
    BY <1>1, <1>2, <2>1
  <2>3. c[k - 2] # 0 => k - 2 # 0
    BY <1>3
  <2> QED
    BY <1>10, <1>11, <2>2, <2>3
<1> QED
  BY <1>5, <1>8, <1>9, <1>10, <1>11

LEMMA SnappedCuts ==
  ASSUME NEW e, NEW n \in Nat \ {0}, n = Len(e), NEW sizes \in Splits(n)
  PROVE  Snapped(e, sizes) \in SUBSET (1..(n - 1)) /\ Covers(Snapped(e, sizes), n, MAX_FAT_PER_FDT)
<1> DEFINE most == MAX_FAT_PER_FDT
<1>1. PICK k \in Nat : /\ DealsOut(sizes, k, n, most) /\ DOMAIN sizes = 1..k /\ Len(sizes) = k
                       /\ (n > 0 => k > 0)
  BY SplitSizes
<1>2. k \in Nat \ {0}
  BY <1>1
<1>3. most \in Nat \ {0} /\ MIN_FAT_PER_FDT \in Nat
  BY WingBounds
<1> DEFINE cuts == CutPoints(sizes)
           cut == n - sizes[k]
           prior == cut - sizes[k - 1]
           near == RunStarts(e) \cap (prior + MIN_FAT_PER_FDT)..(prior + most)
<1> HIDE DEF most
<1>4. /\ cuts \in SUBSET (1..(n - 1)) /\ Covers(cuts, n, most)
      /\ sizes[k] \in 1..most /\ cut \in Nat
      /\ k > 1 => /\ cut \in cuts /\ sizes[k - 1] \in 1..most /\ prior \in Nat
                  /\ prior # 0 => prior \in cuts
  BY ONLY <1>1, <1>2, <1>3, n \in Nat \ {0}, CutsOf
<1>5. RunStarts(e) \in SUBSET (1..(n - 1))
  BY DEF RunStarts
<1>6. CASE ~(k > 1 /\ near # {} /\ n - Nearest(near, cut) <= most)
  <2>1. Snapped(e, sizes) = cuts
    BY <1>1, <1>6 DEF Snapped, most
  <2> QED
    BY <1>4, <2>1 DEF most
<1>7. CASE k > 1 /\ near # {} /\ n - Nearest(near, cut) <= most
  <2> DEFINE d == Nearest(near, cut)
             moved == (cuts \ {cut}) \cup {d}
  <2>1. Snapped(e, sizes) = moved
    BY <1>1, <1>7 DEF Snapped, most
  <2>2. d \in near
    <3>1. near \in SUBSET Nat
      BY <1>5
    <3> HIDE DEF near, cut
    <3> QED
      BY <1>4, <1>7, <3>1, NearestExists
  <2>3. d \in 1..(n - 1) /\ d <= prior + most /\ n - d <= most
    BY <1>3, <1>4, <1>5, <1>7, <2>2
  <2>4. moved \in SUBSET (1..(n - 1))
    BY <1>4, <2>3
  <2>5. Covers(moved, n, most)
    <3>1. SUFFICES ASSUME NEW x \in 0..n, x + most < n
                   PROVE  \E y \in moved : x < y /\ y <= x + most
      BY DEF Covers
    <3>2. PICK y \in cuts : x < y /\ y <= x + most
      BY <1>4, <3>1 DEF Covers
    <3>3. CASE y # cut
      BY <3>2, <3>3
    <3>4. CASE y = cut /\ x < prior
      <4>0. /\ prior = cut - sizes[k - 1] /\ sizes[k - 1] \in 1..most /\ prior \in Nat
            /\ cut \in Nat /\ (prior # 0 => prior \in cuts)
        BY <1>4, <1>7
      <4> HIDE DEF prior, cut, cuts
      <4>1. prior # 0 /\ prior < cut
        BY <1>3, <3>4, <4>0
      <4>2. prior <= x + most
        BY <1>3, <3>2, <3>4, <4>0, <4>1
      <4>3. prior \in moved
        BY <4>0, <4>1
      <4> QED
        BY <3>4, <4>2, <4>3
    <3>5. CASE y = cut /\ ~(x < prior)
      <4> HIDE DEF d, prior, cut
      <4>1. prior \in Nat /\ d \in Nat
        BY <1>4, <1>7, <2>3
      <4>2. d <= x + most
        BY <1>3, <2>3, <3>5, <4>1
      <4>3. x < d
        BY <1>3, <2>3, <3>1, <4>1
      <4> QED
        BY <4>2, <4>3
    <3> QED
      BY <3>3, <3>4, <3>5
  <2> QED
    BY <2>1, <2>4, <2>5 DEF most
<1> QED
  BY <1>6, <1>7

-----------------------------------------------------------------------------
(* The choices of the steps. *)

LEMMA Lowest ==
  ASSUME NEW S \in SUBSET Nat, S # {}
  PROVE  LowestId(S) \in S /\ \A j \in S : LowestId(S) <= j
<1>1. \E i \in S : \A j \in S : i <= j
  BY LeastNumber
<1> QED
  BY <1>1 DEF LowestId

(* All pieces but the last. *)
LEMMA LastPiece ==
  ASSUME NEW A, NEW k \in Nat \ {0}, NEW ps, DOMAIN ps = 1..k, ListsOf(ps, A),
         ps = [i \in 1..k |-> ps[i]]
  PROVE  /\ Last(ps) = ps[k] /\ DOMAIN Front(ps) = 1..(k - 1) /\ ListsOf(Front(ps), A)
         /\ \A i \in 1..(k - 1) : Front(ps)[i] = ps[i]
         /\ Front(ps) = [i \in 1..(k - 1) |-> Front(ps)[i]]
         /\ \A f : /\ Load(Tally(ps, f)) = Load(Tally(Front(ps), f)) + Count(f, Last(ps))
                   /\ Load(Tally(Front(ps), f)) \in Nat
<1> DEFINE B == Range(ps)
           q == Front(ps)
<1>1. ListOf(ps, B) /\ Len(ps) = k
  BY PiecesListed
<1>2. Last(ps) = ps[k]
  BY <1>1 DEF Last
<1>3. q = SubSeq(ps, 1, k - 1)
  BY <1>1 DEF Front
<1> HIDE DEF B, q
<1>4. ListOf(q, B) /\ Len(q) = k - 1 /\ \A i \in 1..(k - 1) : q[i] = ps[i]
  <2> DEFINE z == 0
             y == k - 1
  <2>1. z \in 0..Len(ps) /\ y \in z..Len(ps) /\ z + 1 = 1 /\ y - z = k - 1
    BY <1>1
  <2> HIDE DEF y, z
  <2>2. /\ ListOf(SubSeq(ps, z + 1, y), B) /\ Len(SubSeq(ps, z + 1, y)) = y - z
        /\ \A j \in 1..(y - z) : SubSeq(ps, z + 1, y)[j] = ps[z + j]
    BY ONLY <1>1, <2>1, CutList, SMTT(30)
  <2>3. \A j \in 1..(k - 1) : z + j = j
    BY DEF z
  <2> QED
    BY <1>3, <2>1, <2>2, <2>3 DEF y
<1>5. DOMAIN q = 1..(k - 1) /\ q = [i \in 1..(k - 1) |-> q[i]]
  <2>1. DOMAIN q = 1..(k - 1) /\ q \in Seq(B)
    BY <1>4, Listed DEF ListOf
  <2> QED
    BY <2>1
<1>6. ListsOf(q, A)
  <2>1. \A i \in 1..k : ListOf(ps[i], A)
    BY DEF ListsOf
  <2>2. \A i \in 1..(k - 1) : i \in 1..k /\ q[i] = ps[i]
    BY <1>4
  <2>3. \A i \in 1..(k - 1) : ListOf(q[i], A)
    BY <2>1, <2>2
  <2> QED
    BY <1>5, <2>3 DEF ListsOf
<1>7. ASSUME NEW f
      PROVE  Load(Tally(ps, f)) = Load(Tally(q, f)) + Count(f, ps[k]) /\ Load(Tally(q, f)) \in Nat
  <2> DEFINE t == Tally(ps, f)
  <2>1. \A i \in 1..k : Count(f, ps[i]) \in Nat
    BY Counted DEF ListsOf
  <2>2. Rated(t, 1..k) /\ t[k] = Count(f, ps[k])
    BY <2>1 DEF Rated, Tally
  <2>3. Restrict(t, 1..(k - 1)) = Tally(q, f)
    <3>1. \A i \in 1..(k - 1) : t[i] = Count(f, q[i])
      BY <1>4, SMTT(30) DEF Tally
    <3> HIDE DEF t
    <3> QED
      BY <1>5, <3>1 DEF Tally, Restrict
  <2>4. Restrict(t, 1..k) = t
    BY DEF Tally, Restrict
  <2> HIDE DEF t
  <2>5. k \in 1..k
    OBVIOUS
  <2>6. /\ Load(Restrict(t, 1..k)) = Load(Restrict(t, 1..(k - 1))) + t[k]
        /\ Load(Restrict(t, 1..(k - 1))) \in Nat
    BY <2>2, <2>5, LoadUpTo
  <2> QED
    BY <2>2, <2>3, <2>4, <2>6 DEF t
<1> QED
  BY <1>2, <1>4, <1>5, <1>6, <1>7 DEF q

(* Lists one after the other, in the order of their numbers. *)
LEMMA PoolList ==
  ASSUME NEW A, NEW S \in SUBSET Nat, IsFiniteSet(S), NEW own, \A r \in S : ListOf(own[r], A),
         NEW ss, ss = [i \in DOMAIN Ascending(S) |-> own[Ascending(S)[i]]]
  PROVE  /\ ListOf(FlattenSeq(ss), A)
         /\ \A f : Count(f, FlattenSeq(ss)) = Load([r \in S |-> Count(f, own[r])])
<1> DEFINE m == Cardinality(S)
           b == Ascending(S)
<1>1. m \in Nat /\ b \in Bijection(1..m, S)
  BY AscendingOrder
<1> HIDE DEF m, b
<1>2. DOMAIN b = 1..m /\ \A i \in 1..m : b[i] \in S
  BY <1>1 DEF Bijection, Injection
<1>3. DOMAIN ss = 1..m /\ ss = [i \in 1..m |-> ss[i]] /\ \A i \in 1..m : ss[i] = own[b[i]]
  BY <1>2 DEF b
<1>4. ListsOf(ss, A)
  BY <1>2, <1>3 DEF ListsOf
<1>5. ListOf(ss, Range(ss)) /\ Len(ss) = m
  BY ONLY <1>1, <1>3, <1>4, PiecesListed
<1>6. ListOf(FlattenSeq(ss), A)
  BY ONLY <1>4, <1>5, FlattenedList
<1>7. ASSUME NEW f PROVE Count(f, FlattenSeq(ss)) = Load([r \in S |-> Count(f, own[r])])
  <2> DEFINE w == [r \in S |-> Count(f, own[r])]
             v == Tally(ss, f)
  <2>1. Count(f, FlattenSeq(ss)) = Load(v) /\ Rated(v, 1..m)
    <3> HIDE DEF v
    <3>1. /\ Count(f, FlattenSeq(ss)) = Load(Tally(ss, f)) /\ Rated(Tally(ss, f), 1..Len(ss))
      BY ONLY <1>4, <1>5, CountFlat
    <3> QED
      BY <1>5, <3>1 DEF v
  <2>2. Rated(w, S)
    <3>1. \A r \in S : Count(f, own[r]) \in Nat
      BY Counted
    <3> QED
      BY <3>1 DEF Rated
  <2>3. Follows(v, w, b)
    <3>1. DOMAIN v = 1..m /\ \A i \in 1..m : v[i] = Count(f, own[b[i]])
      BY <1>3 DEF Tally
    <3>2. \A i \in 1..m : w[b[i]] = Count(f, own[b[i]])
      BY <1>2
    <3> HIDE DEF v, w
    <3> QED
      BY <3>1, <3>2 DEF Follows
  <2>4. IsFiniteSet(1..m)
    BY <1>1, Numbered
  <2> HIDE DEF v, w
  <2>5. Load(v) = Load(w)
    BY ONLY <1>1, <2>1, <2>2, <2>3, <2>4, LoadFollows
  <2> QED
    BY <2>1, <2>5 DEF w
<1> QED
  BY <1>6, <1>7

(* Groups that are filled one after the other. *)
LEMMA FilledDeal ==
  ASSUME NEW n \in Nat
  PROVE  /\ DealsOut(Filled(n), Groups(n, MAX_FAT_PER_FDT), n, MAX_FAT_PER_FDT)
         /\ Groups(n, MAX_FAT_PER_FDT) \in Nat
<1> DEFINE most == MAX_FAT_PER_FDT
           k == Groups(n, most)
           s == Filled(n)
<1>1. most \in Nat \ {0}
  BY WingBounds
<1>2. k \in Nat /\ n <= k * most /\ (n > 0 => k > 0) /\ (k > 0 => (k - 1) * most < n)
  <2> DEFINE x == n + most - 1
  <2>1. x \in Nat /\ k = x \div most
    BY <1>1 DEF Groups
  <2>2. x \div most \in Nat /\ x % most \in 0..(most - 1) /\ x = most * (x \div most) + (x % most)
    <3> HIDE DEF x, most
    <3> QED
      BY <1>1, <2>1, Division
  <2> DEFINE q == x \div most
             c == x % most
  <2> HIDE DEF q, c, k, most
  <2>3. q \in Nat /\ c \in 0..(most - 1) /\ n + most - 1 = most * q + c /\ k = q /\ most \in Nat \ {0}
    BY <1>1, <2>1, <2>2 DEF q, c
  <2>4. most * q = q * most /\ q * most \in Nat /\ (q - 1) * most = q * most - most
    BY <2>3
  <2>5. n <= q * most /\ (q - 1) * most < n
    BY <2>3, <2>4
  <2>6. n > 0 => q > 0
    <3>1. q = 0 => q * most = 0
      BY <2>3
    <3> QED
      BY <2>3, <2>5, <3>1
  <2> QED
    BY <2>3, <2>5, <2>6
<1>3. s = [i \in 1..k |-> Smaller(most, n - (i - 1) * most)]
  BY DEF Filled
<1> HIDE DEF most, k, s
<1>4. ASSUME NEW i \in 1..k
      PROVE  s[i] \in 1..most /\ (i < k => s[i] = most) /\ (i = k => s[i] = n - (k - 1) * most)
  <2>1. s[i] = IF most < n - (i - 1) * most THEN most ELSE n - (i - 1) * most
    BY <1>3 DEF Smaller
  <2>2. (k - 1) * most < n /\ n <= k * most /\ (k - 1) * most \in Nat /\ k * most = (k - 1) * most + most
    BY <1>1, <1>2
  <2>3. CASE i = k
    BY <1>1, <2>1, <2>2, <2>3
  <2>4. CASE i < k
    <3>1. i - 1 \in Nat /\ k - 1 \in Nat /\ i <= k - 1 /\ i * most = (i - 1) * most + most
      BY <1>1, <1>2, <2>4
    <3>2. i * most <= (k - 1) * most /\ (i - 1) * most \in Nat
      BY <1>1, <3>1
    <3>3. most < n - (i - 1) * most
      BY <1>1, <2>2, <3>1, <3>2
    <3> QED
      BY <1>1, <2>1, <2>4, <3>3
  <2> QED
    BY <1>2, <2>3, <2>4
<1>5. Rated(s, 1..k)
  BY <1>3, <1>4 DEF Rated
<1>6. CASE k = 0
  <2>1. n = 0
    BY <1>2, <1>6
  <2>2. s \in [{} -> Nat]
    BY <1>5, <1>6 DEF Rated
  <2> QED
    BY <1>2, <1>4, <1>5, <2>1, <2>2, LoadEmpty DEF DealsOut, most, k, s
<1>7. CASE k # 0
  <2> DEFINE full == Restrict(s, (1..k) \ {k})
  <2>1. k \in 1..k /\ s \in [1..k -> Nat] /\ IsFiniteSet(1..k)
    BY <1>2, <1>5, <1>7, Numbered DEF Rated
  <2>2. Load(s) = s[k] + Load(full)
    BY <2>1, LoadWithout
  <2>3. IsFiniteSet((1..k) \ {k}) /\ Cardinality((1..k) \ {k}) = k - 1
    <3>1. (1..k) \ {k} = 1..(k - 1) /\ k - 1 \in Nat
      BY <1>2, <1>7
    <3> QED
      BY <3>1, Numbered
  <2>4. full \in [(1..k) \ {k} -> Nat] /\ \A i \in (1..k) \ {k} : full[i] = most
    BY <1>2, <1>4, <2>1 DEF Restrict
  <2> HIDE DEF full
  <2>5. Load(full) = (k - 1) * most
    BY <1>1, <2>3, <2>4, LoadBound
  <2>6. s[k] = n - (k - 1) * most /\ (k - 1) * most \in Nat
    BY <1>1, <1>2, <1>4, <1>7, <2>1
  <2>7. Load(s) = n
    BY <2>2, <2>5, <2>6
  <2> QED
    BY <1>2, <1>4, <1>5, <2>7 DEF DealsOut, most, k, s
<1> QED
  BY <1>6, <1>7

-----------------------------------------------------------------------------
(* What the roads of a set hold of a FAT. *)

OnRoads(S, own, inj, f) == Load([r \in S |-> RoadHolds(own[r], inj[r], f)])
OnTheRoads(S, own, inj, A, H) == \A r \in S : ListOf(own[r], A) /\ ListOf(inj[r], H)

LEMMA RoadsNumber ==
  ASSUME NEW A, NEW H, Carry(H, A), NEW S, IsFiniteSet(S), NEW own, NEW inj,
         OnTheRoads(S, own, inj, A, H), NEW f
  PROVE  /\ OnRoads(S, own, inj, f) \in Nat
         /\ \A r \in S : /\ RoadHolds(own[r], inj[r], f) \in Nat
                         /\ RoadHolds(own[r], inj[r], f) <= OnRoads(S, own, inj, f)
         /\ OnRoads(S, own, inj, f) # 0 => \E r \in S : RoadHolds(own[r], inj[r], f) # 0
<1> DEFINE g == [r \in S |-> RoadHolds(own[r], inj[r], f)]
<1>1. \A r \in S : RoadHolds(own[r], inj[r], f) \in Nat
  <2>1. ASSUME NEW r \in S PROVE RoadHolds(own[r], inj[r], f) \in Nat
    <3>1. ListOf(own[r], A) /\ ListOf(inj[r], H)
      BY DEF OnTheRoads
    <3>2. Count(f, own[r]) \in Nat /\ InAll(inj[r], f) \in Nat
      BY <3>1, Counted, HeldSum
    <3> QED
      BY <3>2 DEF RoadHolds
  <2> QED
    BY <2>1
<1>2. g \in [S -> Nat] /\ \A r \in S : g[r] = RoadHolds(own[r], inj[r], f)
  BY <1>1
<1>3. OnRoads(S, own, inj, f) = Load(g)
  BY DEF OnRoads
<1> HIDE DEF g
<1>4. Load(g) \in Nat
  BY <1>2, LoadCounts
<1>5. ASSUME NEW r \in S PROVE g[r] <= Load(g)
  <2>1. Load(g) = g[r] + Load(Restrict(g, S \ {r})) /\ Load(Restrict(g, S \ {r})) \in Nat
    BY <1>2, LoadWithout
  <2>2. g[r] \in Nat
    BY <1>2
  <2> QED
    BY <2>1, <2>2
<1>6. ASSUME \A r \in S : RoadHolds(own[r], inj[r], f) = 0 PROVE Load(g) = 0
  BY <1>2, <1>6, LoadZero
<1> QED
  BY <1>1, <1>2, <1>3, <1>4, <1>5, <1>6

LEMMA RoadsParted ==
  ASSUME NEW A, NEW H, Carry(H, A), NEW S, IsFiniteSet(S), NEW own, NEW inj,
         OnTheRoads(S, own, inj, A, H), NEW f, NEW T \in SUBSET S
  PROVE  /\ OnRoads(S, own, inj, f) = OnRoads(T, own, inj, f) + OnRoads(S \ T, own, inj, f)
         /\ OnRoads(T, own, inj, f) \in Nat /\ OnRoads(S \ T, own, inj, f) \in Nat
<1> DEFINE g(U) == [r \in U |-> RoadHolds(own[r], inj[r], f)]
<1>1. \A r \in S : RoadHolds(own[r], inj[r], f) \in Nat
  BY RoadsNumber
<1> DEFINE a == g(S)
<1>2. a \in [S -> Nat] /\ Restrict(a, T) = g(T) /\ Restrict(a, S \ T) = g(S \ T)
  BY <1>1 DEF Restrict
<1> HIDE DEF a
<1>3. Load(a) = Load(Restrict(a, T)) + Load(Restrict(a, S \ T))
  BY <1>2, LoadSplit
<1>4. Load(Restrict(a, T)) \in Nat /\ Load(Restrict(a, S \ T)) \in Nat
  <2>1. S \ T \in SUBSET S
    OBVIOUS
  <2> QED
    BY <1>2, <2>1, LoadLess
<1> QED
  BY <1>2, <1>3, <1>4 DEF OnRoads, a

LEMMA RoadAlone ==
  ASSUME NEW A, NEW H, Carry(H, A), NEW S, IsFiniteSet(S), NEW own, NEW inj,
         OnTheRoads(S, own, inj, A, H), NEW f, NEW x \in S
  PROVE  /\ OnRoads(S, own, inj, f) = RoadHolds(own[x], inj[x], f) + OnRoads(S \ {x}, own, inj, f)
         /\ RoadHolds(own[x], inj[x], f) \in Nat /\ OnRoads(S \ {x}, own, inj, f) \in Nat
<1> DEFINE g == [r \in S |-> RoadHolds(own[r], inj[r], f)]
<1>1. \A r \in S : RoadHolds(own[r], inj[r], f) \in Nat
  BY RoadsNumber
<1>2. g \in [S -> Nat] /\ g[x] = RoadHolds(own[x], inj[x], f)
  BY <1>1
<1>3. Restrict(g, S \ {x}) = [r \in S \ {x} |-> RoadHolds(own[r], inj[r], f)]
  BY DEF Restrict
<1> HIDE DEF g
<1>4. Load(g) = g[x] + Load(Restrict(g, S \ {x})) /\ Load(Restrict(g, S \ {x})) \in Nat
  BY <1>2, LoadWithout
<1> QED
  BY <1>1, <1>2, <1>3, <1>4 DEF OnRoads, g

LEMMA RoadsSame ==
  ASSUME NEW S, NEW own, NEW inj, NEW own2, NEW inj2, NEW f,
         \A r \in S : RoadHolds(own[r], inj[r], f) = RoadHolds(own2[r], inj2[r], f)
  PROVE  OnRoads(S, own, inj, f) = OnRoads(S, own2, inj2, f)
BY DEF OnRoads

(* One road holds more, or less, than before. *)
LEMMA RoadChanged ==
  ASSUME NEW A, NEW H, Carry(H, A), NEW S, IsFiniteSet(S), NEW own, NEW inj, NEW own2, NEW inj2,
         OnTheRoads(S, own, inj, A, H), OnTheRoads(S, own2, inj2, A, H), NEW f, NEW x \in S,
         \A r \in S \ {x} : RoadHolds(own[r], inj[r], f) = RoadHolds(own2[r], inj2[r], f)
  PROVE  /\ OnRoads(S, own2, inj2, f) + RoadHolds(own[x], inj[x], f)
              = OnRoads(S, own, inj, f) + RoadHolds(own2[x], inj2[x], f)
<1> DEFINE u == OnRoads(S \ {x}, own, inj, f)
           v == OnRoads(S \ {x}, own2, inj2, f)
<1>1. OnRoads(S, own, inj, f) = RoadHolds(own[x], inj[x], f) + u /\ u \in Nat
      /\ RoadHolds(own[x], inj[x], f) \in Nat
  BY ONLY Carry(H, A), IsFiniteSet(S), OnTheRoads(S, own, inj, A, H), x \in S, RoadAlone
<1>2. OnRoads(S, own2, inj2, f) = RoadHolds(own2[x], inj2[x], f) + v /\ v \in Nat
      /\ RoadHolds(own2[x], inj2[x], f) \in Nat
  BY ONLY Carry(H, A), IsFiniteSet(S), OnTheRoads(S, own2, inj2, A, H), x \in S, RoadAlone
<1>3. u = v
  BY RoadsSame
<1> HIDE DEF u, v
<1> QED
  BY <1>1, <1>2, <1>3

-----------------------------------------------------------------------------
(* The types, in a form the provers do not look into. *)

Passes == {"inner", "pool", "tree", "walk", "join", "recalibrate", "pair", "build", "done", "refused"}
Boxes(S, A) == [road : S, own : Seq(A), borrowed : Seq(A), last : A, slots : 0..Wing]
Stock(fn, S, A) == fn \in [S -> Seq(A)]
HasBox(b, S, A) == b = Nil \/ b \in Boxes(S, A)
Parents(p, S) == p \in [S -> S \cup {Nil}]

Typed ==
  /\ net \in Networks /\ pass \in Passes /\ todo \in SUBSET Nat
  /\ all_fat_road_ids \in SUBSET RoadIds /\ committed \in SUBSET FATs
  /\ Stock(fats_by_road, RoadIds, FATs) /\ Stock(inject, RoadIds, Hands)
  /\ ListOf(result_groups, FatGroups) /\ ListOf(orphans, FatGroups) /\ ListOf(made, FatGroups)
  /\ HasBox(box, RoadIds, FATs) /\ Parents(parent_of, RoadIds) /\ ListOf(process_order, RoadIds)

LEMMA TypedForm == GroupTypeOK <=> Typed
BY DEF GroupTypeOK, Typed, Passes, Boxes, Stock, HasBox, Parents, ListOf, Hands

LEMMA Stocked ==
  ASSUME NEW S, NEW A, NEW fn, Stock(fn, S, A)
  PROVE  /\ DOMAIN fn = S /\ \A r \in S : ListOf(fn[r], A)
         /\ \A x \in S : \A v : ListOf(v, A) =>
              /\ Stock([fn EXCEPT ![x] = v], S, A) /\ [fn EXCEPT ![x] = v][x] = v
              /\ \A r \in S \ {x} : [fn EXCEPT ![x] = v][r] = fn[r]
BY DEF Stock, ListOf

LEMMA Boxed ==
  ASSUME NEW S, NEW A, NEW b, HasBox(b, S, A), b # Nil
  PROVE  /\ b.road \in S /\ ListOf(b.own, A) /\ ListOf(b.borrowed, A) /\ b.last \in A
         /\ b.slots \in 0..Wing
         /\ b = [road |-> b.road, own |-> b.own, borrowed |-> b.borrowed, last |-> b.last, slots |-> b.slots]
BY DEF HasBox, Boxes, ListOf

LEMMA Nets ==
  ASSUME net \in Networks
  PROVE  /\ IsFiniteSet(RoadIds) /\ RoadIds \in SUBSET Nat /\ Nil \notin RoadIds
         /\ net.pons \in {1, 2}
         /\ \A f \in FATs : f = <<f[1], f[2]>> /\ f[1] \in RoadIds /\ f[1] \in Nat /\ f[2] \in Nat
                            /\ f[2] \in 1..net.fats[f[1]]
<1>1. /\ IsFiniteSet(RoadIds) /\ RoadIds \in SUBSET Nat /\ Nil \notin RoadIds
      /\ net.pons \in {1, 2} /\ net.fats \in [RoadIds -> Nat]
  BY NetworksAssumption DEF RoadIds
<1>2. ASSUME NEW f \in FATs
      PROVE  f = <<f[1], f[2]>> /\ f[1] \in RoadIds /\ f[1] \in Nat /\ f[2] \in Nat
             /\ f[2] \in 1..net.fats[f[1]]
  <2>1. PICK r \in RoadIds : f \in {<<r, k>> : k \in 1..net.fats[r]}
    BY DEF FATs
  <2>2. PICK k \in 1..net.fats[r] : f = <<r, k>>
    BY <2>1
  <2>3. k \in Nat /\ r \in Nat
    BY <1>1
  <2> QED
    BY <2>2, <2>3
<1> QED
  BY <1>1, <1>2

LEMMA SameNet ==
  ASSUME net' = net
  PROVE  /\ RoadIds' = RoadIds /\ FATs' = FATs /\ FatGroups' = FatGroups /\ Hands' = Hands
         /\ Entries' = Entries /\ PairMost' = PairMost
         /\ \A r : is_dead_end(r)' = is_dead_end(r)
<1>1. RoadIds' = RoadIds
  BY DEF RoadIds
<1>2. FATs' = FATs
  BY <1>1 DEF FATs
<1>3. \A r : Start(r)' = Start(r) /\ End(r)' = End(r)
  BY DEF Start, End
<1>4. \A n : At(n)' = At(n)
  BY <1>1, <1>3 DEF At
<1>5. \A r : is_dead_end(r)' = is_dead_end(r)
  BY <1>3, <1>4 DEF is_dead_end
<1>6. FatGroups' = FatGroups /\ Hands' = Hands /\ Entries' = Entries
  BY <1>1, <1>2 DEF FatGroups, Hands, Entries
<1> QED
  BY <1>1, <1>2, <1>5, <1>6 DEF PairMost

-----------------------------------------------------------------------------
(* Every FAT is accounted for: it is in a group or in the open dead end, or it
   is left once, in a pool without a road or on a road that is still looked at. *)

BoxList(b) == IF b = Nil THEN <<>> ELSE b.own \o b.borrowed
OpenOf(S, b) == {r \in S : b = Nil \/ r # b.road}
GivenIn(gs, b, f) == InAll(gs, f) + Count(f, BoxList(b))
LeftIn(gs, S, own, inj, f) == InAll(gs, f) + OnRoads(S, own, inj, f)
OpenRoads == OpenOf(all_fat_road_ids, box)
Given(f) == GivenIn(result_groups, box, f)
Left(f) == LeftIn(orphans, OpenRoads, fats_by_road, inject, f)

Accounted ==
  \A f \in FATs : Given(f) + Left(f) >= 1 /\ (Left(f) >= 1 => Given(f) + Left(f) = 1)

Conserved(f) ==
  \/ Given(f)' + Left(f)' = Given(f) + Left(f) /\ Left(f)' <= Left(f)
  \/ f \in ToSet(InBox) /\ box # Nil /\ box' # Nil /\ Left(f)' = 0 /\ Given(f)' >= 1
Conserves == net' = net /\ \A f \in FATs : Conserved(f)

LEMMA GivenNumber ==
  ASSUME NEW A, NEW S, NEW R, Carry(R, A), NEW gs, ListOf(gs, R), NEW b, HasBox(b, S, A), NEW f
  PROVE  /\ ListOf(BoxList(b), A) /\ GivenIn(gs, b, f) \in Nat
         /\ InAll(gs, f) \in Nat /\ Count(f, BoxList(b)) \in Nat
<1>1. ListOf(BoxList(b), A)
  <2>1. CASE b = Nil
    <3>1. Rated(Mark(1, A), A)
      BY Marked
    <3>2. ListOf(<<>>, A)
      BY <3>1, SumNone
    <3> QED
      BY <2>1, <3>2 DEF BoxList
  <2>2. CASE b # Nil
    <3>1. ListOf(b.own, A) /\ ListOf(b.borrowed, A)
      BY <2>2, Boxed
    <3> QED
      BY <2>2, <3>1, JoinedSeq DEF BoxList
  <2> QED
    BY <2>1, <2>2
<1>2. InAll(gs, f) \in Nat /\ Count(f, BoxList(b)) \in Nat
  BY <1>1, HeldSum, Counted
<1> QED
  BY <1>1, <1>2 DEF GivenIn

LEMMA LeftNumber ==
  ASSUME NEW A, NEW R, Carry(R, A), NEW H, Carry(H, A), NEW gs, ListOf(gs, R),
         NEW T, IsFiniteSet(T), NEW S \in SUBSET T, NEW own, Stock(own, T, A), NEW inj, Stock(inj, T, H), NEW f
  PROVE  /\ OnTheRoads(S, own, inj, A, H) /\ IsFiniteSet(S)
         /\ LeftIn(gs, S, own, inj, f) \in Nat /\ InAll(gs, f) \in Nat /\ OnRoads(S, own, inj, f) \in Nat
<1>1. OnTheRoads(S, own, inj, A, H)
  BY Stocked DEF OnTheRoads
<1>2. IsFiniteSet(S)
  BY FS_Subset
<1>3. OnRoads(S, own, inj, f) \in Nat
  BY <1>1, <1>2, RoadsNumber
<1>4. InAll(gs, f) \in Nat
  BY HeldSum
<1> QED
  BY <1>1, <1>2, <1>3, <1>4 DEF LeftIn

LEMMA Numbers ==
  ASSUME Typed, NEW f
  PROVE  /\ Given(f) \in Nat /\ Left(f) \in Nat /\ ListOf(InBox, FATs) /\ InBox = BoxList(box)
         /\ InAll(result_groups, f) \in Nat /\ Count(f, InBox) \in Nat
         /\ InAll(orphans, f) \in Nat /\ OnRoads(OpenRoads, fats_by_road, inject, f) \in Nat
         /\ OnTheRoads(OpenRoads, fats_by_road, inject, FATs, Hands) /\ IsFiniteSet(OpenRoads)
         /\ OpenRoads \in SUBSET RoadIds
<1>1. InBox = BoxList(box)
  BY DEF InBox, BoxList
<1>2. Carry(FatGroups, FATs) /\ Carry(Hands, FATs) /\ IsFiniteSet(RoadIds)
  BY GroupsCarry, HandsCarry, Nets DEF Typed
<1>3. OpenRoads \in SUBSET RoadIds
  BY DEF OpenRoads, OpenOf, Typed
<1>4. /\ ListOf(result_groups, FatGroups) /\ ListOf(orphans, FatGroups) /\ HasBox(box, RoadIds, FATs)
      /\ Stock(fats_by_road, RoadIds, FATs) /\ Stock(inject, RoadIds, Hands)
  BY DEF Typed
<1>5. /\ ListOf(BoxList(box), FATs) /\ GivenIn(result_groups, box, f) \in Nat
      /\ InAll(result_groups, f) \in Nat /\ Count(f, BoxList(box)) \in Nat
  BY ONLY <1>2, <1>4, GivenNumber
<1>6. /\ OnTheRoads(OpenRoads, fats_by_road, inject, FATs, Hands) /\ IsFiniteSet(OpenRoads)
      /\ LeftIn(orphans, OpenRoads, fats_by_road, inject, f) \in Nat
      /\ InAll(orphans, f) \in Nat /\ OnRoads(OpenRoads, fats_by_road, inject, f) \in Nat
  BY ONLY <1>2, <1>3, <1>4, LeftNumber
<1> QED
  BY <1>1, <1>3, <1>5, <1>6 DEF Given, Left

LEMMA NumbersNext ==
  ASSUME Typed', net' = net, NEW f
  PROVE  Given(f)' \in Nat /\ Left(f)' \in Nat
<1>1. /\ Carry(FatGroups, FATs) /\ Carry(Hands, FATs)
  BY GroupsCarry, HandsCarry
<1>2. RoadIds' = RoadIds /\ FATs' = FATs /\ FatGroups' = FatGroups /\ Hands' = Hands
  BY SameNet
<1>3. IsFiniteSet(RoadIds)
  <2>1. net' \in Networks
    BY DEF Typed
  <2> QED
    BY <2>1, Nets
<1>4. /\ ListOf(result_groups', FatGroups) /\ ListOf(orphans', FatGroups) /\ HasBox(box', RoadIds, FATs)
      /\ Stock(fats_by_road', RoadIds, FATs) /\ Stock(inject', RoadIds, Hands)
      /\ all_fat_road_ids' \in SUBSET RoadIds
  BY <1>2 DEF Typed
<1> DEFINE gs == result_groups'
           b == box'
           os == orphans'
           own == fats_by_road'
           inj == inject'
           S == OpenOf(all_fat_road_ids', box')
<1>5. S \in SUBSET RoadIds
  BY <1>4 DEF OpenOf
<1>6. Given(f)' = GivenIn(gs, b, f) /\ Left(f)' = LeftIn(os, S, own, inj, f)
  BY DEF Given, Left, OpenRoads, OpenOf, GivenIn, LeftIn, InAll, Count, BoxList, OnRoads, RoadHolds
<1>7. /\ ListOf(gs, FatGroups) /\ ListOf(os, FatGroups) /\ HasBox(b, RoadIds, FATs)
      /\ Stock(own, RoadIds, FATs) /\ Stock(inj, RoadIds, Hands)
  BY <1>4
<1> HIDE DEF gs, b, os, own, inj, S
<1>8. GivenIn(gs, b, f) \in Nat
  BY ONLY <1>1, <1>7, GivenNumber
<1>9. LeftIn(os, S, own, inj, f) \in Nat
  BY ONLY <1>1, <1>3, <1>5, <1>7, LeftNumber
<1> QED
  BY <1>6, <1>8, <1>9

LEMMA StillAccounted ==
  ASSUME Typed, Typed', Accounted, Conserves
  PROVE  Accounted'
<1>1. FATs' = FATs
  BY SameNet DEF Conserves
<1>2. SUFFICES ASSUME NEW f \in FATs
               PROVE  Given(f)' + Left(f)' >= 1 /\ (Left(f)' >= 1 => Given(f)' + Left(f)' = 1)
  BY <1>1 DEF Accounted
<1>3. Given(f) \in Nat /\ Left(f) \in Nat /\ Given(f)' \in Nat /\ Left(f)' \in Nat
  BY Numbers, NumbersNext DEF Conserves
<1>4. Given(f) + Left(f) >= 1 /\ (Left(f) >= 1 => Given(f) + Left(f) = 1)
  BY DEF Accounted
<1>5. Conserved(f)
  BY DEF Conserves
<1> QED
  BY <1>3, <1>4, <1>5 DEF Conserved

(* The FATs that are in groups, or in the open dead end, are those given. *)
LEMMA GivenCount ==
  ASSUME NEW A, NEW S, NEW R, Carry(R, A), NEW gs, ListOf(gs, R), NEW b, HasBox(b, S, A)
  PROVE  /\ ListOf(InGroups(gs) \o BoxList(b), A)
         /\ \A f : GivenIn(gs, b, f) = Count(f, InGroups(gs) \o BoxList(b))
<1>1. ListOf(InGroups(gs), A) /\ \A f : InAll(gs, f) = Count(f, InGroups(gs))
  BY AllFats
<1>2. ListOf(BoxList(b), A)
  BY GivenNumber
<1>3. ListOf(InGroups(gs) \o BoxList(b), A)
  BY <1>1, <1>2, JoinedSeq
<1>4. \A f : Count(f, InGroups(gs) \o BoxList(b)) = Count(f, InGroups(gs)) + Count(f, BoxList(b))
  BY <1>1, <1>2, CountJoined
<1> QED
  BY <1>1, <1>3, <1>4 DEF GivenIn

LEMMA TwiceGiven ==
  ASSUME NEW A, NEW s, ListOf(s, A)
  PROVE  {s[k] : k \in {k \in DOMAIN s : \E j \in 1..(k - 1) : s[j] = s[k]}}
           = {f \in ToSet(s) : Count(f, s) >= 2}
<1> DEFINE twice == {s[k] : k \in {k \in DOMAIN s : \E j \in 1..(k - 1) : s[j] = s[k]}}
<1>1. DOMAIN s = 1..Len(s) /\ Len(s) \in Nat
  BY Listed
<1>2. \A f : Count(f, s) >= 2 <=> \E k \in 1..Len(s) : \E j \in 1..(k - 1) : s[j] = f /\ s[k] = f
  BY CountTwice
<1>3. \A f : f \in twice <=> \E k \in 1..Len(s) : \E j \in 1..(k - 1) : s[j] = f /\ s[k] = f
  BY <1>1
<1>4. \A f : (\E k \in 1..Len(s) : \E j \in 1..(k - 1) : s[j] = f /\ s[k] = f) => f \in ToSet(s)
  BY <1>1 DEF ToSet
<1> HIDE DEF twice
<1>5. \A f : f \in twice <=> f \in {g \in ToSet(s) : Count(g, s) >= 2}
  BY <1>2, <1>3, <1>4
<1> QED
  BY <1>5 DEF twice

LEMMA OnlyShared ==
  ASSUME Typed, Typed', Accounted, Conserves
  PROVE  TwiceGrouped' \subseteq
           TwiceGrouped \cup (IF box # Nil /\ box' # Nil THEN ToSet(InBox) ELSE {})
<1>1. /\ RoadIds' = RoadIds /\ FATs' = FATs /\ FatGroups' = FatGroups /\ Carry(FatGroups, FATs)
  BY SameNet, GroupsCarry DEF Conserves
<1> DEFINE s == Grouped
           gs == result_groups'
           b == box'
           t == InGroups(gs) \o BoxList(b)
<1>2. s = InGroups(result_groups) \o BoxList(box) /\ Grouped' = t
  BY DEF Grouped, InBox, InGroups, BoxList
<1>3. /\ ListOf(result_groups, FatGroups) /\ HasBox(box, RoadIds, FATs)
      /\ ListOf(gs, FatGroups) /\ HasBox(b, RoadIds, FATs)
  BY <1>1 DEF Typed
<1>4. \A f : Given(f)' = GivenIn(gs, b, f)
  BY DEF Given, GivenIn, InAll, Count, BoxList
<1> HIDE DEF gs, b
<1>5. ListOf(s, FATs) /\ \A f : Given(f) = Count(f, s)
  <2> HIDE DEF s
  <2>1. /\ ListOf(InGroups(result_groups) \o BoxList(box), FATs)
        /\ \A f : GivenIn(result_groups, box, f) = Count(f, InGroups(result_groups) \o BoxList(box))
    BY ONLY <1>1, <1>3, GivenCount
  <2> QED
    BY <1>2, <2>1 DEF Given
<1>6. ListOf(t, FATs) /\ \A f : Given(f)' = Count(f, t)
  <2>1. /\ ListOf(InGroups(gs) \o BoxList(b), FATs)
        /\ \A f : GivenIn(gs, b, f) = Count(f, InGroups(gs) \o BoxList(b))
    BY ONLY <1>1, <1>3, GivenCount
  <2> QED
    BY <1>4, <2>1
<1>7. TwiceGrouped = {f \in ToSet(s) : Count(f, s) >= 2}
  <2> HIDE DEF s
  <2>1. {s[k] : k \in {k \in DOMAIN s : \E j \in 1..(k - 1) : s[j] = s[k]}}
          = {f \in ToSet(s) : Count(f, s) >= 2}
    BY <1>5, TwiceGiven
  <2> QED
    BY <2>1 DEF TwiceGrouped, s
<1>8. TwiceGrouped' = {f \in ToSet(t) : Count(f, t) >= 2}
  <2> HIDE DEF t
  <2>1. {t[k] : k \in {k \in DOMAIN t : \E j \in 1..(k - 1) : t[j] = t[k]}}
          = {f \in ToSet(t) : Count(f, t) >= 2}
    BY <1>6, TwiceGiven
  <2>2. TwiceGrouped' = {(Grouped')[k] : k \in {k \in DOMAIN (Grouped') : \E j \in 1..(k - 1) : (Grouped')[j] = (Grouped')[k]}}
    BY DEF TwiceGrouped
  <2> QED
    BY <1>2, <2>1, <2>2
<1>9. ASSUME NEW f \in ToSet(t), Count(f, t) >= 2, ~(f \in ToSet(InBox) /\ box # Nil /\ box' # Nil)
      PROVE  f \in TwiceGrouped
  <2>1. f \in FATs
    <3> HIDE DEF t
    <3>1. \A i \in DOMAIN t : t[i] \in FATs
      BY <1>6, Listed
    <3> QED
      BY <1>9, <3>1 DEF ToSet
  <2>2. Given(f)' + Left(f)' = Given(f) + Left(f) /\ Left(f)' <= Left(f)
    BY <1>9, <2>1 DEF Conserves, Conserved
  <2>3. Given(f) \in Nat /\ Left(f) \in Nat /\ Given(f)' \in Nat /\ Left(f)' \in Nat
    BY Numbers, NumbersNext DEF Conserves
  <2>4. Given(f)' >= 2
    BY <1>6, <1>9
  <2>5. Given(f) >= 2
    <3>1. Left(f) >= 1 => Given(f) + Left(f) = 1
      BY <2>1 DEF Accounted
    <3> QED
      BY <2>2, <2>3, <2>4, <3>1
  <2>6. Count(f, s) # 0 /\ Count(f, s) >= 2
    <3> HIDE DEF s
    <3> QED
      BY <1>5, <2>3, <2>5
  <2>7. f \in ToSet(s)
    <3> HIDE DEF s
    <3> QED
      BY <1>5, <2>6, CountSome
  <2> QED
    BY <1>7, <2>6, <2>7
<1> QED
  BY <1>8, <1>9

LEMMA KeptFrom ==
  ASSUME Typed, Accounted, pass # "refused"
  PROVE  EveryFatKept
<1> DEFINE K == ToSet(Grouped) \cup ToSet(InGroups(orphans)) \cup UNION {Waiting(r) : r \in all_fat_road_ids}
<1>1. Carry(FatGroups, FATs) /\ Carry(Hands, FATs)
  BY GroupsCarry, HandsCarry
<1>2. ListOf(Grouped, FATs) /\ \A f : Given(f) = Count(f, Grouped)
  <2>1. /\ ListOf(InGroups(result_groups) \o BoxList(box), FATs)
        /\ \A f : GivenIn(result_groups, box, f) = Count(f, InGroups(result_groups) \o BoxList(box))
    BY <1>1, GivenCount DEF Typed
  <2>2. Grouped = InGroups(result_groups) \o BoxList(box)
    BY DEF Grouped, InBox, BoxList
  <2> QED
    BY <2>1, <2>2 DEF Given
<1>3. ListOf(InGroups(orphans), FATs) /\ \A f : InAll(orphans, f) # 0 <=> f \in ToSet(InGroups(orphans))
  BY <1>1, AllFats, AllSome DEF Typed
<1>4. ASSUME NEW A, NEW s, ListOf(s, A) PROVE ToSet(s) \in SUBSET A
  <2>1. \A i \in DOMAIN s : s[i] \in A
    BY ONLY <1>4, Listed
  <2> QED
    BY <2>1 DEF ToSet
<1>5. ASSUME NEW r \in RoadIds
      PROVE  /\ ListOf(fats_by_road[r], FATs) /\ ListOf(inject[r], Hands)
             /\ ListOf(Walked(r), Entries)
             /\ \A f : Count(f, FatsOf(Walked(r))) = RoadHolds(fats_by_road[r], inject[r], f)
  <2>1. ListOf(fats_by_road[r], FATs) /\ ListOf(inject[r], Hands)
    BY Stocked DEF Typed
  <2> QED
    BY <2>1, WalkedRoad
<1>6. ASSUME NEW r \in RoadIds PROVE Waiting(r) \in SUBSET FATs
  <2>1. ToSet(fats_by_road[r]) \in SUBSET FATs /\ ToSet(Walked(r)) \in SUBSET Entries
    BY <1>4, <1>5
  <2>2. \A e \in Entries : e.fat \in FATs
    BY DEF Entries
  <2> QED
    BY <2>1, <2>2 DEF Waiting
<1>7. K \in SUBSET FATs
  <2>1. ToSet(Grouped) \in SUBSET FATs /\ ToSet(InGroups(orphans)) \in SUBSET FATs
    BY <1>2, <1>3, <1>4
  <2>2. all_fat_road_ids \in SUBSET RoadIds
    BY DEF Typed
  <2> QED
    BY <1>6, <2>1, <2>2
<1>8. ASSUME NEW f \in FATs PROVE f \in K
  <2>1. /\ Given(f) \in Nat /\ Left(f) \in Nat /\ Given(f) + Left(f) >= 1
        /\ InAll(orphans, f) \in Nat /\ OnRoads(OpenRoads, fats_by_road, inject, f) \in Nat
        /\ Left(f) = InAll(orphans, f) + OnRoads(OpenRoads, fats_by_road, inject, f)
        /\ OnTheRoads(OpenRoads, fats_by_road, inject, FATs, Hands) /\ IsFiniteSet(OpenRoads)
    BY Numbers DEF Accounted, Left, LeftIn
  <2>2. Given(f) # 0 \/ InAll(orphans, f) # 0 \/ OnRoads(OpenRoads, fats_by_road, inject, f) # 0
    BY <2>1
  <2>3. CASE Given(f) # 0
    <3>1. f \in ToSet(Grouped)
      BY <1>2, <2>3, CountSome
    <3> QED
      BY <3>1
  <2>4. CASE InAll(orphans, f) # 0
    BY <1>3, <2>4
  <2>5. CASE OnRoads(OpenRoads, fats_by_road, inject, f) # 0
    <3>1. PICK r \in OpenRoads : RoadHolds(fats_by_road[r], inject[r], f) # 0
      BY ONLY <1>1, <2>1, <2>5, RoadsNumber
    <3>2. r \in all_fat_road_ids /\ r \in RoadIds
      BY DEF OpenRoads, OpenOf, Typed
    <3> DEFINE e == Walked(r)
    <3>3. ListOf(e, Entries) /\ Count(f, FatsOf(e)) # 0
      BY <1>5, <3>1, <3>2
    <3> HIDE DEF e
    <3>4. DOMAIN e = 1..Len(e) /\ Len(e) \in Nat /\ \A k \in 1..Len(e) : e[k] \in Entries
      BY <3>3, Listed
    <3>5. ListOf(FatsOf(e), FATs)
      <4> DEFINE s == FatsOf(e)
      <4>1. DOMAIN s = 1..Len(e) /\ s = [k \in 1..Len(e) |-> s[k]] /\ \A k \in 1..Len(e) : s[k] = e[k].fat
        BY DEF FatsOf
      <4>2. \A k \in 1..Len(e) : s[k] \in FATs
        BY <3>4, <4>1 DEF Entries
      <4> HIDE DEF s
      <4>3. ListOf(s, FATs)
        BY <3>4, <4>1, <4>2, Lists
      <4> QED
        BY <4>3 DEF s
    <3>6. f \in ToSet(FatsOf(e))
      BY <3>3, <3>5, CountSome
    <3>7. PICK k \in 1..Len(e) : e[k].fat = f
      BY <3>6 DEF ToSet, FatsOf
    <3>8. e[k] \in ToSet(e)
      BY <3>4 DEF ToSet
    <3>9. f \in Waiting(r)
      BY <3>7, <3>8 DEF Waiting, e
    <3> QED
      BY <3>2, <3>9
  <2> QED
    BY <2>2, <2>3, <2>4, <2>5
<1> HIDE DEF K
<1>9. FATs = K
  BY <1>7, <1>8
<1> QED
  BY <1>9 DEF EveryFatKept, K

-----------------------------------------------------------------------------
(* The inductive invariant of the combination passes. *)

AtMost(gs, n) == \A i \in DOMAIN gs : Len(gs[i].fats) <= n
Walking == {"inner", "pool", "tree", "walk"}

Own == \A r \in RoadIds : \A f \in ToSet(fats_by_road[r]) : f[1] = r

Sized ==
  /\ pass # "refused" /\ AtMost(orphans, MAX_FAT_PER_FDT)
  /\ pass \in {"build", "done"} => AtMost(result_groups, PairMost)
  /\ pass \notin {"build", "done"} => AtMost(result_groups, MAX_FAT_PER_FDT)
  /\ Joining => AtMost(made, MAX_FAT_PER_FDT)
  /\ pass = "pair" => AtMost(made, PairMost)

BoxOpen ==
  box # Nil =>
    /\ pass = "inner" /\ box.road \in todo
    /\ Len(box.own) + Len(box.borrowed) + box.slots = MAX_FAT_PER_FDT

Locked ==
  pass = "inner" =>
    /\ todo \subseteq all_fat_road_ids /\ orphans = <<>> /\ \A r \in RoadIds : inject[r] = <<>>
    /\ \A r \in RoadIds : \A f \in ToSet(fats_by_road[r]) :
         f \in committed \/ f \in ToSet(InBox) \/ InAll(result_groups, f) = 0

EndsTakeNothing ==
  pass = "pool" => \A r \in RoadIds : inject[r] # <<>> => ~is_dead_end(r)

ParentFirst ==
  \A k \in 1..Len(process_order) :
    \/ parent_of[process_order[k]] = Nil
    \/ \E j \in 1..(k - 1) : process_order[j] = parent_of[process_order[k]]

Planted ==
  /\ pass \in {"inner", "pool"} =>
       process_order = <<>> /\ \A r \in RoadIds : parent_of[r] = Nil
  /\ pass \in {"tree", "walk"} =>
       /\ \A i, j \in 1..Len(process_order) : process_order[i] = process_order[j] => i = j
       /\ ToSet(process_order) \subseteq all_fat_road_ids /\ ParentFirst
  /\ pass = "tree" => \A r \in RoadIds \ ToSet(process_order) : parent_of[r] = Nil
  /\ pass = "walk" => all_fat_road_ids = ToSet(process_order)

Combining(f) ==
  /\ Joining => InAll(made, f) + HeldBy(result_groups, todo, f)
                  = HeldBy(result_groups, Underfilled(result_groups), f)
  /\ pass = "pair" => InAll(made, f) + HeldBy(result_groups, todo, f) = InAll(result_groups, f)

Combined ==
  /\ pass \in Walking => made = <<>>
  /\ pass \notin Walking => all_fat_road_ids = {} /\ orphans = <<>>
  /\ Joining => todo \subseteq Underfilled(result_groups)
  /\ pass = "pair" => todo \subseteq DOMAIN result_groups
  /\ \A f \in FATs : Combining(f)

GroupInv ==
  /\ Typed /\ Accounted /\ Own /\ Sized /\ BoxOpen /\ Locked /\ EndsTakeNothing
  /\ Planted /\ Combined

(* What no step changes that only looks on. *)
counted == <<net, result_groups, box, orphans, all_fat_road_ids, fats_by_road, inject>>

LEMMA QuietStep ==
  ASSUME Typed, Accounted, Own, Typed', UNCHANGED counted
  PROVE  Conserves /\ Accounted' /\ Own'
<1>1. /\ net' = net /\ result_groups' = result_groups /\ box' = box /\ orphans' = orphans
      /\ all_fat_road_ids' = all_fat_road_ids /\ fats_by_road' = fats_by_road /\ inject' = inject
  BY DEF counted
<1>2. ASSUME NEW f PROVE Given(f)' = Given(f) /\ Left(f)' = Left(f)
  <2>1. InAll(result_groups, f)' = InAll(result_groups, f) /\ InAll(orphans, f)' = InAll(orphans, f)
    BY <1>1 DEF InAll, Count
  <2>2. BoxList(box)' = BoxList(box) /\ OpenRoads' = OpenRoads
    BY <1>1 DEF BoxList, OpenRoads, OpenOf
  <2>3. Count(f, BoxList(box))' = Count(f, BoxList(box))
    BY <2>2 DEF Count
  <2>4. OnRoads(OpenRoads, fats_by_road, inject, f)' = OnRoads(OpenRoads, fats_by_road, inject, f)
    BY <1>1, <2>2 DEF OnRoads, RoadHolds, InAll, Count
  <2> QED
    BY <2>1, <2>3, <2>4 DEF Given, Left, GivenIn, LeftIn
<1>3. Conserves
  <2>1. ASSUME NEW f \in FATs PROVE Conserved(f)
    <3>1. Left(f) \in Nat
      BY Numbers
    <3> QED
      BY <1>2, <3>1 DEF Conserved
  <2> QED
    BY <1>1, <2>1 DEF Conserves
<1>4. Accounted'
  BY <1>3, StillAccounted
<1>5. Own'
  <2>1. RoadIds' = RoadIds
    BY <1>1, SameNet
  <2> QED
    BY <1>1, <2>1 DEF Own
<1> QED
  BY <1>3, <1>4, <1>5

(* Types that no step with the same network changes. *)
LEMMA TypedNext ==
  ASSUME Typed, net' = net, pass' \in Passes, todo' \in SUBSET Nat,
         all_fat_road_ids' \in SUBSET RoadIds, committed' \in SUBSET FATs,
         Stock(fats_by_road', RoadIds, FATs), Stock(inject', RoadIds, Hands),
         ListOf(result_groups', FatGroups), ListOf(orphans', FatGroups), ListOf(made', FatGroups),
         HasBox(box', RoadIds, FATs), Parents(parent_of', RoadIds), ListOf(process_order', RoadIds)
  PROVE  Typed'
<1>1. RoadIds' = RoadIds /\ FATs' = FATs /\ FatGroups' = FatGroups /\ Hands' = Hands
  BY SameNet
<1>2. net' \in Networks
  BY DEF Typed
<1> QED
  BY <1>1, <1>2 DEF Typed

LEMMA PassByStep ==
  ASSUME GroupInv, PassBy
  PROVE  GroupInv' /\ Conserves
<1>1. /\ Typed /\ Accounted /\ Own /\ Sized /\ BoxOpen /\ Locked /\ EndsTakeNothing /\ Planted /\ Combined
  BY DEF GroupInv
<1>2. /\ pass = "inner" /\ box = Nil /\ todo' = todo \ {LowestId(todo)}
      /\ net' = net /\ pass' = pass /\ all_fat_road_ids' = all_fat_road_ids
      /\ fats_by_road' = fats_by_road /\ committed' = committed /\ result_groups' = result_groups
      /\ box' = box /\ inject' = inject /\ orphans' = orphans /\ parent_of' = parent_of
      /\ process_order' = process_order /\ made' = made
  BY DEF PassBy, Visited, forest
<1>3. RoadIds' = RoadIds /\ PairMost' = PairMost /\ FATs' = FATs
  BY <1>2, SameNet
<1>4. Typed'
  BY <1>1, <1>2, TypedNext DEF Typed
<1>5. Conserves /\ Accounted' /\ Own'
  BY <1>1, <1>2, <1>4, QuietStep DEF counted
<1>6. Sized'
  BY <1>1, <1>2, <1>3 DEF Sized, AtMost, Joining
<1>7. BoxOpen'
  BY <1>2 DEF BoxOpen
<1>8. Locked'
  <2>1. InBox' = InBox /\ \A f : InAll(result_groups, f)' = InAll(result_groups, f)
    BY <1>2 DEF InBox, InAll, Count
  <2> QED
    BY <1>1, <1>2, <1>3, <2>1 DEF Locked
<1>9. EndsTakeNothing' /\ Planted'
  BY <1>1, <1>2, <1>3 DEF EndsTakeNothing, Planted, ParentFirst
<1>10. Combined'
  BY <1>1, <1>2, <1>3 DEF Combined, Combining, Joining, Walking
<1> QED
  BY <1>4, <1>5, <1>6, <1>7, <1>8, <1>9, <1>10 DEF GroupInv

LEMMA InnerDoneStep ==
  ASSUME GroupInv, InnerDone
  PROVE  GroupInv' /\ Conserves
<1>1. /\ Typed /\ Accounted /\ Own /\ Sized /\ BoxOpen /\ Locked /\ EndsTakeNothing /\ Planted /\ Combined
  BY DEF GroupInv
<1>2. /\ pass = "inner" /\ pass' = "pool" /\ todo = {} /\ committed' = {} /\ todo' = todo
      /\ net' = net /\ all_fat_road_ids' = all_fat_road_ids
      /\ fats_by_road' = fats_by_road /\ result_groups' = result_groups
      /\ box' = box /\ inject' = inject /\ orphans' = orphans /\ parent_of' = parent_of
      /\ process_order' = process_order /\ made' = made
  BY DEF InnerDone, forest
<1>3. RoadIds' = RoadIds /\ PairMost' = PairMost /\ FATs' = FATs
  BY <1>2, SameNet
<1>4. Typed'
  BY <1>1, <1>2, TypedNext DEF Typed, Passes
<1>5. Conserves /\ Accounted' /\ Own'
  BY <1>1, <1>2, <1>4, QuietStep DEF counted
<1>6. Sized'
  BY <1>1, <1>2, <1>3 DEF Sized, AtMost, Joining
<1>7. BoxOpen' /\ Locked'
  BY <1>1, <1>2 DEF BoxOpen, Locked
<1>8. EndsTakeNothing'
  BY <1>1, <1>2, <1>3 DEF EndsTakeNothing, Locked
<1>9. Planted'
  BY <1>1, <1>2, <1>3 DEF Planted
<1>10. Combined'
  BY <1>1, <1>2, <1>3 DEF Combined, Combining, Joining, Walking
<1> QED
  BY <1>4, <1>5, <1>6, <1>7, <1>8, <1>9, <1>10 DEF GroupInv

LEMMA EndsPooledStep ==
  ASSUME GroupInv, EndsPooled
  PROVE  GroupInv' /\ Conserves
<1>1. /\ Typed /\ Accounted /\ Own /\ Sized /\ BoxOpen /\ Locked /\ EndsTakeNothing /\ Planted /\ Combined
  BY DEF GroupInv
<1>2. /\ pass = "pool" /\ pass' = "tree" /\ committed' = committed /\ todo' = todo
      /\ net' = net /\ all_fat_road_ids' = all_fat_road_ids
      /\ fats_by_road' = fats_by_road /\ result_groups' = result_groups
      /\ box' = box /\ inject' = inject /\ orphans' = orphans /\ parent_of' = parent_of
      /\ process_order' = process_order /\ made' = made
  BY DEF EndsPooled, forest
<1>3. RoadIds' = RoadIds /\ PairMost' = PairMost /\ FATs' = FATs
  BY <1>2, SameNet
<1>4. Typed'
  BY <1>1, <1>2, TypedNext DEF Typed, Passes
<1>5. Conserves /\ Accounted' /\ Own'
  BY <1>1, <1>2, <1>4, QuietStep DEF counted
<1>6. Sized'
  BY <1>1, <1>2, <1>3 DEF Sized, AtMost, Joining
<1>7. BoxOpen' /\ Locked' /\ EndsTakeNothing'
  BY <1>1, <1>2 DEF BoxOpen, Locked, EndsTakeNothing
<1>8. Planted'
  <2>1. process_order = <<>> /\ \A r \in RoadIds : parent_of[r] = Nil
    BY <1>1, <1>2 DEF Planted
  <2>2. Len(process_order) = 0 /\ ToSet(process_order) = {}
    BY <2>1 DEF ToSet
  <2>3. \A i \in 1..Len(process_order) : FALSE
    BY <2>2
  <2> QED
    BY <1>2, <1>3, <2>1, <2>2, <2>3 DEF Planted, ParentFirst
<1>9. Combined'
  BY <1>1, <1>2, <1>3 DEF Combined, Combining, Joining, Walking
<1> QED
  BY <1>4, <1>5, <1>6, <1>7, <1>8, <1>9 DEF GroupInv

(* The forest is planted: steps that only touch the order of the roads. *)
LEMMA ForestStep ==
  ASSUME GroupInv, pass = "tree", pass' = "tree", UNCHANGED counted,
         committed' = committed, made' = made, Planted', todo' \in SUBSET Nat,
         Parents(parent_of', RoadIds), ListOf(process_order', RoadIds)
  PROVE  GroupInv' /\ Conserves
<1>1. /\ Typed /\ Accounted /\ Own /\ Sized /\ BoxOpen /\ Locked /\ EndsTakeNothing /\ Planted /\ Combined
  BY DEF GroupInv
<1>2. /\ net' = net /\ all_fat_road_ids' = all_fat_road_ids
      /\ fats_by_road' = fats_by_road /\ result_groups' = result_groups
      /\ box' = box /\ inject' = inject /\ orphans' = orphans
  BY DEF counted
<1>3. RoadIds' = RoadIds /\ PairMost' = PairMost /\ FATs' = FATs
  BY <1>2, SameNet
<1>4. Typed'
  BY <1>1, <1>2, TypedNext DEF Typed
<1>5. Conserves /\ Accounted' /\ Own'
  BY <1>1, <1>2, <1>4, QuietStep DEF counted
<1>6. Sized'
  BY <1>1, <1>2, <1>3 DEF Sized, AtMost, Joining
<1>7. BoxOpen' /\ Locked' /\ EndsTakeNothing'
  BY <1>1, <1>2 DEF BoxOpen, Locked, EndsTakeNothing
<1>8. Combined'
  BY <1>1, <1>2, <1>3 DEF Combined, Combining, Joining, Walking
<1> QED
  BY <1>4, <1>5, <1>6, <1>7, <1>8 DEF GroupInv

LEMMA PlantStep ==
  ASSUME GroupInv, Plant
  PROVE  GroupInv' /\ Conserves
<1>1. Typed /\ Planted
  BY DEF GroupInv
<1>2. PICK r \in Unplanted : process_order' = Append(process_order, r) /\ todo' = {r}
  BY DEF Plant
<1>3. /\ pass = "tree" /\ pass' = "tree" /\ committed' = committed /\ made' = made
      /\ parent_of' = parent_of /\ UNCHANGED counted /\ net' = net
      /\ all_fat_road_ids' = all_fat_road_ids
  BY DEF Plant, counted
<1>4. /\ r \in all_fat_road_ids /\ r \notin ToSet(process_order) /\ r \in RoadIds
      /\ RoadIds \in SUBSET Nat /\ RoadIds' = RoadIds
  BY <1>1, <1>3, Nets, SameNet DEF Unplanted, Typed
<1> DEFINE s == process_order
           t == Append(s, r)
           n == Len(s)
<1>5. /\ ListOf(t, RoadIds) /\ Len(t) = n + 1 /\ n \in Nat
      /\ \A i \in 1..n : t[i] = s[i]
      /\ t[n + 1] = r /\ DOMAIN s = 1..n /\ DOMAIN t = 1..(n + 1)
  <2>1. ListOf(s, RoadIds)
    BY <1>1 DEF Typed
  <2> HIDE DEF s
  <2>2. /\ ListOf(t, RoadIds) /\ Len(t) = n + 1
        /\ \A i \in 1..n : t[i] = s[i] /\ t[n + 1] = r
    BY <1>4, <2>1, CountAppended
  <2>3. t[n + 1] = r
    BY <1>4, <2>1, CountAppended
  <2> QED
    BY <2>1, <2>2, <2>3, Listed
<1>6. t = process_order'
  BY <1>2
<1>7. ToSet(t) = ToSet(s) \cup {r}
  <2> HIDE DEF t, s, n
  <2>1. \A i \in 1..(n + 1) : i \in 1..n \/ i = n + 1
    BY <1>5
  <2>2. n + 1 \in 1..(n + 1) /\ \A i \in 1..n : i \in 1..(n + 1)
    BY <1>5
  <2> QED
    BY <1>5, <2>1, <2>2 DEF ToSet
<1>8. /\ \A i, j \in 1..n : s[i] = s[j] => i = j
      /\ ToSet(s) \subseteq all_fat_road_ids
      /\ \A k \in 1..n : parent_of[s[k]] = Nil \/ \E j \in 1..(k - 1) : s[j] = parent_of[s[k]]
      /\ \A x \in RoadIds \ ToSet(s) : parent_of[x] = Nil
  BY <1>1, <1>3 DEF Planted, ParentFirst
<1>9. (\A i \in 1..n : s[i] # r) /\ parent_of[r] = Nil
  BY <1>4, <1>5, <1>8 DEF ToSet
<1> HIDE DEF t, s, n
<1>10. ASSUME NEW i \in 1..(n + 1), NEW j \in 1..(n + 1), t[i] = t[j] PROVE i = j
  <2>1. (i \in 1..n \/ i = n + 1) /\ (j \in 1..n \/ j = n + 1)
    BY <1>5
  <2> QED
    BY <1>5, <1>8, <1>9, <1>10, <2>1
<1>11. ASSUME NEW k \in 1..(n + 1)
       PROVE  parent_of[t[k]] = Nil \/ \E j \in 1..(k - 1) : t[j] = parent_of[t[k]]
  <2>1. k \in 1..n \/ k = n + 1
    BY <1>5
  <2>2. CASE k = n + 1
    BY <1>5, <1>9, <2>2
  <2>3. CASE k \in 1..n
    <3>1. \A j \in 1..(k - 1) : j \in 1..n
      BY <1>5, <2>3
    <3> QED
      BY <1>5, <1>8, <2>3, <3>1
  <2> QED
    BY <2>1, <2>2, <2>3
<1>12. Planted'
  BY <1>3, <1>4, <1>5, <1>6, <1>7, <1>8, <1>10, <1>11 DEF Planted, ParentFirst
<1>13. /\ todo' \in SUBSET Nat /\ Parents(parent_of', RoadIds) /\ ListOf(process_order', RoadIds)
  BY <1>1, <1>2, <1>3, <1>4, <1>5, <1>6 DEF Typed
<1> QED
  BY <1>3, <1>12, <1>13, ForestStep

-----------------------------------------------------------------------------
(* The forest is planted. *)

LEMMA TreeDoneStep ==
  ASSUME GroupInv, TreeDone
  PROVE  GroupInv' /\ Conserves
<1>1. /\ Typed /\ Accounted /\ Own /\ Sized /\ BoxOpen /\ Locked /\ EndsTakeNothing /\ Planted /\ Combined
  BY DEF GroupInv
<1>2. /\ pass = "tree" /\ pass' = "walk" /\ committed' = committed /\ todo' = todo
      /\ net' = net /\ all_fat_road_ids' = all_fat_road_ids
      /\ fats_by_road' = fats_by_road /\ result_groups' = result_groups
      /\ box' = box /\ inject' = inject /\ orphans' = orphans /\ parent_of' = parent_of
      /\ process_order' = process_order /\ made' = made /\ all_fat_road_ids \ ToSet(process_order) = {}
  BY DEF TreeDone, forest, Unplanted
<1>3. RoadIds' = RoadIds /\ PairMost' = PairMost /\ FATs' = FATs
  BY <1>2, SameNet
<1>4. Typed'
  BY <1>1, <1>2, TypedNext DEF Typed, Passes
<1>5. Conserves /\ Accounted' /\ Own'
  BY <1>1, <1>2, <1>4, QuietStep DEF counted
<1>6. Sized'
  BY <1>1, <1>2, <1>3 DEF Sized, AtMost, Joining
<1>7. BoxOpen' /\ Locked' /\ EndsTakeNothing'
  BY <1>1, <1>2 DEF BoxOpen, Locked, EndsTakeNothing
<1>8. Planted'
  <2>1. /\ \A i, j \in 1..Len(process_order) : process_order[i] = process_order[j] => i = j
        /\ ToSet(process_order) \subseteq all_fat_road_ids /\ ParentFirst
    BY <1>1, <1>2 DEF Planted
  <2>2. all_fat_road_ids = ToSet(process_order)
    BY <1>2, <2>1
  <2>3. ParentFirst' /\ ToSet(process_order)' = ToSet(process_order)
    BY <1>2, <2>1 DEF ParentFirst, ToSet
  <2> QED
    BY <1>2, <2>1, <2>2, <2>3 DEF Planted
<1>9. Combined'
  BY <1>1, <1>2, <1>3 DEF Combined, Combining, Joining, Walking
<1> QED
  BY <1>4, <1>5, <1>6, <1>7, <1>8, <1>9 DEF GroupInv

LEMMA BuildStep ==
  ASSUME GroupInv, Build
  PROVE  GroupInv' /\ Conserves
<1>1. /\ Typed /\ Accounted /\ Own /\ Sized /\ BoxOpen /\ Locked /\ EndsTakeNothing /\ Planted /\ Combined
  BY DEF GroupInv
<1>2. /\ pass = "build" /\ committed' = committed /\ todo' = todo
      /\ net' = net /\ all_fat_road_ids' = all_fat_road_ids
      /\ fats_by_road' = fats_by_road /\ result_groups' = result_groups
      /\ box' = box /\ inject' = inject /\ orphans' = orphans /\ parent_of' = parent_of
      /\ process_order' = process_order /\ made' = made
      /\ pass' = IF \A i \in DOMAIN result_groups : Size(i) <= PairMost THEN "done" ELSE "refused"
  BY DEF Build, forest
<1>3. RoadIds' = RoadIds /\ PairMost' = PairMost /\ FATs' = FATs
  BY <1>2, SameNet
<1>4. pass' = "done"
  BY <1>1, <1>2 DEF Sized, AtMost, Size
<1>5. Typed'
  BY <1>1, <1>2, <1>4, TypedNext DEF Typed, Passes
<1>6. Conserves /\ Accounted' /\ Own'
  BY <1>1, <1>2, <1>5, QuietStep DEF counted
<1>7. Sized'
  BY <1>1, <1>2, <1>3, <1>4 DEF Sized, AtMost, Joining
<1>8. BoxOpen' /\ Locked' /\ EndsTakeNothing' /\ Planted'
  BY <1>1, <1>2, <1>4 DEF BoxOpen, Locked, EndsTakeNothing, Planted
<1>9. Combined'
  BY <1>1, <1>2, <1>3, <1>4 DEF Combined, Combining, Joining, Walking
<1> QED
  BY <1>5, <1>6, <1>7, <1>8, <1>9 DEF GroupInv

LEMMA StillStep ==
  ASSUME GroupInv, UNCHANGED groupVars
  PROVE  GroupInv' /\ Conserves
<1>1. /\ Typed /\ Accounted /\ Own /\ Sized /\ BoxOpen /\ Locked /\ EndsTakeNothing /\ Planted /\ Combined
  BY DEF GroupInv
<1>2. /\ pass' = pass /\ committed' = committed /\ todo' = todo
      /\ net' = net /\ all_fat_road_ids' = all_fat_road_ids
      /\ fats_by_road' = fats_by_road /\ result_groups' = result_groups
      /\ box' = box /\ inject' = inject /\ orphans' = orphans /\ parent_of' = parent_of
      /\ process_order' = process_order /\ made' = made
  BY DEF groupVars
<1>3. RoadIds' = RoadIds /\ PairMost' = PairMost /\ FATs' = FATs
  BY <1>2, SameNet
<1>4. Typed'
  BY <1>1, <1>2, TypedNext DEF Typed
<1>5. Conserves /\ Accounted' /\ Own'
  BY <1>1, <1>2, <1>4, QuietStep DEF counted
<1>6. Sized'
  BY <1>1, <1>2, <1>3 DEF Sized, AtMost, Joining
<1>7. BoxOpen'
  BY <1>1, <1>2 DEF BoxOpen
<1>8. Locked'
  <2>1. InBox' = InBox /\ \A f : InAll(result_groups, f)' = InAll(result_groups, f)
    BY <1>2 DEF InBox, InAll, Count
  <2> QED
    BY <1>1, <1>2, <1>3, <2>1 DEF Locked
<1>9. EndsTakeNothing'
  <2>1. \A r : is_dead_end(r)' = is_dead_end(r)
    BY <1>2, SameNet
  <2> QED
    BY <1>1, <1>2, <1>3, <2>1 DEF EndsTakeNothing
<1>10. Planted'
  BY <1>1, <1>2, <1>3 DEF Planted, ParentFirst
<1>11. Combined'
  <2>1. \A f : /\ InAll(made, f)' = InAll(made, f)
               /\ HeldBy(result_groups, todo, f)' = HeldBy(result_groups, todo, f)
               /\ Underfilled(result_groups)' = Underfilled(result_groups)
    BY <1>2 DEF InAll, Count, HeldBy, Underfilled, MIN_FAT_PER_FDT
  <2> QED
    BY <1>1, <1>2, <1>3, <2>1 DEF Combined, Combining, Joining, Walking
<1> QED
  BY <1>4, <1>5, <1>6, <1>7, <1>8, <1>9, <1>10, <1>11 DEF GroupInv

(* The roads that are met next are listed in some order. *)
LEMMA ListedOnce ==
  ASSUME NEW S, IsFiniteSet(S), NEW q \in SetToSeqs(S)
  PROVE  /\ ListOf(q, S) /\ DOMAIN q = 1..Len(q) /\ Len(q) \in Nat /\ ToSet(q) = S
         /\ q = [i \in 1..Len(q) |-> q[i]]
         /\ \A i, j \in 1..Len(q) : q[i] = q[j] => i = j
<1> DEFINE n == Cardinality(S)
<1>1. n \in Nat
  BY FS_CardinalityType
<1>2. q \in [1..n -> S] /\ \A i, j \in 1..n : i # j => q[i] # q[j]
  BY DEF SetToSeqs
<1>3. q \in Injection(1..n, S)
  BY <1>2 DEF Injection, IsInjective
<1>4. IsFiniteSet(1..n) /\ Cardinality(1..n) = n
  BY <1>1, FS_Interval
<1>5. q \in Surjection(1..n, S)
  BY <1>3, <1>4, FS_Injection
<1> HIDE DEF n
<1>6. Len(q) = n /\ DOMAIN q = 1..n /\ q = [i \in 1..n |-> q[i]]
  BY <1>1, <1>2
<1>7. ListOf(q, S)
  BY <1>1, <1>2, <1>6, Lists
<1>8. ToSet(q) = S
  BY <1>2, <1>5, <1>6 DEF ToSet, Surjection
<1> QED
  BY <1>1, <1>2, <1>6, <1>7, <1>8

LEMMA BranchStep ==
  ASSUME GroupInv, Branch
  PROVE  GroupInv' /\ Conserves
<1>1. Typed /\ Planted
  BY DEF GroupInv
<1> DEFINE s == process_order
           t == process_order'
           n == Len(s)
           p == parent_of
           next(r) == {x \in Unplanted : Meet(r, x) /\ net.partner[x] # r}
<1>0. PICK i \in 1..n :
        \E q \in SetToSeqs(next(s[i])) :
          /\ t = s \o q
          /\ parent_of' = [x \in RoadIds |-> IF x \in next(s[i]) THEN s[i] ELSE p[x]]
          /\ todo' = (todo \ {s[i]}) \cup next(s[i])
  <2>1. ListOf(s, RoadIds)
    BY <1>1 DEF Typed
  <2>2. DOMAIN s = 1..n
    BY <2>1, Listed
  <2>3. PICK i \in DOMAIN process_order :
          LET r == process_order[i]
              after == {x \in Unplanted : Meet(r, x) /\ net.partner[x] # r}
          IN /\ r \in todo /\ \A j \in 1..(i - 1) : process_order[j] \notin todo
             /\ \E q \in SetToSeqs(after) : process_order' = process_order \o q
             /\ parent_of' = [x \in RoadIds |-> IF x \in after THEN r ELSE parent_of[x]]
             /\ todo' = (todo \ {r}) \cup after
    BY Zenon DEF Branch
  <2>4. PICK q \in SetToSeqs(next(s[i])) : t = s \o q
    BY ONLY <2>3, Zenon
  <2>5. /\ parent_of' = [x \in RoadIds |-> IF x \in next(s[i]) THEN s[i] ELSE p[x]]
        /\ todo' = (todo \ {s[i]}) \cup next(s[i])
    BY ONLY <2>3, Zenon
  <2> QED
    BY <2>2, <2>4, <2>5
<1>2. PICK q \in SetToSeqs(next(s[i])) :
        /\ t = s \o q
        /\ parent_of' = [x \in RoadIds |-> IF x \in next(s[i]) THEN s[i] ELSE p[x]]
        /\ todo' = (todo \ {s[i]}) \cup next(s[i])
  BY <1>0
<1> DEFINE r == s[i]
           new == next(r)
<1>3. /\ pass = "tree" /\ pass' = "tree" /\ committed' = committed /\ made' = made
      /\ UNCHANGED counted /\ net' = net /\ all_fat_road_ids' = all_fat_road_ids
  BY DEF Branch, counted
<1>4. /\ RoadIds \in SUBSET Nat /\ RoadIds' = RoadIds /\ IsFiniteSet(RoadIds) /\ Nil \notin RoadIds
      /\ all_fat_road_ids \in SUBSET RoadIds /\ todo \in SUBSET Nat
      /\ ListOf(s, RoadIds) /\ Parents(p, RoadIds)
  BY <1>1, <1>3, Nets, SameNet DEF Typed
<1>5. /\ n \in Nat /\ DOMAIN s = 1..n /\ \A k \in 1..n : s[k] \in RoadIds
  BY <1>4, Listed
<1>6. /\ \A x \in new : x \in all_fat_road_ids /\ x \notin ToSet(s) /\ x \in RoadIds
      /\ r \in RoadIds /\ r \in ToSet(s)
  BY <1>4, <1>5 DEF Unplanted, ToSet
<1>7. IsFiniteSet(new)
  <2>1. new \in SUBSET RoadIds
    BY <1>6
  <2> QED
    BY <1>4, <2>1, FS_Subset
<1>8. /\ \A k, j \in 1..n : s[k] = s[j] => k = j
      /\ ToSet(s) \subseteq all_fat_road_ids
      /\ \A k \in 1..n : p[s[k]] = Nil \/ \E j \in 1..(k - 1) : s[j] = p[s[k]]
      /\ \A x \in RoadIds \ ToSet(s) : p[x] = Nil
  BY <1>1, <1>3 DEF Planted, ParentFirst
<1> DEFINE m == Len(q)
<1> HIDE DEF new
<1>9. /\ ListOf(q, new) /\ DOMAIN q = 1..m /\ m \in Nat /\ ToSet(q) = new
      /\ q = [k \in 1..m |-> q[k]]
      /\ \A k, j \in 1..m : q[k] = q[j] => k = j
  <2>1. q \in SetToSeqs(new)
    BY <1>2 DEF new
  <2> QED
    BY <1>7, <2>1, ListedOnce
<1>10. \A k \in 1..m : q[k] \in new
  BY <1>9 DEF ToSet
<1>11. ListOf(q, RoadIds)
  <2> HIDE DEF m
  <2> QED
    BY <1>6, <1>9, <1>10, Lists
<1>12. /\ ListOf(t, RoadIds) /\ Len(t) = n + m /\ DOMAIN t = 1..(n + m)
       /\ (\A k \in 1..n : t[k] = s[k]) /\ \A k \in 1..m : t[n + k] = q[k]
  <2> HIDE DEF s
  <2>1. ListOf(s \o q, RoadIds) /\ Len(s \o q) = n + m
    BY <1>4, <1>11, JoinedSeq
  <2>2. /\ \A k \in 1..n : (s \o q)[k] = s[k]
        /\ \A k \in 1..m : (s \o q)[n + k] = q[k]
    BY <1>4, <1>11, JoinedLeft, JoinedRight
  <2>3. DOMAIN (s \o q) = 1..Len(s \o q)
    BY <2>1, Listed
  <2> QED
    BY <1>2, <2>1, <2>2, <2>3
<1>13. /\ Parents(parent_of', RoadIds)
       /\ \A x \in RoadIds : parent_of'[x] = IF x \in new THEN r ELSE p[x]
  BY <1>2, <1>4, <1>6 DEF Parents, new
<1>14. todo' \in SUBSET Nat
  <2>1. todo' = (todo \ {r}) \cup new
    BY <1>2 DEF new
  <2> QED
    BY <1>4, <1>6, <2>1
<1> DEFINE par == parent_of'
           all == ToSet(s)
<1>15. /\ i \in 1..n /\ r = s[i] /\ (\A x \in all : x \notin new)
       /\ (\A k \in 1..n : s[k] \in all) /\ \A x \in new : x \in RoadIds /\ x \notin all /\ x \in all_fat_road_ids
  BY <1>5, <1>6 DEF ToSet
<1> HIDE DEF s, t, n, m, par, p, r, all
<1>16. \A k \in 1..(n + m) : k \in 1..n \/ \E j \in 1..m : k = n + j
  <2>1. ASSUME NEW k \in 1..(n + m) PROVE k \in 1..n \/ \E j \in 1..m : k = n + j
    <3>1. k <= n \/ (k - n \in 1..m /\ k = n + (k - n))
      BY <1>5, <1>9
    <3> QED
      BY <1>5, <3>1
  <2> QED
    BY <2>1
<1>17. ToSet(t) = all \cup new
  <2>1. \A k \in 1..n : k \in 1..(n + m)
    BY <1>5, <1>9
  <2>2. \A k \in 1..m : n + k \in 1..(n + m)
    BY <1>5, <1>9
  <2>3. ToSet(t) = {t[k] : k \in 1..(n + m)} /\ new = {q[k] : k \in 1..m} /\ all = {s[k] : k \in 1..n}
    BY <1>5, <1>9, <1>12 DEF ToSet, all, m
  <2>4. \A x \in ToSet(t) : x \in all \cup new
    BY <1>12, <1>16, <2>3
  <2>5. \A x \in all \cup new : x \in ToSet(t)
    BY <1>12, <2>1, <2>2, <2>3
  <2> QED
    BY <2>4, <2>5
<1>18. ASSUME NEW k \in 1..(n + m), NEW j \in 1..(n + m), t[k] = t[j] PROVE k = j
  <2>1. CASE k \in 1..n /\ j \in 1..n
    BY <1>8, <1>12, <1>18, <2>1
  <2>2. CASE k \in 1..n /\ \E a \in 1..m : j = n + a
    BY <1>10, <1>12, <1>15, <1>18, <2>2
  <2>3. CASE j \in 1..n /\ \E a \in 1..m : k = n + a
    BY <1>10, <1>12, <1>15, <1>18, <2>3
  <2>4. CASE (\E a \in 1..m : j = n + a) /\ \E a \in 1..m : k = n + a
    BY <1>9, <1>12, <1>18, <2>4
  <2> QED
    BY <1>16, <2>1, <2>2, <2>3, <2>4
<1>19. ASSUME NEW k \in 1..(n + m)
       PROVE  par[t[k]] = Nil \/ \E j \in 1..(k - 1) : t[j] = par[t[k]]
  <2>1. CASE k \in 1..n
    <3>1. \A j \in 1..(k - 1) : j \in 1..n
      BY <1>5, <2>1
    <3>2. t[k] = s[k] /\ par[s[k]] = p[s[k]]
      BY <1>5, <1>12, <1>13, <1>15, <2>1 DEF par
    <3>3. p[s[k]] = Nil \/ \E j \in 1..(k - 1) : s[j] = p[s[k]]
      BY <1>8, <2>1
    <3> QED
      BY <1>12, <3>1, <3>2, <3>3
  <2>2. CASE \E j \in 1..m : k = n + j
    <3>1. PICK j \in 1..m : k = n + j
      BY <2>2
    <3>2. t[k] = q[j] /\ q[j] \in new
      BY <1>10, <1>12, <3>1
    <3>3. par[t[k]] = r
      BY <1>13, <1>15, <3>2 DEF par
    <3>4. i \in 1..(k - 1) /\ t[i] = r
      <4>1. i \in 1..n /\ t[i] = r
        BY <1>12, <1>15
      <4>2. k > n /\ k \in Nat
        BY <1>5, <1>9, <3>1
      <4> QED
        BY <1>5, <4>1, <4>2
    <3> QED
      BY <3>3, <3>4
  <2> QED
    BY <1>16, <2>1, <2>2
<1>20. \A x \in RoadIds \ (all \cup new) : par[x] = Nil
  BY <1>8, <1>13 DEF par, all
<1>21. Planted'
  <2>1. ParentFirst'
    BY <1>12, <1>19 DEF ParentFirst, t, par
  <2>2. ToSet(process_order)' = all \cup new
    BY <1>17 DEF t, ToSet
  <2>3. \A k, j \in 1..Len(process_order') : process_order'[k] = process_order'[j] => k = j
    BY <1>12, <1>18 DEF t
  <2>4. all \cup new \subseteq all_fat_road_ids'
    BY <1>3, <1>8, <1>15 DEF all
  <2>5. \A x \in RoadIds' \ (all \cup new) : parent_of'[x] = Nil
    BY <1>4, <1>20 DEF par
  <2> QED
    BY <1>3, <2>1, <2>2, <2>3, <2>4, <2>5 DEF Planted
<1> QED
  BY <1>3, <1>4, <1>12, <1>13, <1>14, <1>21, ForestStep DEF t

-----------------------------------------------------------------------------
(* Lists of groups that are small enough. *)
LEMMA AtMostJoined ==
  ASSUME NEW R, NEW s, ListOf(s, R), NEW t, ListOf(t, R), NEW n, AtMost(s, n), AtMost(t, n)
  PROVE  AtMost(s \o t, n)
<1>1. /\ Len(s) \in Nat /\ Len(t) \in Nat /\ DOMAIN s = 1..Len(s) /\ DOMAIN t = 1..Len(t)
  BY Listed
<1>2. DOMAIN (s \o t) = 1..(Len(s) + Len(t))
  <2>1. ListOf(s \o t, R) /\ Len(s \o t) = Len(s) + Len(t)
    BY JoinedSeq
  <2> QED
    BY <2>1, Listed
<1>3. ASSUME NEW i \in 1..(Len(s) + Len(t)) PROVE Len((s \o t)[i].fats) <= n
  <2>1. CASE i <= Len(s)
    <3>1. i \in 1..Len(s)
      BY <1>1, <2>1
    <3>2. (s \o t)[i] = s[i]
      BY <3>1, JoinedLeft
    <3> QED
      BY <1>1, <3>1, <3>2 DEF AtMost
  <2>2. CASE i > Len(s)
    <3> DEFINE j == i - Len(s)
    <3>1. j \in 1..Len(t) /\ i = Len(s) + j
      BY <1>1, <2>2
    <3> HIDE DEF j
    <3>2. (s \o t)[i] = t[j]
      BY <3>1, JoinedRight
    <3> QED
      BY <1>1, <3>1, <3>2 DEF AtMost
  <2> QED
    BY <1>1, <2>1, <2>2
<1> QED
  BY <1>2, <1>3 DEF AtMost

LEMMA AtMostAppended ==
  ASSUME NEW R, NEW s, ListOf(s, R), NEW g \in R, NEW n, AtMost(s, n), Len(g.fats) <= n
  PROVE  AtMost(Append(s, g), n)
<1>1. /\ ListOf(Append(s, g), R) /\ Len(Append(s, g)) = Len(s) + 1
      /\ \A i \in 1..Len(s) : Append(s, g)[i] = s[i]
      /\ Append(s, g)[Len(s) + 1] = g
  BY CountAppended
<1>2. Len(s) \in Nat /\ DOMAIN s = 1..Len(s)
  BY Listed
<1>3. DOMAIN Append(s, g) = 1..(Len(s) + 1)
  BY <1>1, Listed
<1>4. \A i \in 1..(Len(s) + 1) : i \in 1..Len(s) \/ i = Len(s) + 1
  BY <1>2
<1> QED
  BY <1>1, <1>2, <1>3, <1>4 DEF AtMost

LEMMA AtMostNone == \A n : AtMost(<<>>, n)
BY DEF AtMost

LEMMA AtMostMore ==
  ASSUME NEW R, NEW A, Carry(R, A), NEW s, ListOf(s, R), NEW n \in Nat, NEW m \in Nat, n <= m, AtMost(s, n)
  PROVE  AtMost(s, m)
<1>1. \A i \in DOMAIN s : Len(s[i].fats) \in Nat
  <2>1. ASSUME NEW i \in DOMAIN s PROVE Len(s[i].fats) \in Nat
    <3>1. s[i] \in R
      BY Listed
    <3>2. ListOf(s[i].fats, A)
      BY <3>1 DEF Carry
    <3> QED
      BY <3>2, Listed
  <2> QED
    BY <2>1
<1> QED
  BY <1>1 DEF AtMost

-----------------------------------------------------------------------------
(* What a combination makes of the groups it puts together. *)
LEMMA JoinMakes ==
  ASSUME Typed, NEW C, C \subseteq DOMAIN result_groups, NEW onto \in RoadIds,
         NEW sizes, sizes \in Splits(Len(PooledFats(C)))
  PROVE  \E k \in Nat :
           /\ ListOf(GroupsOf(PooledFats(C), sizes, onto), FatGroups)
           /\ Len(GroupsOf(PooledFats(C), sizes, onto)) = k
           /\ AtMost(GroupsOf(PooledFats(C), sizes, onto), MAX_FAT_PER_FDT)
           /\ \A i, j \in 1..k :
                Len(GroupsOf(PooledFats(C), sizes, onto)[i].fats) < MIN_FAT_PER_FDT /\ Len(GroupsOf(PooledFats(C), sizes, onto)[j].fats) < MIN_FAT_PER_FDT => i = j
           /\ \A f : InAll(GroupsOf(PooledFats(C), sizes, onto), f) = HeldBy(result_groups, C, f)
<1> DEFINE gs == result_groups
           t == Chosen(gs, C)
           u == InGroups(t)
           p == InCascadeOrder(u)
           new == GroupsOf(p, sizes, onto)
<1>1. ListOf(gs, FatGroups) /\ Carry(FatGroups, FATs) /\ net \in Networks
  BY GroupsCarry DEF Typed
<1> HIDE DEF gs
<1>2. C \in SUBSET (1..Len(gs))
  BY <1>1, Listed DEF gs
<1>3. ListOf(t, FatGroups) /\ \A f : InAll(t, f) = HeldBy(gs, C, f)
  BY <1>1, <1>2, AllChosen
<1> HIDE DEF t
<1>4. ListOf(u, FATs) /\ \A f : InAll(t, f) = Count(f, u)
  BY <1>1, <1>3, AllFats
<1> HIDE DEF u
<1>5. ListOf(p, FATs) /\ \A f : Count(f, p) = Count(f, u)
  <2>1. \A x \in FATs : x = <<x[1], x[2]>> /\ x[1] \in Nat /\ x[2] \in Nat
    BY <1>1, Nets
  <2> QED
    BY <1>4, <2>1, Cascaded
<1>6. PooledFats(C) = p
  BY DEF PooledFats, gs, t, u
<1> HIDE DEF p
<1>7. Len(p) \in Nat
  BY <1>5, Listed
<1>8. PICK k \in Nat :
         /\ DealsOut(sizes, k, Len(p), MAX_FAT_PER_FDT) /\ DOMAIN sizes = 1..k /\ Len(sizes) = k
         /\ AtMostOneBelow(sizes, k, MIN_FAT_PER_FDT)
  BY <1>6, <1>7, SplitSizes
<1>9. Rated(sizes, 1..k) /\ Load(sizes) = Len(p) /\ \A i \in 1..k : sizes[i] \in 1..MAX_FAT_PER_FDT
  BY <1>8 DEF DealsOut
<1>10. /\ ListOf(new, FatGroups) /\ Len(new) = k
       /\ \A i \in 1..k : Len(new[i].fats) = sizes[i]
       /\ \A f : InAll(new, f) = Count(f, p)
  BY <1>5, <1>9, ChunkGroups
<1> HIDE DEF new
<1>11. DOMAIN new = 1..k
  BY <1>10, Listed
<1>12. AtMost(new, MAX_FAT_PER_FDT)
  <2>1. MAX_FAT_PER_FDT \in Nat
    BY WingBounds
  <2> QED
    BY <1>9, <1>10, <1>11, <2>1 DEF AtMost
<1>13. \A i, j \in 1..k : Len(new[i].fats) < MIN_FAT_PER_FDT /\ Len(new[j].fats) < MIN_FAT_PER_FDT => i = j
  BY <1>8, <1>10 DEF AtMostOneBelow
<1>14. \A f : InAll(new, f) = HeldBy(result_groups, C, f)
  BY <1>3, <1>4, <1>5, <1>10 DEF gs
<1>15. new = GroupsOf(PooledFats(C), sizes, onto)
  BY <1>6 DEF new
<1>16. /\ k \in Nat /\ ListOf(new, FatGroups) /\ Len(new) = k /\ AtMost(new, MAX_FAT_PER_FDT)
       /\ \A i, j \in 1..k :
            Len(new[i].fats) < MIN_FAT_PER_FDT /\ Len(new[j].fats) < MIN_FAT_PER_FDT => i = j
       /\ \A f : InAll(new, f) = HeldBy(result_groups, C, f)
  BY <1>10, <1>12, <1>13, <1>14
<1> QED
  BY ONLY <1>15, <1>16

(* The groups left to look at, and what was made of the others. *)
LEMMA Remaining ==
  ASSUME NEW A, NEW R, Carry(R, A), NEW gs, ListOf(gs, R), NEW S \in SUBSET (1..Len(gs)),
         NEW C \in SUBSET S, NEW made1, ListOf(made1, R), NEW new, ListOf(new, R), NEW f, NEW whole,
         InAll(made1, f) + HeldBy(gs, S, f) = whole, InAll(new, f) = HeldBy(gs, C, f)
  PROVE  InAll(made1 \o new, f) + HeldBy(gs, S \ C, f) = whole
<1>1. InAll(made1 \o new, f) = InAll(made1, f) + InAll(new, f)
  BY AllJoined
<1>2. HeldBy(gs, S, f) = HeldBy(gs, C, f) + HeldBy(gs, S \ C, f) /\ HeldBy(gs, C, f) \in Nat
      /\ HeldBy(gs, S \ C, f) \in Nat
  BY HeldParts
<1>3. InAll(made1, f) \in Nat
  BY HeldSum
<1> QED
  BY <1>1, <1>2, <1>3

LEMMA JoinForm ==
  ASSUME Typed, Combined, Join
  PROVE  \E C, new :
           /\ made' = made \o new /\ todo' = todo \ C /\ C \subseteq todo
           /\ ListOf(new, FatGroups) /\ AtMost(new, MAX_FAT_PER_FDT)
           /\ \A i, j \in DOMAIN new :
                Len(new[i].fats) < MIN_FAT_PER_FDT /\ Len(new[j].fats) < MIN_FAT_PER_FDT => i = j
           /\ \A f : InAll(new, f) = HeldBy(result_groups, C, f)
<1>1. PICK C \in Components :
        \E sizes \in Splits(Len(PooledFats(C))) :
          /\ made' = made \o GroupsOf(PooledFats(C), sizes, result_groups[LowestId(todo)].road)
          /\ todo' = todo \ C
  BY DEF Join
<1> DEFINE onto == result_groups[LowestId(todo)].road
<1>2. PICK sizes \in Splits(Len(PooledFats(C))) :
          /\ made' = made \o GroupsOf(PooledFats(C), sizes, onto)
          /\ todo' = todo \ C
  BY <1>1
<1> DEFINE new == GroupsOf(PooledFats(C), sizes, onto)
<1>3. /\ ListOf(result_groups, FatGroups) /\ todo \in SUBSET Nat /\ todo # {} /\ Joining
  BY DEF Typed, Join
<1>4. todo \subseteq DOMAIN result_groups
  BY <1>3 DEF Combined, Underfilled
<1>5. onto \in RoadIds
  <2>1. LowestId(todo) \in todo
    BY <1>3, Lowest
  <2>2. result_groups[LowestId(todo)] \in FatGroups
    BY <1>3, <1>4, <2>1, Listed
  <2> QED
    BY <2>2, GroupsCarry
<1>6. C \subseteq todo
  BY DEF Components
<1>7. C \subseteq DOMAIN result_groups
  BY <1>4, <1>6
<1>8. \E k \in Nat :
           /\ ListOf(new, FatGroups)
           /\ Len(new) = k
           /\ AtMost(new, MAX_FAT_PER_FDT)
           /\ \A i, j \in 1..k :
                Len(new[i].fats) < MIN_FAT_PER_FDT /\ Len(new[j].fats) < MIN_FAT_PER_FDT => i = j
           /\ \A f : InAll(new, f) = HeldBy(result_groups, C, f)
  <2> HIDE DEF onto
  <2> QED
    BY <1>2, <1>5, <1>7, JoinMakes
<1>9. made' = made \o new /\ todo' = todo \ C
  BY <1>2
<1> HIDE DEF new
<1>10. ListOf(new, FatGroups) /\ DOMAIN new = 1..Len(new)
  BY <1>8, Listed
<1>11. /\ made' = made \o new /\ todo' = todo \ C /\ C \subseteq todo
       /\ ListOf(new, FatGroups) /\ AtMost(new, MAX_FAT_PER_FDT)
       /\ \A i, j \in DOMAIN new :
            Len(new[i].fats) < MIN_FAT_PER_FDT /\ Len(new[j].fats) < MIN_FAT_PER_FDT => i = j
       /\ \A f : InAll(new, f) = HeldBy(result_groups, C, f)
  BY <1>6, <1>8, <1>9, <1>10
<1> QED
  BY ONLY <1>11

LEMMA JoinStep ==
  ASSUME GroupInv, Join
  PROVE  GroupInv' /\ Conserves
<1>1. /\ Typed /\ Accounted /\ Own /\ Sized /\ BoxOpen /\ Locked /\ EndsTakeNothing /\ Planted /\ Combined
  BY DEF GroupInv
<1>2. /\ Joining /\ pass' = pass /\ committed' = committed
      /\ net' = net /\ all_fat_road_ids' = all_fat_road_ids
      /\ fats_by_road' = fats_by_road /\ result_groups' = result_groups
      /\ box' = box /\ inject' = inject /\ orphans' = orphans /\ parent_of' = parent_of
      /\ process_order' = process_order
  BY DEF Join, forest
<1>3. RoadIds' = RoadIds /\ PairMost' = PairMost /\ FATs' = FATs
  BY <1>2, SameNet
<1>4. PICK C, new :
           /\ made' = made \o new /\ todo' = todo \ C /\ C \subseteq todo
           /\ ListOf(new, FatGroups) /\ AtMost(new, MAX_FAT_PER_FDT)
           /\ \A f : InAll(new, f) = HeldBy(result_groups, C, f)
  <2>1. \E C, new :
           /\ made' = made \o new /\ todo' = todo \ C /\ C \subseteq todo
           /\ ListOf(new, FatGroups) /\ AtMost(new, MAX_FAT_PER_FDT)
           /\ \A i, j \in DOMAIN new :
                Len(new[i].fats) < MIN_FAT_PER_FDT /\ Len(new[j].fats) < MIN_FAT_PER_FDT => i = j
           /\ \A f : InAll(new, f) = HeldBy(result_groups, C, f)
    BY <1>1, JoinForm
  <2> QED
    BY <2>1
<1>5. /\ ListOf(result_groups, FatGroups) /\ ListOf(made, FatGroups) /\ Carry(FatGroups, FATs)
      /\ todo \in SUBSET Nat
  BY <1>1, GroupsCarry DEF Typed
<1>6. Typed'
  <2>1. ListOf(made', FatGroups)
    BY <1>4, <1>5, AllJoined
  <2>2. todo' \in SUBSET Nat
    BY <1>4, <1>5
  <2> QED
    BY <1>1, <1>2, <2>1, <2>2, TypedNext DEF Typed
<1>7. Conserves /\ Accounted' /\ Own'
  BY <1>1, <1>2, <1>6, QuietStep DEF counted
<1>8. Sized'
  <2>1. AtMost(made', MAX_FAT_PER_FDT)
    <3>1. AtMost(made, MAX_FAT_PER_FDT)
      BY <1>1, <1>2 DEF Sized
    <3>2. AtMost(made \o new, MAX_FAT_PER_FDT)
      BY <1>4, <1>5, <3>1, AtMostJoined
    <3> QED
      BY <1>4, <3>2
  <2>2. AtMost(made, MAX_FAT_PER_FDT)' /\ pass # "pair" /\ pass \notin {"build", "done"}
    BY <1>2, <2>1 DEF AtMost, Joining, MAX_FAT_PER_FDT
  <2> QED
    BY <1>1, <1>2, <1>3, <2>2 DEF Sized, AtMost, Joining
<1>9. BoxOpen' /\ Locked' /\ EndsTakeNothing' /\ Planted'
  BY <1>1, <1>2 DEF BoxOpen, Locked, EndsTakeNothing, Planted, Joining
<1>10. Combined'
  <2>1. todo \subseteq Underfilled(result_groups)
    BY <1>1, <1>2 DEF Combined
  <2>2. todo \in SUBSET (1..Len(result_groups))
    BY <1>5, <2>1, Listed DEF Underfilled
  <2>3. ASSUME NEW f \in FATs
        PROVE  InAll(made \o new, f) + HeldBy(result_groups, todo \ C, f)
                 = HeldBy(result_groups, Underfilled(result_groups), f)
    <3>1. InAll(made, f) + HeldBy(result_groups, todo, f)
            = HeldBy(result_groups, Underfilled(result_groups), f)
      BY <1>1, <1>2 DEF Combined, Combining
    <3>2. C \in SUBSET todo /\ InAll(new, f) = HeldBy(result_groups, C, f)
      BY <1>4
    <3> DEFINE gs == result_groups
               S == todo
               whole == HeldBy(result_groups, Underfilled(result_groups), f)
               m == made
    <3>3. /\ ListOf(gs, FatGroups) /\ ListOf(m, FatGroups) /\ S \in SUBSET (1..Len(gs)) /\ C \in SUBSET S
          /\ InAll(m, f) + HeldBy(gs, S, f) = whole /\ InAll(new, f) = HeldBy(gs, C, f)
      BY <1>5, <2>2, <3>1, <3>2
    <3> HIDE DEF gs, S, whole, m
    <3>4. InAll(m \o new, f) + HeldBy(gs, S \ C, f) = whole
      BY <1>4, <1>5, <3>3, Remaining
    <3> QED
      BY <3>4 DEF gs, S, whole, m
  <2>4. \A f \in FATs : Combining(f)'
    <3>1. \A f : /\ InAll(made, f)' = InAll(made \o new, f)
                 /\ HeldBy(result_groups, todo, f)' = HeldBy(result_groups, todo \ C, f)
                 /\ HeldBy(result_groups, Underfilled(result_groups), f)'
                      = HeldBy(result_groups, Underfilled(result_groups), f)
      BY <1>2, <1>4 DEF InAll, HeldBy, Count, Underfilled, MIN_FAT_PER_FDT
    <3>2. pass # "pair"
      BY <1>2 DEF Joining
    <3> QED
      BY <1>2, <2>3, <3>1, <3>2 DEF Combining
  <2>5. Underfilled(result_groups)' = Underfilled(result_groups) /\ Joining' /\ pass' \notin Walking
    BY <1>2 DEF Underfilled, MIN_FAT_PER_FDT, Joining, Walking
  <2>6. pass # "pair" /\ pass \notin Walking
    BY <1>2 DEF Joining, Walking
  <2>7. todo' \subseteq Underfilled(result_groups)
    BY <1>4, <2>1
  <2>8. all_fat_road_ids' = {} /\ orphans' = <<>>
    BY <1>1, <1>2, <2>6 DEF Combined
  <2> QED
    BY <1>2, <1>3, <2>4, <2>5, <2>6, <2>7, <2>8 DEF Combined
<1> QED
  BY <1>6, <1>7, <1>8, <1>9, <1>10 DEF GroupInv

-----------------------------------------------------------------------------
(* Steps that deal the same FATs out to other groups. *)
LEMMA RegroupStep ==
  ASSUME Typed, Accounted, Own, Typed', net' = net, box' = box, orphans' = orphans,
         all_fat_road_ids' = all_fat_road_ids, fats_by_road' = fats_by_road, inject' = inject,
         \A f \in FATs : InAll(result_groups', f) = InAll(result_groups, f)
  PROVE  Conserves /\ Accounted' /\ Own'
<1>1. ASSUME NEW f \in FATs PROVE Given(f)' = Given(f) /\ Left(f)' = Left(f)
  <2>1. InAll(result_groups, f)' = InAll(result_groups, f) /\ InAll(orphans, f)' = InAll(orphans, f)
    BY DEF InAll, Count
  <2>2. BoxList(box)' = BoxList(box) /\ OpenRoads' = OpenRoads
    BY DEF BoxList, OpenRoads, OpenOf
  <2>3. Count(f, BoxList(box))' = Count(f, BoxList(box))
    BY <2>2 DEF Count
  <2>4. OnRoads(OpenRoads, fats_by_road, inject, f)' = OnRoads(OpenRoads, fats_by_road, inject, f)
    BY <2>2 DEF OnRoads, RoadHolds, InAll, Count
  <2> QED
    BY <2>1, <2>3, <2>4 DEF Given, Left, GivenIn, LeftIn
<1>2. Conserves
  <2>1. ASSUME NEW f \in FATs PROVE Conserved(f)
    <3>1. Left(f) \in Nat
      BY Numbers
    <3> QED
      BY <1>1, <3>1 DEF Conserved
  <2> QED
    BY <2>1 DEF Conserves
<1>3. Accounted'
  BY <1>2, StillAccounted
<1>4. Own'
  <2>1. RoadIds' = RoadIds
    BY SameNet
  <2> QED
    BY <2>1 DEF Own
<1> QED
  BY <1>2, <1>3, <1>4

LEMMA AtMostChosen ==
  ASSUME NEW A, NEW s, ListOf(s, A), NEW S \in SUBSET (1..Len(s)), NEW n, AtMost(s, n)
  PROVE  AtMost(Chosen(s, S), n)
<1>1. /\ ListOf(Chosen(s, S), A) /\ Len(Chosen(s, S)) = Cardinality(S)
      /\ \A k \in 1..Cardinality(S) : Ascending(S)[k] \in S /\ Chosen(s, S)[k] = s[Ascending(S)[k]]
  BY ChosenList
<1>2. DOMAIN Chosen(s, S) = 1..Cardinality(S) /\ DOMAIN s = 1..Len(s)
  BY <1>1, Listed
<1> QED
  BY <1>1, <1>2 DEF AtMost

LEMMA PairRoom ==
  ASSUME net \in Networks
  PROVE  PairMost \in Nat /\ MAX_FAT_PER_FDT <= PairMost /\ MAX_FAT_PER_FDT \in Nat
<1>1. net.pons \in {1, 2} /\ MAX_FAT_PER_FDT \in Nat
  BY Nets, WingBounds
<1> QED
  BY <1>1 DEF PairMost

(* The groups that are large enough stay, the others are replaced. *)
LEMMA JoinDoneGroups ==
  ASSUME NEW gs, ListOf(gs, FatGroups), NEW m, ListOf(m, FatGroups), NEW U, U \subseteq DOMAIN gs,
         AtMost(gs, MAX_FAT_PER_FDT), AtMost(m, MAX_FAT_PER_FDT)
  PROVE  /\ ListOf(Chosen(gs, DOMAIN gs \ U) \o m, FatGroups)
         /\ AtMost(Chosen(gs, DOMAIN gs \ U) \o m, MAX_FAT_PER_FDT)
         /\ \A f : InAll(m, f) = HeldBy(gs, U, f) => InAll(Chosen(gs, DOMAIN gs \ U) \o m, f) = InAll(gs, f)
<1> DEFINE D == 1..Len(gs)
           c == Chosen(gs, D \ U)
<1>1. DOMAIN gs = D /\ Carry(FatGroups, FATs) /\ U \in SUBSET D /\ D \ U \in SUBSET D /\ D \in SUBSET D
  BY Listed, GroupsCarry
<1>2. ListOf(c, FatGroups) /\ AtMost(c, MAX_FAT_PER_FDT) /\ \A f : InAll(c, f) = HeldBy(gs, D \ U, f)
  BY <1>1, AllChosen, AtMostChosen
<1> HIDE DEF c
<1>3. ListOf(c \o m, FatGroups) /\ AtMost(c \o m, MAX_FAT_PER_FDT)
      /\ \A f : InAll(c \o m, f) = InAll(c, f) + InAll(m, f)
  BY <1>1, <1>2, AllJoined, AtMostJoined
<1>4. \A f : /\ InAll(gs, f) = HeldBy(gs, D, f)
             /\ HeldBy(gs, D, f) = HeldBy(gs, U, f) + HeldBy(gs, D \ U, f)
             /\ HeldBy(gs, U, f) \in Nat /\ HeldBy(gs, D \ U, f) \in Nat
  <2> HIDE DEF D
  <2>1. ASSUME NEW f
        PROVE  /\ InAll(gs, f) = HeldBy(gs, D, f)
               /\ HeldBy(gs, D, f) = HeldBy(gs, U, f) + HeldBy(gs, D \ U, f)
               /\ HeldBy(gs, U, f) \in Nat /\ HeldBy(gs, D \ U, f) \in Nat
    <3>1. InAll(gs, f) = HeldBy(gs, D, f)
      BY <1>1, HeldEnds DEF D
    <3>2. /\ HeldBy(gs, D, f) = HeldBy(gs, U, f) + HeldBy(gs, D \ U, f)
          /\ HeldBy(gs, U, f) \in Nat /\ HeldBy(gs, D \ U, f) \in Nat
      BY <1>1, HeldParts DEF D
    <3> QED
      BY <3>1, <3>2
  <2> QED
    BY <2>1
<1>5. Chosen(gs, DOMAIN gs \ U) \o m = c \o m
  BY <1>1 DEF c
<1>6. ASSUME NEW f, InAll(m, f) = HeldBy(gs, U, f) PROVE InAll(c \o m, f) = InAll(gs, f)
  <2> HIDE DEF D
  <2> QED
    BY <1>2, <1>3, <1>4, <1>6
<1> QED
  BY <1>3, <1>5, <1>6

LEMMA JoinDoneStep ==
  ASSUME GroupInv, JoinDone
  PROVE  GroupInv' /\ Conserves
<1>1. /\ Typed /\ Accounted /\ Own /\ Sized /\ BoxOpen /\ Locked /\ EndsTakeNothing /\ Planted /\ Combined
  BY DEF GroupInv
<1> DEFINE gs == result_groups
           U == Underfilled(gs)
           hs == Chosen(gs, DOMAIN gs \ U) \o made
<1>2. /\ Joining /\ committed' = committed /\ todo = {}
      /\ net' = net /\ all_fat_road_ids' = all_fat_road_ids
      /\ fats_by_road' = fats_by_road /\ result_groups' = hs
      /\ box' = box /\ inject' = inject /\ orphans' = orphans /\ parent_of' = parent_of
      /\ process_order' = process_order /\ made' = <<>>
  BY DEF JoinDone, forest
<1>3. /\ pass' \in {"recalibrate", "pair", "build"}
      /\ todo' = IF pass' = "recalibrate" THEN Underfilled(result_groups')
                 ELSE IF pass' = "pair" THEN DOMAIN result_groups' ELSE {}
  BY DEF JoinDone
<1>4. RoadIds' = RoadIds /\ PairMost' = PairMost /\ FATs' = FATs
  BY <1>2, SameNet
<1>5. /\ ListOf(gs, FatGroups) /\ ListOf(made, FatGroups) /\ Carry(FatGroups, FATs) /\ net \in Networks
  BY <1>1, GroupsCarry DEF Typed
<1>6. U \subseteq DOMAIN gs
  BY DEF Underfilled
<1>7. AtMost(gs, MAX_FAT_PER_FDT) /\ AtMost(made, MAX_FAT_PER_FDT)
  BY <1>1, <1>2 DEF Sized, Joining
<1>8. \A f \in FATs : InAll(made, f) = HeldBy(gs, U, f)
  <2>1. ASSUME NEW f \in FATs PROVE InAll(made, f) = HeldBy(gs, U, f)
    <3>1. InAll(made, f) + HeldBy(gs, todo, f) = HeldBy(gs, U, f)
      BY <1>1, <1>2 DEF Combined, Combining
    <3>2. HeldBy(gs, todo, f) = 0
      <4> HIDE DEF gs
      <4> QED
        BY <1>2, <1>5, HeldEnds
    <3>3. InAll(made, f) \in Nat
      BY <1>5, HeldSum
    <3> QED
      BY <3>1, <3>2, <3>3
  <2> QED
    BY <2>1
<1>9. /\ ListOf(hs, FatGroups) /\ AtMost(hs, MAX_FAT_PER_FDT)
      /\ \A f \in FATs : InAll(hs, f) = InAll(gs, f)
  <2> DEFINE m == made
  <2>1. ListOf(m, FatGroups) /\ AtMost(m, MAX_FAT_PER_FDT) /\ \A f \in FATs : InAll(m, f) = HeldBy(gs, U, f)
    BY <1>5, <1>7, <1>8
  <2> HIDE DEF gs, U, m
  <2>2. /\ ListOf(Chosen(gs, DOMAIN gs \ U) \o m, FatGroups)
        /\ AtMost(Chosen(gs, DOMAIN gs \ U) \o m, MAX_FAT_PER_FDT)
        /\ \A f : InAll(m, f) = HeldBy(gs, U, f) => InAll(Chosen(gs, DOMAIN gs \ U) \o m, f) = InAll(gs, f)
    BY <1>5, <1>6, <1>7, <2>1, JoinDoneGroups, ZenonT(30)
  <2> QED
    BY <2>1, <2>2 DEF m
<1> HIDE DEF hs
<1>10. DOMAIN hs = 1..Len(hs) /\ Len(hs) \in Nat /\ Underfilled(hs) \subseteq DOMAIN hs
  BY <1>9, Listed DEF Underfilled
<1>11. Typed'
  <2>1. todo' \in SUBSET Nat
    BY <1>2, <1>3, <1>10
  <2>2. ListOf(<<>>, FatGroups)
    <3>1. Rated(Mark(1, FatGroups), FatGroups)
      BY Marked
    <3> QED
      BY <3>1, SumNone
  <2>3. ListOf(result_groups', FatGroups) /\ ListOf(made', FatGroups)
    BY <1>2, <1>9, <2>2
  <2>4. pass' \in Passes
    BY <1>3 DEF Passes
  <2> QED
    BY <1>1, <1>2, <2>1, <2>3, <2>4, TypedNext DEF Typed
<1>12. Conserves /\ Accounted' /\ Own'
  BY <1>1, <1>2, <1>9, <1>11, RegroupStep
<1>13. Sized'
  <2>1. PairMost \in Nat /\ MAX_FAT_PER_FDT <= PairMost /\ MAX_FAT_PER_FDT \in Nat
    BY <1>5, PairRoom
  <2>2. AtMost(hs, PairMost)
    BY <1>5, <1>9, <2>1, AtMostMore
  <2>3. AtMost(orphans, MAX_FAT_PER_FDT) /\ \A n : AtMost(<<>>, n)
    BY <1>1, AtMostNone DEF Sized
  <2>4. /\ AtMost(orphans, MAX_FAT_PER_FDT)' /\ AtMost(result_groups, MAX_FAT_PER_FDT)'
        /\ AtMost(made, MAX_FAT_PER_FDT)' /\ AtMost(made, PairMost)' /\ AtMost(result_groups, PairMost)'
    BY <1>2, <1>4, <1>9, <2>2, <2>3 DEF AtMost, MAX_FAT_PER_FDT
  <2> QED
    BY <1>3, <2>4 DEF Sized
<1>14. BoxOpen' /\ Locked' /\ EndsTakeNothing' /\ Planted'
  BY <1>1, <1>2, <1>3 DEF BoxOpen, Locked, EndsTakeNothing, Planted, Joining
<1>15. Combined'
  <2>1. all_fat_road_ids' = {} /\ orphans' = <<>>
    BY <1>1, <1>2 DEF Combined, Joining, Walking
  <2>2. \A f : InAll(<<>>, f) = 0
    BY AllNone
  <2>3. \A f : HeldBy(hs, DOMAIN hs, f) = InAll(hs, f) /\ InAll(hs, f) \in Nat
    BY <1>5, <1>9, <1>10, HeldEnds, HeldSum, ZenonT(30)
  <2>4. \A f : HeldBy(hs, Underfilled(hs), f) \in Nat
    BY <1>5, <1>9, <1>10, AllChosen
  <2>5. ASSUME NEW f \in FATs PROVE Combining(f)'
    <3>1. /\ InAll(made, f)' = 0 /\ InAll(result_groups, f)' = InAll(hs, f)
          /\ HeldBy(result_groups, Underfilled(result_groups), f)' = HeldBy(hs, Underfilled(hs), f)
      BY <1>2, <2>2 DEF InAll, HeldBy, Count, Underfilled, MIN_FAT_PER_FDT
    <3>2. /\ pass' = "recalibrate" => HeldBy(result_groups, todo, f)' = HeldBy(hs, Underfilled(hs), f)
          /\ pass' = "pair" => HeldBy(result_groups, todo, f)' = HeldBy(hs, DOMAIN hs, f)
      BY <1>2, <1>3 DEF HeldBy, Count
    <3>3. Joining' => pass' = "recalibrate"
      BY <1>3 DEF Joining
    <3>4. HeldBy(hs, Underfilled(hs), f) \in Nat /\ HeldBy(hs, DOMAIN hs, f) = InAll(hs, f) /\ InAll(hs, f) \in Nat
      BY <2>3, <2>4
    <3> QED
      BY <3>1, <3>2, <3>3, <3>4 DEF Combining
  <2>6. Joining' => todo' \subseteq Underfilled(result_groups)'
    BY <1>2, <1>3 DEF Joining, Underfilled, MIN_FAT_PER_FDT
  <2>7. pass' = "pair" => todo' \subseteq DOMAIN (result_groups')
    BY <1>2, <1>3
  <2>8. pass' \notin Walking
    BY <1>3 DEF Walking
  <2> QED
    BY <1>4, <2>1, <2>5, <2>6, <2>7, <2>8 DEF Combined
<1> QED
  BY <1>11, <1>12, <1>13, <1>14, <1>15 DEF GroupInv

-----------------------------------------------------------------------------
(* There is a smallest group. *)
LEMMA SmallestExists ==
  ASSUME NEW S \in SUBSET Nat, S # {}, \A i \in S : Size(i) \in Nat
  PROVE  SmallestOf(S) \in S
<1> DEFINE sizes == {Size(i) : i \in S}
           least == LowestId(sizes)
           T == {i \in S : Size(i) = least}
           x == LowestId(T)
<1>1. least \in sizes /\ \A n \in sizes : least <= n
  <2>1. sizes \in SUBSET Nat /\ sizes # {}
    OBVIOUS
  <2> HIDE DEF sizes
  <2> QED
    BY <2>1, Lowest
<1>2. x \in T /\ \A j \in T : x <= j
  <2>1. T \in SUBSET Nat /\ T # {}
    BY <1>1
  <2> HIDE DEF T
  <2> QED
    BY <2>1, Lowest
<1>3. least \in Nat /\ x \in S /\ Size(x) = least
  BY <1>1, <1>2
<1>4. ASSUME NEW j \in S PROVE Size(x) < Size(j) \/ (Size(x) = Size(j) /\ x <= j)
  <2>1. Size(j) \in Nat /\ least <= Size(j)
    BY <1>1
  <2>2. Size(j) = least => x <= j
    BY <1>2
  <2> HIDE DEF x, least
  <2> QED
    BY <1>3, <2>1, <2>2
<1>5. \E i \in S : \A j \in S : Size(i) < Size(j) \/ (Size(i) = Size(j) /\ i <= j)
  BY <1>3, <1>4
<1> QED
  BY <1>5 DEF SmallestOf

LEMMA StillRemaining ==
  ASSUME NEW gs, ListOf(gs, FatGroups), NEW S \in SUBSET (1..Len(gs)),
         NEW C \in SUBSET S, NEW a \in Nat, NEW b, NEW f, NEW whole,
         a + HeldBy(gs, S, f) = whole, b = a + HeldBy(gs, C, f)
  PROVE  b + HeldBy(gs, S \ C, f) = whole
<1>1. \A T \in SUBSET S :
        /\ HeldBy(gs, S, f) = HeldBy(gs, T, f) + HeldBy(gs, S \ T, f)
        /\ HeldBy(gs, T, f) \in Nat /\ HeldBy(gs, S \ T, f) \in Nat
  BY GroupsCarry, HeldParts
<1> QED
  BY <1>1

LEMMA HeldTwo ==
  ASSUME NEW gs, ListOf(gs, FatGroups), NEW f,
         NEW a \in 1..Len(gs), NEW b \in 1..Len(gs), a # b
  PROVE  HeldBy(gs, {a, b}, f) = Count(f, gs[a].fats) + Count(f, gs[b].fats)
<1>1. {a, b} \in SUBSET (1..Len(gs)) /\ {a} \in SUBSET {a, b} /\ {a, b} \ {a} = {b}
  OBVIOUS
<1>2. HeldBy(gs, {a, b}, f) = HeldBy(gs, {a}, f) + HeldBy(gs, {b}, f)
  <2> DEFINE S == {a, b}
             T == {a}
  <2>1. S \in SUBSET (1..Len(gs)) /\ T \in SUBSET S /\ S \ T = {b}
    BY <1>1
  <2> HIDE DEF S, T
  <2>2. HeldBy(gs, S, f) = HeldBy(gs, T, f) + HeldBy(gs, S \ T, f)
    BY <2>1, GroupsCarry, HeldParts
  <2> QED
    BY <2>1, <2>2 DEF S, T
<1>3. \A i \in 1..Len(gs) : HeldBy(gs, {i}, f) = Count(f, gs[i].fats)
  <2>1. Carry(FatGroups, FATs)
    BY GroupsCarry
  <2> QED
    BY <2>1, HeldEnds, ZenonT(30)
<1> QED
  BY <1>2, <1>3

(* Two groups make one that holds what they held, if both fit into an FDT. *)
LEMMA PairForm ==
  ASSUME Typed, Sized, Combined, Pair
  PROVE  \E C, g :
           /\ made' = Append(made, g) /\ todo' = todo \ C /\ C \subseteq todo
           /\ g \in FatGroups /\ Len(g.fats) <= PairMost
           /\ \A f : Count(f, g.fats) = HeldBy(result_groups, C, f)
<1> DEFINE gs == result_groups
           i == SmallestOf(todo)
           g == gs[i]
<1>1. /\ ListOf(gs, FatGroups) /\ todo \in SUBSET Nat /\ todo # {} /\ pass = "pair" /\ net \in Networks
      /\ Carry(FatGroups, FATs)
  BY GroupsCarry DEF Typed, Pair
<1>2. todo \subseteq 1..Len(gs) /\ DOMAIN gs = 1..Len(gs)
  BY <1>1, Listed DEF Combined
<1>3. \A k \in 1..Len(gs) : gs[k] \in FatGroups /\ ListOf(gs[k].fats, FATs) /\ gs[k].road \in RoadIds
      /\ Len(gs[k].fats) \in Nat
  <2>1. ASSUME NEW k \in 1..Len(gs)
        PROVE  gs[k] \in FatGroups /\ ListOf(gs[k].fats, FATs) /\ gs[k].road \in RoadIds
               /\ Len(gs[k].fats) \in Nat
    <3>1. gs[k] \in FatGroups
      BY <1>1, Listed
    <3>2. ListOf(gs[k].fats, FATs) /\ gs[k].road \in RoadIds
      BY <3>1, GroupsCarry
    <3> QED
      BY <3>1, <3>2, Listed
  <2> QED
    BY <2>1
<1>4. i \in todo
  <2>1. \A k \in todo : Size(k) \in Nat
    BY <1>2, <1>3 DEF Size
  <2> QED
    BY <1>1, <2>1, SmallestExists
<1>5. i \in 1..Len(gs) /\ Size(i) = Len(g.fats) /\ Len(g.fats) <= MAX_FAT_PER_FDT
  BY <1>1, <1>2, <1>4 DEF Size, Sized, AtMost
<1>6. Len(g.fats) <= PairMost
  <2>1. PairMost \in Nat /\ MAX_FAT_PER_FDT <= PairMost /\ MAX_FAT_PER_FDT \in Nat /\ Len(g.fats) \in Nat
    BY <1>1, <1>3, <1>5, PairRoom
  <2> QED
    BY <1>5, <2>1
<1>7. CASE \E j \in todo \ {i} :
             /\ Size(i) + Size(j) <= PairMost
             /\ made' = Append(made, FatGroup(g.fats \o gs[j].fats, g.road))
             /\ todo' = todo \ {i, j}
  <2>1. PICK j \in todo \ {i} :
             /\ Size(i) + Size(j) <= PairMost
             /\ made' = Append(made, FatGroup(g.fats \o gs[j].fats, g.road))
             /\ todo' = todo \ {i, j}
    BY <1>7
  <2> DEFINE h == gs[j]
             both == FatGroup(g.fats \o h.fats, g.road)
  <2>2. j \in 1..Len(gs) /\ j # i /\ Size(j) = Len(h.fats)
    BY <1>2 DEF Size
  <2>3. /\ ListOf(g.fats, FATs) /\ ListOf(h.fats, FATs) /\ g.road \in RoadIds
    BY <1>3, <1>5, <2>2
  <2>4. \A f : HeldBy(gs, {i, j}, f) = Count(f, g.fats) + Count(f, h.fats)
    <3> HIDE DEF gs, i
    <3> QED
      BY <1>1, <1>5, <2>2, HeldTwo
  <2>5. {i, j} \subseteq todo
    BY <1>4
  <2>6. Len(g.fats) + Len(h.fats) <= PairMost
    BY <1>5, <2>1, <2>2
  <2> HIDE DEF g, h
  <2>7. /\ ListOf(g.fats \o h.fats, FATs) /\ Len(g.fats \o h.fats) = Len(g.fats) + Len(h.fats)
        /\ \A f : Count(f, g.fats \o h.fats) = Count(f, g.fats) + Count(f, h.fats)
    BY <2>3, JoinedSeq, CountJoined
  <2>8. both \in FatGroups /\ both.fats = g.fats \o h.fats
    BY <2>3, <2>7, GroupsCarry
  <2>9. made' = Append(made, both) /\ todo' = todo \ {i, j}
    BY <2>1 DEF h
  <2> HIDE DEF both
  <2>10. Len(both.fats) <= PairMost /\ \A f : Count(f, both.fats) = HeldBy(gs, {i, j}, f)
    BY <2>4, <2>6, <2>7, <2>8
  <2> QED
    BY <2>5, <2>8, <2>9, <2>10
<1>8. CASE made' = Append(made, g) /\ todo' = todo \ {i}
  <2>1. g \in FatGroups /\ {i} \subseteq todo
    BY <1>3, <1>4, <1>5
  <2>2. \A f : Count(f, g.fats) = HeldBy(gs, {i}, f)
    <3> HIDE DEF gs, i
    <3> QED
      BY <1>1, <1>5, HeldEnds, ZenonT(30)
  <2> HIDE DEF g
  <2> QED
    BY <1>6, <1>8, <2>1, <2>2
<1>9. (\E j \in todo \ {i} :
             /\ Size(i) + Size(j) <= PairMost
             /\ made' = Append(made, FatGroup(g.fats \o gs[j].fats, g.road))
             /\ todo' = todo \ {i, j})
      \/ (made' = Append(made, g) /\ todo' = todo \ {i})
  BY ZenonT(30) DEF Pair
<1> QED
  BY <1>7, <1>8, <1>9

LEMMA PairStep ==
  ASSUME GroupInv, Pair
  PROVE  GroupInv' /\ Conserves
<1>1. /\ Typed /\ Accounted /\ Own /\ Sized /\ BoxOpen /\ Locked /\ EndsTakeNothing /\ Planted /\ Combined
  BY DEF GroupInv
<1>2. /\ pass = "pair" /\ pass' = pass /\ committed' = committed
      /\ net' = net /\ all_fat_road_ids' = all_fat_road_ids
      /\ fats_by_road' = fats_by_road /\ result_groups' = result_groups
      /\ box' = box /\ inject' = inject /\ orphans' = orphans /\ parent_of' = parent_of
      /\ process_order' = process_order
  BY DEF Pair, forest
<1>3. RoadIds' = RoadIds /\ PairMost' = PairMost /\ FATs' = FATs
  BY <1>2, SameNet
<1>4. PICK C, g :
           /\ made' = Append(made, g) /\ todo' = todo \ C /\ C \subseteq todo
           /\ g \in FatGroups /\ Len(g.fats) <= PairMost
           /\ \A f : Count(f, g.fats) = HeldBy(result_groups, C, f)
  BY <1>1, PairForm
<1>5. /\ ListOf(result_groups, FatGroups) /\ ListOf(made, FatGroups) /\ Carry(FatGroups, FATs)
      /\ todo \in SUBSET Nat
  BY <1>1, GroupsCarry DEF Typed
<1>6. ListOf(made', FatGroups) /\ \A f : InAll(Append(made, g), f) = InAll(made, f) + Count(f, g.fats)
  BY <1>4, <1>5, AllAppended
<1>7. Typed'
  <2>1. todo' \in SUBSET Nat
    BY <1>4, <1>5
  <2> QED
    BY <1>1, <1>2, <1>6, <2>1, TypedNext DEF Typed
<1>8. Conserves /\ Accounted' /\ Own'
  BY <1>1, <1>2, <1>7, QuietStep DEF counted
<1>9. Sized'
  <2>1. AtMost(made, PairMost)
    BY <1>1, <1>2 DEF Sized
  <2>2. AtMost(Append(made, g), PairMost)
    BY <1>4, <1>5, <2>1, AtMostAppended
  <2>3. AtMost(made, PairMost)'
    BY <1>3, <1>4, <2>2 DEF AtMost
  <2> QED
    BY <1>1, <1>2, <1>3, <2>3 DEF Sized, AtMost, Joining
<1>10. BoxOpen' /\ Locked' /\ EndsTakeNothing' /\ Planted'
  BY <1>1, <1>2 DEF BoxOpen, Locked, EndsTakeNothing, Planted
<1>11. Combined'
  <2>1. todo \subseteq DOMAIN result_groups
    BY <1>1, <1>2 DEF Combined
  <2>2. todo \in SUBSET (1..Len(result_groups))
    BY <1>5, <2>1, Listed
  <2>3. ASSUME NEW f \in FATs
        PROVE  InAll(Append(made, g), f) + HeldBy(result_groups, todo \ C, f) = InAll(result_groups, f)
    <3>1. InAll(made, f) + HeldBy(result_groups, todo, f) = InAll(result_groups, f)
      BY <1>1, <1>2 DEF Combined, Combining
    <3> DEFINE gs == result_groups
               S == todo
               whole == InAll(result_groups, f)
               a == InAll(made, f)
               b == InAll(Append(made, g), f)
    <3>2. /\ ListOf(gs, FatGroups) /\ S \in SUBSET (1..Len(gs)) /\ C \in SUBSET S /\ a \in Nat
          /\ a + HeldBy(gs, S, f) = whole /\ b = a + HeldBy(gs, C, f)
      BY <1>4, <1>5, <1>6, <2>2, <3>1, HeldSum
    <3> HIDE DEF gs, S, whole, a, b
    <3>3. b + HeldBy(gs, S \ C, f) = whole
      BY <1>5, <3>2, StillRemaining
    <3> QED
      BY <3>3 DEF gs, S, whole, a, b
  <2>4. \A f \in FATs : Combining(f)'
    <3>1. \A f : /\ InAll(made, f)' = InAll(Append(made, g), f)
                 /\ HeldBy(result_groups, todo, f)' = HeldBy(result_groups, todo \ C, f)
                 /\ InAll(result_groups, f)' = InAll(result_groups, f)
      BY <1>2, <1>4 DEF InAll, HeldBy, Count
    <3>2. ~Joining'
      BY <1>2 DEF Joining
    <3> QED
      BY <2>3, <3>1, <3>2 DEF Combining
  <2>5. ~Joining' /\ pass' \notin Walking /\ pass \notin Walking
    BY <1>2 DEF Joining, Walking
  <2>6. todo' \subseteq DOMAIN (result_groups')
    BY <1>2, <1>4, <2>1
  <2>7. all_fat_road_ids' = {} /\ orphans' = <<>>
    BY <1>1, <1>2, <2>5 DEF Combined
  <2> QED
    BY <1>3, <2>4, <2>5, <2>6, <2>7 DEF Combined
<1> QED
  BY <1>7, <1>8, <1>9, <1>10, <1>11 DEF GroupInv

LEMMA PairDoneStep ==
  ASSUME GroupInv, PairDone
  PROVE  GroupInv' /\ Conserves
<1>1. /\ Typed /\ Accounted /\ Own /\ Sized /\ BoxOpen /\ Locked /\ EndsTakeNothing /\ Planted /\ Combined
  BY DEF GroupInv
<1>2. /\ pass = "pair" /\ pass' = "build" /\ committed' = committed /\ todo = {} /\ todo' = todo
      /\ net' = net /\ all_fat_road_ids' = all_fat_road_ids
      /\ fats_by_road' = fats_by_road /\ result_groups' = made /\ made' = <<>>
      /\ box' = box /\ inject' = inject /\ orphans' = orphans /\ parent_of' = parent_of
      /\ process_order' = process_order
  BY DEF PairDone, forest
<1>3. RoadIds' = RoadIds /\ PairMost' = PairMost /\ FATs' = FATs
  BY <1>2, SameNet
<1>4. /\ ListOf(result_groups, FatGroups) /\ ListOf(made, FatGroups) /\ Carry(FatGroups, FATs)
  BY <1>1, GroupsCarry DEF Typed
<1>5. Typed'
  <2>1. ListOf(<<>>, FatGroups)
    <3>1. Rated(Mark(1, FatGroups), FatGroups)
      BY Marked
    <3> QED
      BY <3>1, SumNone
  <2> QED
    BY <1>1, <1>2, <2>1, TypedNext DEF Typed, Passes
<1>6. \A f \in FATs : InAll(made, f) = InAll(result_groups, f)
  <2>1. ASSUME NEW f \in FATs PROVE InAll(made, f) = InAll(result_groups, f)
    <3>1. InAll(made, f) + HeldBy(result_groups, todo, f) = InAll(result_groups, f)
      BY <1>1, <1>2 DEF Combined, Combining
    <3>2. HeldBy(result_groups, {}, f) = 0 /\ InAll(made, f) \in Nat
      BY <1>4, HeldEnds, HeldSum
    <3> QED
      BY <1>2, <3>1, <3>2
  <2> QED
    BY <2>1
<1>7. Conserves /\ Accounted' /\ Own'
  BY <1>1, <1>2, <1>5, <1>6, RegroupStep
<1>8. Sized'
  <2>1. AtMost(made, PairMost) /\ AtMost(orphans, MAX_FAT_PER_FDT)
    BY <1>1, <1>2 DEF Sized
  <2>2. AtMost(result_groups, PairMost)' /\ AtMost(orphans, MAX_FAT_PER_FDT)'
    BY <1>2, <1>3, <2>1 DEF AtMost, MAX_FAT_PER_FDT
  <2> QED
    BY <1>2, <2>2 DEF Sized, Joining
<1>9. BoxOpen' /\ Locked' /\ EndsTakeNothing' /\ Planted'
  BY <1>1, <1>2 DEF BoxOpen, Locked, EndsTakeNothing, Planted
<1>10. Combined'
  <2>1. all_fat_road_ids' = {} /\ orphans' = <<>> /\ pass' \notin Walking
    BY <1>1, <1>2 DEF Combined, Walking
  <2> QED
    BY <1>2, <2>1 DEF Combined, Combining, Joining, Walking
<1> QED
  BY <1>5, <1>7, <1>8, <1>9, <1>10 DEF GroupInv

LEMMA WalkDoneStep ==
  ASSUME GroupInv, WalkDone
  PROVE  GroupInv' /\ Conserves
<1>1. /\ Typed /\ Accounted /\ Own /\ Sized /\ BoxOpen /\ Locked /\ EndsTakeNothing /\ Planted /\ Combined
  BY DEF GroupInv
<1> DEFINE hs == result_groups \o orphans
<1>2. /\ pass = "walk" /\ pass' = "join" /\ committed' = committed /\ process_order = <<>>
      /\ net' = net /\ all_fat_road_ids' = all_fat_road_ids
      /\ fats_by_road' = fats_by_road /\ result_groups' = hs /\ orphans' = <<>>
      /\ todo' = Underfilled(result_groups')
      /\ box' = box /\ inject' = inject /\ made' = made /\ parent_of' = parent_of
      /\ process_order' = process_order
  BY DEF WalkDone, forest
<1>3. RoadIds' = RoadIds /\ PairMost' = PairMost /\ FATs' = FATs
  BY <1>2, SameNet
<1>4. /\ ListOf(result_groups, FatGroups) /\ ListOf(orphans, FatGroups) /\ Carry(FatGroups, FATs)
      /\ Carry(Hands, FATs)
  BY <1>1, GroupsCarry, HandsCarry DEF Typed
<1>5. /\ ListOf(hs, FatGroups) /\ \A f : InAll(hs, f) = InAll(result_groups, f) + InAll(orphans, f)
  BY <1>4, AllJoined
<1>6. all_fat_road_ids = {} /\ OpenRoads = {}
  <2>1. all_fat_road_ids = ToSet(process_order)
    BY <1>1, <1>2 DEF Planted
  <2> QED
    BY <1>2, <2>1 DEF ToSet, OpenRoads, OpenOf
<1> HIDE DEF hs
<1>7. DOMAIN hs = 1..Len(hs) /\ Len(hs) \in Nat /\ Underfilled(hs) \subseteq DOMAIN hs
  BY <1>5, Listed DEF Underfilled
<1>8. ListOf(<<>>, FatGroups)
  <2>1. Rated(Mark(1, FatGroups), FatGroups)
    BY Marked
  <2> QED
    BY <2>1, SumNone
<1>9. Typed'
  <2>1. todo' \in SUBSET Nat
    BY <1>2, <1>7
  <2>2. ListOf(result_groups', FatGroups) /\ ListOf(orphans', FatGroups) /\ pass' \in Passes
    BY <1>2, <1>5, <1>8 DEF Passes
  <2> QED
    BY <1>1, <1>2, <2>1, <2>2, TypedNext DEF Typed
<1>10. Conserves
  <2>1. ASSUME NEW f \in FATs PROVE Conserved(f)
    <3>1. /\ InAll(result_groups, f) \in Nat /\ Count(f, InBox) \in Nat /\ InBox = BoxList(box)
          /\ InAll(orphans, f) \in Nat /\ OnRoads(OpenRoads, fats_by_road, inject, f) \in Nat
          /\ OnTheRoads(OpenRoads, fats_by_road, inject, FATs, Hands) /\ IsFiniteSet(OpenRoads)
      BY <1>1, Numbers
    <3>2. OnRoads(OpenRoads, fats_by_road, inject, f) = 0
      BY <1>4, <1>6, <3>1, RoadsNumber
    <3>3. /\ InAll(result_groups, f)' = InAll(hs, f) /\ InAll(orphans, f)' = 0
          /\ Count(f, BoxList(box))' = Count(f, BoxList(box))
          /\ OnRoads(OpenRoads, fats_by_road, inject, f)' = OnRoads(OpenRoads, fats_by_road, inject, f)
      <4>1. InAll(<<>>, f) = 0
        BY AllNone
      <4>2. OpenRoads' = OpenRoads /\ BoxList(box)' = BoxList(box)
        BY <1>2 DEF OpenRoads, OpenOf, BoxList
      <4>3. InAll(orphans, f)' = InAll(<<>>, f) /\ InAll(result_groups, f)' = InAll(hs, f)
        BY <1>2 DEF InAll, Count
      <4>4. OnRoads(OpenRoads, fats_by_road, inject, f)' = OnRoads(OpenRoads, fats_by_road, inject, f)
        BY <1>2, <4>2 DEF OnRoads, RoadHolds, InAll, Count
      <4> QED
        BY <4>1, <4>2, <4>3, <4>4 DEF Count
    <3>4. /\ Given(f) = InAll(result_groups, f) + Count(f, BoxList(box))
          /\ Left(f) = InAll(orphans, f)
          /\ Given(f)' = InAll(hs, f) + Count(f, BoxList(box)) /\ Left(f)' = 0
      BY <3>1, <3>2, <3>3 DEF Given, Left, GivenIn, LeftIn
    <3> QED
      BY <1>5, <3>1, <3>4 DEF Conserved
  <2> QED
    BY <1>2, <2>1 DEF Conserves
<1>11. Accounted'
  BY <1>1, <1>9, <1>10, StillAccounted
<1>12. Own'
  BY <1>1, <1>2, <1>3 DEF Own
<1>13. Sized'
  <2>1. AtMost(hs, MAX_FAT_PER_FDT)
    <3>1. AtMost(result_groups, MAX_FAT_PER_FDT) /\ AtMost(orphans, MAX_FAT_PER_FDT)
      BY <1>1, <1>2 DEF Sized
    <3> QED
      BY <1>4, <3>1, AtMostJoined DEF hs
  <2>2. made = <<>>
    BY <1>1, <1>2 DEF Combined, Walking
  <2>3. /\ AtMost(result_groups, MAX_FAT_PER_FDT)' /\ AtMost(made, MAX_FAT_PER_FDT)'
        /\ AtMost(orphans, MAX_FAT_PER_FDT)'
    BY <1>2, <2>1, <2>2, AtMostNone DEF AtMost, MAX_FAT_PER_FDT
  <2> QED
    BY <1>2, <2>3 DEF Sized
<1>14. BoxOpen' /\ Locked' /\ EndsTakeNothing' /\ Planted'
  BY <1>1, <1>2 DEF BoxOpen, Locked, EndsTakeNothing, Planted
<1>15. Combined'
  <2>1. made = <<>> /\ \A f : InAll(<<>>, f) = 0
    BY <1>1, <1>2, AllNone DEF Combined, Walking
  <2>2. \A f : HeldBy(hs, Underfilled(hs), f) \in Nat
    BY <1>4, <1>5, <1>7, AllChosen
  <2>3. ASSUME NEW f \in FATs PROVE Combining(f)'
    <3>1. /\ InAll(made, f)' = 0
          /\ HeldBy(result_groups, Underfilled(result_groups), f)' = HeldBy(hs, Underfilled(hs), f)
          /\ HeldBy(result_groups, todo, f)' = HeldBy(hs, Underfilled(hs), f)
      BY <1>2, <2>1 DEF InAll, HeldBy, Count, Underfilled, MIN_FAT_PER_FDT
    <3> QED
      BY <1>2, <2>2, <3>1 DEF Combining
  <2>4. todo' \subseteq Underfilled(result_groups)'
    BY <1>2 DEF Underfilled, MIN_FAT_PER_FDT
  <2> QED
    BY <1>2, <1>3, <1>6, <2>3, <2>4 DEF Combined, Walking
<1> QED
  BY <1>9, <1>10, <1>11, <1>12, <1>13, <1>14, <1>15 DEF GroupInv

-----------------------------------------------------------------------------
(* The inner FDTs: what no step among the dead ends touches. *)
LEMMA InnerRest ==
  ASSUME GroupInv, pass = "inner", pass' = "inner", net' = net, made' = made, orphans' = orphans,
         process_order' = process_order, parent_of' = parent_of,
         AtMost(result_groups', MAX_FAT_PER_FDT)
  PROVE  Sized' /\ EndsTakeNothing' /\ Planted' /\ Combined'
<1>1. Sized /\ Planted /\ Combined
  BY DEF GroupInv
<1>2. RoadIds' = RoadIds /\ FATs' = FATs
  BY SameNet
<1>3. Sized'
  BY <1>1 DEF Sized, AtMost, Joining, MAX_FAT_PER_FDT
<1>4. Planted'
  BY <1>1, <1>2 DEF Planted
<1>5. Combined'
  BY <1>1, <1>2 DEF Combined, Combining, Joining, Walking
<1> QED
  BY <1>3, <1>4, <1>5 DEF EndsTakeNothing

LEMMA InnerHolds ==
  ASSUME Locked, pass = "inner", NEW r \in RoadIds, NEW f
  PROVE  RoadHolds(fats_by_road[r], inject[r], f) = Count(f, fats_by_road[r]) + 0
<1>1. inject[r] = <<>> /\ InAll(<<>>, f) = 0
  BY AllNone DEF Locked
<1> QED
  BY <1>1 DEF RoadHolds

(* The dead end looked at. *)
LEMMA LookedAt ==
  ASSUME GroupInv, Visited, Inner(LowestId(todo))
  PROVE  /\ pass = "inner" /\ box = Nil
         /\ LowestId(todo) \in todo /\ LowestId(todo) \in all_fat_road_ids /\ LowestId(todo) \in RoadIds
         /\ ListOf(fats_by_road[LowestId(todo)], FATs)
         /\ Len(fats_by_road[LowestId(todo)]) \in (Wing + 1)..MAX_FAT_PER_FDT
<1>1. Typed /\ Locked /\ pass = "inner" /\ box = Nil /\ todo # {}
  BY DEF GroupInv, Visited
<1>2. todo \in SUBSET Nat /\ todo \subseteq all_fat_road_ids /\ all_fat_road_ids \in SUBSET RoadIds
      /\ Stock(fats_by_road, RoadIds, FATs)
  BY <1>1 DEF Typed, Locked
<1>3. LowestId(todo) \in todo
  BY <1>1, <1>2, Lowest
<1>4. ListOf(fats_by_road[LowestId(todo)], FATs)
  BY <1>2, <1>3, Stocked
<1> QED
  BY <1>1, <1>2, <1>3, <1>4 DEF Inner

LEMMA SelfSufficientStep ==
  ASSUME GroupInv, SelfSufficient
  PROVE  GroupInv' /\ Conserves
<1>1. /\ Typed /\ Accounted /\ Own /\ Sized /\ BoxOpen /\ Locked /\ EndsTakeNothing /\ Planted /\ Combined
  BY DEF GroupInv
<1> DEFINE r == LowestId(todo)
           own == fats_by_road[r]
           g == FatGroup(own, r)
<1>2. /\ pass = "inner" /\ box = Nil /\ pass' = pass /\ r \in todo /\ r \in all_fat_road_ids /\ r \in RoadIds
      /\ ListOf(own, FATs) /\ Len(own) \in (Wing + 1)..MAX_FAT_PER_FDT
  BY LookedAt DEF SelfSufficient
<1>3. /\ net' = net /\ result_groups' = Append(result_groups, g)
      /\ committed' = committed \cup ToSet(own)
      /\ all_fat_road_ids' = all_fat_road_ids \ {r} /\ todo' = todo \ {r}
      /\ fats_by_road' = fats_by_road /\ box' = box /\ inject' = inject /\ orphans' = orphans
      /\ parent_of' = parent_of /\ process_order' = process_order /\ made' = made
  BY DEF SelfSufficient, forest
<1> HIDE DEF r
<1>4. RoadIds' = RoadIds /\ FATs' = FATs
  BY <1>3, SameNet
<1>5. /\ g \in FatGroups /\ g.fats = own /\ Carry(FatGroups, FATs) /\ Carry(Hands, FATs)
  BY <1>2, GroupsCarry, HandsCarry
<1>6. ListOf(result_groups, FatGroups) /\ AtMost(result_groups, MAX_FAT_PER_FDT)
  BY <1>1, <1>2 DEF Typed, Sized
<1> HIDE DEF g, own
<1>7. /\ ListOf(Append(result_groups, g), FatGroups)
      /\ \A f : InAll(Append(result_groups, g), f) = InAll(result_groups, f) + Count(f, own)
  BY <1>5, <1>6, AllAppended
<1>8. AtMost(Append(result_groups, g), MAX_FAT_PER_FDT)
  <2>1. Len(g.fats) <= MAX_FAT_PER_FDT
    BY <1>2, <1>5, WingBounds
  <2> QED
    BY <1>5, <1>6, <2>1, AtMostAppended
<1>9. ToSet(own) \in SUBSET FATs
  BY <1>2, Listed DEF ToSet
<1>10. Typed'
  <2>1. committed' \in SUBSET FATs /\ all_fat_road_ids' \in SUBSET RoadIds /\ todo' \in SUBSET Nat
    BY <1>1, <1>3, <1>9 DEF Typed
  <2>2. ListOf(result_groups', FatGroups)
    BY <1>3, <1>7
  <2> QED
    BY <1>1, <1>2, <1>3, <2>1, <2>2, TypedNext DEF Typed
<1>11. ASSUME NEW f \in FATs PROVE Conserved(f)
  <2>1. /\ Given(f) \in Nat /\ Left(f) \in Nat /\ InAll(result_groups, f) \in Nat /\ Count(f, InBox) \in Nat
        /\ InAll(orphans, f) \in Nat /\ OnRoads(OpenRoads, fats_by_road, inject, f) \in Nat
        /\ OnTheRoads(OpenRoads, fats_by_road, inject, FATs, Hands) /\ IsFiniteSet(OpenRoads)
        /\ InBox = BoxList(box)
    BY <1>1, Numbers
  <2>2. OpenRoads = all_fat_road_ids /\ OpenRoads' = all_fat_road_ids \ {r}
    BY <1>2, <1>3 DEF OpenRoads, OpenOf
  <2> DEFINE S == all_fat_road_ids
             rest == OnRoads(S \ {r}, fats_by_road, inject, f)
  <2>3. /\ OnRoads(S, fats_by_road, inject, f) = RoadHolds(own, inject[r], f) + rest
        /\ RoadHolds(own, inject[r], f) \in Nat /\ rest \in Nat
    <3>1. r \in S /\ OnTheRoads(S, fats_by_road, inject, FATs, Hands) /\ IsFiniteSet(S)
      BY <1>2, <2>1, <2>2
    <3> HIDE DEF S
    <3> QED
      BY <1>5, <3>1, RoadAlone DEF own
  <2>4. RoadHolds(own, inject[r], f) = Count(f, own)
    <3>1. Count(f, own) \in Nat
      BY <1>2, Counted
    <3> QED
      BY <1>1, <1>2, <3>1, InnerHolds DEF own
  <2>5. /\ InAll(result_groups, f)' = InAll(result_groups, f) + Count(f, own)
        /\ InAll(orphans, f)' = InAll(orphans, f)
        /\ Count(f, BoxList(box))' = Count(f, BoxList(box))
        /\ OnRoads(OpenRoads, fats_by_road, inject, f)' = rest
    <3>1. InAll(result_groups, f)' = InAll(Append(result_groups, g), f) /\ InAll(orphans, f)' = InAll(orphans, f)
      BY <1>3 DEF InAll, Count
    <3>2. BoxList(box)' = BoxList(box)
      BY <1>3 DEF BoxList
    <3>3. OnRoads(OpenRoads, fats_by_road, inject, f)' = rest
      BY <1>3, <2>2 DEF OnRoads, RoadHolds, InAll, Count
    <3> QED
      BY <1>7, <3>1, <3>2, <3>3 DEF Count
  <2> HIDE DEF rest, S
  <2>6. /\ Given(f) = InAll(result_groups, f) + Count(f, BoxList(box))
        /\ Left(f) = InAll(orphans, f) + OnRoads(S, fats_by_road, inject, f)
        /\ Given(f)' = (InAll(result_groups, f) + Count(f, own)) + Count(f, BoxList(box))
        /\ Left(f)' = InAll(orphans, f) + rest
    BY <2>2, <2>5 DEF Given, Left, GivenIn, LeftIn, S
  <2>7. Count(f, own) \in Nat /\ Count(f, BoxList(box)) \in Nat
    BY <2>1, <2>3, <2>4
  <2>8. Given(f)' + Left(f)' = Given(f) + Left(f) /\ Left(f)' <= Left(f)
    BY <2>1, <2>3, <2>4, <2>6, <2>7
  <2> QED
    BY <2>8 DEF Conserved
<1>12. Conserves /\ Accounted'
  <2>1. Conserves
    BY <1>3, <1>11 DEF Conserves
  <2> QED
    BY <1>1, <1>10, <2>1, StillAccounted
<1>13. Own'
  BY <1>1, <1>3, <1>4 DEF Own
<1>14. Sized' /\ EndsTakeNothing' /\ Planted' /\ Combined'
  BY <1>2, <1>3, <1>8, InnerRest
<1>15. BoxOpen'
  BY <1>2, <1>3 DEF BoxOpen
<1>16. Locked'
  <2>1. /\ todo \subseteq all_fat_road_ids /\ orphans = <<>> /\ \A x \in RoadIds : inject[x] = <<>>
        /\ \A x \in RoadIds : \A f \in ToSet(fats_by_road[x]) :
             f \in committed \/ f \in ToSet(InBox) \/ InAll(result_groups, f) = 0
    BY <1>1, <1>2 DEF Locked
  <2>2. ASSUME NEW x \in RoadIds, NEW f \in ToSet(fats_by_road[x])
        PROVE  f \in committed' \/ InAll(Append(result_groups, g), f) = 0
    <3>1. f \in committed \/ InAll(result_groups, f) = 0
      BY <1>2, <2>1 DEF InBox, ToSet
    <3>2. f \notin ToSet(own) => Count(f, own) = 0
      BY <1>2, CountSome
    <3> QED
      BY <1>3, <1>7, <3>1, <3>2
  <2>3. \A f : InAll(result_groups, f)' = InAll(Append(result_groups, g), f)
    BY <1>3 DEF InAll, Count
  <2>4. todo' \subseteq all_fat_road_ids'
    BY <1>3, <2>1
  <2> QED
    BY <1>2, <1>3, <1>4, <2>1, <2>2, <2>3, <2>4 DEF Locked
<1> QED
  BY <1>10, <1>12, <1>13, <1>14, <1>15, <1>16 DEF GroupInv

-----------------------------------------------------------------------------
LEMMA EmptyList == \A A : ListOf(<<>>, A)
<1>1. ASSUME NEW A PROVE ListOf(<<>>, A)
  <2>1. Rated(Mark(1, A), A)
    BY Marked
  <2> QED
    BY <2>1, SumNone
<1> QED
  BY <1>1

LEMMA WiderList ==
  ASSUME NEW A, NEW B, A \subseteq B, NEW s, ListOf(s, A)
  PROVE  ListOf(s, B)
BY DEF ListOf

(* A dead end is not Nil. *)
LEMMA NilApart ==
  ASSUME net \in Networks, NEW b \in Boxes(RoadIds, FATs)
  PROVE  b # Nil
<1>1. FATs \subseteq Nat \X Nat
  <2>1. ASSUME NEW f \in FATs PROVE f \in Nat \X Nat
    <3>1. f = <<f[1], f[2]>> /\ f[1] \in Nat /\ f[2] \in Nat
      BY Nets
    <3> QED
      BY <3>1
  <2> QED
    BY <2>1
<1> DEFINE N == Nat \X Nat
<1>2. /\ b.road \in RoadIds /\ ListOf(b.own, FATs) /\ ListOf(b.borrowed, FATs) /\ b.last \in FATs
      /\ b.slots \in 0..Wing
      /\ b = [road |-> b.road, own |-> b.own, borrowed |-> b.borrowed, last |-> b.last, slots |-> b.slots]
  BY DEF Boxes, ListOf
<1>3. RoadIds \in SUBSET Nat /\ Wing \in Nat
  BY Nets, WingAssumption
<1> HIDE DEF N
<1>4. FATs \subseteq N
  BY <1>1 DEF N
<1>5. ListOf(b.own, N) /\ ListOf(b.borrowed, N) /\ b.last \in N
  BY <1>2, <1>4, WiderList
<1>6. b.road \in Nat /\ b.slots \in Nat /\ b.own \in Seq(N) /\ b.borrowed \in Seq(N)
  BY <1>2, <1>3, <1>5 DEF ListOf
<1>7. b \in [road : Nat, own : Seq(N), borrowed : Seq(N), last : N, slots : Nat]
  BY <1>2, <1>5, <1>6
<1> QED
  BY <1>7, NilAssumption DEF N

(* A dead end is opened: its FATs come first, and loans may follow. *)
LEMMA OpenBoxStep ==
  ASSUME GroupInv, OpenBox
  PROVE  GroupInv' /\ Conserves
<1>1. /\ Typed /\ Accounted /\ Own /\ Sized /\ BoxOpen /\ Locked /\ EndsTakeNothing /\ Planted /\ Combined
  BY DEF GroupInv
<1> DEFINE r == LowestId(todo)
           own == fats_by_road[r]
<1>2. /\ pass = "inner" /\ box = Nil /\ pass' = pass /\ r \in todo /\ r \in all_fat_road_ids /\ r \in RoadIds
      /\ ListOf(own, FATs) /\ Len(own) \in (Wing + 1)..MAX_FAT_PER_FDT
  BY LookedAt DEF OpenBox
<1>3. PICK last \in {own[1], own[Len(own)]} :
        box' = [road |-> r, own |-> own, borrowed |-> <<>>, last |-> last,
                slots |-> Wing - (Len(own) - Wing)]
  BY DEF OpenBox
<1>4. /\ net' = net /\ result_groups' = result_groups /\ committed' = committed
      /\ all_fat_road_ids' = all_fat_road_ids /\ todo' = todo
      /\ fats_by_road' = fats_by_road /\ inject' = inject /\ orphans' = orphans
      /\ parent_of' = parent_of /\ process_order' = process_order /\ made' = made
  BY DEF OpenBox, forest
<1> HIDE DEF r, own
<1>5. RoadIds' = RoadIds /\ FATs' = FATs
  BY <1>4, SameNet
<1>6. /\ Wing \in Nat /\ MAX_FAT_PER_FDT = 2 * Wing /\ Len(own) \in Nat
      /\ 1 \in 1..Len(own) /\ Len(own) \in 1..Len(own) /\ Wing - (Len(own) - Wing) \in 0..Wing
      /\ Len(own) + 0 + (Wing - (Len(own) - Wing)) = MAX_FAT_PER_FDT
  BY <1>2, WingBounds
<1>7. last \in FATs
  BY <1>2, <1>6, Listed
<1>8. ListOf(<<>>, FATs) /\ Len(<<>>) = 0
  BY EmptyList
<1> DEFINE b == box'
<1>9. /\ b.road = r /\ b.own = own /\ b.borrowed = <<>> /\ b.slots = Wing - (Len(own) - Wing)
      /\ b \in Boxes(RoadIds, FATs)
  BY <1>2, <1>3, <1>6, <1>7, <1>8 DEF Boxes, ListOf
<1>10. b # Nil
  <2>1. net \in Networks
    BY <1>1 DEF Typed
  <2> HIDE DEF b
  <2> QED
    BY <1>9, <2>1, NilApart
<1>11. BoxList(b) = own \o <<>> /\ OpenRoads' = all_fat_road_ids \ {r} /\ InBox' = own \o <<>>
       /\ OpenRoads = all_fat_road_ids
  BY <1>2, <1>4, <1>9, <1>10 DEF BoxList, OpenRoads, OpenOf, InBox
<1>12. ListOf(own \o <<>>, FATs) /\ \A f : Count(f, own \o <<>>) = Count(f, own)
  <2>1. \A f : Count(f, own \o <<>>) = Count(f, own) + Count(f, <<>>)
    <3> DEFINE e == <<>>
    <3>1. ListOf(own, FATs) /\ ListOf(e, FATs)
      BY <1>2, <1>8
    <3> HIDE DEF e
    <3>2. \A f : Count(f, own \o e) = Count(f, own) + Count(f, e)
      BY <3>1, CountJoined
    <3> QED
      BY <3>2 DEF e
  <2>2. \A f : Count(f, <<>>) = 0 /\ Count(f, own) \in Nat
    BY <1>2, CountNone, Counted
  <2> QED
    BY <1>2, <1>8, <2>1, <2>2, JoinedSeq
<1>13. Typed'
  <2>1. HasBox(box', RoadIds, FATs)
    BY <1>9 DEF HasBox
  <2> QED
    BY <1>1, <1>2, <1>4, <2>1, TypedNext DEF Typed
<1>14. ASSUME NEW f \in FATs PROVE Conserved(f)
  <2>1. /\ InAll(result_groups, f) \in Nat
        /\ InAll(orphans, f) \in Nat
        /\ OnTheRoads(OpenRoads, fats_by_road, inject, FATs, Hands) /\ IsFiniteSet(OpenRoads)
    BY <1>1, Numbers
  <2> DEFINE S == all_fat_road_ids
             rest == OnRoads(S \ {r}, fats_by_road, inject, f)
  <2>2. /\ OnRoads(S, fats_by_road, inject, f) = RoadHolds(own, inject[r], f) + rest
        /\ RoadHolds(own, inject[r], f) \in Nat /\ rest \in Nat
    <3>1. r \in S /\ OnTheRoads(S, fats_by_road, inject, FATs, Hands) /\ IsFiniteSet(S)
      BY <1>2, <1>11, <2>1
    <3>2. Carry(Hands, FATs)
      BY HandsCarry
    <3> HIDE DEF S
    <3> QED
      BY <3>1, <3>2, RoadAlone DEF own
  <2>3. Count(f, own) \in Nat /\ RoadHolds(own, inject[r], f) = Count(f, own)
    <3>1. Count(f, own) \in Nat
      BY <1>2, Counted
    <3> QED
      BY <1>1, <1>2, <3>1, InnerHolds DEF own
  <2>4. /\ InAll(result_groups, f)' = InAll(result_groups, f)
        /\ InAll(orphans, f)' = InAll(orphans, f)
        /\ Count(f, BoxList(box))' = Count(f, own)
        /\ OnRoads(OpenRoads, fats_by_road, inject, f)' = rest
    <3>1. InAll(result_groups, f)' = InAll(result_groups, f) /\ InAll(orphans, f)' = InAll(orphans, f)
      BY <1>4 DEF InAll, Count
    <3>2. BoxList(box)' = own \o <<>>
      BY <1>11 DEF BoxList
    <3>3. Count(f, BoxList(box))' = Count(f, own \o <<>>)
      BY <3>2 DEF Count
    <3>4. OnRoads(OpenRoads, fats_by_road, inject, f)' = rest
      BY <1>4, <1>11 DEF OnRoads, RoadHolds, InAll, Count
    <3> QED
      BY <1>12, <3>1, <3>3, <3>4
  <2>5. Count(f, BoxList(box)) = 0
    BY <1>2, CountNone DEF BoxList
  <2> HIDE DEF rest, S
  <2>6. /\ Given(f) = InAll(result_groups, f) + 0
        /\ Left(f) = InAll(orphans, f) + (Count(f, own) + rest)
        /\ Given(f)' = InAll(result_groups, f) + Count(f, own)
        /\ Left(f)' = InAll(orphans, f) + rest
    BY <1>11, <2>2, <2>3, <2>4, <2>5 DEF Given, Left, GivenIn, LeftIn, S
  <2>7. Given(f)' + Left(f)' = Given(f) + Left(f) /\ Left(f)' <= Left(f)
    BY <2>1, <2>2, <2>3, <2>6
  <2> QED
    BY <2>7 DEF Conserved
<1>15. Conserves /\ Accounted'
  <2>1. Conserves
    BY <1>4, <1>14 DEF Conserves
  <2> QED
    BY <1>1, <1>13, <2>1, StillAccounted
<1>16. Own'
  BY <1>1, <1>4, <1>5 DEF Own
<1>17. Sized' /\ EndsTakeNothing' /\ Planted' /\ Combined'
  <2>1. AtMost(result_groups', MAX_FAT_PER_FDT)
    BY <1>1, <1>2, <1>4 DEF Sized
  <2> QED
    BY <1>2, <1>4, <2>1, InnerRest
<1>18. BoxOpen'
  <2>1. Len(b.own) + Len(b.borrowed) + b.slots = MAX_FAT_PER_FDT
    BY <1>6, <1>8, <1>9
  <2> QED
    BY <1>2, <1>4, <1>9, <2>1 DEF BoxOpen, MAX_FAT_PER_FDT
<1>19. Locked'
  <2>1. /\ todo \subseteq all_fat_road_ids /\ orphans = <<>> /\ \A x \in RoadIds : inject[x] = <<>>
        /\ \A x \in RoadIds : \A f \in ToSet(fats_by_road[x]) :
             f \in committed \/ f \in ToSet(InBox) \/ InAll(result_groups, f) = 0
    BY <1>1, <1>2 DEF Locked
  <2>2. \A x \in RoadIds : \A f \in ToSet(fats_by_road[x]) :
          f \in committed \/ InAll(result_groups, f) = 0
    BY <1>2, <2>1 DEF InBox, ToSet
  <2>3. \A f : InAll(result_groups, f)' = InAll(result_groups, f)
    BY <1>4 DEF InAll, Count
  <2> QED
    BY <1>2, <1>4, <1>5, <2>1, <2>2, <2>3 DEF Locked
<1> QED
  BY <1>13, <1>15, <1>16, <1>17, <1>18, <1>19 DEF GroupInv

(* The dead end closes: its own FATs and those it borrowed are a group. *)
LEMMA CloseBoxStep ==
  ASSUME GroupInv, CloseBox
  PROVE  GroupInv' /\ Conserves
<1>1. /\ Typed /\ Accounted /\ Own /\ Sized /\ BoxOpen /\ Locked /\ EndsTakeNothing /\ Planted /\ Combined
  BY DEF GroupInv
<1> DEFINE r == box.road
           fats1 == box.own \o box.borrowed
           g == FatGroup(fats1, r)
<1>2. /\ box # Nil /\ net' = net /\ pass' = pass /\ result_groups' = Append(result_groups, g)
      /\ committed' = committed \cup ToSet(fats1)
      /\ all_fat_road_ids' = all_fat_road_ids \ {r} /\ todo' = todo \ {r} /\ box' = Nil
      /\ fats_by_road' = fats_by_road /\ inject' = inject /\ orphans' = orphans
      /\ parent_of' = parent_of /\ process_order' = process_order /\ made' = made
  BY DEF CloseBox, forest
<1>3. /\ pass = "inner" /\ r \in todo
      /\ Len(box.own) + Len(box.borrowed) + box.slots = MAX_FAT_PER_FDT
  BY <1>1, <1>2 DEF BoxOpen
<1>4. /\ r \in RoadIds /\ ListOf(box.own, FATs) /\ ListOf(box.borrowed, FATs) /\ box.slots \in 0..Wing
  BY <1>1, <1>2, Boxed DEF Typed
<1>5. ListOf(fats1, FATs) /\ Len(fats1) <= MAX_FAT_PER_FDT
  <2>1. ListOf(fats1, FATs) /\ Len(fats1) = Len(box.own) + Len(box.borrowed)
    BY <1>4, JoinedSeq
  <2>2. Len(box.own) \in Nat /\ Len(box.borrowed) \in Nat /\ box.slots \in Nat
    BY <1>4, Listed, WingAssumption
  <2> DEFINE a == Len(box.own)
             b == Len(box.borrowed)
             c == box.slots
             n == Len(fats1)
             m == MAX_FAT_PER_FDT
  <2>3. a \in Nat /\ b \in Nat /\ c \in Nat /\ n = a + b /\ a + b + c = m
    BY <1>3, <2>1, <2>2
  <2> HIDE DEF a, b, c, n, m
  <2>4. n <= m
    BY <2>3
  <2> QED
    BY <2>1, <2>4 DEF n, m
<1>6. InBox = fats1 /\ BoxList(box) = fats1 /\ OpenRoads = all_fat_road_ids \ {r}
      /\ OpenRoads' = all_fat_road_ids \ {r} /\ BoxList(box)' = <<>> /\ InBox' = <<>>
  BY <1>2 DEF InBox, BoxList, OpenRoads, OpenOf
<1> HIDE DEF r, fats1
<1>7. RoadIds' = RoadIds /\ FATs' = FATs
  BY <1>2, SameNet
<1>8. /\ g \in FatGroups /\ g.fats = fats1 /\ Carry(FatGroups, FATs)
  BY <1>4, <1>5, GroupsCarry DEF r
<1>9. ListOf(result_groups, FatGroups) /\ AtMost(result_groups, MAX_FAT_PER_FDT)
  BY <1>1, <1>3 DEF Typed, Sized
<1> HIDE DEF g
<1>10. /\ ListOf(Append(result_groups, g), FatGroups)
       /\ \A f : InAll(Append(result_groups, g), f) = InAll(result_groups, f) + Count(f, fats1)
  BY <1>8, <1>9, AllAppended
<1>11. AtMost(Append(result_groups, g), MAX_FAT_PER_FDT)
  BY <1>5, <1>8, <1>9, AtMostAppended
<1>12. ToSet(fats1) \in SUBSET FATs
  BY <1>5, Listed DEF ToSet
<1>13. Typed'
  <2>1. committed' \in SUBSET FATs /\ all_fat_road_ids' \in SUBSET RoadIds /\ todo' \in SUBSET Nat
    BY <1>1, <1>2, <1>12 DEF Typed
  <2>2. ListOf(result_groups', FatGroups) /\ HasBox(box', RoadIds, FATs)
    BY <1>2, <1>10 DEF HasBox
  <2> QED
    BY <1>1, <1>2, <2>1, <2>2, TypedNext DEF Typed
<1>14. ASSUME NEW f \in FATs PROVE Conserved(f)
  <2>1. /\ InAll(result_groups, f) \in Nat /\ Count(f, InBox) \in Nat /\ Left(f) \in Nat
    BY <1>1, Numbers
  <2>2. /\ InAll(result_groups, f)' = InAll(result_groups, f) + Count(f, fats1)
        /\ Count(f, BoxList(box))' = 0 /\ Left(f)' = Left(f)
    <3>1. InAll(result_groups, f)' = InAll(Append(result_groups, g), f) /\ InAll(orphans, f)' = InAll(orphans, f)
      BY <1>2 DEF InAll, Count
    <3>2. Count(f, BoxList(box))' = Count(f, <<>>)
      BY <1>6 DEF Count
    <3>3. OnRoads(OpenRoads, fats_by_road, inject, f)' = OnRoads(OpenRoads, fats_by_road, inject, f)
      BY <1>2, <1>6 DEF OnRoads, RoadHolds, InAll, Count
    <3> QED
      BY <1>10, <3>1, <3>2, <3>3, CountNone DEF Left, LeftIn
  <2>3. /\ Given(f) = InAll(result_groups, f) + Count(f, fats1)
        /\ Given(f)' = (InAll(result_groups, f) + Count(f, fats1)) + 0
    BY <1>6, <2>2 DEF Given, GivenIn
  <2>4. Given(f)' + Left(f)' = Given(f) + Left(f) /\ Left(f)' <= Left(f)
    BY <1>6, <2>1, <2>2, <2>3
  <2> QED
    BY <2>4 DEF Conserved
<1>15. Conserves /\ Accounted'
  <2>1. Conserves
    BY <1>2, <1>14 DEF Conserves
  <2> QED
    BY <1>1, <1>13, <2>1, StillAccounted
<1>16. Own'
  BY <1>1, <1>2, <1>7 DEF Own
<1>17. Sized' /\ EndsTakeNothing' /\ Planted' /\ Combined'
  BY <1>2, <1>3, <1>11, InnerRest
<1>18. BoxOpen'
  BY <1>2 DEF BoxOpen
<1>19. Locked'
  <2>1. /\ todo \subseteq all_fat_road_ids /\ orphans = <<>> /\ \A x \in RoadIds : inject[x] = <<>>
        /\ \A x \in RoadIds : \A f \in ToSet(fats_by_road[x]) :
             f \in committed \/ f \in ToSet(InBox) \/ InAll(result_groups, f) = 0
    BY <1>1, <1>3 DEF Locked
  <2>2. ASSUME NEW x \in RoadIds, NEW f \in ToSet(fats_by_road[x])
        PROVE  f \in committed' \/ InAll(Append(result_groups, g), f) = 0
    <3>1. f \in committed \/ f \in ToSet(fats1) \/ InAll(result_groups, f) = 0
      BY <1>6, <2>1
    <3>2. f \notin ToSet(fats1) => Count(f, fats1) = 0
      BY <1>5, CountSome
    <3> QED
      BY <1>2, <1>10, <3>1, <3>2
  <2>3. \A f : InAll(result_groups, f)' = InAll(Append(result_groups, g), f)
    BY <1>2 DEF InAll, Count
  <2>4. todo' \subseteq all_fat_road_ids'
    BY <1>2, <2>1
  <2> QED
    BY <1>2, <1>7, <2>1, <2>2, <2>3, <2>4 DEF Locked
<1> QED
  BY <1>13, <1>15, <1>16, <1>17, <1>18, <1>19 DEF GroupInv

-----------------------------------------------------------------------------
(* What the roads hold when a FAT is taken from them. *)
LEMMA TakenAway ==
  ASSUME Typed, Own, NEW x \in FATs
  PROVE  /\ Stock(RoadsWithout(x), RoadIds, FATs)
         /\ \A r \in RoadIds : \A f : Count(f, RoadsWithout(x)[r]) =
                                        IF f = x THEN 0 ELSE Count(f, fats_by_road[r])
         /\ \A r \in RoadIds : \A f \in ToSet(RoadsWithout(x)[r]) : f \in ToSet(fats_by_road[r]) /\ f # x
<1> DEFINE q == x[1]
           s == fats_by_road[q]
           S == {k \in DOMAIN s : s[k] # x}
           t == Chosen(s, S)
<1>1. /\ net \in Networks /\ Stock(fats_by_road, RoadIds, FATs)
  BY DEF Typed
<1>2. q \in RoadIds
  BY <1>1, Nets
<1>3. ListOf(s, FATs) /\ \A r \in RoadIds : ListOf(fats_by_road[r], FATs)
  BY <1>1, <1>2, Stocked
<1>4. DOMAIN s = 1..Len(s) /\ Len(s) \in Nat /\ S \in SUBSET (1..Len(s))
  <2> HIDE DEF s
  <2> QED
    BY <1>3, Listed
<1>5. /\ ListOf(t, FATs)
      /\ \A f : Count(f, t) = Cardinality({i \in S : s[i] = f})
      /\ \A f : Count(f, s) = Cardinality({i \in 1..Len(s) : s[i] = f})
  <2> HIDE DEF s, S
  <2>1. ListOf(t, FATs)
    BY <1>3, <1>4, ChosenList
  <2>2. \A f : Count(f, t) = Cardinality({i \in S : s[i] = f})
    BY <1>3, <1>4, CountChosen
  <2>3. \A f : Count(f, s) = Cardinality({i \in 1..Len(s) : s[i] = f})
    BY <1>3, CountPlaces, ZenonT(30)
  <2> QED
    BY <2>1, <2>2, <2>3
<1>6. ASSUME NEW f PROVE Count(f, t) = IF f = x THEN 0 ELSE Count(f, s)
  <2>1. CASE f = x
    <3>1. {i \in S : s[i] = f} = {}
      BY <2>1
    <3> QED
      BY <1>5, <2>1, <3>1, FS_EmptySet
  <2>2. CASE f # x
    <3>1. {i \in S : s[i] = f} = {i \in 1..Len(s) : s[i] = f}
      BY <1>4, <2>2
    <3> QED
      BY <1>5, <2>2, <3>1
  <2> QED
    BY <2>1, <2>2
<1> DEFINE own == fats_by_road
           new == RoadsWithout(x)
<1>7. new = [own EXCEPT ![q] = t]
  BY DEF RoadsWithout
<1> HIDE DEF t, new
<1>8. /\ Stock(new, RoadIds, FATs) /\ new[q] = t /\ \A r \in RoadIds \ {q} : new[r] = own[r]
  <2> HIDE DEF own
  <2>1. Stock(own, RoadIds, FATs)
    BY <1>1 DEF own
  <2>2. \A z \in RoadIds : \A v : ListOf(v, FATs) =>
          /\ Stock([own EXCEPT ![z] = v], RoadIds, FATs) /\ [own EXCEPT ![z] = v][z] = v
          /\ \A r \in RoadIds \ {z} : [own EXCEPT ![z] = v][r] = own[r]
    BY <2>1, Stocked
  <2> HIDE DEF q
  <2>3. q \in RoadIds /\ ListOf(t, FATs)
    BY <1>2, <1>5
  <2>4. /\ Stock([own EXCEPT ![q] = t], RoadIds, FATs) /\ [own EXCEPT ![q] = t][q] = t
        /\ \A r \in RoadIds \ {q} : [own EXCEPT ![q] = t][r] = own[r]
    BY ONLY <2>2, <2>3
  <2> QED
    BY <1>7, <2>4
<1>9. ASSUME NEW r \in RoadIds, NEW f
      PROVE  Count(f, new[r]) = IF f = x THEN 0 ELSE Count(f, own[r])
  <2>1. CASE r = q
    BY <1>6, <1>8, <2>1
  <2>2. CASE r # q
    <3>1. new[r] = own[r]
      BY <1>8, <2>2
    <3>2. x \notin ToSet(own[r])
      BY <2>2 DEF Own
    <3>3. Count(x, own[r]) = 0
      BY <1>3, <3>2, CountSome
    <3> QED
      BY <3>1, <3>3
  <2> QED
    BY <2>1, <2>2
<1>10. ASSUME NEW r \in RoadIds, NEW f \in ToSet(new[r]) PROVE f \in ToSet(own[r]) /\ f # x
  <2>1. ListOf(new[r], FATs)
    BY <1>8, Stocked
  <2>2. Count(f, new[r]) # 0
    <3> DEFINE u == new[r]
    <3> HIDE DEF u
    <3>1. ListOf(u, FATs) /\ f \in ToSet(u)
      BY <1>10, <2>1 DEF u
    <3>2. Count(f, u) # 0
      BY <3>1, CountSome
    <3> QED
      BY <3>2 DEF u
  <2>3. f # x /\ Count(f, own[r]) # 0
    BY <1>9, <2>2
  <2> DEFINE u == own[r]
  <2>4. ListOf(u, FATs) /\ Count(f, u) # 0
    BY <1>3, <2>3
  <2> HIDE DEF u
  <2>5. f \in ToSet(u)
    BY <2>4, CountSome
  <2> QED
    BY <2>3, <2>5 DEF u
<1> QED
  BY <1>8, <1>9, <1>10 DEF new

(* A dead end borrows: one FAT goes from the roads to the groups, and one, the
   same or another, from the groups to the dead end. *)
LEMMA LentStep ==
  ASSUME GroupInv, box # Nil, box.slots > 0, NEW r \in RoadIds, NEW x \in Free(r), NEW y \in FATs,
         net' = net, pass' = pass, todo' = todo, all_fat_road_ids' = all_fat_road_ids,
         inject' = inject, orphans' = orphans, parent_of' = parent_of,
         process_order' = process_order, made' = made,
         Borrows(y), fats_by_road' = RoadsWithout(x),
         ListOf(result_groups', FatGroups), AtMost(result_groups', MAX_FAT_PER_FDT),
         committed' \in SUBSET FATs, \A f \in committed : f \in committed' \/ f = y,
         \A f : InAll(result_groups', f) + (IF f = y THEN 1 ELSE 0)
                  = InAll(result_groups, f) + (IF f = x THEN 1 ELSE 0)
  PROVE  GroupInv' /\ Conserves
<1>1. /\ Typed /\ Accounted /\ Own /\ Sized /\ BoxOpen /\ Locked /\ EndsTakeNothing /\ Planted /\ Combined
  BY DEF GroupInv
<1>2. /\ pass = "inner" /\ box.road \in todo
      /\ Len(box.own) + Len(box.borrowed) + box.slots = MAX_FAT_PER_FDT
  BY <1>1 DEF BoxOpen
<1>3. /\ net \in Networks /\ Stock(fats_by_road, RoadIds, FATs) /\ HasBox(box, RoadIds, FATs)
  BY <1>1 DEF Typed
<1>4. x \in FATs /\ x \in ToSet(fats_by_road[r]) /\ x \notin committed
  <2>1. ListOf(fats_by_road[r], FATs)
    BY <1>3, Stocked
  <2> DEFINE s == fats_by_road[r]
  <2>2. x \in ToSet(s) /\ x \notin committed
    BY DEF Free
  <2> HIDE DEF s
  <2>3. x \in FATs
    BY <2>1, <2>2, Listed DEF ToSet, s
  <2> QED
    BY <2>2, <2>3 DEF s
<1>5. /\ Stock(fats_by_road', RoadIds, FATs)
      /\ \A q \in RoadIds : \A f : Count(f, fats_by_road'[q]) = IF f = x THEN 0 ELSE Count(f, fats_by_road[q])
      /\ \A q \in RoadIds : \A f \in ToSet(fats_by_road'[q]) : f \in ToSet(fats_by_road[q]) /\ f # x
  BY <1>1, <1>4, TakenAway
<1> DEFINE bo == Append(box.borrowed, y)
<1>6. /\ box.road \in RoadIds /\ ListOf(box.own, FATs) /\ ListOf(box.borrowed, FATs)
      /\ box.slots \in 0..Wing /\ box.last \in FATs
      /\ box = [road |-> box.road, own |-> box.own, borrowed |-> box.borrowed, last |-> box.last, slots |-> box.slots]
  BY <1>3, Boxed
<1>7. /\ ListOf(bo, FATs) /\ Len(bo) = Len(box.borrowed) + 1
      /\ \A f : Count(f, bo) = Count(f, box.borrowed) + (IF f = y THEN 1 ELSE 0)
  <2> DEFINE c == box.borrowed
  <2>1. ListOf(c, FATs)
    BY <1>6
  <2> HIDE DEF c
  <2>2. /\ ListOf(Append(c, y), FATs) /\ Len(Append(c, y)) = Len(c) + 1
        /\ \A f : Count(f, Append(c, y)) = Count(f, c) + (IF f = y THEN 1 ELSE 0)
    BY <2>1, CountAppended
  <2> QED
    BY <2>2 DEF c
<1>8. box' = [road |-> box.road, own |-> box.own, borrowed |-> bo, last |-> y, slots |-> box.slots - 1]
  BY <1>6 DEF Borrows
<1> HIDE DEF bo
<1> DEFINE b == box'
<1>9. /\ b.road = box.road /\ b.own = box.own /\ b.borrowed = bo /\ b.slots = box.slots - 1
      /\ b \in Boxes(RoadIds, FATs) /\ Len(box.own) \in Nat /\ Len(box.borrowed) \in Nat
      /\ box.slots \in Nat
  <2>1. box.slots - 1 \in 0..Wing /\ box.slots \in Nat
    BY <1>6, WingAssumption
  <2>2. Len(box.own) \in Nat /\ Len(box.borrowed) \in Nat
    BY <1>6, Listed
  <2> QED
    BY <1>6, <1>7, <1>8, <2>1, <2>2 DEF Boxes, ListOf
<1>10. b # Nil
  <2> HIDE DEF b
  <2> QED
    BY <1>3, <1>9, NilApart
<1>11. /\ BoxList(box) = box.own \o box.borrowed /\ InBox = box.own \o box.borrowed
       /\ BoxList(b) = box.own \o bo /\ InBox' = box.own \o bo /\ OpenRoads' = OpenRoads
  BY <1>9, <1>10 DEF BoxList, InBox, OpenRoads, OpenOf
<1>12. /\ ListOf(InBox, FATs) /\ ListOf(InBox', FATs)
       /\ \A f : Count(f, InBox') = Count(f, InBox) + (IF f = y THEN 1 ELSE 0)
  <2> DEFINE a == box.own
             c == box.borrowed
  <2>1. ListOf(a, FATs) /\ ListOf(c, FATs) /\ ListOf(bo, FATs)
    BY <1>6, <1>7
  <2> HIDE DEF a, c
  <2>2. /\ ListOf(a \o c, FATs) /\ ListOf(a \o bo, FATs)
        /\ \A f : Count(f, a \o c) = Count(f, a) + Count(f, c)
        /\ \A f : Count(f, a \o bo) = Count(f, a) + Count(f, bo)
        /\ \A f : Count(f, a) \in Nat /\ Count(f, c) \in Nat
    BY <2>1, JoinedSeq, CountJoined, Counted
  <2>3. \A f : Count(f, bo) = Count(f, c) + (IF f = y THEN 1 ELSE 0)
    BY <1>7 DEF c
  <2>4. \A f : Count(f, a \o bo) = Count(f, a \o c) + (IF f = y THEN 1 ELSE 0)
    BY <2>2, <2>3
  <2> QED
    BY <1>11, <2>2, <2>4 DEF a, c
<1>13. RoadIds' = RoadIds /\ FATs' = FATs
  BY SameNet
<1>14. Typed'
  <2>1. HasBox(box', RoadIds, FATs)
    BY <1>9 DEF HasBox
  <2> QED
    BY <1>1, <1>2, <1>5, <2>1, TypedNext DEF Typed
<1>15. \A f : InAll(result_groups, f)' = InAll(result_groups', f) /\ InAll(orphans, f)' = InAll(orphans, f)
  BY DEF InAll, Count
<1>16. /\ orphans = <<>> /\ \A q \in RoadIds : inject[q] = <<>>
       /\ \A q \in RoadIds : \A f \in ToSet(fats_by_road[q]) :
             f \in committed \/ f \in ToSet(InBox) \/ InAll(result_groups, f) = 0
  BY <1>1, <1>2 DEF Locked
<1>17. \A q \in RoadIds : \A f : /\ RoadHolds(fats_by_road[q], inject[q], f) = Count(f, fats_by_road[q]) + 0
                                 /\ RoadHolds(fats_by_road'[q], inject[q], f) = Count(f, fats_by_road'[q]) + 0
  <2>1. \A f : InAll(<<>>, f) = 0
    BY AllNone
  <2> QED
    BY <1>16, <2>1 DEF RoadHolds
<1>18. ASSUME NEW f \in FATs PROVE Given(f)' = Given(f) + (IF f = x THEN 1 ELSE 0) /\ Given(f) \in Nat
  <2>1. Count(f, BoxList(box))' = Count(f, InBox')
    BY <1>11 DEF Count
  <2>2. /\ Given(f) = InAll(result_groups, f) + Count(f, InBox)
        /\ Given(f)' = InAll(result_groups', f) + Count(f, InBox')
    BY <1>11, <1>15, <2>1 DEF Given, GivenIn
  <2>3. InAll(result_groups, f) \in Nat /\ Count(f, InBox) \in Nat /\ Given(f) \in Nat
    BY <1>1, Numbers
  <2>4. InAll(result_groups', f) \in Nat
    BY GroupsCarry, HeldSum
  <2>5. InAll(result_groups', f) + (IF f = y THEN 1 ELSE 0) = InAll(result_groups, f) + (IF f = x THEN 1 ELSE 0)
    OBVIOUS
  <2>6. Count(f, InBox') = Count(f, InBox) + (IF f = y THEN 1 ELSE 0)
    BY <1>12
  <2> QED
    BY ONLY <2>2, <2>3, <2>4, <2>5, <2>6
<1>19. ASSUME NEW f \in FATs, f # x PROVE Left(f)' = Left(f)
  <2>1. OpenRoads \in SUBSET RoadIds
    BY <1>1, Numbers
  <2>2. \A q \in OpenRoads : RoadHolds(fats_by_road[q], inject[q], f) = RoadHolds(fats_by_road'[q], inject[q], f)
    BY <1>5, <1>17, <1>19, <2>1
  <2>3. OnRoads(OpenRoads, fats_by_road, inject, f) = OnRoads(OpenRoads, fats_by_road', inject, f)
    BY <2>2, RoadsSame
  <2>4. OnRoads(OpenRoads, fats_by_road, inject, f)' = OnRoads(OpenRoads, fats_by_road', inject, f)
    BY <1>11 DEF OnRoads, RoadHolds, InAll, Count
  <2> QED
    BY <1>15, <2>3, <2>4 DEF Left, LeftIn
<1>20. Left(x)' = 0
  <2>1. OpenRoads \in SUBSET RoadIds /\ IsFiniteSet(OpenRoads)
    BY <1>1, Numbers
  <2>2. \A q \in OpenRoads : RoadHolds(fats_by_road'[q], inject[q], x) = 0
    BY <1>5, <1>17, <2>1
  <2> DEFINE S == OpenRoads
             own == fats_by_road'
             inj == inject
  <2>3. OnTheRoads(S, own, inj, FATs, Hands)
    <3>1. \A q \in RoadIds : ListOf(fats_by_road'[q], FATs) /\ ListOf(inject[q], Hands)
      BY <1>1, <1>5, Stocked DEF Typed
    <3> QED
      BY <2>1, <3>1 DEF OnTheRoads
  <2>4. Carry(Hands, FATs) /\ IsFiniteSet(S) /\ \A q \in S : RoadHolds(own[q], inj[q], x) = 0
    BY <2>1, <2>2, HandsCarry
  <2>5. OnRoads(OpenRoads, fats_by_road, inject, x)' = OnRoads(S, own, inj, x)
    BY <1>11 DEF OnRoads, RoadHolds, InAll, Count
  <2> HIDE DEF S, own, inj
  <2>6. OnRoads(S, own, inj, x) = 0
    BY <2>3, <2>4, RoadsNumber
  <2>7. InAll(orphans, x)' = 0
    BY <1>15, <1>16, AllNone
  <2> QED
    BY <2>5, <2>6, <2>7 DEF Left, LeftIn
<1>21. ASSUME NEW f \in FATs PROVE Conserved(f)
  <2>1. Left(f) \in Nat /\ Given(f) \in Nat
    BY <1>1, Numbers
  <2>2. CASE f # x
    <3>1. Given(f)' = Given(f) + 0 /\ Left(f)' = Left(f)
      BY <1>18, <1>19, <2>2
    <3> QED
      BY <2>1, <3>1 DEF Conserved
  <2>3. CASE f = x /\ f \in ToSet(InBox)
    <3>1. Left(f)' = 0 /\ Given(f)' >= 1
      BY <1>18, <1>20, <2>1, <2>3
    <3> QED
      BY <1>10, <2>3, <3>1 DEF Conserved
  <2>4. CASE f = x /\ f \notin ToSet(InBox)
    <3>1. InAll(result_groups, f) = 0
      BY <1>4, <1>16, <2>4
    <3>2. Count(f, InBox) = 0
      <4> DEFINE c == InBox
      <4>1. ListOf(c, FATs) /\ f \notin ToSet(c)
        BY <1>12, <2>4
      <4> HIDE DEF c
      <4>2. Count(f, c) = 0
        BY <4>1, CountSome
      <4> QED
        BY <4>2 DEF c
    <3>3. Given(f) = 0
      BY <1>11, <3>1, <3>2 DEF Given, GivenIn
    <3>4. Left(f) = 1
      BY <1>1, <2>1, <3>3 DEF Accounted
    <3>5. Left(f)' = 0 /\ Given(f)' = 1
      BY <1>18, <1>20, <2>4, <3>3
    <3> QED
      BY <3>3, <3>4, <3>5 DEF Conserved
  <2> QED
    BY <2>2, <2>3, <2>4
<1>22. Conserves /\ Accounted'
  <2>1. Conserves
    BY <1>21 DEF Conserves
  <2> QED
    BY <1>1, <1>14, <2>1, StillAccounted
<1>23. Own'
  BY <1>1, <1>5, <1>13 DEF Own
<1>24. Sized' /\ EndsTakeNothing' /\ Planted' /\ Combined'
  BY <1>2, InnerRest
<1>25. BoxOpen'
  <2> DEFINE i == Len(box.own)
             j == Len(box.borrowed)
             k == box.slots
             m == MAX_FAT_PER_FDT
  <2>1. /\ i \in Nat /\ j \in Nat /\ k \in Nat /\ i + j + k = m
        /\ Len(b.own) = i /\ Len(b.borrowed) = j + 1 /\ b.slots = k - 1
    BY <1>2, <1>7, <1>9
  <2>2. i + (j + 1) + (k - 1) = m
    <3> HIDE DEF i, j, k, m
    <3> QED
      BY <2>1
  <2>3. Len(b.own) + Len(b.borrowed) + b.slots = MAX_FAT_PER_FDT
    BY <2>1, <2>2
  <2> QED
    BY <1>2, <1>9, <2>3 DEF BoxOpen, MAX_FAT_PER_FDT
<1>26. Locked'
  <2>1. ASSUME NEW q \in RoadIds, NEW f \in ToSet(fats_by_road'[q])
        PROVE  f \in committed' \/ f \in ToSet(InBox') \/ InAll(result_groups', f) = 0
    <3>1. f \in ToSet(fats_by_road[q]) /\ f # x
      BY <1>5
    <3>2. f \in committed \/ f \in ToSet(InBox) \/ InAll(result_groups, f) = 0
      BY <1>16, <3>1
    <3> DEFINE c == InBox
               d == InBox'
    <3>3. ListOf(c, FATs) /\ ListOf(d, FATs) /\ Count(f, d) = Count(f, c) + (IF f = y THEN 1 ELSE 0)
      BY <1>12
    <3> HIDE DEF c, d
    <3>4. Count(f, c) \in Nat /\ (f \in ToSet(c) => Count(f, c) # 0) /\ (Count(f, d) # 0 => f \in ToSet(d))
      BY <3>3, CountSome, Counted
    <3>5. f = y => f \in ToSet(d)
      BY <3>3, <3>4
    <3>6. f \in ToSet(c) => f \in ToSet(d)
      BY <3>3, <3>4
    <3>7. f # y /\ InAll(result_groups, f) = 0 => InAll(result_groups', f) = 0
      <4>1. InAll(result_groups', f) \in Nat
        BY GroupsCarry, HeldSum
      <4> QED
        BY <3>1, <4>1
    <3> QED
      BY <3>2, <3>5, <3>6, <3>7 DEF c, d
  <2>2. todo' \subseteq all_fat_road_ids'
    BY <1>1, <1>2 DEF Locked
  <2> QED
    BY <1>2, <1>13, <1>15, <1>16, <2>1, <2>2 DEF Locked
<1> QED
  BY <1>14, <1>22, <1>23, <1>24, <1>25, <1>26 DEF GroupInv

-----------------------------------------------------------------------------
(* A FAT is lent by a road at the junction, or given up by a group. *)

LEMMA BorrowDirectStep ==
  ASSUME GroupInv, BorrowDirect
  PROVE  GroupInv' /\ Conserves
<1>1. Typed /\ Own /\ Sized /\ BoxOpen
  BY DEF GroupInv
<1>2. /\ box # Nil /\ box.slots > 0
      /\ net' = net /\ pass' = pass /\ todo' = todo /\ all_fat_road_ids' = all_fat_road_ids
      /\ committed' = committed /\ result_groups' = result_groups
      /\ inject' = inject /\ orphans' = orphans
      /\ parent_of' = parent_of /\ process_order' = process_order /\ made' = made
  BY DEF BorrowDirect, forest
<1>3. PICK r \in At(Junction(box.road)) \ {box.last[1]} : \E f \in Free(r) :
        Borrows(f) /\ fats_by_road' = Taken(f)
  BY DEF BorrowDirect
<1>4. PICK x \in Free(r) : Borrows(x) /\ fats_by_road' = RoadsWithout(x)
  BY <1>3 DEF Taken
<1>5. r \in RoadIds
  BY DEF At
<1>6. x \in FATs
  <2> DEFINE s == fats_by_road[r]
  <2>1. ListOf(s, FATs)
    BY <1>1, <1>5, Stocked DEF Typed
  <2>2. x \in ToSet(s)
    BY DEF Free
  <2> HIDE DEF s
  <2> QED
    BY <2>1, <2>2, Listed DEF ToSet
<1>7. /\ ListOf(result_groups', FatGroups) /\ AtMost(result_groups', MAX_FAT_PER_FDT)
      /\ committed' \in SUBSET FATs /\ \A f \in committed : f \in committed' \/ f = x
  <2>1. AtMost(result_groups, MAX_FAT_PER_FDT)
    BY <1>1, <1>2 DEF Sized, BoxOpen
  <2> QED
    BY <1>1, <1>2, <2>1 DEF Typed
<1>8. \A f : InAll(result_groups', f) + (IF f = x THEN 1 ELSE 0)
                = InAll(result_groups, f) + (IF f = x THEN 1 ELSE 0)
  BY <1>2
<1> QED
  BY <1>2, <1>4, <1>5, <1>6, <1>7, <1>8, LentStep

LEMMA BorrowRelayStep ==
  ASSUME GroupInv, BorrowRelay
  PROVE  GroupInv' /\ Conserves
<1>1. Typed /\ Own /\ Sized /\ BoxOpen
  BY DEF GroupInv
<1>2. /\ box # Nil /\ box.slots > 0
      /\ net' = net /\ pass' = pass /\ todo' = todo /\ all_fat_road_ids' = all_fat_road_ids
      /\ inject' = inject /\ orphans' = orphans
      /\ parent_of' = parent_of /\ process_order' = process_order /\ made' = made
  BY DEF BorrowRelay, forest
<1> DEFINE gs == result_groups
<1>3. PICK i \in DOMAIN gs, r \in RoadIds :
        \E take \in ToSet(gs[i].fats), give \in Free(r) :
          /\ give \notin {take, box.last}
          /\ result_groups' = [gs EXCEPT ![i].fats = Append(RemoveFirst(@, take), give)]
          /\ committed' = (committed \ {take}) \cup {give}
          /\ fats_by_road' = RoadsWithout(give) /\ Borrows(take)
  BY DEF BorrowRelay
<1>4. PICK y \in ToSet(gs[i].fats), x \in Free(r) :
          /\ result_groups' = [gs EXCEPT ![i].fats = Append(RemoveFirst(@, y), x)]
          /\ committed' = (committed \ {y}) \cup {x}
          /\ fats_by_road' = RoadsWithout(x) /\ Borrows(y)
  BY <1>3
<1>5. x \in FATs
  <2> DEFINE s == fats_by_road[r]
  <2>1. ListOf(s, FATs)
    BY <1>1, Stocked DEF Typed
  <2>2. x \in ToSet(s)
    BY DEF Free
  <2> HIDE DEF s
  <2> QED
    BY <2>1, <2>2, Listed DEF ToSet
<1>6. /\ ListOf(gs, FatGroups) /\ Carry(FatGroups, FATs) /\ DOMAIN gs = 1..Len(gs) /\ Len(gs) \in Nat
      /\ gs[i] \in FatGroups
  BY <1>1, GroupsCarry, Listed DEF Typed
<1> DEFINE old == gs[i].fats
           new == Append(RemoveFirst(old, y), x)
           g == [fats |-> new, road |-> gs[i].road]
<1>7. ListOf(old, FATs) /\ gs[i].road \in RoadIds /\ gs[i] = [fats |-> old, road |-> gs[i].road]
  BY <1>6, GroupsCarry DEF FatGroups
<1>8. y \in FATs /\ y \in ToSet(old)
  <2> HIDE DEF old
  <2>1. y \in ToSet(old)
    BY DEF old
  <2> QED
    BY <1>7, <2>1, Listed DEF ToSet
<1>9. /\ ListOf(new, FATs) /\ Len(new) = Len(old) /\ Len(old) \in Nat
      /\ \A f : Count(f, new) + (IF f = y THEN 1 ELSE 0) = Count(f, old) + (IF f = x THEN 1 ELSE 0)
  <2> DEFINE s == RemoveFirst(old, y)
  <2> HIDE DEF old
  <2>1. /\ ListOf(s, FATs) /\ Len(s) = Len(old) - 1
        /\ \A f : Count(f, old) = Count(f, s) + (IF f = y THEN 1 ELSE 0)
    BY <1>7, <1>8, TakenFirst
  <2> HIDE DEF s
  <2>2. /\ ListOf(Append(s, x), FATs) /\ Len(Append(s, x)) = Len(s) + 1
        /\ \A f : Count(f, Append(s, x)) = Count(f, s) + (IF f = x THEN 1 ELSE 0)
    BY <1>5, <2>1, CountAppended
  <2>3. Len(old) \in Nat /\ \A f : Count(f, s) \in Nat
    BY <1>7, <2>1, Listed, Counted
  <2>4. \A f : Count(f, Append(s, x)) + (IF f = y THEN 1 ELSE 0) = Count(f, old) + (IF f = x THEN 1 ELSE 0)
    BY <2>1, <2>2, <2>3
  <2> QED
    BY <2>1, <2>2, <2>3, <2>4 DEF s
<1>10. result_groups' = [gs EXCEPT ![i] = g]
  <2>1. result_groups' = [gs EXCEPT ![i] = [gs[i] EXCEPT !.fats = new]]
    BY <1>4
  <2> DEFINE w == gs[i]
  <2>2. w = [fats |-> old, road |-> w.road]
    BY <1>7
  <2> HIDE DEF w, old, new
  <2>3. [w EXCEPT !.fats = new] = [fats |-> new, road |-> w.road]
    BY <2>2
  <2> QED
    BY <2>1, <2>3 DEF w
<1>11. g \in FatGroups /\ g.fats = new
  <2> HIDE DEF new
  <2>1. FatGroup(new, gs[i].road) \in FatGroups
    BY <1>7, <1>9, GroupsCarry
  <2> QED
    BY <2>1 DEF FatGroup
<1> HIDE DEF g, new
<1> DEFINE hs == [gs EXCEPT ![i] = g]
<1>12. /\ ListOf(hs, FatGroups) /\ Len(hs) = Len(gs)
       /\ \A f : InAll(hs, f) + Count(f, old) = InAll(gs, f) + Count(f, new)
  <2>1. i \in 1..Len(gs)
    BY <1>6
  <2> HIDE DEF gs
  <2>2. Carry(FatGroups, FATs) /\ ListOf(gs, FatGroups) /\ g \in FatGroups
    BY <1>6, <1>11
  <2>3. ListOf(hs, FatGroups) /\ Len(hs) = Len(gs)
    BY ONLY <2>1, <2>2, AllReplaced
  <2>4. \A f : InAll(hs, f) + Count(f, gs[i].fats) = InAll(gs, f) + Count(f, g.fats)
    BY ONLY <2>1, <2>2, AllReplaced
  <2> QED
    BY <1>11, <2>3, <2>4
<1>13. hs[i] = g /\ DOMAIN hs = DOMAIN gs /\ \A j \in DOMAIN gs \ {i} : hs[j] = gs[j]
  BY <1>6
<1> HIDE DEF hs
<1>14. AtMost(hs, MAX_FAT_PER_FDT)
  <2>1. AtMost(gs, MAX_FAT_PER_FDT)
    BY <1>1, <1>2 DEF Sized, BoxOpen
  <2>2. Len(g.fats) = Len(gs[i].fats)
    BY <1>9, <1>11
  <2> HIDE DEF gs
  <2> QED
    BY <1>13, <2>1, <2>2 DEF AtMost
<1>15. \A f : InAll(hs, f) + (IF f = y THEN 1 ELSE 0) = InAll(gs, f) + (IF f = x THEN 1 ELSE 0)
  <2>1. ASSUME NEW f
        PROVE  InAll(hs, f) + (IF f = y THEN 1 ELSE 0) = InAll(gs, f) + (IF f = x THEN 1 ELSE 0)
    <3>1. InAll(hs, f) \in Nat /\ InAll(gs, f) \in Nat
      BY <1>6, <1>12, HeldSum
    <3>2. Count(f, old) \in Nat /\ Count(f, new) \in Nat
      <4> HIDE DEF old
      <4> QED
        BY <1>7, <1>9, Counted
    <3>3. InAll(hs, f) + Count(f, old) = InAll(gs, f) + Count(f, new)
      BY <1>12
    <3>4. Count(f, new) + (IF f = y THEN 1 ELSE 0) = Count(f, old) + (IF f = x THEN 1 ELSE 0)
      BY <1>9
    <3> HIDE DEF gs, old
    <3> QED
      BY ONLY <3>1, <3>2, <3>3, <3>4
  <2> QED
    BY <2>1
<1>16. /\ ListOf(result_groups', FatGroups) /\ AtMost(result_groups', MAX_FAT_PER_FDT)
       /\ \A f : InAll(result_groups', f) + (IF f = y THEN 1 ELSE 0)
                   = InAll(result_groups, f) + (IF f = x THEN 1 ELSE 0)
  BY <1>10, <1>12, <1>14, <1>15 DEF hs
<1>17. committed' \in SUBSET FATs /\ \A f \in committed : f \in committed' \/ f = y
  BY <1>1, <1>4, <1>5 DEF Typed
<1>18. fats_by_road' = RoadsWithout(x) /\ Borrows(y)
  BY <1>4
<1> HIDE DEF gs, old
<1> QED
  BY <1>2, <1>5, <1>8, <1>16, <1>17, <1>18, LentStep

-----------------------------------------------------------------------------
(* A road takes over a list of FATs. *)
LEMMA TakesOver ==
  ASSUME Typed, NEW S \in SUBSET RoadIds, NEW x \in S, NEW n, NEW seq, ListOf(seq, FATs),
         NEW src \in RoadIds, NEW inj, inj = Injected(x, n, seq, src)
  PROVE  /\ Stock(inj, RoadIds, Hands)
         /\ \A r \in RoadIds \ {x} : inj[r] = inject[r]
         /\ \A f : OnRoads(S, fats_by_road, inj, f) = OnRoads(S, fats_by_road, inject, f) + Count(f, seq)
<1> DEFINE h == [at |-> Place(n, x), fats |-> seq, src |-> src]
           s == inject[x]
           t == Append(s, h)
<1>1. h \in Hands /\ h.fats = seq
  BY DEF Hands, Place, ListOf
<1>2. /\ Stock(inject, RoadIds, Hands) /\ Stock(fats_by_road, RoadIds, FATs) /\ x \in RoadIds
      /\ Carry(Hands, FATs) /\ IsFiniteSet(RoadIds)
  BY HandsCarry, Nets DEF Typed
<1>3. inj = [inject EXCEPT ![x] = t]
  BY DEF Injected
<1>4. ListOf(s, Hands)
  BY <1>2, Stocked
<1> HIDE DEF h, s
<1>5. ListOf(t, Hands) /\ \A f : InAll(t, f) = InAll(s, f) + Count(f, seq)
  <2>1. ListOf(t, Hands) /\ \A f : InAll(t, f) = InAll(s, f) + Count(f, h.fats)
    BY <1>1, <1>2, <1>4, AllAppended
  <2> QED
    BY <1>1, <2>1
<1> HIDE DEF t
<1>6. Stock(inj, RoadIds, Hands) /\ inj[x] = t /\ \A r \in RoadIds \ {x} : inj[r] = inject[r]
  <2>1. Stock(inject, RoadIds, Hands) /\ x \in RoadIds /\ ListOf(t, Hands)
    BY <1>2, <1>5
  <2>2. Stock([inject EXCEPT ![x] = t], RoadIds, Hands)
    BY ONLY <2>1, Stocked
  <2>3. [inject EXCEPT ![x] = t][x] = t
    BY ONLY <2>1, Stocked
  <2>4. \A r \in RoadIds \ {x} : [inject EXCEPT ![x] = t][r] = inject[r]
    BY ONLY <2>1, Stocked
  <2> QED
    BY <1>3, <2>2, <2>3, <2>4
<1>7. ASSUME NEW f
      PROVE  OnRoads(S, fats_by_road, inj, f) = OnRoads(S, fats_by_road, inject, f) + Count(f, seq)
  <2>1. /\ OnTheRoads(S, fats_by_road, inject, FATs, Hands) /\ OnTheRoads(S, fats_by_road, inj, FATs, Hands)
        /\ IsFiniteSet(S)
    BY <1>2, <1>6, Stocked, FS_Subset DEF OnTheRoads
  <2>2. \A r \in S \ {x} : RoadHolds(fats_by_road[r], inject[r], f) = RoadHolds(fats_by_road[r], inj[r], f)
    BY <1>6
  <2> DEFINE a == OnRoads(S, fats_by_road, inject, f)
             b == OnRoads(S, fats_by_road, inj, f)
             c == RoadHolds(fats_by_road[x], inject[x], f)
             d == RoadHolds(fats_by_road[x], inj[x], f)
  <2>3. b + c = a + d
    BY <1>2, <2>1, <2>2, RoadChanged
  <2>4. a \in Nat /\ b \in Nat /\ c \in Nat /\ d \in Nat
    <3>1. a \in Nat /\ c \in Nat
      BY <1>2, <2>1, RoadsNumber
    <3>2. b \in Nat /\ d \in Nat
      BY <1>2, <2>1, RoadsNumber
    <3> QED
      BY <3>1, <3>2
  <2> DEFINE u == Count(f, fats_by_road[x])
             v == InAll(s, f)
             w == Count(f, seq)
  <2>5. c = u + v /\ d = u + (v + w)
    BY <1>5, <1>6 DEF RoadHolds, s
  <2>6. u \in Nat /\ v \in Nat /\ w \in Nat
    <3>1. ListOf(fats_by_road[x], FATs)
      BY <1>2, Stocked
    <3> QED
      BY <1>2, <1>4, <3>1, Counted, HeldSum
  <2> HIDE DEF a, b, c, d, u, v, w
  <2>7. b = a + w
    BY <2>3, <2>4, <2>5, <2>6
  <2> QED
    BY <2>7 DEF a, b, w
<1> QED
  BY <1>6, <1>7

LEMMA TakenOver ==
  ASSUME Typed, NEW S \in SUBSET RoadIds, NEW x \in S, NEW n, NEW seq, ListOf(seq, FATs),
         NEW src \in RoadIds, NEW inj, inj = Injected(x, n, seq, src), NEW f
  PROVE  OnRoads(S, fats_by_road, inj, f) = OnRoads(S, fats_by_road, inject, f) + Count(f, seq)
BY TakesOver

(* Roads are done with: what they held is in a group, in a pool or handed on. *)
LEMMA RoadsLeave ==
  ASSUME Typed, Accounted, Own, Typed', net' = net, box = Nil, box' = Nil,
         fats_by_road' = fats_by_road, NEW T, T \subseteq all_fat_road_ids,
         all_fat_road_ids' = all_fat_road_ids \ T,
         \A f \in FATs : \E g, h, i \in Nat :
           /\ g + h + i = OnRoads(T, fats_by_road, inject, f)
           /\ InAll(result_groups', f) = InAll(result_groups, f) + g
           /\ InAll(orphans', f) = InAll(orphans, f) + h
           /\ OnRoads(all_fat_road_ids \ T, fats_by_road, inject', f)
                = OnRoads(all_fat_road_ids \ T, fats_by_road, inject, f) + i
  PROVE  Conserves /\ Accounted' /\ Own'
<1>1. RoadIds' = RoadIds /\ FATs' = FATs
  BY SameNet
<1>2. OpenRoads = all_fat_road_ids /\ OpenRoads' = all_fat_road_ids \ T
  BY DEF OpenRoads, OpenOf
<1>3. BoxList(box) = <<>> /\ BoxList(box)' = <<>>
  BY DEF BoxList
<1>4. ASSUME NEW f \in FATs PROVE Conserved(f)
  <2>1. PICK g \in Nat, h \in Nat, i \in Nat :
           /\ g + h + i = OnRoads(T, fats_by_road, inject, f)
           /\ InAll(result_groups', f) = InAll(result_groups, f) + g
           /\ InAll(orphans', f) = InAll(orphans, f) + h
           /\ OnRoads(all_fat_road_ids \ T, fats_by_road, inject', f)
                = OnRoads(all_fat_road_ids \ T, fats_by_road, inject, f) + i
    OBVIOUS
  <2>2. /\ InAll(result_groups, f) \in Nat /\ InAll(orphans, f) \in Nat
        /\ OnTheRoads(all_fat_road_ids, fats_by_road, inject, FATs, Hands)
        /\ IsFiniteSet(all_fat_road_ids)
    BY <1>2, Numbers
  <2>3. /\ OnRoads(all_fat_road_ids, fats_by_road, inject, f)
             = OnRoads(T, fats_by_road, inject, f) + OnRoads(all_fat_road_ids \ T, fats_by_road, inject, f)
        /\ OnRoads(all_fat_road_ids \ T, fats_by_road, inject, f) \in Nat
    <3>1. Carry(Hands, FATs)
      BY HandsCarry
    <3> QED
      BY <2>2, <3>1, RoadsParted
  <2> DEFINE a == InAll(result_groups, f)
             b == InAll(orphans, f)
             c == OnRoads(all_fat_road_ids \ T, fats_by_road, inject, f)
  <2>4. Count(f, BoxList(box)) = 0 /\ Count(f, BoxList(box))' = 0
    <3>1. Count(f, BoxList(box))' = Count(f, <<>>)
      BY <1>3 DEF Count
    <3> QED
      BY <1>3, <3>1, CountNone
  <2>5. /\ InAll(result_groups, f)' = a + g
        /\ InAll(orphans, f)' = b + h
        /\ OnRoads(OpenRoads, fats_by_road, inject, f)' = c + i
    <3>1. InAll(result_groups, f)' = InAll(result_groups', f) /\ InAll(orphans, f)' = InAll(orphans', f)
      BY DEF InAll, Count
    <3>2. OnRoads(OpenRoads, fats_by_road, inject, f)' = OnRoads(all_fat_road_ids \ T, fats_by_road, inject', f)
      BY <1>2 DEF OnRoads, RoadHolds, InAll, Count
    <3> QED
      BY <2>1, <3>1, <3>2
  <2>6. /\ Given(f) = a + 0 /\ Left(f) = b + ((g + h + i) + c)
        /\ Given(f)' = (a + g) + 0 /\ Left(f)' = (b + h) + (c + i)
    BY <1>2, <2>1, <2>3, <2>4, <2>5 DEF Given, Left, GivenIn, LeftIn
  <2>7. a \in Nat /\ b \in Nat /\ c \in Nat
    BY <2>2, <2>3
  <2> HIDE DEF a, b, c
  <2>8. Given(f)' + Left(f)' = Given(f) + Left(f) /\ Left(f)' <= Left(f)
    BY <2>6, <2>7
  <2> QED
    BY <2>8 DEF Conserved
<1>5. Conserves
  BY <1>4 DEF Conserves
<1>6. Accounted'
  BY <1>5, StillAccounted
<1>7. Own'
  BY <1>1 DEF Own
<1> QED
  BY <1>5, <1>6, <1>7

-----------------------------------------------------------------------------
(* The small dead ends of a junction are pooled. *)

LEMMA PoolRest ==
  ASSUME GroupInv, pass = "pool", pass' = "pool", net' = net, box' = box, made' = made,
         process_order' = process_order, parent_of' = parent_of,
         AtMost(result_groups', MAX_FAT_PER_FDT), AtMost(orphans', MAX_FAT_PER_FDT)
  PROVE  Sized' /\ BoxOpen' /\ Locked' /\ Planted' /\ Combined'
<1>1. /\ Typed /\ Sized /\ BoxOpen /\ Planted /\ Combined
  BY DEF GroupInv
<1>2. RoadIds' = RoadIds /\ PairMost' = PairMost /\ FATs' = FATs /\ MAX_FAT_PER_FDT' = MAX_FAT_PER_FDT
  BY SameNet DEF MAX_FAT_PER_FDT
<1>3. Sized'
  BY <1>1, <1>2 DEF Sized, AtMost, Joining
<1>4. BoxOpen' /\ Locked'
  BY <1>1 DEF BoxOpen, Locked
<1>5. Planted'
  BY <1>1, <1>2 DEF Planted
<1>6. Combined'
  BY <1>1, <1>2 DEF Combined, Combining, Joining, Walking
<1> QED
  BY <1>3, <1>4, <1>5, <1>6

LEMMA PoolEndsStep ==
  ASSUME GroupInv, PoolEnds
  PROVE  GroupInv' /\ Conserves
<1>1. /\ Typed /\ Accounted /\ Own /\ Sized /\ BoxOpen /\ Locked /\ EndsTakeNothing /\ Planted /\ Combined
  BY DEF GroupInv
<1> DEFINE first == LowestId(SmallEnds)
           n == Junction(first)
           ends == {r \in SmallEnds : Junction(r) = n}
           order == Ascending(ends)
           pool == FlattenSeq([i \in DOMAIN order |-> fats_by_road[order[i]]])
<1>2. /\ pass = "pool" /\ SmallEnds # {} /\ all_fat_road_ids' = all_fat_road_ids \ ends
      /\ net' = net /\ pass' = pass /\ todo' = todo /\ fats_by_road' = fats_by_road
      /\ committed' = committed /\ box' = box /\ parent_of' = parent_of
      /\ process_order' = process_order /\ made' = made
  BY DEF PoolEnds, forest
<1>3. \/ /\ Len(pool) >= MIN_FAT_PER_FDT
         /\ result_groups' = result_groups \o GroupsOf(pool, Filled(Len(pool)), first)
         /\ inject' = inject /\ orphans' = orphans
      \/ /\ Len(pool) < MIN_FAT_PER_FDT
         /\ \E parent \in Through(n) \cap all_fat_road_ids :
              inject' = Injected(parent, n, pool, first)
         /\ result_groups' = result_groups /\ orphans' = orphans
      \/ /\ Len(pool) < MIN_FAT_PER_FDT
         /\ orphans' = Append(orphans, FatGroup(pool, first))
         /\ result_groups' = result_groups /\ inject' = inject
  BY DEF PoolEnds
<1>4. box = Nil /\ box' = Nil
  BY <1>1, <1>2 DEF BoxOpen
<1>5. /\ RoadIds' = RoadIds /\ FATs' = FATs /\ \A r : is_dead_end(r)' = is_dead_end(r)
  BY <1>2, SameNet
<1>6. /\ RoadIds \in SUBSET Nat /\ IsFiniteSet(RoadIds) /\ all_fat_road_ids \in SUBSET RoadIds
      /\ Carry(FatGroups, FATs) /\ Carry(Hands, FATs)
      /\ Stock(fats_by_road, RoadIds, FATs) /\ Stock(inject, RoadIds, Hands)
      /\ ListOf(result_groups, FatGroups) /\ ListOf(orphans, FatGroups)
      /\ AtMost(result_groups, MAX_FAT_PER_FDT) /\ AtMost(orphans, MAX_FAT_PER_FDT)
  BY <1>1, <1>2, Nets, GroupsCarry, HandsCarry DEF Typed, Sized
<1>7. first \in RoadIds
  <2>1. SmallEnds \in SUBSET Nat /\ SmallEnds \subseteq RoadIds
    BY <1>6 DEF SmallEnds
  <2> QED
    BY <1>2, <2>1, Lowest
<1>8. /\ ends \subseteq all_fat_road_ids /\ ends \in SUBSET RoadIds /\ \A r \in ends : is_dead_end(r)
  BY <1>6 DEF SmallEnds
<1> HIDE DEF first, n, ends
<1>9. ends \in SUBSET Nat /\ IsFiniteSet(ends) /\ \A r \in ends : ListOf(fats_by_road[r], FATs)
  BY <1>6, <1>8, FS_Subset, Stocked
<1>10. /\ ListOf(pool, FATs)
       /\ \A f : Count(f, pool) = Load([r \in ends |-> Count(f, fats_by_road[r])])
  <2> DEFINE ss == [i \in DOMAIN Ascending(ends) |-> fats_by_road[Ascending(ends)[i]]]
             own == fats_by_road
  <2>1. pool = FlattenSeq(ss) /\ ss = [i \in DOMAIN Ascending(ends) |-> own[Ascending(ends)[i]]]
    OBVIOUS
  <2>2. \A r \in ends : ListOf(own[r], FATs)
    BY <1>9
  <2> HIDE DEF ss, own, pool
  <2>3. ListOf(FlattenSeq(ss), FATs)
    BY <1>9, <2>1, <2>2, PoolList
  <2>4. \A f : Count(f, FlattenSeq(ss)) = Load([r \in ends |-> Count(f, own[r])])
    BY <1>9, <2>1, <2>2, PoolList
  <2> QED
    BY <2>1, <2>3, <2>4 DEF own
<1> HIDE DEF pool
<1>11. \A f : Count(f, pool) = OnRoads(ends, fats_by_road, inject, f) /\ Count(f, pool) \in Nat
  <2>1. ASSUME NEW f, NEW r \in ends
        PROVE  RoadHolds(fats_by_road[r], inject[r], f) = Count(f, fats_by_road[r])
    <3>1. inject[r] = <<>>
      BY <1>1, <1>2, <1>8 DEF EndsTakeNothing
    <3>2. Count(f, fats_by_road[r]) \in Nat
      BY <1>9, Counted
    <3>3. InAll(inject[r], f) = 0
      BY <3>1, AllNone
    <3> QED
      BY <3>2, <3>3 DEF RoadHolds
  <2>2. ASSUME NEW f PROVE Count(f, pool) = OnRoads(ends, fats_by_road, inject, f)
    <3>1. [r \in ends |-> Count(f, fats_by_road[r])]
            = [r \in ends |-> RoadHolds(fats_by_road[r], inject[r], f)]
      BY <2>1
    <3> QED
      BY <1>10, <3>1 DEF OnRoads
  <2>3. \A f : Count(f, pool) \in Nat
    BY <1>10, Counted
  <2> QED
    BY <2>2, <2>3
<1>12. Len(pool) \in Nat
  BY <1>10, Listed
<1>13. MIN_FAT_PER_FDT \in Nat /\ MAX_FAT_PER_FDT \in Nat /\ MIN_FAT_PER_FDT + 1 = MAX_FAT_PER_FDT
  BY WingBounds
(* The three places where the pool may go. *)
<1> DEFINE Result ==
      /\ ListOf(result_groups', FatGroups) /\ ListOf(orphans', FatGroups) /\ Stock(inject', RoadIds, Hands)
      /\ AtMost(result_groups', MAX_FAT_PER_FDT) /\ AtMost(orphans', MAX_FAT_PER_FDT)
      /\ \A r \in RoadIds : inject'[r] = inject[r] \/ ~is_dead_end(r)
      /\ \A f \in FATs : \E g, h, i \in Nat :
           /\ g + h + i = OnRoads(ends, fats_by_road, inject, f)
           /\ InAll(result_groups', f) = InAll(result_groups, f) + g
           /\ InAll(orphans', f) = InAll(orphans, f) + h
           /\ OnRoads(all_fat_road_ids \ ends, fats_by_road, inject', f)
                = OnRoads(all_fat_road_ids \ ends, fats_by_road, inject, f) + i
<1>14. \A f : /\ InAll(result_groups, f) \in Nat /\ InAll(orphans, f) \in Nat
              /\ OnRoads(all_fat_road_ids \ ends, fats_by_road, inject, f) \in Nat
  <2>1. \A f : InAll(result_groups, f) \in Nat /\ InAll(orphans, f) \in Nat
    BY <1>6, HeldSum
  <2> DEFINE S == all_fat_road_ids \ ends
  <2>2. S \in SUBSET RoadIds
    BY <1>6
  <2> HIDE DEF S
  <2>3. OnTheRoads(S, fats_by_road, inject, FATs, Hands) /\ IsFiniteSet(S)
    BY <1>6, <2>2, FS_Subset, Stocked DEF OnTheRoads
  <2>4. \A f : OnRoads(S, fats_by_road, inject, f) \in Nat
    BY <1>6, <2>3, RoadsNumber
  <2> QED
    BY <2>1, <2>4 DEF S
<1>15. ASSUME inject' = inject, NEW f
       PROVE  OnRoads(all_fat_road_ids \ ends, fats_by_road, inject', f)
                = OnRoads(all_fat_road_ids \ ends, fats_by_road, inject, f) + 0
  <2> DEFINE S == all_fat_road_ids \ ends
             a == OnRoads(S, fats_by_road, inject, f)
  <2>1. OnRoads(S, fats_by_road, inject', f) = a
    BY <1>15
  <2>2. a \in Nat
    BY <1>14
  <2> HIDE DEF a
  <2> QED
    BY <2>1, <2>2 DEF a
<1>16. ASSUME Len(pool) >= MIN_FAT_PER_FDT,
              result_groups' = result_groups \o GroupsOf(pool, Filled(Len(pool)), first),
              inject' = inject, orphans' = orphans
       PROVE  Result
  <2> DEFINE m == Len(pool)
             sizes == Filled(m)
             k == Groups(m, MAX_FAT_PER_FDT)
             new == GroupsOf(pool, sizes, first)
  <2>1. DealsOut(sizes, k, m, MAX_FAT_PER_FDT) /\ k \in Nat
    BY <1>12, FilledDeal
  <2>2. new = GroupsOf(pool, sizes, first) /\ result_groups' = result_groups \o new /\ m = Len(pool)
    BY <1>16
  <2> HIDE DEF m, sizes, k
  <2>3. Rated(sizes, 1..k) /\ Load(sizes) = Len(pool) /\ \A i \in 1..k : sizes[i] <= MAX_FAT_PER_FDT
    BY <2>1, <2>2 DEF DealsOut
  <2>4. /\ ListOf(new, FatGroups) /\ Len(new) = k
        /\ \A i \in 1..k : Len(new[i].fats) = sizes[i]
    BY <1>7, <1>10, <2>1, <2>3, ChunkGroups
  <2>5. \A f : InAll(new, f) = Count(f, pool)
    BY <1>7, <1>10, <2>1, <2>3, ChunkGroups
  <2> HIDE DEF new
  <2>6. AtMost(new, MAX_FAT_PER_FDT)
    <3>1. DOMAIN new = 1..k
      BY <2>4, Listed
    <3> QED
      BY <2>3, <2>4, <3>1 DEF AtMost
  <2>7. ListOf(result_groups', FatGroups) /\ AtMost(result_groups', MAX_FAT_PER_FDT)
    <3>1. AtMost(result_groups \o new, MAX_FAT_PER_FDT)
      BY <1>6, <2>4, <2>6, AtMostJoined
    <3>2. ListOf(result_groups \o new, FatGroups)
      BY <1>6, <2>4, AllJoined
    <3> QED
      BY <2>2, <3>1, <3>2
  <2>8. \A f : InAll(result_groups', f) = InAll(result_groups, f) + Count(f, pool)
    <3>1. \A f : InAll(result_groups \o new, f) = InAll(result_groups, f) + InAll(new, f)
      BY <1>6, <2>4, AllJoined
    <3> QED
      BY <2>2, <2>5, <3>1
  <2>9. ASSUME NEW f \in FATs
        PROVE  \E g, h, i \in Nat :
           /\ g + h + i = OnRoads(ends, fats_by_road, inject, f)
           /\ InAll(result_groups', f) = InAll(result_groups, f) + g
           /\ InAll(orphans', f) = InAll(orphans, f) + h
           /\ OnRoads(all_fat_road_ids \ ends, fats_by_road, inject', f)
                = OnRoads(all_fat_road_ids \ ends, fats_by_road, inject, f) + i
    <3>1. Count(f, pool) \in Nat /\ 0 \in Nat /\ Count(f, pool) + 0 + 0 = OnRoads(ends, fats_by_road, inject, f)
      BY <1>11
    <3>2. InAll(orphans', f) = InAll(orphans, f) + 0
      BY <1>14, <1>16
    <3>3. OnRoads(all_fat_road_ids \ ends, fats_by_road, inject', f)
                = OnRoads(all_fat_road_ids \ ends, fats_by_road, inject, f) + 0
      BY <1>16, <1>15
    <3> QED
      BY <2>8, <3>1, <3>2, <3>3
  <2> QED
    BY <1>6, <1>16, <2>7, <2>9
<1>17. ASSUME NEW parent \in Through(n) \cap all_fat_road_ids,
              inject' = Injected(parent, n, pool, first),
              result_groups' = result_groups, orphans' = orphans
       PROVE  Result
  <2>1. /\ ~is_dead_end(parent) /\ parent \in all_fat_road_ids /\ parent \in RoadIds
        /\ parent \in all_fat_road_ids \ ends
    BY <1>6, <1>8 DEF Through, At
  <2> DEFINE S == all_fat_road_ids \ ends
  <2>2. S \in SUBSET RoadIds /\ parent \in S
    BY <1>6, <2>1
  <2> HIDE DEF S
  <2>3. /\ Stock(inject', RoadIds, Hands)
        /\ \A r \in RoadIds \ {parent} : inject'[r] = inject[r]
    BY <1>1, <1>7, <1>10, <1>17, <2>2, TakesOver
  <2>4. \A f : OnRoads(S, fats_by_road, inject', f) = OnRoads(S, fats_by_road, inject, f) + Count(f, pool)
    BY <1>1, <1>7, <1>10, <1>17, <2>2, TakesOver
  <2>5. ASSUME NEW f \in FATs
        PROVE  \E g, h, i \in Nat :
           /\ g + h + i = OnRoads(ends, fats_by_road, inject, f)
           /\ InAll(result_groups', f) = InAll(result_groups, f) + g
           /\ InAll(orphans', f) = InAll(orphans, f) + h
           /\ OnRoads(all_fat_road_ids \ ends, fats_by_road, inject', f)
                = OnRoads(all_fat_road_ids \ ends, fats_by_road, inject, f) + i
    <3>1. Count(f, pool) \in Nat /\ 0 \in Nat /\ 0 + 0 + Count(f, pool) = OnRoads(ends, fats_by_road, inject, f)
      BY <1>11
    <3>2. /\ InAll(result_groups', f) = InAll(result_groups, f) + 0
          /\ InAll(orphans', f) = InAll(orphans, f) + 0
      BY <1>14, <1>17
    <3>3. OnRoads(all_fat_road_ids \ ends, fats_by_road, inject', f)
                = OnRoads(all_fat_road_ids \ ends, fats_by_road, inject, f) + Count(f, pool)
      BY <2>4 DEF S
    <3> QED
      BY <3>1, <3>2, <3>3
  <2> QED
    BY <1>6, <1>17, <2>1, <2>3, <2>5
<1>18. ASSUME Len(pool) < MIN_FAT_PER_FDT, orphans' = Append(orphans, FatGroup(pool, first)),
              result_groups' = result_groups, inject' = inject
       PROVE  Result
  <2> DEFINE g1 == FatGroup(pool, first)
  <2>1. g1 \in FatGroups /\ g1.fats = pool
    BY <1>7, <1>10, GroupsCarry
  <2>2. orphans' = Append(orphans, g1)
    BY <1>18
  <2> HIDE DEF g1
  <2>3. /\ ListOf(orphans', FatGroups)
        /\ \A f : InAll(orphans', f) = InAll(orphans, f) + Count(f, pool)
    <3>1. /\ ListOf(Append(orphans, g1), FatGroups)
          /\ \A f : InAll(Append(orphans, g1), f) = InAll(orphans, f) + Count(f, g1.fats)
      BY <1>6, <2>1, AllAppended
    <3> QED
      BY <2>1, <2>2, <3>1
  <2>4. AtMost(orphans', MAX_FAT_PER_FDT)
    <3>1. Len(g1.fats) <= MAX_FAT_PER_FDT
      <4> DEFINE m == Len(pool)
      <4> HIDE DEF m
      <4>1. m \in Nat /\ m < MIN_FAT_PER_FDT
        BY <1>12, <1>18 DEF m
      <4>2. m <= MAX_FAT_PER_FDT
        BY <1>13, <4>1
      <4> QED
        BY <2>1, <4>2 DEF m
    <3> QED
      BY <1>6, <2>1, <2>2, <3>1, AtMostAppended
  <2>5. ASSUME NEW f \in FATs
        PROVE  \E g, h, i \in Nat :
           /\ g + h + i = OnRoads(ends, fats_by_road, inject, f)
           /\ InAll(result_groups', f) = InAll(result_groups, f) + g
           /\ InAll(orphans', f) = InAll(orphans, f) + h
           /\ OnRoads(all_fat_road_ids \ ends, fats_by_road, inject', f)
                = OnRoads(all_fat_road_ids \ ends, fats_by_road, inject, f) + i
    <3>1. Count(f, pool) \in Nat /\ 0 \in Nat /\ 0 + Count(f, pool) + 0 = OnRoads(ends, fats_by_road, inject, f)
      BY <1>11
    <3>2. InAll(result_groups', f) = InAll(result_groups, f) + 0
      BY <1>14, <1>18
    <3>3. OnRoads(all_fat_road_ids \ ends, fats_by_road, inject', f)
                = OnRoads(all_fat_road_ids \ ends, fats_by_road, inject, f) + 0
      BY <1>18, <1>15
    <3> QED
      BY <2>3, <3>1, <3>2, <3>3
  <2> QED
    BY <1>6, <1>18, <2>3, <2>4, <2>5
<1>19. Result
  BY <1>3, <1>16, <1>17, <1>18
<1>20. Typed'
  <2>1. all_fat_road_ids' \in SUBSET RoadIds
    BY <1>2, <1>6
  <2> QED
    BY <1>1, <1>2, <1>19, <2>1, TypedNext DEF Typed
<1>21. Conserves /\ Accounted' /\ Own'
  BY <1>1, <1>2, <1>4, <1>8, <1>19, <1>20, RoadsLeave
<1>22. EndsTakeNothing'
  BY <1>1, <1>2, <1>5, <1>19 DEF EndsTakeNothing
<1>23. Sized' /\ BoxOpen' /\ Locked' /\ Planted' /\ Combined'
  BY <1>2, <1>19, PoolRest
<1> QED
  BY <1>20, <1>21, <1>22, <1>23 DEF GroupInv

-----------------------------------------------------------------------------
(* What a road holds alone. *)
LEMMA OneRoad ==
  ASSUME NEW r \in RoadIds, NEW own, NEW inj, ListOf(own[r], FATs), ListOf(inj[r], Hands), NEW f
  PROVE  /\ OnRoads({r}, own, inj, f) = RoadHolds(own[r], inj[r], f)
         /\ RoadHolds(own[r], inj[r], f) \in Nat
<1> DEFINE S == {r}
<1>1. r \in S /\ S \ {r} = {} /\ OnTheRoads(S, own, inj, FATs, Hands) /\ Carry(Hands, FATs)
  BY HandsCarry DEF OnTheRoads
<1>2. IsFiniteSet(S)
  BY FS_Singleton
<1>3. OnRoads({}, own, inj, f) = 0
  <2> DEFINE g == [i \in {} |-> RoadHolds(own[i], inj[i], f)]
  <2>1. g \in [{} -> Nat]
    OBVIOUS
  <2> HIDE DEF g
  <2>2. Load(g) = 0
    BY <2>1, LoadEmpty
  <2> QED
    BY <2>2 DEF OnRoads, g
<1> HIDE DEF S
<1>4. /\ OnRoads(S, own, inj, f) = RoadHolds(own[r], inj[r], f) + OnRoads(S \ {r}, own, inj, f)
      /\ RoadHolds(own[r], inj[r], f) \in Nat
  BY <1>1, <1>2, RoadAlone
<1>5. OnRoads(S, own, inj, f) = RoadHolds(own[r], inj[r], f) + 0
  BY <1>1, <1>3, <1>4
<1> QED
  BY <1>4, <1>5 DEF S

(* The pieces a walk is cut into. *)
RoadCut(ps, r) ==
  \E k \in Nat \ {0} :
    /\ DOMAIN ps = 1..k /\ ps = [i \in 1..k |-> ps[i]] /\ ListsOf(ps, FATs)
    /\ \A i \in 1..k : Len(ps[i]) <= MAX_FAT_PER_FDT
    /\ \A f : Load(Tally(ps, f)) = RoadHolds(fats_by_road[r], inject[r], f)

LEMMA WalkCut ==
  ASSUME NEW r \in RoadIds, ListOf(inject[r], Hands), ListOf(fats_by_road[r], FATs),
         NEW e, e = Walked(r), e # <<>>, NEW sizes \in Splits(Len(e)),
         NEW closed \in SUBSET MayClose(r, e),
         NEW ps, ps = CutAt(e, Snapped(e, sizes) \cup closed)
  PROVE  RoadCut(ps, r)
<1>1. ListOf(e, Entries)
  BY WalkedRoad
<1>2. \A f : Count(f, FatsOf(e)) = RoadHolds(fats_by_road[r], inject[r], f)
  BY WalkedRoad
<1> DEFINE n == Len(e)
           cuts == Snapped(e, sizes) \cup closed
<1>3. n \in Nat \ {0} /\ n > 0
  <2>1. n \in Nat /\ (n = 0 => e = <<>>)
    BY <1>1, LenProperties, EmptySeq DEF ListOf
  <2> QED
    BY <2>1
<1>4. closed \in SUBSET (1..(n - 1))
  BY DEF MayClose
<1>5. MAX_FAT_PER_FDT \in Nat
  BY WingBounds
<1>6. sizes \in Splits(n) /\ ps = CutAt(e, cuts)
  OBVIOUS
<1> HIDE DEF n
<1>7. Snapped(e, sizes) \in SUBSET (1..(n - 1)) /\ Covers(Snapped(e, sizes), n, MAX_FAT_PER_FDT)
  BY <1>3, <1>6, SnappedCuts DEF n
<1>8. cuts \in SUBSET (1..(n - 1)) /\ Covers(cuts, n, MAX_FAT_PER_FDT)
  BY <1>4, <1>7 DEF Covers
<1> HIDE DEF cuts
<1>9. \A g \in Entries : g.fat \in FATs
  BY DEF Entries
<1>10. n = Len(e)
  BY DEF n
<1>11. PICK k \in Nat \ {0} :
           /\ DOMAIN ps = 1..k /\ ps = [i \in 1..k |-> ps[i]] /\ ListsOf(ps, FATs)
           /\ \A f : Load(Tally(ps, f)) = Count(f, FatsOf(e))
           /\ \A most \in Nat : Covers(cuts, n, most) => \A i \in 1..k : Len(ps[i]) <= most
  <2>1. CutUp(ps, FATs, e, n, cuts)
    BY <1>1, <1>3, <1>6, <1>8, <1>9, <1>10, WalkPieces
  <2> QED
    BY <2>1 DEF CutUp
<1>12. \A i \in 1..k : Len(ps[i]) <= MAX_FAT_PER_FDT
  BY <1>5, <1>8, <1>11
<1>13. \A f : Load(Tally(ps, f)) = RoadHolds(fats_by_road[r], inject[r], f)
  BY <1>2, <1>11
<1> QED
  BY <1>11, <1>12, <1>13 DEF RoadCut

(* The pieces that become groups. *)
Adds(new, old, cs) ==
  /\ ListOf(new, FatGroups) /\ AtMost(new, MAX_FAT_PER_FDT)
  /\ \A f : InAll(new, f) = InAll(old, f) + Load(Tally(cs, f))

LEMMA PiecesKept ==
  ASSUME NEW k \in Nat, NEW cs, DOMAIN cs = 1..k, ListsOf(cs, FATs), NEW r \in RoadIds,
         \A i \in 1..k : Len(cs[i]) <= MAX_FAT_PER_FDT,
         NEW gs, gs = [i \in DOMAIN cs |-> FatGroup(cs[i], r)],
         NEW old, ListOf(old, FatGroups), AtMost(old, MAX_FAT_PER_FDT)
  PROVE  Adds(old \o gs, old, cs)
<1>1. gs = [i \in 1..k |-> FatGroup(cs[i], r)]
  OBVIOUS
<1>2. /\ ListOf(gs, FatGroups) /\ Len(gs) = k /\ \A i \in 1..k : gs[i].fats = cs[i]
  <2>1. ListOf(gs, FatGroups)
    BY <1>1, AsGroups
  <2>2. Len(gs) = k
    BY <1>1, AsGroups
  <2>3. \A i \in 1..k : gs[i].fats = cs[i]
    BY <1>1, AsGroups
  <2> QED
    BY <2>1, <2>2, <2>3
<1>3. \A f : InAll(gs, f) = Load(Tally(cs, f))
  BY <1>1, AsGroups
<1>4. AtMost(gs, MAX_FAT_PER_FDT)
  <2>1. DOMAIN gs = 1..k
    BY <1>1
  <2> QED
    BY <1>2, <2>1 DEF AtMost
<1>5. Carry(FatGroups, FATs)
  BY GroupsCarry
<1>6. ListOf(old \o gs, FatGroups) /\ \A f : InAll(old \o gs, f) = InAll(old, f) + InAll(gs, f)
  <2>1. ListOf(old \o gs, FatGroups)
    BY <1>2, <1>5, AllJoined
  <2>2. \A f : InAll(old \o gs, f) = InAll(old, f) + InAll(gs, f)
    BY <1>2, <1>5, AllJoined
  <2> QED
    BY <2>1, <2>2
<1>7. AtMost(old \o gs, MAX_FAT_PER_FDT)
  BY <1>2, <1>4, AtMostJoined
<1> QED
  BY <1>3, <1>6, <1>7 DEF Adds

(* The order without its last road. *)
LEMMA OrderShortened ==
  ASSUME NEW A, NEW s, ListOf(s, A), s # <<>>,
         \A i, j \in 1..Len(s) : s[i] = s[j] => i = j
  PROVE  \E k \in Nat \ {0} :
           /\ Len(s) = k /\ Last(s) = s[k] /\ Last(s) \in A /\ ListOf(Front(s), A)
           /\ Len(Front(s)) = k - 1 /\ \A i \in 1..(k - 1) : Front(s)[i] = s[i]
           /\ ToSet(Front(s)) = ToSet(s) \ {Last(s)} /\ Last(s) \in ToSet(s)
           /\ \A j \in 1..(k - 1) : s[j] \in ToSet(s) /\ s[j] # Last(s)
<1> DEFINE k == Len(s)
           q == Front(s)
<1>1. k \in Nat \ {0} /\ DOMAIN s = 1..k /\ \A j \in 1..k : s[j] \in A
  <2>1. k \in Nat /\ (k = 0 => s = <<>>)
    BY LenProperties, EmptySeq DEF ListOf
  <2> QED
    BY <2>1, Listed
<1>2. q = SubSeq(s, 1, k - 1) /\ Last(s) = s[k]
  BY DEF Front, Last
<1> HIDE DEF q
<1>3. ListOf(q, A) /\ Len(q) = k - 1 /\ \A i \in 1..(k - 1) : q[i] = s[i]
  <2> DEFINE z == 0
             y == k - 1
  <2>1. z \in 0..Len(s) /\ y \in z..Len(s) /\ z + 1 = 1 /\ y - z = k - 1
    BY <1>1
  <2> HIDE DEF y, z
  <2>2. /\ ListOf(SubSeq(s, z + 1, y), A) /\ Len(SubSeq(s, z + 1, y)) = y - z
        /\ \A j \in 1..(y - z) : SubSeq(s, z + 1, y)[j] = s[z + j]
    BY ONLY <2>1, ListOf(s, A), CutList
  <2>3. \A j \in 1..(k - 1) : z + j = j
    BY DEF z
  <2> QED
    BY <1>2, <2>1, <2>2, <2>3 DEF y
<1>4. DOMAIN q = 1..(k - 1)
  BY <1>3, Listed
<1> DEFINE r == s[k]
<1>5. ToSet(s) = {s[i] : i \in 1..k} /\ ToSet(q) = {s[i] : i \in 1..(k - 1)}
  BY <1>1, <1>3, <1>4 DEF ToSet
<1> HIDE DEF k
<1>6. \A i \in 1..(k - 1) : i \in 1..k /\ i # k
  BY <1>1
<1>7. k \in 1..k /\ \A i \in 1..k : i = k \/ i \in 1..(k - 1)
  BY <1>1
<1>8. \A i \in 1..(k - 1) : s[i] # r
  BY <1>6, <1>7 DEF k
<1>9. ToSet(q) = ToSet(s) \ {r} /\ r \in ToSet(s) /\ r \in A
  BY <1>1, <1>5, <1>6, <1>7, <1>8
<1>10. \A j \in 1..(k - 1) : s[j] \in ToSet(s)
  BY <1>5, <1>6
<1>11. Len(s) = k
  BY DEF k
<1> QED
  BY <1>1, <1>2, <1>3, <1>8, <1>9, <1>10, <1>11 DEF q

-----------------------------------------------------------------------------
(* A road is walked. *)

LEMMA WalkRest ==
  ASSUME GroupInv, pass = "walk", pass' = "walk", net' = net, box' = box, made' = made,
         orphans' = orphans, AtMost(result_groups', MAX_FAT_PER_FDT)
  PROVE  Sized' /\ BoxOpen' /\ Locked' /\ EndsTakeNothing' /\ Combined'
<1>1. /\ Typed /\ Sized /\ BoxOpen /\ Combined
  BY DEF GroupInv
<1>2. RoadIds' = RoadIds /\ PairMost' = PairMost /\ FATs' = FATs /\ MAX_FAT_PER_FDT' = MAX_FAT_PER_FDT
  BY SameNet DEF MAX_FAT_PER_FDT
<1>3. Sized'
  BY <1>1, <1>2 DEF Sized, AtMost, Joining
<1>4. BoxOpen' /\ Locked' /\ EndsTakeNothing'
  BY <1>1 DEF BoxOpen, Locked, EndsTakeNothing
<1>5. Combined'
  BY <1>1, <1>2 DEF Combined, Combining, Joining, Walking
<1> QED
  BY <1>3, <1>4, <1>5

(* Where the FATs of a road go when it is walked: to groups and to its parent. *)
Settles(r, old, gs, inj) ==
  /\ ListOf(gs, FatGroups) /\ AtMost(gs, MAX_FAT_PER_FDT) /\ Stock(inj, RoadIds, Hands)
  /\ \A f \in FATs : \E g, i \in Nat :
       /\ g + i = RoadHolds(fats_by_road[r], inject[r], f)
       /\ InAll(gs, f) = InAll(old, f) + g
       /\ OnRoads(all_fat_road_ids \ {r}, fats_by_road, inj, f)
            = OnRoads(all_fat_road_ids \ {r}, fats_by_road, inject, f) + i

LEMMA NothingWalked ==
  ASSUME Typed, NEW r \in RoadIds, Walked(r) = <<>>, AtMost(result_groups, MAX_FAT_PER_FDT)
  PROVE  Settles(r, result_groups, result_groups, inject)
<1>1. /\ ListOf(result_groups, FatGroups) /\ Stock(inject, RoadIds, Hands) /\ Stock(fats_by_road, RoadIds, FATs)
      /\ Carry(FatGroups, FATs) /\ Carry(Hands, FATs) /\ IsFiniteSet(RoadIds)
      /\ all_fat_road_ids \in SUBSET RoadIds
  BY Nets, GroupsCarry, HandsCarry DEF Typed
<1>2. ListOf(inject[r], Hands) /\ ListOf(fats_by_road[r], FATs)
  BY <1>1, Stocked
<1>3. ASSUME NEW f PROVE RoadHolds(fats_by_road[r], inject[r], f) = 0
  <2> DEFINE e == Walked(r)
  <2>1. FatsOf(e) = <<>>
    <3>1. e = <<>>
      OBVIOUS
    <3> HIDE DEF e
    <3> QED
      BY <3>1 DEF FatsOf
  <2>2. Count(f, FatsOf(e)) = RoadHolds(fats_by_road[r], inject[r], f)
    BY <1>2, WalkedRoad
  <2> HIDE DEF e
  <2> QED
    BY <2>1, <2>2, CountNone
<1>4. ASSUME NEW f \in FATs
      PROVE  \E g, i \in Nat :
       /\ g + i = RoadHolds(fats_by_road[r], inject[r], f)
       /\ InAll(result_groups, f) = InAll(result_groups, f) + g
       /\ OnRoads(all_fat_road_ids \ {r}, fats_by_road, inject, f)
            = OnRoads(all_fat_road_ids \ {r}, fats_by_road, inject, f) + i
  <2> DEFINE S == all_fat_road_ids \ {r}
             a == InAll(result_groups, f)
             b == OnRoads(S, fats_by_road, inject, f)
  <2>1. a \in Nat
    BY <1>1, HeldSum
  <2>2. b \in Nat
    <3>1. S \in SUBSET RoadIds
      BY <1>1
    <3> HIDE DEF S
    <3>2. OnTheRoads(S, fats_by_road, inject, FATs, Hands) /\ IsFiniteSet(S)
      BY <1>1, <3>1, FS_Subset, Stocked DEF OnTheRoads
    <3> QED
      BY <1>1, <3>2, RoadsNumber
  <2> HIDE DEF a, b
  <2>3. 0 \in Nat /\ 0 + 0 = RoadHolds(fats_by_road[r], inject[r], f) /\ a = a + 0 /\ b = b + 0
    BY <1>3, <2>1, <2>2
  <2> QED
    BY <2>3 DEF a, b
<1> QED
  BY <1>1, <1>4 DEF Settles

(* The last piece stays with the road when it is large enough, or has no parent. *)
LEMMA AllGrouped ==
  ASSUME Typed, NEW r \in RoadIds, NEW gs, ListOf(gs, FatGroups), AtMost(gs, MAX_FAT_PER_FDT),
         \A f : InAll(gs, f) = InAll(result_groups, f) + RoadHolds(fats_by_road[r], inject[r], f)
  PROVE  Settles(r, result_groups, gs, inject)
<1>1. /\ Stock(inject, RoadIds, Hands) /\ Stock(fats_by_road, RoadIds, FATs)
      /\ Carry(Hands, FATs) /\ IsFiniteSet(RoadIds) /\ all_fat_road_ids \in SUBSET RoadIds
  BY Nets, HandsCarry DEF Typed
<1>2. ListOf(inject[r], Hands) /\ ListOf(fats_by_road[r], FATs)
  BY <1>1, Stocked
<1>3. ASSUME NEW f \in FATs
      PROVE  \E g, i \in Nat :
       /\ g + i = RoadHolds(fats_by_road[r], inject[r], f)
       /\ InAll(gs, f) = InAll(result_groups, f) + g
       /\ OnRoads(all_fat_road_ids \ {r}, fats_by_road, inject, f)
            = OnRoads(all_fat_road_ids \ {r}, fats_by_road, inject, f) + i
  <2> DEFINE S == all_fat_road_ids \ {r}
             b == OnRoads(S, fats_by_road, inject, f)
             c == RoadHolds(fats_by_road[r], inject[r], f)
  <2>1. c \in Nat
    BY <1>2, OneRoad
  <2>2. b \in Nat
    <3>1. S \in SUBSET RoadIds
      BY <1>1
    <3> HIDE DEF S
    <3>2. OnTheRoads(S, fats_by_road, inject, FATs, Hands) /\ IsFiniteSet(S)
      BY <1>1, <3>1, FS_Subset, Stocked DEF OnTheRoads
    <3> QED
      BY <1>1, <3>2, RoadsNumber
  <2>3. InAll(gs, f) = InAll(result_groups, f) + c
    OBVIOUS
  <2> HIDE DEF b, c
  <2>4. 0 \in Nat /\ c + 0 = c /\ b = b + 0
    BY <2>1, <2>2
  <2> QED
    BY <2>1, <2>3, <2>4 DEF b, c
<1> QED
  BY <1>1, <1>3 DEF Settles

(* Otherwise the parent takes it over. *)
LEMMA TailHandedOn ==
  ASSUME Typed, NEW r \in RoadIds, NEW gs, ListOf(gs, FatGroups), AtMost(gs, MAX_FAT_PER_FDT),
         NEW cs, NEW tail, ListOf(tail, FATs),
         \A f : /\ InAll(gs, f) = InAll(result_groups, f) + Load(Tally(cs, f)) /\ Load(Tally(cs, f)) \in Nat
                /\ RoadHolds(fats_by_road[r], inject[r], f) = Load(Tally(cs, f)) + Count(f, tail),
         NEW p \in all_fat_road_ids \ {r}, NEW n
  PROVE  Settles(r, result_groups, gs, Injected(p, n, tail, r))
<1> DEFINE S == all_fat_road_ids \ {r}
           inj == Injected(p, n, tail, r)
<1>1. S \in SUBSET RoadIds /\ p \in S
  BY DEF Typed
<1>2. inj = Injected(p, n, tail, r)
  OBVIOUS
<1> HIDE DEF S, inj
<1>3. Stock(inj, RoadIds, Hands)
  BY <1>1, <1>2, TakesOver
<1>4. ASSUME NEW f
      PROVE  OnRoads(S, fats_by_road, inj, f) = OnRoads(S, fats_by_road, inject, f) + Count(f, tail)
  BY <1>1, <1>2, TakenOver
<1>5. ASSUME NEW f \in FATs
      PROVE  \E g, i \in Nat :
       /\ g + i = RoadHolds(fats_by_road[r], inject[r], f)
       /\ InAll(gs, f) = InAll(result_groups, f) + g
       /\ OnRoads(S, fats_by_road, inj, f) = OnRoads(S, fats_by_road, inject, f) + i
  <2>1. Load(Tally(cs, f)) \in Nat /\ Count(f, tail) \in Nat
    BY Counted
  <2> QED
    BY <1>4, <2>1
<1> QED
  BY <1>3, <1>5 DEF Settles, S, inj

-----------------------------------------------------------------------------
(* What is put behind the groups. *)

LEMMA NoneAdded ==
  ASSUME NEW s, ListOf(s, FatGroups), AtMost(s, MAX_FAT_PER_FDT)
  PROVE  /\ ListOf(s \o <<>>, FatGroups) /\ AtMost(s \o <<>>, MAX_FAT_PER_FDT)
         /\ \A f : InAll(s \o <<>>, f) = InAll(s, f)
<1> DEFINE e == <<>>
<1>1. ListOf(e, FatGroups) /\ AtMost(e, MAX_FAT_PER_FDT) /\ Carry(FatGroups, FATs)
  BY EmptyList, AtMostNone, GroupsCarry
<1>2. \A f : InAll(e, f) = 0 /\ InAll(s, f) \in Nat
  BY <1>1, AllNone, HeldSum
<1> HIDE DEF e
<1>3. ListOf(s \o e, FatGroups)
  BY <1>1, AllJoined
<1>4. \A f : InAll(s \o e, f) = InAll(s, f) + InAll(e, f)
  BY <1>1, AllJoined
<1>5. AtMost(s \o e, MAX_FAT_PER_FDT)
  BY <1>1, AtMostJoined
<1>6. \A f : InAll(s \o e, f) = InAll(s, f)
  BY <1>2, <1>4
<1> QED
  BY <1>3, <1>5, <1>6 DEF e

LEMMA OneAdded ==
  ASSUME NEW s, ListOf(s, FatGroups), AtMost(s, MAX_FAT_PER_FDT),
         NEW g \in FatGroups, Len(g.fats) <= MAX_FAT_PER_FDT
  PROVE  /\ ListOf(s \o <<g>>, FatGroups) /\ AtMost(s \o <<g>>, MAX_FAT_PER_FDT)
         /\ \A f : InAll(s \o <<g>>, f) = InAll(s, f) + Count(f, g.fats)
<1> DEFINE e == <<g>>
<1>1. Carry(FatGroups, FATs)
  BY GroupsCarry
<1>2. ListOf(e, FatGroups) /\ \A f : InAll(e, f) = Count(f, g.fats)
  BY <1>1, AllOne
<1>3. AtMost(e, MAX_FAT_PER_FDT)
  BY DEF AtMost
<1> HIDE DEF e
<1>4. ListOf(s \o e, FatGroups)
  BY <1>1, <1>2, AllJoined
<1>5. \A f : InAll(s \o e, f) = InAll(s, f) + InAll(e, f)
  BY <1>1, <1>2, AllJoined
<1>6. AtMost(s \o e, MAX_FAT_PER_FDT)
  BY <1>2, <1>3, AtMostJoined
<1>7. \A f : InAll(s \o e, f) = InAll(s, f) + Count(f, g.fats)
  BY <1>2, <1>5
<1> QED
  BY <1>4, <1>6, <1>7 DEF e

(* Where the FATs of the last road of the order go. *)
LEMMA WalkSettles ==
  ASSUME Typed, AtMost(result_groups, MAX_FAT_PER_FDT), Walk, NEW r \in RoadIds, r = Last(process_order),
         parent_of[r] = Nil \/ parent_of[r] \in all_fat_road_ids \ {r}
  PROVE  Settles(r, result_groups, result_groups', inject')
<1> DEFINE e == Walked(r)
           p == parent_of[r]
           least == IF r = 0 THEN MIN_FAT_PER_FDT ELSE MIN_FAT_PER_FDT - 1
<1>1. /\ Stock(inject, RoadIds, Hands) /\ Stock(fats_by_road, RoadIds, FATs)
      /\ ListOf(result_groups, FatGroups) /\ Carry(FatGroups, FATs)
  BY GroupsCarry DEF Typed
<1>2. ListOf(inject[r], Hands) /\ ListOf(fats_by_road[r], FATs)
  BY <1>1, Stocked
<1>3. CASE e = <<>>
  <2>1. result_groups' = result_groups /\ inject' = inject
    BY <1>3 DEF Walk
  <2> QED
    BY <1>3, <2>1, NothingWalked
<1>4. CASE e # <<>>
  <2>1. PICK sizes \in Splits(Len(e)), closed \in SUBSET MayClose(r, e) :
          LET pieces == CutAt(e, Snapped(e, sizes) \cup closed)
              tail == Last(pieces)
              short == Len(tail) < least
              kept == IF short THEN Front(pieces) ELSE pieces
          IN /\ result_groups' = result_groups
                  \o [i \in DOMAIN kept |-> FatGroup(kept[i], r)]
                  \o (IF short THEN Rest(r, tail) ELSE <<>>)
             /\ inject' = IF short /\ p # Nil THEN Injected(p, Shared(r, p), tail, r) ELSE inject
    BY <1>4, ZenonT(30) DEF Walk
  <2> DEFINE ps == CutAt(e, Snapped(e, sizes) \cup closed)
             tail == Last(ps)
             front == Front(ps)
             short == Len(tail) < least
             n == Shared(r, p)
  <2>2. PICK k \in Nat \ {0} :
           /\ DOMAIN ps = 1..k /\ ps = [i \in 1..k |-> ps[i]] /\ ListsOf(ps, FATs)
           /\ \A i \in 1..k : Len(ps[i]) <= MAX_FAT_PER_FDT
           /\ \A f : Load(Tally(ps, f)) = RoadHolds(fats_by_road[r], inject[r], f)
    <3> DEFINE qs == ps
    <3>1. qs = CutAt(e, Snapped(e, sizes) \cup closed) /\ e = Walked(r) /\ e # <<>>
          /\ sizes \in Splits(Len(e)) /\ closed \in SUBSET MayClose(r, e)
      BY <1>4
    <3> HIDE DEF qs, e
    <3>2. RoadCut(qs, r)
      BY <1>2, <3>1, WalkCut
    <3> QED
      BY <3>2 DEF RoadCut, qs, e
  <2>3. CASE ~short
    <3> DEFINE gs == [i \in DOMAIN ps |-> FatGroup(ps[i], r)]
               new == result_groups \o gs
    <3>1. result_groups' = new \o <<>> /\ inject' = inject
      BY <2>1, <2>3
    <3>2. gs = [i \in DOMAIN ps |-> FatGroup(ps[i], r)]
      OBVIOUS
    <3> HIDE DEF ps, gs
    <3>3. Adds(new, result_groups, ps)
      BY <1>1, <2>2, <3>2, PiecesKept
    <3>4. /\ ListOf(new, FatGroups) /\ AtMost(new, MAX_FAT_PER_FDT)
          /\ \A f : InAll(new, f) = InAll(result_groups, f) + Load(Tally(ps, f))
      BY <3>3 DEF Adds
    <3> HIDE DEF new
    <3>5. /\ ListOf(new \o <<>>, FatGroups) /\ AtMost(new \o <<>>, MAX_FAT_PER_FDT)
          /\ \A f : InAll(new \o <<>>, f) = InAll(new, f)
      BY <3>4, NoneAdded
    <3>6. \A f : InAll(new \o <<>>, f) = InAll(result_groups, f) + RoadHolds(fats_by_road[r], inject[r], f)
      BY <2>2, <3>4, <3>5
    <3>7. Settles(r, result_groups, new \o <<>>, inject)
      BY <3>5, <3>6, AllGrouped
    <3> QED
      BY <3>1, <3>7
  <2>4. CASE short
    <3> DEFINE gs == [i \in DOMAIN front |-> FatGroup(front[i], r)]
               new == result_groups \o gs
               m == k - 1
    <3>1. /\ result_groups' = new \o Rest(r, tail)
          /\ inject' = IF p # Nil THEN Injected(p, n, tail, r) ELSE inject
      BY <2>1, <2>4
    <3>2. gs = [i \in DOMAIN front |-> FatGroup(front[i], r)]
      OBVIOUS
    <3> HIDE DEF ps
    <3>3. /\ tail = ps[k] /\ DOMAIN front = 1..m /\ ListsOf(front, FATs)
          /\ \A i \in 1..m : front[i] = ps[i]
      <4>1. tail = ps[k]
        <5>1. Len(ps) = k
          BY <2>2, PiecesListed
        <5> QED
          BY <5>1 DEF Last
      <4>2. DOMAIN front = 1..m
        BY <2>2, LastPiece
      <4>3. ListsOf(front, FATs)
        BY <2>2, LastPiece
      <4>4. \A i \in 1..m : front[i] = ps[i]
        BY <2>2, LastPiece
      <4> QED
        BY <4>1, <4>2, <4>3, <4>4
    <3>4. \A f : /\ Load(Tally(ps, f)) = Load(Tally(front, f)) + Count(f, tail)
                 /\ Load(Tally(front, f)) \in Nat
      BY <2>2, LastPiece
    <3>5. /\ m \in Nat /\ \A i \in 1..m : i \in 1..k
          /\ k \in 1..k
      OBVIOUS
    <3>6. ListOf(tail, FATs) /\ Len(tail) <= MAX_FAT_PER_FDT /\ \A i \in 1..m : Len(front[i]) <= MAX_FAT_PER_FDT
      BY <2>2, <3>3, <3>5 DEF ListsOf
    <3> HIDE DEF gs, front, tail, m
    <3>7. Adds(new, result_groups, front)
      BY <1>1, <3>2, <3>3, <3>5, <3>6, PiecesKept
    <3>8. /\ ListOf(new, FatGroups) /\ AtMost(new, MAX_FAT_PER_FDT)
          /\ \A f : InAll(new, f) = InAll(result_groups, f) + Load(Tally(front, f))
      BY <3>7 DEF Adds
    <3> HIDE DEF new
    <3>9. CASE p = Nil
      <4> DEFINE g == FatGroup(tail, r)
      <4>1. g \in FatGroups /\ g.fats = tail
        BY <3>6, GroupsCarry
      <4>2. result_groups' = new \o <<g>> /\ inject' = inject
        BY <3>1, <3>9 DEF Rest
      <4> HIDE DEF g
      <4>3. /\ ListOf(new \o <<g>>, FatGroups) /\ AtMost(new \o <<g>>, MAX_FAT_PER_FDT)
            /\ \A f : InAll(new \o <<g>>, f) = InAll(new, f) + Count(f, g.fats)
        BY <3>6, <3>8, <4>1, OneAdded
      <4>4. ASSUME NEW f
            PROVE  InAll(new \o <<g>>, f) = InAll(result_groups, f) + RoadHolds(fats_by_road[r], inject[r], f)
        <5> DEFINE a == InAll(result_groups, f)
                   b == Load(Tally(front, f))
                   c == Count(f, tail)
        <5>1. a \in Nat /\ b \in Nat /\ c \in Nat
          BY <1>1, <3>4, <3>6, HeldSum, Counted
        <5>2. InAll(new \o <<g>>, f) = (a + b) + c /\ RoadHolds(fats_by_road[r], inject[r], f) = b + c
          BY <2>2, <3>4, <3>8, <4>1, <4>3
        <5> HIDE DEF a, b, c
        <5>3. InAll(new \o <<g>>, f) = a + RoadHolds(fats_by_road[r], inject[r], f)
          BY <5>1, <5>2
        <5> QED
          BY <5>3 DEF a
      <4>5. Settles(r, result_groups, new \o <<g>>, inject)
        BY <4>3, <4>4, AllGrouped
      <4> QED
        BY <4>2, <4>5
    <3>10. CASE p # Nil
      <4>1. result_groups' = new \o <<>> /\ inject' = Injected(p, n, tail, r)
        BY <3>1, <3>10 DEF Rest
      <4>2. /\ ListOf(new \o <<>>, FatGroups) /\ AtMost(new \o <<>>, MAX_FAT_PER_FDT)
            /\ \A f : InAll(new \o <<>>, f) = InAll(new, f)
        BY <3>8, NoneAdded
      <4>3. \A f : /\ InAll(new \o <<>>, f) = InAll(result_groups, f) + Load(Tally(front, f))
                   /\ Load(Tally(front, f)) \in Nat
                   /\ RoadHolds(fats_by_road[r], inject[r], f) = Load(Tally(front, f)) + Count(f, tail)
        BY <2>2, <3>4, <3>8, <4>2
      <4>4. p \in all_fat_road_ids \ {r}
        BY <3>10
      <4> HIDE DEF p, n
      <4>5. Settles(r, result_groups, new \o <<>>, Injected(p, n, tail, r))
        BY <3>6, <4>2, <4>3, <4>4, TailHandedOn
      <4> QED
        BY <4>1, <4>5
    <3> QED
      BY <3>9, <3>10
  <2> QED
    BY <2>3, <2>4
<1> QED
  BY <1>3, <1>4

-----------------------------------------------------------------------------
(* The last road of the order leaves it. *)

LEMMA WalkStep ==
  ASSUME GroupInv, Walk
  PROVE  GroupInv' /\ Conserves
<1>1. /\ Typed /\ Accounted /\ Own /\ Sized /\ BoxOpen /\ Locked /\ EndsTakeNothing /\ Planted /\ Combined
  BY DEF GroupInv
<1> DEFINE s == process_order
           r == Last(s)
<1>2. /\ pass = "walk" /\ s # <<>> /\ process_order' = Front(s)
      /\ all_fat_road_ids' = all_fat_road_ids \ {r}
      /\ net' = net /\ pass' = pass /\ todo' = todo /\ fats_by_road' = fats_by_road
      /\ committed' = committed /\ box' = box /\ orphans' = orphans
      /\ parent_of' = parent_of /\ made' = made
  BY DEF Walk
<1>3. box = Nil /\ box' = Nil
  BY <1>1, <1>2 DEF BoxOpen
<1>4. RoadIds' = RoadIds /\ FATs' = FATs
  BY <1>2, SameNet
<1>5. /\ ListOf(s, RoadIds) /\ all_fat_road_ids = ToSet(s) /\ ParentFirst
      /\ \A i, j \in 1..Len(s) : s[i] = s[j] => i = j
  BY <1>1, <1>2 DEF Typed, Planted
<1>6. PICK k \in Nat \ {0} :
           /\ Len(s) = k /\ Last(s) = s[k] /\ Last(s) \in RoadIds /\ ListOf(Front(s), RoadIds)
           /\ Len(Front(s)) = k - 1 /\ \A i \in 1..(k - 1) : Front(s)[i] = s[i]
           /\ ToSet(Front(s)) = ToSet(s) \ {Last(s)} /\ Last(s) \in ToSet(s)
           /\ \A j \in 1..(k - 1) : s[j] \in ToSet(s) /\ s[j] # Last(s)
  <2> HIDE DEF s
  <2> QED
    BY <1>2, <1>5, OrderShortened
<1>7. parent_of[r] = Nil \/ parent_of[r] \in all_fat_road_ids \ {r}
  <2>1. k \in 1..Len(s)
    BY <1>6
  <2>2. parent_of[s[k]] = Nil \/ \E j \in 1..(k - 1) : s[j] = parent_of[s[k]]
    BY <1>5, <2>1 DEF ParentFirst
  <2> QED
    BY <1>5, <1>6, <2>2
<1>8. AtMost(result_groups, MAX_FAT_PER_FDT)
  BY <1>1, <1>2 DEF Sized
<1> HIDE DEF r
<1>9. r \in RoadIds /\ r = Last(process_order) /\ r \in all_fat_road_ids
  BY <1>5, <1>6 DEF r
<1>10. Settles(r, result_groups, result_groups', inject')
  BY <1>1, <1>7, <1>8, <1>9, WalkSettles
<1>11. /\ ListOf(result_groups', FatGroups) /\ AtMost(result_groups', MAX_FAT_PER_FDT)
       /\ Stock(inject', RoadIds, Hands)
  BY <1>10 DEF Settles
<1>12. Typed'
  <2>1. all_fat_road_ids' \in SUBSET RoadIds /\ ListOf(process_order', RoadIds)
    BY <1>1, <1>2, <1>6 DEF Typed
  <2> QED
    BY <1>1, <1>2, <1>11, <2>1, TypedNext DEF Typed
<1>13. Conserves /\ Accounted' /\ Own'
  <2> DEFINE T == {r}
  <2>1. T \subseteq all_fat_road_ids /\ all_fat_road_ids' = all_fat_road_ids \ T
    BY <1>2, <1>9
  <2>2. ASSUME NEW f \in FATs
        PROVE  \E g, h, i \in Nat :
           /\ g + h + i = OnRoads(T, fats_by_road, inject, f)
           /\ InAll(result_groups', f) = InAll(result_groups, f) + g
           /\ InAll(orphans', f) = InAll(orphans, f) + h
           /\ OnRoads(all_fat_road_ids \ T, fats_by_road, inject', f)
                = OnRoads(all_fat_road_ids \ T, fats_by_road, inject, f) + i
    <3>1. PICK g \in Nat, i \in Nat :
         /\ g + i = RoadHolds(fats_by_road[r], inject[r], f)
         /\ InAll(result_groups', f) = InAll(result_groups, f) + g
         /\ OnRoads(all_fat_road_ids \ {r}, fats_by_road, inject', f)
              = OnRoads(all_fat_road_ids \ {r}, fats_by_road, inject, f) + i
      BY <1>10 DEF Settles
    <3>2. OnRoads(T, fats_by_road, inject, f) = RoadHolds(fats_by_road[r], inject[r], f)
      <4>1. ListOf(inject[r], Hands) /\ ListOf(fats_by_road[r], FATs)
        BY <1>1, <1>9, Stocked DEF Typed
      <4> QED
        BY <1>9, <4>1, OneRoad
    <3>3. InAll(orphans', f) = InAll(orphans, f) + 0
      <4>1. InAll(orphans, f) \in Nat
        BY <1>1, Numbers
      <4> QED
        BY <1>2, <4>1
    <3>4. 0 \in Nat /\ g + 0 + i = OnRoads(T, fats_by_road, inject, f)
      BY <3>1, <3>2
    <3> QED
      BY <3>1, <3>3, <3>4
  <2> HIDE DEF T
  <2> QED
    BY <1>1, <1>2, <1>3, <1>12, <2>1, <2>2, RoadsLeave
<1>14. Planted'
  <2>1. pass' = "walk" /\ all_fat_road_ids' = ToSet(process_order')
    BY <1>2, <1>5, <1>6 DEF r
  <2> DEFINE q == process_order'
  <2>2. Len(q) = k - 1 /\ \A i \in 1..(k - 1) : q[i] = s[i]
    BY <1>2, <1>6
  <2>3. \A i \in 1..(k - 1) : i \in 1..k /\ \A j \in 1..(i - 1) : j \in 1..(k - 1)
    BY <1>6
  <2> HIDE DEF q
  <2>4. ASSUME NEW i \in 1..Len(q), NEW j \in 1..Len(q), q[i] = q[j] PROVE i = j
    BY <1>5, <1>6, <2>2, <2>3, <2>4
  <2>5. ASSUME NEW i \in 1..Len(q)
        PROVE  parent_of[q[i]] = Nil \/ \E j \in 1..(i - 1) : q[j] = parent_of[q[i]]
    <3>1. i \in 1..(k - 1) /\ i \in 1..Len(s) /\ q[i] = s[i]
      BY <1>6, <2>2, <2>3
    <3>2. parent_of[s[i]] = Nil \/ \E j \in 1..(i - 1) : s[j] = parent_of[s[i]]
      BY <1>5, <3>1 DEF ParentFirst
    <3> QED
      BY <2>2, <2>3, <3>1, <3>2
  <2>6. ParentFirst'
    BY <1>2, <2>5 DEF ParentFirst, q
  <2> QED
    BY <2>1, <2>4, <2>6 DEF Planted, q
<1>15. Sized' /\ BoxOpen' /\ Locked' /\ EndsTakeNothing' /\ Combined'
  BY <1>2, <1>11, WalkRest
<1> QED
  BY <1>12, <1>13, <1>14, <1>15 DEF GroupInv

-----------------------------------------------------------------------------
(* Each road starts with its FATs, each of them once. *)
LEMMA FatsOfRoads ==
  ASSUME GroupInit
  PROVE  /\ \A r \in RoadIds : /\ ListOf(fats_by_road[r], FATs) /\ Len(fats_by_road[r]) = net.fats[r]
                               /\ net.fats[r] \in Nat
                               /\ \A k \in 1..net.fats[r] : fats_by_road[r][k] = <<r, k>>
         /\ Stock(fats_by_road, RoadIds, FATs)
<1>1. net \in Networks
  BY DEF GroupInit
<1>2. \A r \in RoadIds : net.fats[r] \in Nat
  BY <1>1, NetworksAssumption DEF RoadIds
<1>3. fats_by_road = [r \in RoadIds |-> [k \in 1..net.fats[r] |-> <<r, k>>]]
  BY DEF GroupInit
<1>4. ASSUME NEW r \in RoadIds
      PROVE  /\ fats_by_road[r] \in Seq(FATs) /\ Len(fats_by_road[r]) = net.fats[r]
             /\ \A k \in 1..net.fats[r] : fats_by_road[r][k] = <<r, k>>
  <2> DEFINE n == net.fats[r]
             s == [k \in 1..n |-> <<r, k>>]
  <2>1. fats_by_road[r] = s
    BY <1>3
  <2>2. n \in Nat /\ \A k \in 1..n : <<r, k>> \in FATs
    BY <1>2 DEF FATs
  <2> HIDE DEF n
  <2>3. s \in Seq(FATs) /\ Len(s) = n
    <3>1. \A k \in 1..n : s[k] \in FATs
      BY <2>2
    <3>2. s \in [1..n -> FATs]
      BY <3>1
    <3> QED
      BY <2>2, <3>2, SeqDef, LenProperties
  <2> QED
    BY <2>1, <2>3 DEF n
<1>5. Stock(fats_by_road, RoadIds, FATs)
  <2>1. \A r \in RoadIds : fats_by_road[r] \in Seq(FATs)
    BY <1>4
  <2> DEFINE Q == Seq(FATs)
  <2>2. \A r \in RoadIds : [k \in 1..net.fats[r] |-> <<r, k>>] \in Q
    BY <1>3, <2>1
  <2> HIDE DEF Q
  <2>3. fats_by_road \in [RoadIds -> Q]
    BY <1>3, <2>2
  <2> QED
    BY <2>3 DEF Stock, Q
<1> QED
  BY <1>2, <1>4, <1>5 DEF ListOf

LEMMA OnceAtStart ==
  ASSUME GroupInit, Typed, NEW f \in FATs
  PROVE  Given(f) = 0 /\ Left(f) = 1
<1>1. /\ net \in Networks /\ all_fat_road_ids = {r \in RoadIds : net.fats[r] > 0}
      /\ result_groups = <<>> /\ box = Nil /\ inject = [r \in RoadIds |-> <<>>] /\ orphans = <<>>
  BY DEF GroupInit
<1>2. OpenRoads = all_fat_road_ids /\ BoxList(box) = <<>>
  BY <1>1 DEF OpenRoads, OpenOf, BoxList
<1>3. Given(f) = 0
  BY <1>1, <1>2, AllNone, CountNone DEF Given, GivenIn
<1> DEFINE S == all_fat_road_ids
           x == f[1]
<1>4. /\ f = <<f[1], f[2]>> /\ x \in RoadIds /\ f[2] \in 1..net.fats[x] /\ IsFiniteSet(RoadIds)
      /\ RoadIds \in SUBSET Nat
  BY <1>1, Nets
<1>5. \A r \in RoadIds : /\ ListOf(fats_by_road[r], FATs) /\ Len(fats_by_road[r]) = net.fats[r]
                         /\ net.fats[r] \in Nat
                         /\ \A k \in 1..net.fats[r] : fats_by_road[r][k] = <<r, k>>
  BY FatsOfRoads
<1>6. S \subseteq RoadIds /\ x \in S
  BY <1>1, <1>4, <1>5
<1>7. OnTheRoads(S, fats_by_road, inject, FATs, Hands) /\ IsFiniteSet(S) /\ Carry(Hands, FATs)
  <2>1. Stock(fats_by_road, RoadIds, FATs) /\ Stock(inject, RoadIds, Hands)
    BY DEF Typed
  <2> QED
    BY <1>4, <1>6, <2>1, Stocked, FS_Subset, HandsCarry DEF OnTheRoads
<1>8. ASSUME NEW r \in RoadIds PROVE RoadHolds(fats_by_road[r], inject[r], f) = Count(f, fats_by_road[r])
  <2>1. inject[r] = <<>>
    BY <1>1
  <2>2. InAll(inject[r], f) = 0
    BY <2>1, AllNone
  <2>3. Count(f, fats_by_road[r]) \in Nat
    BY <1>5, Counted
  <2> QED
    BY <2>2, <2>3 DEF RoadHolds
<1>9. Count(f, fats_by_road[x]) = 1
  <2> DEFINE s == fats_by_road[x]
             n == net.fats[x]
             k == f[2]
  <2>1. ListOf(s, FATs) /\ Len(s) = n /\ n \in Nat /\ \A j \in 1..n : s[j] = <<x, j>>
    BY <1>4, <1>5
  <2>2. k \in 1..n /\ f = <<x, k>>
    BY <1>4
  <2> HIDE DEF s, n, k
  <2>3. f \in ToSet(s)
    <3>1. DOMAIN s = 1..n
      BY <2>1, Listed
    <3> QED
      BY <2>1, <2>2, <3>1 DEF ToSet
  <2>4. Count(f, s) # 0
    BY <2>1, <2>3, CountSome
  <2>5. ~(Count(f, s) >= 2)
    <3>1. SUFFICES ASSUME Count(f, s) >= 2 PROVE FALSE
      OBVIOUS
    <3>2. \E i \in 1..Len(s) : \E j \in 1..(i - 1) : s[j] = f /\ s[i] = f
      BY <2>1, <3>1, CountTwice
    <3>3. PICK i \in 1..n : \E j \in 1..(i - 1) : s[j] = f /\ s[i] = f
      BY <2>1, <3>2
    <3>4. PICK j \in 1..(i - 1) : s[j] = f /\ s[i] = f
      BY <3>3
    <3>5. j \in 1..n /\ j # i
      BY <2>1
    <3>6. s[j] = <<x, j>> /\ s[i] = <<x, i>>
      BY <2>1, <3>5
    <3> QED
      BY <3>4, <3>5, <3>6
  <2>6. Count(f, s) \in Nat
    BY <2>1, Counted
  <2>7. Count(f, s) = 1
    BY <2>4, <2>5, <2>6
  <2> QED
    BY <2>7 DEF s
<1>10. ASSUME NEW r \in S \ {x} PROVE Count(f, fats_by_road[r]) = 0
  <2> DEFINE s == fats_by_road[r]
  <2>1. /\ ListOf(s, FATs) /\ DOMAIN s = 1..net.fats[r] /\ r # x
        /\ \A j \in 1..net.fats[r] : s[j] = <<r, j>>
    BY <1>5, <1>6, Listed
  <2> HIDE DEF s
  <2>2. f \notin ToSet(s)
    BY <1>4, <2>1 DEF ToSet
  <2>3. Count(f, s) = 0
    BY <2>1, <2>2, CountSome
  <2> QED
    BY <2>3 DEF s
<1> HIDE DEF x
<1>11. OnRoads(S \ {x}, fats_by_road, inject, f) = 0
  <2> DEFINE T == S \ {x}
  <2>1. OnTheRoads(T, fats_by_road, inject, FATs, Hands)
    BY <1>7 DEF OnTheRoads
  <2>2. IsFiniteSet(T)
    BY <1>7, FS_Subset
  <2>3. \A r \in T : RoadHolds(fats_by_road[r], inject[r], f) = 0
    BY <1>6, <1>8, <1>10
  <2> HIDE DEF T
  <2>4. OnRoads(T, fats_by_road, inject, f) # 0 => \E r \in T : RoadHolds(fats_by_road[r], inject[r], f) # 0
    BY <1>7, <2>1, <2>2, RoadsNumber
  <2> QED
    BY <2>3, <2>4 DEF T
<1>12. OnRoads(S, fats_by_road, inject, f)
         = RoadHolds(fats_by_road[x], inject[x], f) + OnRoads(S \ {x}, fats_by_road, inject, f)
  <2> HIDE DEF S
  <2> QED
    BY <1>6, <1>7, RoadAlone
<1>13. OnRoads(S, fats_by_road, inject, f) = 1
  <2>1. RoadHolds(fats_by_road[x], inject[x], f) = 1
    BY <1>4, <1>8, <1>9
  <2>2. OnRoads(S, fats_by_road, inject, f) = 1 + 0
    BY <1>11, <1>12, <2>1
  <2> QED
    BY <2>2
<1>14. InAll(orphans, f) = 0
  BY <1>1, AllNone
<1> QED
  BY <1>2, <1>3, <1>13, <1>14 DEF Left, LeftIn

LEMMA GroupStart == GroupInit => GroupInv
<1> SUFFICES ASSUME GroupInit PROVE GroupInv
  OBVIOUS
<1>1. /\ net \in Networks /\ pass = "inner"
      /\ all_fat_road_ids = {r \in RoadIds : net.fats[r] > 0} /\ todo = all_fat_road_ids
      /\ committed = {} /\ result_groups = <<>> /\ box = Nil
      /\ inject = [r \in RoadIds |-> <<>>] /\ orphans = <<>>
      /\ parent_of = [r \in RoadIds |-> Nil] /\ process_order = <<>> /\ made = <<>>
  BY DEF GroupInit
<1>2. RoadIds \in SUBSET Nat
  BY <1>1, Nets
<1>3. Typed
  <2>1. ListOf(result_groups, FatGroups) /\ ListOf(orphans, FatGroups) /\ ListOf(made, FatGroups)
        /\ ListOf(process_order, RoadIds)
    BY <1>1, EmptyList
  <2>2. Stock(inject, RoadIds, Hands)
    <3> DEFINE Q == Seq(Hands)
    <3>1. <<>> \in Q
      BY EmptyList DEF ListOf
    <3> HIDE DEF Q
    <3>2. inject \in [RoadIds -> Q]
      BY <1>1, <3>1
    <3> QED
      BY <3>2 DEF Stock, Q
  <2>3. Stock(fats_by_road, RoadIds, FATs)
    BY FatsOfRoads
  <2>4. Parents(parent_of, RoadIds) /\ HasBox(box, RoadIds, FATs)
    BY <1>1 DEF Parents, HasBox
  <2>5. pass \in Passes
    BY <1>1 DEF Passes
  <2>6. todo \in SUBSET Nat /\ all_fat_road_ids \in SUBSET RoadIds /\ committed \in SUBSET FATs
    BY <1>1, <1>2
  <2> QED
    BY <1>1, <2>1, <2>2, <2>3, <2>4, <2>5, <2>6 DEF Typed
<1>4. Accounted
  <2>1. \A f \in FATs : Given(f) = 0 /\ Left(f) = 1
    BY <1>3, OnceAtStart
  <2> QED
    BY <2>1 DEF Accounted
<1>5. Own
  <2>1. ASSUME NEW r \in RoadIds, NEW f \in ToSet(fats_by_road[r]) PROVE f[1] = r
    <3> DEFINE s == fats_by_road[r]
    <3>1. ListOf(s, FATs) /\ Len(s) = net.fats[r] /\ \A k \in 1..net.fats[r] : s[k] = <<r, k>>
      BY FatsOfRoads
    <3>2. f \in ToSet(s)
      OBVIOUS
    <3> HIDE DEF s
    <3>3. DOMAIN s = 1..net.fats[r]
      BY <3>1, Listed
    <3> QED
      BY <3>1, <3>2, <3>3 DEF ToSet
  <2> QED
    BY <2>1 DEF Own
<1>6. Sized
  BY <1>1, AtMostNone DEF Sized, Joining
<1>7. BoxOpen /\ EndsTakeNothing
  BY <1>1 DEF BoxOpen, EndsTakeNothing
<1>8. Locked
  <2>1. \A f : InAll(result_groups, f) = 0
    BY <1>1, AllNone
  <2> QED
    BY <1>1, <2>1 DEF Locked
<1>9. Planted
  BY <1>1 DEF Planted
<1>10. Combined
  BY <1>1 DEF Combined, Combining, Joining, Walking
<1> QED
  BY <1>3, <1>4, <1>5, <1>6, <1>7, <1>8, <1>9, <1>10 DEF GroupInv

-----------------------------------------------------------------------------
LEMMA GroupStep == GroupInv /\ [GroupNext]_groupVars => GroupInv' /\ Conserves
<1> SUFFICES ASSUME GroupInv, [GroupNext]_groupVars
             PROVE  GroupInv' /\ Conserves
  OBVIOUS
<1>1. CASE PassBy
  BY <1>1, PassByStep
<1>2. CASE SelfSufficient
  BY <1>2, SelfSufficientStep
<1>3. CASE OpenBox
  BY <1>3, OpenBoxStep
<1>4. CASE BorrowDirect
  BY <1>4, BorrowDirectStep
<1>5. CASE BorrowRelay
  BY <1>5, BorrowRelayStep
<1>6. CASE CloseBox
  BY <1>6, CloseBoxStep
<1>7. CASE InnerDone
  BY <1>7, InnerDoneStep
<1>8. CASE PoolEnds
  BY <1>8, PoolEndsStep
<1>9. CASE EndsPooled
  BY <1>9, EndsPooledStep
<1>10. CASE Plant
  BY <1>10, PlantStep
<1>11. CASE Branch
  BY <1>11, BranchStep
<1>12. CASE TreeDone
  BY <1>12, TreeDoneStep
<1>13. CASE Walk
  BY <1>13, WalkStep
<1>14. CASE WalkDone
  BY <1>14, WalkDoneStep
<1>15. CASE Join
  BY <1>15, JoinStep
<1>16. CASE JoinDone
  BY <1>16, JoinDoneStep
<1>17. CASE Pair
  BY <1>17, PairStep
<1>18. CASE PairDone
  BY <1>18, PairDoneStep
<1>19. CASE Build
  BY <1>19, BuildStep
<1>20. CASE GroupEnded
  BY <1>20, StillStep DEF GroupEnded
<1>21. CASE UNCHANGED groupVars
  BY <1>21, StillStep
<1> QED
  BY <1>1, <1>2, <1>3, <1>4, <1>5, <1>6, <1>7, <1>8, <1>9, <1>10, <1>11, <1>12, <1>13,
     <1>14, <1>15, <1>16, <1>17, <1>18, <1>19, <1>20, <1>21 DEF GroupNext

LEMMA GroupInductive == GroupSpec => []GroupInv
<1>1. GroupInv /\ [GroupNext]_groupVars => GroupInv'
  BY GroupStep
<1> QED
  BY <1>1, GroupStart, PTL DEF GroupSpec

(* Type correctness of generate_fdts, on every network: the groups only ever
   hold FATs of the network and no dead end lends more than its second wing. *)
THEOREM GroupTypeCorrect == GroupSpec => []GroupTypeOK
<1>1. GroupInv => GroupTypeOK
  BY TypedForm DEF GroupInv
<1> QED
  BY <1>1, GroupInductive, PTL

(* Whatever generate_fdts lends, swaps, hands on, closes early, puts together or
   pairs, on whatever network, every FAT is in a group or on its way into one,
   and no group is refused for its size. *)
THEOREM FatsKept == GroupSpec => []EveryFatKept
<1>1. GroupInv => EveryFatKept
  BY KeptFrom DEF GroupInv, Sized
<1> QED
  BY <1>1, GroupInductive, PTL

(* Only a swap puts a FAT into a second group, and only one of the very dead end
   that the swap completes: the ownership lock of generate_fdts covers all else. *)
THEOREM SharedOnlyBySwaps == GroupSpec => OnlySwapsShare
<1> DEFINE Shares == TwiceGrouped' \subseteq
       TwiceGrouped \cup (IF box # Nil /\ box' # Nil THEN ToSet(InBox) ELSE {})
<1>1. GroupInv /\ [GroupNext]_groupVars => [Shares]_groupVars
  <2> SUFFICES ASSUME GroupInv, [GroupNext]_groupVars PROVE Shares
    OBVIOUS
  <2>1. GroupInv' /\ Conserves
    BY GroupStep
  <2>2. Typed /\ Accounted /\ Typed'
    BY <2>1 DEF GroupInv
  <2> QED
    BY <2>1, <2>2, OnlyShared
<1> QED
  BY <1>1, GroupInductive, PTL DEF GroupSpec, OnlySwapsShare

(* The places of the groups that are too small, when others are put behind them. *)
LEMMA ShortJoined ==
  ASSUME NEW s, ListOf(s, FatGroups), NEW t, ListOf(t, FatGroups),
         \A i, j \in DOMAIN t :
           Len(t[i].fats) < MIN_FAT_PER_FDT /\ Len(t[j].fats) < MIN_FAT_PER_FDT => i = j
  PROVE  Cardinality(Underfilled(s \o t)) <= Cardinality(Underfilled(s)) + 1
<1> DEFINE n == Len(s)
           u == s \o t
           U == Underfilled(s)
<1>1. /\ n \in Nat /\ DOMAIN s = 1..n /\ DOMAIN t = 1..Len(t) /\ Len(t) \in Nat
      /\ DOMAIN u = 1..(n + Len(t))
  BY Listed, JoinedSeq
<1>2. (\A i \in 1..n : u[i] = s[i]) /\ (\A j \in 1..Len(t) : u[n + j] = t[j])
  BY JoinedSeq
<1>3. U \subseteq 1..n /\ IsFiniteSet(U)
  <2>1. U \subseteq 1..n
    BY <1>1 DEF Underfilled
  <2>2. IsFiniteSet(1..n)
    BY <1>1, FS_Interval
  <2> QED
    BY <2>1, <2>2, FS_Subset
<1> HIDE DEF n, u, U
<1>4. \A i \in Underfilled(u) : i \in U \/ \E j \in 1..Len(t) : i = n + j /\ Len(t[j].fats) < MIN_FAT_PER_FDT
  <2>1. ASSUME NEW i \in Underfilled(u), i \notin 1..n
        PROVE  \E j \in 1..Len(t) : i = n + j /\ Len(t[j].fats) < MIN_FAT_PER_FDT
    <3>1. i \in 1..(n + Len(t)) /\ Len(u[i].fats) < MIN_FAT_PER_FDT
      BY <1>1 DEF Underfilled
    <3>2. i - n \in 1..Len(t) /\ i = n + (i - n)
      BY <1>1, <2>1, <3>1
    <3> QED
      BY <1>2, <3>1, <3>2
  <2>2. ASSUME NEW i \in Underfilled(u), i \in 1..n PROVE i \in U
    BY <1>1, <1>2, <2>2 DEF Underfilled, U
  <2> QED
    BY <2>1, <2>2
<1>5. CASE \E j \in 1..Len(t) : Len(t[j].fats) < MIN_FAT_PER_FDT
  <2>1. PICK j \in 1..Len(t) : Len(t[j].fats) < MIN_FAT_PER_FDT
    BY <1>5
  <2>2. Underfilled(u) \subseteq U \cup {n + j}
    BY <1>1, <1>4, <2>1
  <2>3. IsFiniteSet(U \cup {n + j}) /\ Cardinality(U \cup {n + j}) <= Cardinality(U) + 1
    <3>1. IsFiniteSet(U \cup {n + j})
      BY <1>3, FS_AddElement
    <3>2. /\ Cardinality(U \cup {n + j}) = IF n + j \in U THEN Cardinality(U) ELSE Cardinality(U) + 1
          /\ Cardinality(U) \in Nat
      BY <1>3, FS_AddElement, FS_CardinalityType
    <3> QED
      BY <3>1, <3>2
  <2>4. Cardinality(Underfilled(u)) <= Cardinality(U \cup {n + j})
    BY <2>2, <2>3, FS_Subset
  <2>5. Cardinality(Underfilled(u)) \in Nat /\ Cardinality(U) \in Nat /\ Cardinality(U \cup {n + j}) \in Nat
    BY <1>3, <2>2, <2>3, FS_Subset, FS_CardinalityType
  <2>6. Cardinality(Underfilled(u)) <= Cardinality(U) + 1
    BY <2>3, <2>4, <2>5
  <2> QED
    BY <2>6 DEF u, U
<1>6. CASE ~\E j \in 1..Len(t) : Len(t[j].fats) < MIN_FAT_PER_FDT
  <2>1. Underfilled(u) \subseteq U
    BY <1>4, <1>6
  <2>2. /\ Cardinality(Underfilled(u)) <= Cardinality(U) /\ IsFiniteSet(Underfilled(u))
    BY <1>3, <2>1, FS_Subset
  <2>3. Cardinality(Underfilled(u)) \in Nat /\ Cardinality(U) \in Nat
    BY <1>3, <2>2, FS_CardinalityType
  <2>4. Cardinality(Underfilled(u)) <= Cardinality(U) + 1
    BY <2>2, <2>3
  <2> QED
    BY <2>4 DEF u, U
<1> QED
  BY <1>5, <1>6

(* However many groups a step puts together, at most one of those it makes is too
   small: no pass of _combine_underfull_groups trades one small group for several. *)
THEOREM JoinsLeaveOneShort == GroupSpec => OneShortPerJoin
<1>1. GroupInv /\ [GroupNext]_groupVars => [OneMoreShort]_groupVars
  <2> SUFFICES ASSUME GroupInv, [GroupNext]_groupVars, Joining, todo # {}
               PROVE  Cardinality(Underfilled(made')) <= Cardinality(Underfilled(made)) + 1
    BY DEF OneMoreShort
  <2>1. Typed /\ Combined /\ ListOf(made, FatGroups)
    BY DEF GroupInv, Typed
  <2>2. pass \in {"join", "recalibrate"}
    BY DEF Joining
  <2>3. CASE Join
    <3>1. PICK C, new :
           /\ made' = made \o new /\ todo' = todo \ C /\ C \subseteq todo
           /\ ListOf(new, FatGroups) /\ AtMost(new, MAX_FAT_PER_FDT)
           /\ \A i, j \in DOMAIN new :
                Len(new[i].fats) < MIN_FAT_PER_FDT /\ Len(new[j].fats) < MIN_FAT_PER_FDT => i = j
           /\ \A f : InAll(new, f) = HeldBy(result_groups, C, f)
      BY <2>1, <2>3, JoinForm
    <3> QED
      BY <2>1, <3>1, ShortJoined
  <2>4. CASE UNCHANGED groupVars \/ GroupEnded
    <3>1. made' = made
      BY <2>4 DEF GroupEnded, groupVars
    <3> DEFINE s == made
               t == <<>>
    <3>2. ListOf(s, FatGroups) /\ ListOf(t, FatGroups) /\ DOMAIN t = {}
      BY <2>1, EmptyList
    <3>3. IsFiniteSet(Underfilled(s))
      <4>1. DOMAIN s = 1..Len(s) /\ Len(s) \in Nat
        BY <3>2, Listed
      <4>2. IsFiniteSet(1..Len(s)) /\ Underfilled(s) \subseteq 1..Len(s)
        BY <4>1, FS_Interval DEF Underfilled
      <4> QED
        BY <4>2, FS_Subset
    <3>4. Cardinality(Underfilled(s)) \in Nat
      BY <3>3, FS_CardinalityType
    <3> QED
      BY <3>1, <3>4
  <2>5. CASE JoinDone
    BY <2>5 DEF JoinDone
  <2>6. CASE ~(Join \/ JoinDone \/ GroupEnded \/ UNCHANGED groupVars)
    <3>1. box = Nil
      BY <2>2 DEF GroupInv, BoxOpen
    <3>2. \/ PassBy \/ SelfSufficient \/ OpenBox \/ BorrowDirect \/ BorrowRelay \/ CloseBox
          \/ InnerDone
          \/ PoolEnds \/ EndsPooled \/ Plant \/ Branch \/ TreeDone \/ Walk \/ WalkDone
          \/ Pair \/ PairDone \/ Build
      BY <2>6 DEF GroupNext
    <3> QED
      BY <2>2, <3>1, <3>2
         DEF PassBy, SelfSufficient, OpenBox, BorrowDirect, BorrowRelay, CloseBox, InnerDone, PoolEnds,
             EndsPooled, Plant, Branch, TreeDone, Walk, WalkDone, Pair, PairDone, Build, Visited
  <2> QED
    BY <2>3, <2>4, <2>5, <2>6
<1> QED
  BY <1>1, GroupInductive, PTL DEF GroupSpec, OneShortPerJoin
=============================================================================
