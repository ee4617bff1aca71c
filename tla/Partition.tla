----------------------------- MODULE Partition -----------------------------
(* How the engine cuts a number of customers into FATs, or of FATs into FDTs:
   _balanced_partition_sizes (config.py), and the slices it is followed by. *)
EXTENDS Integers, Sequences, FiniteSets, FiniteSetsExt

(* The fewest groups that hold n when each is full. *)
Groups(n, most) == (n + most - 1) \div most

(* A single group short of the minimum, or no number of groups that fits,
   leaves one group undersized: the other groups are then full. *)
Exact(n, least, most) == Groups(n, most) * least <= n

Sizes(n, least, most) ==
  LET k == Groups(n, most) IN
  [i \in 1..k |->
     IF Exact(n, least, most) THEN n \div k + (IF i <= n % k THEN 1 ELSE 0)
     ELSE IF i < k THEN most ELSE n - most * (k - 1)]

Smaller(a, b) == IF a < b THEN a ELSE b
Larger(a, b) == IF a < b THEN b ELSE a

Load(alloc) == MapThenSumSet(LAMBDA h : alloc[h], DOMAIN alloc)

(* A set of numbers from the least to the greatest. *)
Ascending(S) ==
  [k \in 1..Cardinality(S) |-> CHOOSE i \in S : Cardinality({j \in S : j <= i}) = k]

(* The demand laid out in the order of rank and cut into pieces of the given
   sizes: what the i-th piece takes of each home. *)
Slices(demand, rank, sizes) ==
  LET from(h) == Load([g \in {g \in DOMAIN demand : rank[g] < rank[h]} |-> demand[g]])
      upTo(i) == Load([j \in 1..i |-> sizes[j]])
  IN [i \in DOMAIN sizes |-> [h \in DOMAIN demand |->
        Larger(0, Smaller(from(h) + demand[h], upTo(i)) - Larger(from(h), upTo(i - 1)))]]
=============================================================================
