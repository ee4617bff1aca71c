----------------------------- MODULE EngineFats -----------------------------
(***************************************************************************)
(* The FTTx engine from homes to FATs: homes are given roads, the coverage *)
(* target trims them, each road's customers are grouped, short tails are   *)
(* lent to a neighbour at a junction, and FATs that are still short are    *)
(* pooled with others and dealt out again.  Distances are not modelled:    *)
(* where the code measures, any outcome may follow.                        *)
(***************************************************************************)
EXTENDS Partition, FiniteSets, SequencesExt

CONSTANTS
  Homes,      \* positions of the homes along their roads
  Roads,      \* 1..n, the order in which the roads are visited
  Customers,  \* the customers a home may have
  Near,       \* the roads a home may be given, the nearest or a fallback
  Ends,       \* the two junctions of a road
  Major,      \* primary, secondary and dual carriageway roads
  Coverage,   \* the share of the customers to serve, in percent
  MinFat, MaxFat, TailBorrow,
  MaxFatRebalances, \* MAX_FAT_REBALANCE_ITERATIONS
  None

ASSUME FieldAssumption ==
  /\ Homes \subseteq Nat /\ IsFiniteSet(Homes)
  /\ Roads = 1..Cardinality(Roads) /\ IsFiniteSet(Roads)
  /\ Customers \in [Homes -> SUBSET Nat]
  /\ Near \in [Homes -> SUBSET Roads]
  /\ Major \subseteq Roads
  /\ Coverage \in 0..100 /\ None \notin Roads

ASSUME CapacityAssumption ==
  /\ MinFat \in Nat \ {0} /\ MaxFat \in Nat /\ MinFat <= MaxFat
  /\ TailBorrow \in Nat /\ MaxFatRebalances \in Nat

VARIABLES
  phase,
  road,      \* the road of a home
  demand,    \* customers of a home that are to be served
  clusters,  \* per road, its groups of customers in order
  serves,    \* what each FAT serves of each home
  turn,      \* the ends of roads whose tails have been looked at
  unmatched, \* FATs that found nothing to pool with
  rounds,    \* iterations of the rebalancing
  excused    \* the one FAT that is excused for being short

fieldVars == <<phase, road, demand, clusters, serves, turn, unmatched, rounds, excused>>

Phases == {"assign", "trim", "group", "borrow", "rebalance", "done", "failed"}
Allocations == [Homes -> Nat]

FieldTypeOK ==
  /\ phase \in Phases
  /\ road \in [Homes -> Roads \cup {None}]
  /\ demand \in Allocations
  /\ clusters \in [Roads -> Seq(Allocations)]
  /\ DOMAIN serves \subseteq Nat /\ \A f \in DOMAIN serves : serves[f] \in Allocations
  /\ turn \in 0..2 * Cardinality(Roads)
  /\ unmatched \subseteq DOMAIN serves
  /\ rounds \in 0..MaxFatRebalances
  /\ excused \in SUBSET DOMAIN serves

FieldInit ==
  /\ phase = "assign" /\ turn = 0 /\ rounds = 0
  /\ road = [h \in Homes |-> None] /\ demand = [h \in Homes |-> 0]
  /\ clusters = [r \in Roads |-> <<>>] /\ serves = <<>>
  /\ unmatched = {} /\ excused = {}

HomesOn(r) == {h \in Homes : road[h] = r}

-----------------------------------------------------------------------------
(* assign_homepasses_to_roads: a home out of reach of every road is left out. *)
Assign ==
  /\ phase = "assign"
  /\ \E to \in [Homes -> Roads \cup {None}] :
       /\ \A h \in Homes : IF Near[h] = {} THEN to[h] = None ELSE to[h] \in Near[h]
       /\ road' = to
       /\ \E count \in [Homes -> UNION {Customers[h] : h \in Homes}] :
            /\ \A h \in Homes : count[h] \in Customers[h]
            /\ demand' = [h \in Homes |-> IF to[h] = None THEN 0 ELSE count[h]]
  /\ phase' = IF Coverage < 100 THEN "trim" ELSE "group"
  /\ UNCHANGED <<clusters, serves, turn, unmatched, rounds, excused>>

(* round(), to even at a half *)
Rounded(n, d) ==
  LET q == n \div d   r == 2 * (n % d) IN
  IF r > d \/ (r = d /\ q % 2 = 1) THEN q + 1 ELSE q

(* What a home gets of what is left of its road's quota. *)
Share(d, left) == Larger(0, Smaller(d, left))

(* _apply_coverage_trim: along each road until its share is reached; the last
   home may be served in part. *)
Trim ==
  LET onRoad(r) == [h \in HomesOn(r) |-> demand[h]]
      quota(r) == Rounded(Load(onRoad(r)) * Coverage, 100)
      before(h) == Load([g \in {g \in HomesOn(road[h]) : g < h} |-> demand[g]])
  IN /\ phase = "trim" /\ phase' = "group"
     /\ demand' = [h \in Homes |->
          IF road[h] = None THEN 0
          ELSE Share(demand[h], quota(road[h]) - before(h))]
     /\ UNCHANGED <<road, clusters, serves, turn, unmatched, rounds, excused>>

-----------------------------------------------------------------------------
(* generate_fats, pass 1: a wide gap before a home of gaps starts a segment,
   and each segment is cut into balanced groups. *)
SegmentClusters(segment) ==
  LET load == [h \in Homes |-> IF h \in segment THEN demand[h] ELSE 0]
  IN Slices(load, [h \in Homes |-> h], Sizes(Load(load), MinFat, MaxFat))

RoadClusters(r, gaps) ==
  LET homes == HomesOn(r)
      starts == {h \in homes : h \in gaps \/ \A g \in homes : g >= h}
      segment(s) == {h \in homes : h >= s /\ \A t \in starts : t > s => h < t}
      inOrder == Ascending(starts)
  IN FlattenSeq([i \in DOMAIN inOrder |-> SegmentClusters(segment(inOrder[i]))])

Group ==
  /\ phase = "group" /\ phase' = "borrow"
  /\ \E gaps \in SUBSET Homes :
       clusters' = [r \in Roads |-> RoadClusters(r, gaps)]
  /\ UNCHANGED <<road, demand, serves, turn, unmatched, rounds, excused>>

(* Pass 2: the ends of the roads in turn. *)
Turn == <<(turn \div 2) + 1, (turn % 2) + 1>>
Outermost(r, end) == IF end = 1 THEN 1 ELSE Len(clusters[r])

(* The end of road n at a junction; the start, when both of its ends are there. *)
EndAt(n, junction) == IF Ends[n][1] = junction THEN 1 ELSE 2

Lenders(r, end) ==
  {n \in Roads \ ({r} \cup Major) :
     clusters[n] # <<>> /\ \E e \in 1..2 : Ends[n][e] = Ends[r][end]}

(* Mutant of Room: a group that is not full takes any tail. *)
RoomUnderFull(a, b) == Load(a) < MaxFat

Room(a, b) == Load(a) + Load(b) <= MaxFat

Together(a, b) == [h \in Homes |-> a[h] + b[h]]

NextTurn == phase = "borrow" /\ turn < 2 * Cardinality(Roads) /\ turn' = turn + 1

(* A neighbour takes the tail when the two fit one FAT and its drops are short
   enough; a road keeps one group. *)
LendTail ==
  LET r == Turn[1]   end == Turn[2]   i == Outermost(r, end) IN
  /\ NextTurn
  /\ Len(clusters[r]) >= 2 /\ Load(clusters[r][i]) \in 1..(TailBorrow - 1)
  /\ \E n \in Lenders(r, end) :
       LET b == Outermost(n, EndAt(n, Ends[r][end]))
       IN /\ Room(clusters[n][b], clusters[r][i])
          /\ clusters' = [clusters EXCEPT ![n][b] = Together(@, clusters[r][i]),
                                          ![r] = RemoveAt(@, i)]
  /\ UNCHANGED <<phase, road, demand, serves, unmatched, rounds, excused>>

(* No tail to lend, or every drop it would make is too long. *)
KeepTail ==
  /\ NextTurn
  /\ UNCHANGED <<phase, road, demand, clusters, serves, unmatched, rounds, excused>>

(* Pass 3: one FAT for each group, refused if one is empty or too large or
   the totals differ. *)
Low(f) == Load(serves[f]) \in 1..(MinFat - 1)

Create ==
  LET made == FlattenSeq([r \in 1..Cardinality(Roads) |-> clusters[r]]) IN
  /\ phase = "borrow" /\ turn = 2 * Cardinality(Roads)
  /\ serves' = made /\ clusters' = [r \in Roads |-> <<>>]
  /\ phase' = IF /\ \A f \in DOMAIN made : Load(made[f]) \in 1..MaxFat
                 /\ Load([f \in DOMAIN made |-> Load(made[f])]) = Load(demand)
              THEN "rebalance" ELSE "failed"
  /\ UNCHANGED <<road, demand, turn, unmatched, rounds, excused>>

-----------------------------------------------------------------------------
(* _rebalance_fats_for_capacity.  Create lets no FAT over the maximum through,
   so the split of such a FAT that the code begins with has nothing to do. *)

Victims == {f \in DOMAIN serves \ unmatched : Low(f)}
Emptiest(S) == {f \in S : \A g \in S : Load(serves[f]) <= Load(serves[g])}

Balancing == phase = "rebalance" /\ rounds < MaxFatRebalances

(* Mutant of Pooled: of a home that several FATs serve, one share is kept. *)
PooledOnce(pool) ==
  [h \in Homes |-> IF pool = {} THEN 0 ELSE Max({serves[f][h] : f \in pool})]

(* A home that several FATs of the pool serve is one home again. *)
Pooled(pool) == [h \in Homes |-> Load([f \in pool |-> serves[f][h]])]

(* Mutant of Poolable: the pool is used as soon as it fills one FAT. *)
FitsOne(pool) == Load(Pooled(pool)) >= MinFat

Poolable(pool) == Exact(Load(Pooled(pool)), MinFat, MaxFat)

(* What v may be pooled with: others within reach, the nearest first, until
   the pool can be dealt out exactly. *)
Partners(v) ==
  {q \in SetToAllKPermutations(DOMAIN serves \ {v}) :
     \A k \in 0..Len(q) : Poolable({v} \cup {q[i] : i \in 1..k}) <=> k = Len(q)}

(* The largest FAT of a pool first; of equal ones, which differ in name only,
   the code takes the one that was pooled first. *)
Before(f, g) ==
  \/ Load(serves[f]) > Load(serves[g])
  \/ Load(serves[f]) = Load(serves[g]) /\ f <= g

(* The first FATs of the pool are kept, and dealt its homes in some order of
   distance; the rest are dissolved. *)
Dealt(pool, rank) ==
  LET sizes == Sizes(Load(Pooled(pool)), MinFat, MaxFat)
      slices == Slices(Pooled(pool), rank, sizes)
      place(f) == Cardinality({g \in pool : Before(g, f)})
  IN [f \in (DOMAIN serves \ pool) \cup {f \in pool : place(f) \in DOMAIN sizes} |->
        IF f \in pool THEN slices[place(f)] ELSE serves[f]]

Rebalance ==
  /\ Balancing /\ rounds' = rounds + 1
  /\ \E v \in Emptiest(Victims), rank \in Injection(Homes, 1..Cardinality(Homes)) :
     \E q \in Partners(v) :
       serves' = Dealt({v} \cup {q[i] : i \in DOMAIN q}, rank)
  /\ unmatched' = {}
  /\ phase' = IF \E f \in DOMAIN serves' : Load(serves'[f]) = 0 THEN "failed" ELSE phase
  /\ UNCHANGED <<road, demand, clusters, turn, excused>>

(* Nothing within reach makes an exact pool. *)
SetAside ==
  /\ Balancing /\ rounds' = rounds + 1
  /\ \E v \in Emptiest(Victims) : unmatched' = unmatched \cup {v}
  /\ UNCHANGED <<phase, road, demand, clusters, serves, turn, excused>>

(* The closing audits, and the one FAT that may stay short. *)
Finish ==
  LET low == {f \in DOMAIN serves : Low(f)} IN
  /\ phase = "rebalance" /\ (Victims = {} \/ rounds = MaxFatRebalances)
  /\ phase' = IF Load(Pooled(DOMAIN serves)) = Load(demand) THEN "done" ELSE "failed"
  /\ excused' = IF Cardinality(low) = 1 THEN low ELSE {}
  /\ UNCHANGED <<road, demand, clusters, serves, turn, unmatched, rounds>>

FieldEnded == phase \in {"done", "failed"} /\ UNCHANGED fieldVars

FieldNext == \/ Assign \/ Trim \/ Group \/ LendTail \/ KeepTail \/ Create
             \/ Rebalance \/ SetAside \/ Finish \/ FieldEnded

FieldSpec == FieldInit /\ [][FieldNext]_fieldVars

-----------------------------------------------------------------------------
GroupedFor(h) ==
  Load([r \in Roads |-> Load([i \in DOMAIN clusters[r] |-> clusters[r][i][h]])])
ServedBy(h) == Load([f \in DOMAIN serves |-> serves[f][h]])

(* Every customer to be served has a place in a group or a FAT, and no more
   than one, however tails are lent and pools dealt out (fat_generation.py). *)
EveryHomeServed ==
  \A h \in Homes :
    /\ phase = "borrow" => GroupedFor(h) = demand[h]
    /\ phase \in {"rebalance", "done"} => ServedBy(h) = demand[h]

(* No audit of the engine ever refuses what its own stages have made: no FAT is
   empty or over its maximum, and none is dealt more FATs than it pooled. *)
NeverRefuses ==
  /\ phase # "failed"
  /\ phase \in {"rebalance", "done"} =>
       \A f \in DOMAIN serves : Load(serves[f]) \in 1..MaxFat

LowCount == Cardinality({f \in DOMAIN serves : Low(f)})

(* Each repair leaves fewer FATs short and no more FATs than before: pooling
   never trades one short FAT for another (_rebalance_fats_for_capacity). *)
RepairsHelp ==
  [][phase = "rebalance" /\ serves' # serves =>
       /\ Cardinality({f \in DOMAIN serves' : Load(serves'[f]) \in 1..(MinFat - 1)}) < LowCount
       /\ DOMAIN serves' \subseteq DOMAIN serves]_fieldVars
=============================================================================
