----------------------------- MODULE EngineFdts -----------------------------
(***************************************************************************)
(* The FTTx engine from FATs to FDTs: the groups are balanced to the       *)
(* capacity of an FDT, cut into wings, repaired where a hop is too long,   *)
(* validated and linked.  A FAT is counted, not named, and distances are   *)
(* not modelled: where the code measures, any outcome may follow.  How     *)
(* often a repair is applied is left open, so the passes are not counted   *)
(* and a pass may always be the last.                                      *)
(***************************************************************************)
EXTENDS Partition, FiniteSets, SequencesExt

CONSTANTS
  FDTs,
  Jobs,          \* PONs of an FDT and FATs to place: pairs
  MaxWing,       \* FATs on a wing
  Floor,         \* the least an FDT holds, per PON
  MaxRebalances, \* MAX_REBALANCE_ITERATIONS
  MaxAbsorb,     \* MAX_ABSORB_PER_PASS
  MaxDepth       \* FDTs a cascade of moves passes through

ASSUME JobAssumption == IsFiniteSet(FDTs) /\ Jobs \subseteq (1..2) \X Nat

ASSUME ProfileAssumption ==
  /\ MaxWing \in Nat /\ Floor \in Nat /\ Floor < 2 * MaxWing /\ MaxWing <= Floor
  /\ MaxRebalances \in Nat /\ MaxAbsorb \in Nat /\ MaxDepth \in Nat

VARIABLES
  stage,
  pons, total,
  fats,     \* the FATs of an FDT, 0 once it is dissolved
  wing,     \* how many of them each wing carries
  flagged,  \* FDTs excused for being short
  linked,   \* FDTs whose FATs are linked in the order of their wings
  blocked,  \* FDTs that found nothing to pool with
  tries,    \* iterations of the rebalancing
  left,     \* FDTs that have still to be offered a neighbour's FATs
  swapped,  \* whether the settling moved a FAT to the other wing
  before    \* the wings before the settling's chain repair

vars == <<stage, pons, total, fats, wing, flagged, linked, blocked, tries, left, swapped, before>>

Wings == {"A", "B", "C", "D"}
Layouts == [Wings -> 0..MaxWing]
Placed(w) == w["A"] + w["B"] + w["C"] + w["D"]
NoWings == [x \in Wings |-> 0]

Pon(x) == IF x \in {"A", "B"} THEN {"A", "B"} ELSE {"C", "D"}

Least == Floor * pons
Most == 2 * MaxWing * pons

Repairing == {"relax", "absorb", "relay", "cascade", "swap", "chain"}
Settling == {"validate", "settle swap", "settle chain", "audit", "route", "done", "refused", "graph"}
Stages == {"generate", "generated", "borrow", "pool", "last", "boundary", "short", "overflow"}
          \cup Repairing \cup Settling

TypeOK ==
  /\ stage \in Stages
  /\ pons \in 1..2 /\ total \in Nat
  /\ fats \in [FDTs -> 0..Most]
  /\ wing \in [FDTs -> Layouts] /\ before \in [FDTs -> Layouts]
  /\ flagged \subseteq FDTs /\ linked \subseteq FDTs
  /\ blocked \subseteq FDTs /\ left \subseteq FDTs
  /\ tries \in 0..MaxRebalances /\ swapped \in BOOLEAN

Live == {f \in FDTs : fats[f] > 0}
Short == {f \in Live : fats[f] < Least}
MayGive(f) == fats[f] > Least
MayTake(f) == fats[f] \in 1..(Most - 1)

Transfer(s, t, n) ==
  fats' = [f \in FDTs |-> IF f = s THEN fats[f] - n ELSE IF f = t THEN fats[f] + n ELSE fats[f]]

-----------------------------------------------------------------------------
(* Cutting an FDT into wings.  A split by angle is level; a dead end fills its
   wings from its far end and spills what does not fit. *)

AnySplit == [p \in 1..2 |-> [n \in 0..4 * MaxWing |->
  {w \in Layouts : Placed(w) = n /\ (p = 1 => w["C"] = 0 /\ w["D"] = 0)}]]

Level(a, b) == IF a + b = 1 THEN a = 1 ELSE a - b \in -1..1

EvenSplit == [p \in 1..2 |-> [n \in 0..4 * MaxWing |->
  {w \in AnySplit[p][n] :
     /\ Level(w["A"], w["B"]) /\ Level(w["C"], w["D"])
     /\ p = 2 => Level(w["A"] + w["B"], w["C"] + w["D"])}]]

(* The FDTs of S get the wings their new sizes give. *)
Renumber(S, split) ==
  \E w \in [S -> UNION {split[pons][fats'[f]] : f \in S}] :
    /\ \A f \in S : w[f] \in split[pons][fats'[f]]
    /\ wing' = [f \in FDTs |-> IF f \in S THEN w[f] ELSE wing[f]]

Without(w, x) == [w EXCEPT ![x] = @ - 1]
With(w, x) == [w EXCEPT ![x] = @ + 1]

(* What a wing of the PON makes of one more FAT. *)
Inserted(w, pon) == {With(w, x) : x \in {x \in pon : w[x] < MaxWing}}

(* One FAT of the PON gives its place to another. *)
Replaced(w, pon) == UNION {Inserted(Without(w, x), pon) : x \in {x \in pon : w[x] > 0}}

-----------------------------------------------------------------------------
Init ==
  /\ stage = "generate" /\ \E job \in Jobs : pons = job[1] /\ total = job[2]
  /\ fats = [f \in FDTs |-> 0]
  /\ wing = [f \in FDTs |-> NoWings] /\ before = [f \in FDTs |-> NoWings]
  /\ flagged = {} /\ linked = {} /\ blocked = {} /\ left = {}
  /\ tries = 0 /\ swapped = FALSE

(* generate_fdts ends with groups of any size up to the maximum. *)
Generate ==
  /\ stage = "generate" /\ stage' = "generated"
  /\ fats' \in {g \in [FDTs -> 0..Most] : Load(g) = total}
  /\ UNCHANGED <<pons, total, wing, flagged, linked, blocked, tries, left, swapped, before>>

(* _repair_fdt_outliers_by_relay: a FAT much nearer another FDT moves there, or
   the two exchange FATs. *)
Relay ==
  /\ stage \in {"generated", "relay"}
  /\ \E s \in Live : \E t \in Live \ {s} :
       /\ \/ MayGive(s) /\ MayTake(t) /\ Transfer(s, t, 1)
          \/ UNCHANGED fats
       /\ Renumber({s, t}, EvenSplit)
  /\ UNCHANGED <<stage, pons, total, flagged, linked, blocked, tries, left, swapped, before>>

RelayDone ==
  /\ stage \in {"generated", "relay"}
  /\ stage' = IF stage = "generated" THEN "borrow" ELSE "cascade"
  /\ UNCHANGED <<pons, total, fats, wing, flagged, linked, blocked, tries, left, swapped, before>>

-----------------------------------------------------------------------------
(* _rebalance_fdts_for_capacity.  No FDT is over its maximum when it starts, so
   the split of such FDTs has nothing to do.  The wings an FDT is given on the
   way are not read before Flag cuts all of them again. *)

(* Phase 1: from the neighbours that can spare some, within reach. *)
Borrow ==
  /\ stage = "borrow"
  /\ \E r \in Short \ flagged, d \in Live :
       /\ MayGive(d)
       /\ \E n \in 1..Smaller(Least - fats[r], fats[d] - Least) : Transfer(d, r, n)
  /\ UNCHANGED <<stage, pons, total, wing, flagged, linked, blocked, tries, left, swapped, before>>

BorrowDone ==
  /\ stage = "borrow" /\ stage' = "pool" /\ tries' = 0 /\ blocked' = {}
  /\ UNCHANGED <<pons, total, fats, wing, flagged, linked, left, swapped, before>>

Held(pool) == Load([i \in DOMAIN pool |-> fats[pool[i]]])
Fits(pool) == Exact(Held(pool), Least, Most)

(* What the victim may be pooled with: others, nearest first, until the pool
   can be dealt out exactly. *)
Pools(v) ==
  {pool \in {<<v>> \o q : q \in SetToAllKPermutations(Live \ {v})} :
     \A k \in 1..(Len(pool) - 1) : ~Fits(SubSeq(pool, 1, k))}

Everyone(pool) == \A f \in Live : \E i \in DOMAIN pool : pool[i] = f

Smallest(S) == {f \in S : \A g \in S : fats[f] <= fats[g]}

Even(n, k) == [i \in 1..k |-> n \div k + (IF i <= n % k THEN 1 ELSE 0)]

(* Mutant of MostGroups: the last group need not be full enough. *)
MostGroupsRoundedUp(n) == (n + Least - 1) \div Least

MostGroups(n) == n \div Least

(* Mutant of Deals: the last group of an inexact pool is left out. *)
DealsWithoutTail(n) ==
  IF Exact(n, Least, Most) THEN {Even(n, k) : k \in Groups(n, Most)..MostGroups(n)}
  ELSE {[i \in 1..(Groups(n, Most) - 1) |-> Most]}

(* Of the exact deals the one with the smallest footprint is taken. *)
Deals(n) ==
  IF Exact(n, Least, Most) THEN {Even(n, k) : k \in Groups(n, Most)..MostGroups(n)}
  ELSE {Sizes(n, Least, Most)}

(* The first FDTs of the pool take what is dealt, the others are dissolved. *)
DealOut(pool, sizes) ==
  IF Len(sizes) > Len(pool) THEN stage' = "overflow" /\ UNCHANGED fats
  ELSE /\ UNCHANGED stage
       /\ fats' = [f \in FDTs |->
            IF \E i \in DOMAIN pool : pool[i] = f
            THEN LET i == CHOOSE i \in DOMAIN pool : pool[i] = f
                 IN IF i \in DOMAIN sizes THEN sizes[i] ELSE 0
            ELSE fats[f]]

Deal(pool) ==
  \E n \in 1..total : n = Held(pool) /\ \E sizes \in Deals(n) : DealOut(pool, sizes)

(* Phase 2: the smallest short FDT is pooled, exactly if that is in reach; when
   nothing was out of reach, also inexactly. *)
Pool ==
  /\ stage = "pool" /\ tries < MaxRebalances /\ tries' = tries + 1
  /\ \E v \in Smallest(Short \ blocked) : \E pool \in Pools(v) :
       /\ Fits(pool) \/ (Everyone(pool) /\ Len(pool) > 1)
       /\ Deal(pool)
  /\ blocked' = {}
  /\ UNCHANGED <<pons, total, wing, flagged, linked, left, swapped, before>>

Block ==
  /\ stage = "pool" /\ tries < MaxRebalances /\ tries' = tries + 1
  /\ \E v \in Smallest(Short \ blocked) :
       /\ \E pool \in Pools(v) : ~Fits(pool) /\ (Everyone(pool) => Len(pool) = 1)
       /\ blocked' = blocked \cup {v}
  /\ UNCHANGED <<stage, pons, total, fats, wing, flagged, linked, left, swapped, before>>

PoolDone ==
  /\ stage = "pool" /\ (Short \subseteq blocked \/ tries = MaxRebalances)
  /\ stage' = "last" /\ tries' = 0 /\ blocked' = {}
  /\ UNCHANGED <<pons, total, fats, wing, flagged, linked, left, swapped, before>>

(* Mutant of Several: two short FDTs are one too few to act on. *)
SeveralOfThree == Cardinality(Short) > 2

Several == Cardinality(Short) > 1

(* As long as several FDTs are short, pools of any reach. *)
LastResort ==
  /\ stage = "last" /\ Several /\ tries < MaxRebalances /\ tries' = tries + 1
  /\ \E v \in Smallest(Short) : \E pool \in Pools(v) :
       (Fits(pool) \/ Everyone(pool)) /\ Deal(pool)
  /\ UNCHANGED <<pons, total, wing, flagged, linked, blocked, left, swapped, before>>

(* Phase 3: one FDT that is still short is excused, and all get their wings. *)
Flag ==
  /\ stage = "last" /\ (~Several \/ tries = MaxRebalances)
  /\ stage' = "boundary" /\ tries' = 0
  /\ flagged' = IF Cardinality(Short) = 1 THEN flagged \cup Short ELSE flagged
  /\ UNCHANGED fats /\ Renumber(FDTs, EvenSplit) /\ linked' = {}
  /\ UNCHANGED <<pons, total, blocked, left, swapped, before>>

-----------------------------------------------------------------------------
(* assign_wings_per_fdt: FATs cross to a nearer FDT, all FDTs are cut into
   wings, and FATs cross once more. *)
Boundary ==
  /\ stage = "boundary"
  /\ \E s, t \in Live : s # t /\ MayGive(s) /\ MayTake(t) /\ Transfer(s, t, 1)
  /\ UNCHANGED <<stage, pons, total, wing, flagged, linked, blocked, tries, left, swapped, before>>

AssignWings ==
  /\ stage = "boundary" /\ stage' = "relax"
  /\ UNCHANGED fats /\ Renumber(FDTs, AnySplit)
  /\ UNCHANGED <<pons, total, flagged, linked, blocked, tries, left, swapped, before>>

(* Mutant of Relaxes: the giver may be at its floor. *)
RelaxesFromFloor(s, t) == fats[s] >= Least /\ MayTake(t)

Relaxes(s, t) == MayGive(s) /\ MayTake(t)

Relax ==
  /\ stage = "relax"
  /\ \E s, t \in Live : s # t /\ Relaxes(s, t) /\ Transfer(s, t, 1)
  /\ Renumber(FDTs, EvenSplit)
  /\ UNCHANGED <<stage, pons, total, flagged, linked, blocked, tries, left, swapped, before>>

RelaxDone ==
  /\ stage = "relax" /\ stage' = "absorb" /\ left' = Live
  /\ UNCHANGED <<pons, total, fats, wing, flagged, linked, blocked, tries, swapped, before>>

(* attempt_fdt_capacity_absorption: each FDT with room is offered the FATs of
   one that can spare them; those too far away stay. *)
Donors(r) == {d \in Live \ {r} : fats[r] < Most /\ MayGive(d)}

Absorb ==
  /\ stage = "absorb"
  /\ \E r \in left : \E d \in Donors(r) :
       /\ \E n \in 0..Smaller(MaxAbsorb, Smaller(Most - fats[r], fats[d] - Least)) :
            Transfer(d, r, n)
       /\ left' = left \ {r}
       /\ Renumber({r, d}, EvenSplit)
  /\ UNCHANGED <<stage, pons, total, flagged, linked, blocked, tries, swapped, before>>

(* With no donor the code turns to re_absorb_along_street, which asks for a
   donor above its floor as well and so never finds one. *)
NoDonor ==
  /\ stage = "absorb"
  /\ \E r \in left : Donors(r) = {} /\ left' = left \ {r}
  /\ UNCHANGED <<stage, pons, total, fats, wing, flagged, linked, blocked, tries, swapped, before>>

AbsorbDone ==
  /\ stage = "absorb" /\ left = {} /\ stage' = "relay"
  /\ UNCHANGED <<pons, total, fats, wing, flagged, linked, blocked, tries, left, swapped, before>>

-----------------------------------------------------------------------------
(* create_fdt_wing_cascades: an FDT is what its wings hold, and each wing is
   linked in its best order. *)
LinkAll ==
  /\ fats' = [f \in FDTs |-> Placed(wing[f])]
  /\ linked' = {f \in FDTs : fats'[f] > 0}

Cascade ==
  /\ stage = "cascade" /\ stage' = "swap" /\ LinkAll
  /\ UNCHANGED <<pons, total, wing, flagged, blocked, tries, left, swapped, before>>

(* _repair_wing_membership_by_swap, within a PON. *)
WingSwap ==
  /\ stage \in {"swap", "settle swap"} /\ swapped' = (stage = "settle swap")
  /\ \E f \in Live, a \in Wings : \E b \in Pon(a) \ {a} :
       /\ wing[f][a] > 0
       /\ \/ wing[f][b] < MaxWing
             /\ wing' = [wing EXCEPT ![f] = With(Without(@, a), b)]
          \/ wing[f][b] > 0 /\ UNCHANGED wing
       /\ linked' = linked \ {f}
  /\ UNCHANGED <<stage, pons, total, fats, flagged, blocked, tries, left, before>>

SwapDone ==
  /\ \/ stage = "swap" /\ stage' = "chain" /\ UNCHANGED before
     \/ stage = "settle swap" /\ stage' = "settle chain" /\ before' = wing
  /\ UNCHANGED <<pons, total, fats, wing, flagged, linked, blocked, tries, left, swapped>>

(* _repair_wing_chain_continuity, for a FAT x of s at the end of a hop that is
   too long: another place in s, a place in t, or the place of a FAT of t. *)
Chaining == stage \in {"chain", "settle chain"}

(* The order that linked a wing was the best of all: nothing gains by another
   place in it. *)
Reseat ==
  /\ Chaining
  /\ \E s \in Live, x \in Wings : \E y \in Pon(x) :
       /\ wing[s][x] > 0 /\ (x = y => s \notin linked)
       /\ With(Without(wing[s], x), y) \in Inserted(Without(wing[s], x), {y})
       /\ wing' = [wing EXCEPT ![s] = With(Without(@, x), y)]
       /\ linked' = linked \ {s}
  /\ UNCHANGED <<stage, pons, total, fats, flagged, blocked, tries, left, swapped, before>>

HandOver ==
  /\ Chaining
  /\ \E s \in Live, x \in Wings : \E t \in Live \ {s} :
       /\ wing[s][x] > 0 /\ MayGive(s) /\ MayTake(t) /\ Transfer(s, t, 1)
       /\ \E w \in Inserted(wing[t], Pon(x)) :
            wing' = [wing EXCEPT ![s] = Without(@, x), ![t] = w]
       /\ linked' = linked \ {s, t}
  /\ UNCHANGED <<stage, pons, total, flagged, blocked, tries, left, swapped, before>>

Exchange ==
  /\ Chaining
  /\ \E s \in Live, x, y \in Wings : \E t \in Live \ {s} :
       /\ wing[s][x] > 0 /\ wing[t][y] > 0
       /\ \E ws \in Inserted(Without(wing[s], x), Pon(y)),
             wt \in Inserted(Without(wing[t], y), Pon(x)) :
            wing' = [wing EXCEPT ![s] = ws, ![t] = wt]
       /\ linked' = linked \ {s, t}
  /\ UNCHANGED <<stage, pons, total, fats, flagged, blocked, tries, left, swapped, before>>

(* _cascade_relay_repair: the FAT x of s goes to one FDT, which passes a FAT of
   that PON on, until one with room keeps it. *)
PassOn(s, x, held, ws) ==
  \E t \in {t \in Live \ {s} : held[t] < Most} : \E mid \in SUBSET (Live \ {s, t}) :
    /\ Cardinality(mid) < MaxDepth
    /\ \E w \in Inserted(ws[t], Pon(x)),
          via \in [mid -> UNION {Replaced(ws[f], Pon(x)) : f \in mid}] :
         /\ \A f \in mid : via[f] \in Replaced(ws[f], Pon(x))
         /\ wing' = [f \in FDTs |-> IF f = s THEN Without(ws[f], x)
                                    ELSE IF f = t THEN w
                                    ELSE IF f \in mid THEN via[f] ELSE ws[f]]
         /\ fats' = [held EXCEPT ![s] = @ - 1, ![t] = @ + 1]
         /\ linked' = (linked \ {s, t}) \ mid

CascadeRelay ==
  /\ Chaining
  /\ \E s \in Live, x \in Wings :
       wing[s][x] > 0 /\ MayGive(s) /\ PassOn(s, x, fats, wing)
  /\ UNCHANGED <<stage, pons, total, flagged, blocked, tries, left, swapped, before>>

(* An FDT at its floor is given a FAT first, and keeps it when there is no chain
   for the one it should pass on. *)
Backfill ==
  /\ Chaining
  /\ \E s \in Live, x, y \in Wings : \E d \in Live \ {s} :
       /\ wing[s][x] > 0 /\ ~MayGive(s) /\ MayGive(d) /\ wing[d][y] > 0
       /\ \E w \in Inserted(wing[s], Pon(y)) :
            LET held == [fats EXCEPT ![s] = @ + 1, ![d] = @ - 1]
                ws == [wing EXCEPT ![s] = w, ![d] = Without(@, y)]
            IN \/ PassOn(s, x, held, ws)
               \/ wing' = ws /\ fats' = held /\ linked' = linked \ {s, d}
  /\ UNCHANGED <<stage, pons, total, flagged, blocked, tries, left, swapped, before>>

(* The end of a pass of run_fttx_design: the last one, if nothing moved any
   more or the passes are used up. *)
PassDone ==
  /\ stage = "chain" /\ stage' \in {"borrow", "validate"}
  /\ UNCHANGED <<pons, total, fats, wing, flagged, linked, blocked, tries, left, swapped, before>>

-----------------------------------------------------------------------------
(* validate_capacity_and_absorption_model, and the FATs linked again. *)
Validate ==
  /\ stage = "validate"
  /\ stage' = IF Short \subseteq flagged /\ Cardinality(Short) <= 1
                 /\ \A f \in Live : Placed(wing[f]) = fats[f]
              THEN "settle swap" ELSE "short"
  /\ LinkAll /\ swapped' = FALSE
  /\ UNCHANGED <<pons, total, wing, flagged, blocked, tries, left, before>>

(* The settling links the FATs again only when it sees that it moved some. *)
Settled ==
  /\ stage = "settle chain" /\ stage' = "audit"
  /\ linked' = IF swapped \/ wing # before THEN Live ELSE linked
  /\ before' = [f \in FDTs |-> NoWings] /\ swapped' = FALSE
  /\ UNCHANGED <<pons, total, fats, wing, flagged, blocked, tries, left>>

(* log_final_capacity_audit counts the excuses, whatever the FDTs hold by now. *)
Audit ==
  /\ stage = "audit"
  /\ stage' = IF Short \subseteq flagged /\ Cardinality(flagged \cap Live) <= 1
              THEN "route" ELSE "refused"
  /\ UNCHANGED <<pons, total, fats, wing, flagged, linked, blocked, tries, left, swapped, before>>

(* validate_all_wing_chain_graphs, once the cables are routed. *)
CheckGraphs ==
  /\ stage = "route" /\ stage' = IF Live \subseteq linked THEN "done" ELSE "graph"
  /\ UNCHANGED <<pons, total, fats, wing, flagged, linked, blocked, tries, left, swapped, before>>

Ended == stage \in {"short", "overflow", "refused", "graph", "done"} /\ UNCHANGED vars

Next ==
  \/ Generate \/ Relay \/ RelayDone
  \/ Borrow \/ BorrowDone \/ Pool \/ Block \/ PoolDone \/ LastResort \/ Flag
  \/ Boundary \/ AssignWings \/ Relax \/ RelaxDone
  \/ Absorb \/ NoDonor \/ AbsorbDone
  \/ Cascade \/ WingSwap \/ SwapDone
  \/ Reseat \/ HandOver \/ Exchange \/ CascadeRelay \/ Backfill \/ PassDone
  \/ Validate \/ Settled \/ Audit \/ CheckGraphs \/ Ended

Spec == Init /\ [][Next]_vars

-----------------------------------------------------------------------------
(* No FAT is lost or placed twice by a pool, a move or a chain of moves, and
   the wings of an FDT carry what it holds (the 2-way checks of
   _rebalance_fdts_for_capacity, [FIX-PON-3] and [FIX-PON-4]). *)
EveryFatHasAPlace ==
  /\ stage # "generate" => Load(fats) = total
  /\ stage \in Repairing \cup Settling => \A f \in FDTs : Placed(wing[f]) = fats[f]

(* A pool is never dealt more groups than it has FDTs to hold them
   (_materialize_pool indexes them without a check). *)
PoolsHoldTheirDeal == stage # "overflow"

(* Once the rebalancing is over at most one FDT is short, it is excused, and no
   later move makes another one short: the validation that would abort the
   design passes (the guarantee _rebalance_fdts_for_capacity claims). *)
OneShortAtMost ==
  /\ stage # "short"
  /\ stage \in {"boundary"} \cup Repairing \cup Settling =>
       Cardinality(Short) <= 1 /\ Short \subseteq flagged

InRange(n) == n \in Least..Most

(* Outside the rebalancing an FDT whose size is right keeps a right size, also
   when a chain of moves fails halfway. *)
CapacityKept ==
  [][stage \notin {"generate", "pool", "last"} =>
       \A f \in FDTs : InRange(fats[f]) => fats'[f] \in Least..Most]_vars

=============================================================================
