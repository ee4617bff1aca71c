---------------------------- MODULE EngineGroups ----------------------------
(***************************************************************************)
(* generate_fdts: how the FATs of a network of roads become the groups     *)
(* that are given an FDT each.  Dead ends come first, completed by loans   *)
(* and by swaps with groups that exist, small ones pooled at their         *)
(* junction; the other roads are walked from the leaves of a spanning      *)
(* forest to its roots and hand on what is left; last, the groups that     *)
(* are too small are put together, and for two PONs the groups paired.     *)
(* Distances are not modelled: where the code measures, any outcome may    *)
(* follow.  Customers are not counted: a FAT holds no more than its share. *)
(***************************************************************************)
EXTENDS Partition, FiniteSets, SequencesExt

CONSTANTS
  Networks,    \* roads, as generate_fdts may find them
  Wing,        \* MAX_FAT_PER_WING
  MaxClosings, \* bound: groups of one walk closed for FDT_MAX_RADIUS
  Nil

ASSUME WingAssumption == Wing \in Nat /\ Wing > 1 /\ MaxClosings \in Nat

ASSUME NetworksAssumption ==
  \A n \in Networks :
    /\ IsFiniteSet(DOMAIN n.ends) /\ DOMAIN n.ends \subseteq Nat
    /\ n.fats \in [DOMAIN n.ends -> Nat]
    /\ n.pons \in {1, 2} /\ Nil \notin DOMAIN n.ends

ASSUME NilAssumption ==
  Nil \notin [road : Nat, own : Seq(Nat \X Nat), borrowed : Seq(Nat \X Nat),
              last : Nat \X Nat, slots : Nat]

MAX_FAT_PER_FDT == 2 * Wing
MIN_FAT_PER_FDT == 2 * Wing - 1

VARIABLES
  net,             \* the network: the ends, FATs, partner and rank of each road,
                   \* and how many PONs an FDT has
  pass,
  todo,            \* the roads or groups the pass has still to look at
  all_fat_road_ids,
  fats_by_road,    \* the FATs of a road, in the order of their cascade
  committed,       \* the FATs the loans must not touch
  result_groups,
  box,             \* the dead end that is being completed
  inject,          \* what a road takes over from the roads that end at it
  orphans,         \* pools without a road to go to
  parent_of, process_order,
  made             \* groups that replace those a pass has taken apart

groupVars == <<net, pass, todo, all_fat_road_ids, fats_by_road, committed, result_groups,
               box, inject, orphans, parent_of, process_order, made>>
forest == <<parent_of, process_order>>

RoadIds == DOMAIN net.ends
Start(r) == net.ends[r][1]
End(r) == net.ends[r][2]
At(n) == {r \in RoadIds : n \in {Start(r), End(r)}}
Meet(r, s) == {Start(r), End(r)} \cap {Start(s), End(s)} # {}

(* A road is a dead end when nothing else meets one of its ends. *)
is_dead_end(r) == Cardinality(At(Start(r))) = 1 \/ Cardinality(At(End(r))) = 1
Junction(r) ==
  IF Cardinality(At(Start(r))) >= Cardinality(At(End(r))) THEN Start(r) ELSE End(r)

FATs == UNION {{<<r, k>> : k \in 1..net.fats[r]} : r \in RoadIds}
FatGroup(fats, r) == [fats |-> fats, road |-> r]
FatGroups == [fats : Seq(FATs), road : RoadIds]

(* The members of a list at the given positions. *)
Chosen(s, positions) ==
  [k \in 1..Cardinality(positions) |-> s[Ascending(positions)[k]]]
InGroups(gs) == FlattenSeq([i \in DOMAIN gs |-> gs[i].fats])
Underfilled(gs) == {i \in DOMAIN gs : Len(gs[i].fats) < MIN_FAT_PER_FDT}
LowestId(S) == CHOOSE i \in S : \A j \in S : i <= j

GroupTypeOK ==
  /\ net \in Networks
  /\ pass \in {"inner", "pool", "tree", "walk", "join", "recalibrate",
               "pair", "build", "done", "refused"}
  /\ todo \subseteq Nat /\ all_fat_road_ids \subseteq RoadIds
  /\ fats_by_road \in [RoadIds -> Seq(FATs)] /\ committed \subseteq FATs
  /\ result_groups \in Seq(FatGroups) /\ orphans \in Seq(FatGroups) /\ made \in Seq(FatGroups)
  /\ box = Nil \/ box \in [road : RoadIds, own : Seq(FATs), borrowed : Seq(FATs),
                           last : FATs, slots : 0..Wing]
  /\ inject \in [RoadIds -> Seq([at : {"front", "back"}, fats : Seq(FATs), src : RoadIds])]
  /\ parent_of \in [RoadIds -> RoadIds \cup {Nil}] /\ process_order \in Seq(RoadIds)

GroupInit ==
  /\ net \in Networks /\ pass = "inner"
  /\ all_fat_road_ids = {r \in RoadIds : net.fats[r] > 0} /\ todo = all_fat_road_ids
  /\ fats_by_road = [r \in RoadIds |-> [k \in 1..net.fats[r] |-> <<r, k>>]]
  /\ committed = {} /\ result_groups = <<>> /\ box = Nil
  /\ inject = [r \in RoadIds |-> <<>>] /\ orphans = <<>>
  /\ parent_of = [r \in RoadIds |-> Nil] /\ process_order = <<>> /\ made = <<>>

-----------------------------------------------------------------------------
(* A dead end with more FATs than a wing holds gets an FDT inside it.  One that
   is too small for that borrows for its second wing. *)

Inner(r) ==
  is_dead_end(r) /\ Len(fats_by_road[r]) \in (Wing + 1)..MAX_FAT_PER_FDT

Visited == pass = "inner" /\ box = Nil /\ todo # {}

PassBy ==
  /\ Visited /\ ~Inner(LowestId(todo)) /\ todo' = todo \ {LowestId(todo)}
  /\ UNCHANGED <<net, pass, all_fat_road_ids, fats_by_road, committed, result_groups,
                 box, inject, orphans, forest, made>>

SelfSufficient ==
  LET r == LowestId(todo) IN
  /\ Visited /\ Inner(r) /\ Len(fats_by_road[r]) >= MIN_FAT_PER_FDT
  /\ result_groups' = Append(result_groups, FatGroup(fats_by_road[r], r))
  /\ committed' = committed \cup ToSet(fats_by_road[r])
  /\ all_fat_road_ids' = all_fat_road_ids \ {r} /\ todo' = todo \ {r}
  /\ UNCHANGED <<net, pass, fats_by_road, box, inject, orphans, forest, made>>

(* The loans continue from the FAT nearest to the junction, whichever it is. *)
OpenBox ==
  LET r == LowestId(todo) own == fats_by_road[r] IN
  /\ Visited /\ Inner(r) /\ Len(own) < MIN_FAT_PER_FDT
  /\ \E last \in {own[1], own[Len(own)]} :
       box' = [road |-> r, own |-> own, borrowed |-> <<>>, last |-> last,
               slots |-> Wing - (Len(own) - Wing)]
  /\ UNCHANGED <<net, pass, todo, all_fat_road_ids, fats_by_road, committed,
                 result_groups, inject, orphans, forest, made>>

Free(r) == {f \in ToSet(fats_by_road[r]) : f \notin committed}
RoadsWithout(f) ==
  [fats_by_road EXCEPT ![f[1]] = Chosen(@, {k \in DOMAIN @ : @[k] # f})]

(* Mutant of Taken: the donor road keeps what it lends. *)
TakenOnLoan(f) == fats_by_road

(* What the roads hold once f was lent. *)
Taken(f) == RoadsWithout(f)

Borrows(f) ==
  box' = [box EXCEPT !.borrowed = Append(@, f), !.last = f, !.slots = @ - 1]

(* _find_borrow_candidate: from a road at the junction that can spare it. *)
BorrowDirect ==
  /\ box # Nil /\ box.slots > 0
  /\ \E r \in At(Junction(box.road)) \ {box.last[1]} : \E f \in Free(r) :
       /\ Cardinality(Free(r)) - 1 >= MIN_FAT_PER_FDT
       /\ Borrows(f) /\ fats_by_road' = Taken(f)
  /\ UNCHANGED <<net, pass, todo, all_fat_road_ids, committed, result_groups,
                 inject, orphans, forest, made>>

(* _find_relay_borrow_candidate: a group gives up its FAT take and gets give, a
   FAT of any road that is free: those of the box itself are, until it closes. *)
BorrowRelay ==
  /\ box # Nil /\ box.slots > 0
  /\ \E i \in DOMAIN result_groups, r \in RoadIds :
       \E take \in ToSet(result_groups[i].fats), give \in Free(r) :
         /\ give \notin {take, box.last}
         /\ result_groups' =
              [result_groups EXCEPT ![i].fats = Append(RemoveFirst(@, take), give)]
         /\ committed' = (committed \ {take}) \cup {give}
         /\ fats_by_road' = RoadsWithout(give) /\ Borrows(take)
  /\ UNCHANGED <<net, pass, todo, all_fat_road_ids, inject, orphans, forest, made>>

(* The box closes when it is full, or when nothing is in reach. *)
CloseBox ==
  /\ box # Nil
  /\ LET fats == box.own \o box.borrowed IN
     /\ result_groups' = Append(result_groups, FatGroup(fats, box.road))
     /\ committed' = committed \cup ToSet(fats)
  /\ all_fat_road_ids' = all_fat_road_ids \ {box.road} /\ todo' = todo \ {box.road}
  /\ box' = Nil
  /\ UNCHANGED <<net, pass, fats_by_road, inject, orphans, forest, made>>

(* From here on nothing asks what is committed. *)
InnerDone ==
  /\ pass = "inner" /\ todo = {} /\ pass' = "pool" /\ committed' = {}
  /\ UNCHANGED <<net, todo, all_fat_road_ids, fats_by_road, result_groups, box, inject,
                 orphans, forest, made>>

-----------------------------------------------------------------------------
(* The small dead ends of a junction are pooled: groups of their own if there
   are enough, else taken over by a road that goes on there.  That road is the
   first one found, and if it has no FATs no other is tried. *)

Chunks(fats, sizes) ==
  [i \in DOMAIN sizes |->
     LET from == Load([j \in 1..(i - 1) |-> sizes[j]])
     IN SubSeq(fats, from + 1, from + sizes[i])]

Filled(n) ==
  [i \in 1..Groups(n, MAX_FAT_PER_FDT) |->
     Smaller(MAX_FAT_PER_FDT, n - (i - 1) * MAX_FAT_PER_FDT)]

GroupsOf(fats, sizes, r) ==
  [i \in DOMAIN sizes |-> FatGroup(Chunks(fats, sizes)[i], r)]

SmallEnds ==
  {r \in all_fat_road_ids :
     is_dead_end(r) /\ Len(fats_by_road[r]) \in 1..(MIN_FAT_PER_FDT - 1)}

Place(n, r) == IF n = Start(r) THEN "front" ELSE "back"
Injected(r, n, fats, src) ==
  [inject EXCEPT ![r] = Append(@, [at |-> Place(n, r), fats |-> fats, src |-> src])]

Through(n) == {r \in At(n) : ~is_dead_end(r)}

PoolEnds ==
  /\ pass = "pool" /\ SmallEnds # {}
  /\ LET first == LowestId(SmallEnds)
         n == Junction(first)
         ends == {r \in SmallEnds : Junction(r) = n}
         order == Ascending(ends)
         pool == FlattenSeq([i \in DOMAIN order |-> fats_by_road[order[i]]])
     IN /\ all_fat_road_ids' = all_fat_road_ids \ ends
        /\ \/ /\ Len(pool) >= MIN_FAT_PER_FDT
              /\ result_groups' = result_groups \o GroupsOf(pool, Filled(Len(pool)), first)
              /\ UNCHANGED <<inject, orphans>>
           \/ /\ Len(pool) < MIN_FAT_PER_FDT
              /\ \E parent \in Through(n) \cap all_fat_road_ids :
                   inject' = Injected(parent, n, pool, first)
              /\ UNCHANGED <<result_groups, orphans>>
           \/ /\ Len(pool) < MIN_FAT_PER_FDT
              /\ Through(n) = {} \/ ~(Through(n) \subseteq all_fat_road_ids)
              /\ orphans' = Append(orphans, FatGroup(pool, first))
              /\ UNCHANGED <<result_groups, inject>>
  /\ UNCHANGED <<net, pass, todo, fats_by_road, committed, box, forest, made>>

EndsPooled ==
  /\ pass = "pool" /\ SmallEnds = {} /\ pass' = "tree"
  /\ UNCHANGED <<net, todo, all_fat_road_ids, fats_by_road, committed, result_groups,
                 box, inject, orphans, forest, made>>

-----------------------------------------------------------------------------
(* A spanning forest of the roads, breadth first from the roads of the highest
   rank, which never crosses the median of a dual carriageway. *)

Unplanted == all_fat_road_ids \ ToSet(process_order)

Plant ==
  /\ pass = "tree" /\ todo = {}
  /\ \E r \in Unplanted :
       /\ \A s \in Unplanted : net.rank[s] <= net.rank[r]
       /\ process_order' = Append(process_order, r) /\ todo' = {r}
  /\ UNCHANGED <<net, pass, all_fat_road_ids, fats_by_road, committed, result_groups,
                 box, inject, orphans, parent_of, made>>

Branch ==
  /\ pass = "tree"
  /\ \E i \in DOMAIN process_order :
       LET r == process_order[i]
           next == {s \in Unplanted : Meet(r, s) /\ net.partner[s] # r}
       IN /\ r \in todo /\ \A j \in 1..(i - 1) : process_order[j] \notin todo
          /\ \E q \in SetToSeqs(next) : process_order' = process_order \o q
          /\ parent_of' = [s \in RoadIds |-> IF s \in next THEN r ELSE parent_of[s]]
          /\ todo' = (todo \ {r}) \cup next
  /\ UNCHANGED <<net, pass, all_fat_road_ids, fats_by_road, committed, result_groups,
                 box, inject, orphans, made>>

TreeDone ==
  /\ pass = "tree" /\ todo = {} /\ Unplanted = {} /\ pass' = "walk"
  /\ UNCHANGED <<net, todo, all_fat_road_ids, fats_by_road, committed, result_groups,
                 box, inject, orphans, forest, made>>

-----------------------------------------------------------------------------
(* _walk_fat_seq on a road: its FATs and what was injected at either end of it,
   in the order they are walked, each with the branch it came from. *)

Injections(r, place) ==
  LET here == Chosen(inject[r], {i \in DOMAIN inject[r] : inject[r][i].at = place})
  IN FlattenSeq([i \in DOMAIN here |->
       [k \in DOMAIN here[i].fats |-> [fat |-> here[i].fats[k], branch |-> here[i].src]]])

Walked(r) ==
  Injections(r, "front")
  \o [k \in DOMAIN fats_by_road[r] |-> [fat |-> fats_by_road[r][k], branch |-> r]]
  \o Injections(r, "back")

(* Mutant of MostFdts: the last group need not be full. *)
MostFdtsRoundedUp(n) == Groups(n, MIN_FAT_PER_FDT)

MostFdts(n) == n \div MIN_FAT_PER_FDT

(* _footprint_aware_partition: of the numbers of groups that are possible, the
   one that keeps the groups closest together. *)
Splits(n) ==
  IF Exact(n, MIN_FAT_PER_FDT, MAX_FAT_PER_FDT)
  THEN {[i \in 1..k |-> n \div k + (IF i <= n % k THEN 1 ELSE 0)] :
          k \in Groups(n, MAX_FAT_PER_FDT)..MostFdts(n)}
  ELSE {Sizes(n, MIN_FAT_PER_FDT, MAX_FAT_PER_FDT)}

CutPoints(sizes) == {Load([j \in 1..i |-> sizes[j]]) : i \in 1..(Len(sizes) - 1)}

RunStarts(e) == {c \in 1..(Len(e) - 1) : e[c + 1].branch # e[c].branch}

Nearest(S, cut) ==
  CHOOSE c \in S : \A d \in S :
    LET off(x) == IF x < cut THEN cut - x ELSE x - cut
    IN off(c) < off(d) \/ (off(c) = off(d) /\ c <= d)

(* The last cut moves to where a branch begins, if the group before it stays in
   its limits; the one after it may fall short.  The other cuts never move:
   more would remain after them than a group holds. *)
Snapped(e, sizes) ==
  LET cut == Len(e) - sizes[Len(sizes)]
      before == cut - sizes[Len(sizes) - 1]
      near == RunStarts(e) \cap (before + MIN_FAT_PER_FDT)..(before + MAX_FAT_PER_FDT)
  IN IF Len(sizes) > 1 /\ near # {} /\ Len(e) - Nearest(near, cut) <= MAX_FAT_PER_FDT
     THEN (CutPoints(sizes) \ {cut}) \cup {Nearest(near, cut)}
     ELSE CutPoints(sizes)

(* A group may be closed before each FAT of the road itself and before each
   injected branch, which is not torn apart. *)
MayClose(r, e) == {c \in 1..(Len(e) - 1) : e[c + 1].branch \in {r} \/ c \in RunStarts(e)}

CutAt(e, cuts) ==
  LET b == Ascending(cuts \cup {0, Len(e)})
  IN [i \in 1..(Len(b) - 1) |-> [k \in 1..(b[i + 1] - b[i]) |-> e[b[i] + k].fat]]

Shared(r, p) == IF Start(r) \in {Start(p), End(p)} THEN Start(r) ELSE End(r)

(* Mutant of Rest: a group of one FAT is not worth keeping. *)
RestOfTwo(r, tail) ==
  IF parent_of[r] = Nil /\ Len(tail) > 1 THEN <<FatGroup(tail, r)>> ELSE <<>>

(* What a root has left over is a group as it is. *)
Rest(r, tail) == IF parent_of[r] = Nil THEN <<FatGroup(tail, r)>> ELSE <<>>

(* Each road in turn, leaves first.  The least a walk keeps is one less than an
   FDT should hold, but for the road with the id 0. *)
Walk ==
  /\ pass = "walk" /\ process_order # <<>>
  /\ LET r == Last(process_order)
         e == Walked(r)
         least == IF r = 0 THEN MIN_FAT_PER_FDT ELSE MIN_FAT_PER_FDT - 1
     IN /\ process_order' = Front(process_order)
        /\ all_fat_road_ids' = all_fat_road_ids \ {r}
        /\ \/ e = <<>> /\ UNCHANGED <<result_groups, inject>>
           \/ /\ e # <<>>
              /\ \E sizes \in Splits(Len(e)), closed \in SUBSET MayClose(r, e) :
                   /\ Cardinality(closed) <= MaxClosings
                   /\ LET pieces == CutAt(e, Snapped(e, sizes) \cup closed)
                          tail == Last(pieces)
                          short == Len(tail) < least
                          kept == IF short THEN Front(pieces) ELSE pieces
                          p == parent_of[r]
                      IN /\ result_groups' = result_groups
                              \o [i \in DOMAIN kept |-> FatGroup(kept[i], r)]
                              \o (IF short THEN Rest(r, tail) ELSE <<>>)
                         /\ inject' = IF short /\ p # Nil
                                      THEN Injected(p, Shared(r, p), tail, r) ELSE inject
  /\ UNCHANGED <<net, pass, todo, fats_by_road, committed, box, orphans, parent_of, made>>

WalkDone ==
  /\ pass = "walk" /\ process_order = <<>> /\ pass' = "join"
  /\ result_groups' = result_groups \o orphans /\ orphans' = <<>>
  /\ todo' = Underfilled(result_groups')
  /\ UNCHANGED <<net, all_fat_road_ids, fats_by_road, committed, box, inject, forest, made>>

-----------------------------------------------------------------------------
(* The groups that are too small are put together: first those whose roads
   meet, then those that lie close.  Neither steps across a median, but two
   groups on its sides may be joined by a third.  A group alone keeps its FATs. *)

RoadsOf(g) == {g.fats[k][1] : k \in DOMAIN g.fats}
Owner(r) == {i \in DOMAIN result_groups :
  /\ r \in RoadsOf(result_groups[i])
  /\ \A j \in 1..(i - 1) : r \notin RoadsOf(result_groups[j])}

Adjacent(i, j) ==
  LET mine == RoadsOf(result_groups[i]) \cup {result_groups[i].road} IN
  IF pass = "join"
  THEN \E r \in mine, s \in RoadIds : Meet(r, s) /\ j \in Owner(s) /\ net.partner[s] \notin mine
  ELSE ~\E r \in RoadsOf(result_groups[i]) : net.partner[r] \in RoadsOf(result_groups[j])

(* What may end up with the first of them: each group is found from another. *)
Components ==
  {C \in SUBSET todo : LowestId(todo) \in C /\
     \A S \in SUBSET C : LowestId(todo) \in S /\ S # C =>
       \E a \in S, b \in C \ S : Adjacent(a, b)}

(* The place of each position of s when its FATs are sorted by road and cascade. *)
Sooner(s, j, k) ==
  \/ s[j][1] < s[k][1]
  \/ s[j][1] = s[k][1] /\ s[j][2] < s[k][2]
  \/ s[j] = s[k] /\ j <= k

InCascadeOrder(s) ==
  [n \in DOMAIN s |->
     s[CHOOSE k \in DOMAIN s : Cardinality({j \in DOMAIN s : Sooner(s, j, k)}) = n]]

PooledFats(C) == InCascadeOrder(InGroups(Chosen(result_groups, C)))

Joining == pass \in {"join", "recalibrate"}

Join ==
  /\ Joining /\ todo # {}
  /\ \E C \in Components : \E sizes \in Splits(Len(PooledFats(C))) :
       /\ made' = made \o GroupsOf(PooledFats(C), sizes, result_groups[LowestId(todo)].road)
       /\ todo' = todo \ C
  /\ UNCHANGED <<net, pass, all_fat_road_ids, fats_by_road, committed, result_groups,
                 box, inject, orphans, forest>>

JoinDone ==
  /\ Joining /\ todo = {}
  /\ pass' = IF pass = "join" THEN "recalibrate"
              ELSE IF net.pons = 2 THEN "pair" ELSE "build"
  /\ result_groups' =
       Chosen(result_groups, DOMAIN result_groups \ Underfilled(result_groups)) \o made
  /\ made' = <<>>
  /\ todo' = CASE pass' = "recalibrate" -> Underfilled(result_groups')
               [] pass' = "pair" -> DOMAIN result_groups'
               [] OTHER -> {}
  /\ UNCHANGED <<net, all_fat_road_ids, fats_by_road, committed, box, inject, orphans, forest>>

-----------------------------------------------------------------------------
(* _pair_pon_groups_into_dual_fdts: the smallest group first, with the nearest
   of those whose roads meet its own or which lie close. *)

Size(i) == Len(result_groups[i].fats)
SmallestOf(S) ==
  CHOOSE i \in S : \A j \in S : Size(i) < Size(j) \/ (Size(i) = Size(j) /\ i <= j)

Touch(i, j) ==
  LET of(k) == RoadsOf(result_groups[k]) \cup {result_groups[k].road}
  IN \E r \in of(i), s \in of(j) : Meet(r, s)

PairMost == MAX_FAT_PER_FDT * net.pons

Pair ==
  /\ pass = "pair" /\ todo # {}
  /\ LET i == SmallestOf(todo)
         partners == {j \in todo \ {i} : Size(i) + Size(j) <= PairMost}
         g == result_groups[i]
     IN \/ \E j \in partners :
             /\ made' = Append(made, FatGroup(g.fats \o result_groups[j].fats, g.road))
             /\ todo' = todo \ {i, j}
        \/ /\ ~\E j \in partners : Touch(i, j)
           /\ made' = Append(made, g) /\ todo' = todo \ {i}
  /\ UNCHANGED <<net, pass, all_fat_road_ids, fats_by_road, committed, result_groups,
                 box, inject, orphans, forest>>

PairDone ==
  /\ pass = "pair" /\ todo = {} /\ pass' = "build"
  /\ result_groups' = made /\ made' = <<>>
  /\ UNCHANGED <<net, todo, all_fat_road_ids, fats_by_road, committed, box, inject, orphans,
                 forest>>

(* The FDTs are made, unless a group is larger than one. *)
Build ==
  /\ pass = "build"
  /\ pass' = IF \A i \in DOMAIN result_groups : Size(i) <= PairMost THEN "done" ELSE "refused"
  /\ UNCHANGED <<net, todo, all_fat_road_ids, fats_by_road, committed, result_groups, box,
                 inject, orphans, forest, made>>

GroupEnded == pass \in {"done", "refused"} /\ UNCHANGED groupVars

GroupNext ==
  \/ PassBy \/ SelfSufficient \/ OpenBox \/ BorrowDirect \/ BorrowRelay \/ CloseBox
  \/ InnerDone
  \/ PoolEnds \/ EndsPooled \/ Plant \/ Branch \/ TreeDone \/ Walk \/ WalkDone
  \/ Join \/ JoinDone \/ Pair \/ PairDone \/ Build \/ GroupEnded

GroupSpec == GroupInit /\ [][GroupNext]_groupVars

-----------------------------------------------------------------------------
InBox == IF box = Nil THEN <<>> ELSE box.own \o box.borrowed
Grouped == InGroups(result_groups) \o InBox
Waiting(r) == ToSet(fats_by_road[r]) \cup {e.fat : e \in ToSet(Walked(r))}

(* No FAT gets lost on the way, whatever is lent, swapped, handed on, closed
   early or put together, and no group is refused for its size. *)
EveryFatKept ==
  /\ pass # "refused"
  /\ FATs = ToSet(Grouped) \cup ToSet(InGroups(orphans))
            \cup UNION {Waiting(r) : r \in all_fat_road_ids}

TwiceGrouped ==
  {Grouped[k] : k \in {k \in DOMAIN Grouped : \E j \in 1..(k - 1) : Grouped[j] = Grouped[k]}}

(* A FAT comes to be in two groups in one way only: a swap gives away a FAT of
   the very dead end it completes (the ownership lock of generate_fdts covers
   everything else). *)
OnlySwapsShare ==
  [][TwiceGrouped' \subseteq
       TwiceGrouped \cup (IF box # Nil /\ box' # Nil THEN ToSet(InBox) ELSE {})]_groupVars

OneMoreShort ==
  Joining /\ todo # {} =>
    Cardinality(Underfilled(made')) <= Cardinality(Underfilled(made)) + 1

(* However many small groups are put together, in whatever sizes their FATs are
   dealt out again, at most one of the new groups is too small: no combination
   pass trades one small group for several. *)
OneShortPerJoin == [][OneMoreShort]_groupVars
=============================================================================
