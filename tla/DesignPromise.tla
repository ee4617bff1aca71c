--------------------------- MODULE DesignPromise ---------------------------
(***************************************************************************)
(* What the design workflow promises, with versions, rows, requests and    *)
(* runs left out: a drawing is edited, reviewed, approved, priced and      *)
(* built; nothing but what was reviewed is ever built, the field may only  *)
(* correct where things are, and what is live was approved and priced.     *)
(* DesignLifecycle implements it (DesignLifecycle!Promise).                *)
(***************************************************************************)
CONSTANT Items, Plans

VARIABLES phase,    \* of the design
          drawing,  \* what it shows now; in phase "live", what went live
          reviewed, \* the drawing under or past review, as a set of at most one
          priced    \* has a BOQ of the reviewed drawing been approved?

promise == <<phase, drawing, reviewed, priced>>

AllDrawings == [items : SUBSET Items, plan : Plans]

PromiseInit ==
  /\ phase = "editing"
  /\ drawing \in [items : {{}}, plan : Plans]
  /\ reviewed = {}
  /\ priced = FALSE

Draw ==
  /\ phase = "editing"
  /\ drawing' \in AllDrawings
  /\ UNCHANGED <<phase, reviewed, priced>>

PutUpForReview ==
  /\ phase = "editing" /\ phase' = "review"
  /\ reviewed' = {drawing}
  /\ UNCHANGED <<drawing, priced>>

SendBack ==
  /\ phase \in {"review", "approved"} /\ phase' = "editing"
  /\ reviewed' = {} /\ priced' = FALSE
  /\ UNCHANGED drawing

Grant ==
  /\ phase = "review" /\ phase' = "approved"
  /\ UNCHANGED <<drawing, reviewed, priced>>

Price ==
  /\ phase = "approved" /\ ~ priced /\ priced' = TRUE
  /\ UNCHANGED <<phase, drawing, reviewed>>

BreakGround ==
  /\ phase = "approved" /\ priced /\ phase' = "building"
  /\ UNCHANGED <<drawing, reviewed, priced>>

(* The as-built survey moves things; it neither adds nor removes them. *)
Survey ==
  /\ phase = "building"
  /\ drawing' \in [items : {drawing.items}, plan : Plans]
  /\ UNCHANGED <<phase, reviewed, priced>>

GoLive ==
  /\ phase = "building" /\ phase' = "live"
  /\ UNCHANGED <<drawing, reviewed, priced>>

PromiseNext ==
  Draw \/ PutUpForReview \/ SendBack \/ Grant \/ Price \/ BreakGround \/ Survey \/ GoLive

PromiseSpec == PromiseInit /\ [][PromiseNext]_promise

(* The promise in one line: whatever is being built or is live has the items
   of the one drawing that was reviewed, and that drawing was priced. *)
BuiltAsReviewed ==
  phase \in {"building", "live"} => priced /\ \E c \in reviewed : drawing.items = c.items
===========================================================================
