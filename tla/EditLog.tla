------------------------------ MODULE EditLog ------------------------------
(***************************************************************************)
(* Manual design: the operations of design/operations.py on the rows of a  *)
(* design's working set, the log of their before and after images, and     *)
(* undo and redo, which write those images back.  apply_operation, undo    *)
(* and redo of one design are serialised by an advisory lock, so each is   *)
(* one action.  The foreign keys of the tables (migrations 0087 and 0089)  *)
(* act on every delete, whether an operation or a patch makes it.          *)
(***************************************************************************)
EXTENDS Naturals, Functions

CONSTANTS FDTs, FATs, Others, \* devices (net_assets), by type
          Cables,        \* net_cables
          Links,         \* net_connections
          Marks,         \* a row's geometry, name and other attributes
          Null, Gone,    \* SQL NULL; no such row
          StartRows,     \* bound: the working sets a version may start from
          MaxOps         \* bound: operations in the log

Devices == FDTs \cup FATs \cup Others
Ids == Devices \cup Cables \cup Links

(* One image fits the rows of all three tables; what a table lacks is Null. *)
Images ==
  [parent : Devices \cup {Null}, head : FDTs \cup {Null},
   src : Devices \cup {Null}, dst : Devices \cup {Null}, via : Cables \cup {Null},
   mark : Marks \cup {Null}]
References(x) == {x.parent, x.src, x.dst, x.via} \ {Null}
Present(r) == {i \in Ids : r[i] # Gone}

InTable(i, x) ==
  /\ i \in Devices => x.src = Null /\ x.dst = Null /\ x.via = Null
  /\ i \in Cables => x.parent = Null /\ x.head = Null /\ x.via = Null
  /\ i \in Links => x.parent = Null /\ x.head = Null /\ x.mark = Null

(* The foreign keys hold in the rows a version starts from, whoever wrote them. *)
ASSUME StartAssumption ==
  /\ MaxOps \in Nat
  /\ Null \notin Ids /\ Gone \notin Images
  /\ Devices \cap Cables = {} /\ Devices \cap Links = {} /\ Cables \cap Links = {}
  /\ StartRows \subseteq [Ids -> Images \cup {Gone}]
  /\ \A r \in StartRows : \A i \in Present(r) :
       InTable(i, r[i]) /\ References(r[i]) \subseteq Present(r)

VARIABLES rows,   \* the working set
          log,    \* design_operations: seq -> forward and inverse patch, undone
          past    \* history variable: past[s] is the working set operation s left

vars == <<rows, log, past>>

Unused(S) == S \ Present(rows)
Asset(a) == a \in Present(rows) \cap Devices
Cable(c) == c \in Present(rows) \cap Cables

(***************************************************************************)
(* DELETE: net_connections.source/dest_asset_id cascade; parent_id, the    *)
(* ends of a cable and via_cable_id are set to NULL.                       *)
(***************************************************************************)
Deleted(r, S) ==
  LET gone == S \cup {l \in Links \cap Present(r) : {r[l].src, r[l].dst} \cap S # {}}
      kept(x) == IF x \in gone THEN Null ELSE x
  IN  [i \in Ids |->
        IF i \in gone \/ r[i] = Gone THEN Gone
        ELSE [r[i] EXCEPT !.parent = kept(@), !.src = kept(@), !.dst = kept(@), !.via = kept(@)]]

Overwritten(r, f) == [i \in Ids |-> IF i \in DOMAIN f THEN f[i] ELSE r[i]]

(* apply_patch: delete, then restore, then update the rows that are there. *)
Restored(r, p) == Overwritten(Deleted(r, p.delete), p.restore)
Patched(r, p) == Overwritten(Restored(r, p), Restrict(p.update, DOMAIN p.update \cap Present(Restored(r, p))))

(* Every INSERT finds its id free, and every row written finds the parent, ends
   and cable it refers to; otherwise the request fails. *)
PatchApplies(r, p) ==
  LET after == Patched(r, p)
  IN  /\ DOMAIN p.restore \cap Present(Deleted(r, p.delete)) = {}
      /\ \A i \in DOMAIN p.restore \cup (DOMAIN p.update \cap Present(after)) :
           References(after[i]) \subseteq Present(after)

(***************************************************************************)
(* Tracker.patches(), after an operation turned rows into r: touched are   *)
(* the rows it took before images of, made the ones it created.            *)
(***************************************************************************)
Forward(r, touched, made) ==
  [delete |-> touched \ Present(r),
   restore |-> Restrict(r, made),
   update |-> Restrict(r, {i \in touched \cap Present(r) : r[i] # rows[i]})]
Backward(r, touched, made) ==
  [delete |-> made,
   restore |-> Restrict(rows, touched \ Present(r)),
   update |-> Restrict(rows, {i \in touched \cap Present(r) : r[i] # rows[i]})]

Done == {s \in DOMAIN log : ~ log[s].undone}
Undone == {s \in DOMAIN log : log[s].undone}
Newest(S) == CHOOSE s \in S : \A t \in S : t <= s
Oldest(S) == CHOOSE s \in S : \A t \in S : s <= t

(* Mutant of Commit: the redo branch stays. *)
CommitKeepsRedo(r, touched, made) ==
  LET seq == IF DOMAIN log = {} THEN 1 ELSE Newest(DOMAIN log) + 1
      entry == [fwd |-> Forward(r, touched, made), inv |-> Backward(r, touched, made), undone |-> FALSE]
  IN  /\ seq <= MaxOps
      /\ rows' = r
      /\ log' = [s \in DOMAIN log \cup {seq} |-> IF s = seq THEN entry ELSE log[s]]
      /\ past' = [s \in 0..seq |-> IF s < seq THEN past[s] ELSE r]

(* The end of apply_operation: the redo branch goes, the operation is logged. *)
Commit(r, touched, made) ==
  LET seq == IF Done = {} THEN 1 ELSE Newest(Done) + 1
      entry == [fwd |-> Forward(r, touched, made), inv |-> Backward(r, touched, made), undone |-> FALSE]
  IN  /\ seq <= MaxOps
      /\ rows' = r
      /\ log' = [s \in Done \cup {seq} |-> IF s = seq THEN entry ELSE log[s]]
      /\ past' = [s \in 0..seq |-> IF s < seq THEN past[s] ELSE r]

Init ==
  /\ rows \in StartRows
  /\ log = [s \in {} |-> Gone]
  /\ past = [s \in {0} |-> rows]

---------------------------------------------------------------------------
(* Operations *)

NewRow == [parent |-> Null, head |-> Null, src |-> Null, dst |-> Null, via |-> Null, mark |-> Null]
NewDevice(p, h, m) == [NewRow EXCEPT !.parent = p, !.head = h, !.mark = m]
NewCable(a, b, m) == [NewRow EXCEPT !.src = a, !.dst = b, !.mark = m]
NewLink(a, b, c) == [NewRow EXCEPT !.src = a, !.dst = b, !.via = c]

Heads == FDTs \cup {Null}
Remarked(r, S, m) == [i \in Ids |-> IF i \in S THEN [r[i] EXCEPT !.mark = m] ELSE r[i]]
Children(a) == {k \in Devices \cap Present(rows) : rows[k].parent = a}
CablesAt(S) == {c \in Cables \cap Present(rows) : {rows[c].src, rows[c].dst} \cap S # {}}
LinksAt(S) == {l \in Links \cap Present(rows) : {rows[l].src, rows[l].dst} \cap S # {}}
LinksVia(c) == {l \in Links \cap Present(rows) : rows[l].via = c}
Linked(a, b) == \E l \in Links \cap Present(rows) : rows[l].src = a /\ rows[l].dst = b

AddAsset ==
  \E a \in Unused(Devices), p \in (Devices \cap Present(rows)) \cup {Null}, h \in Heads, m \in Marks :
    Commit([rows EXCEPT ![a] = NewDevice(p, h, m)], {}, {a})

(* With the children.  recalc: the cables at any of them are rerouted; without
   it the ends of the device's own cables are pulled along. *)
MoveAsset(a, recalc) ==
  LET moved == {a} \cup Children(a)
      T == moved \cup CablesAt(IF recalc THEN moved ELSE {a})
  IN  /\ Asset(a)
      /\ \E m \in Marks : Commit(Remarked(rows, T, m), T, {})

(* The FATs a deleted FDT headed lose it as their parent. *)
Headed(a) == IF a \in FDTs THEN {b \in FATs \cap Present(rows) : rows[b].head = a} ELSE {}
Beheaded(r, S) == [i \in Ids |-> IF i \in S THEN [r[i] EXCEPT !.head = Null] ELSE r[i]]

(* Mutant of DeleteAsset: no before images of the FATs it changes. *)
DeleteAssetHeadsUntracked(a, keepCables) ==
  LET ids == {a} \cup Children(a)
      cables == CablesAt(ids)
  IN  /\ Asset(a)
      /\ Commit(Deleted(Beheaded(rows, Headed(a)), ids \cup (IF keepCables THEN {} ELSE cables)),
                ids \cup LinksAt(ids) \cup cables, {})

DeleteAsset(a, keepCables) ==
  LET ids == {a} \cup Children(a)
      cables == CablesAt(ids)
  IN  /\ Asset(a)
      /\ Commit(Deleted(Beheaded(rows, Headed(a)), ids \cup (IF keepCables THEN {} ELSE cables)),
                ids \cup Headed(a) \cup LinksAt(ids) \cup cables, {})

(* A device's parent_fdt_code is one of the attributes that may be set. *)
UpdateAttrs(i) ==
  /\ Asset(i) \/ Cable(i)
  /\ \E m \in Marks, h \in IF i \in Devices THEN Heads ELSE {Null} :
       Commit([rows EXCEPT ![i] = [@ EXCEPT !.mark = m, !.head = h]], {i}, {})

(***************************************************************************)
(* _feed_link on top of r: a FEEDs b, once, and a FAT b takes the FDT at   *)
(* the head of the chain.  T and M are what the operation tracked so far.  *)
(***************************************************************************)
HeadFrom(a) == IF a \in FDTs THEN a ELSE rows[a].head
(* Mutant of FeedLink: the pair is not looked for. *)
FeedLinkTwice(r, a, b, c, T, M) ==
  \E l \in Unused(Links) :
    LET r1 == [r EXCEPT ![l] = NewLink(a, b, c)]
    IN  IF b \in FATs /\ HeadFrom(a) \notin {Null, rows[b].head}
        THEN Commit([r1 EXCEPT ![b].head = HeadFrom(a)], T \cup {b}, M \cup {l})
        ELSE Commit(r1, T, M \cup {l})
FeedLink(r, a, b, c, T, M) ==
  \E new \in IF Linked(a, b) THEN {{}} ELSE {{l} : l \in Unused(Links)} :
    LET r1 == [i \in Ids |-> IF i \in new THEN NewLink(a, b, c) ELSE r[i]]
    IN  IF b \in FATs /\ HeadFrom(a) \notin {Null, rows[b].head}
        THEN Commit([r1 EXCEPT ![b].head = HeadFrom(a)], T \cup {b}, M \cup new)
        ELSE Commit(r1, T, M \cup new)

(* An end is a device or a free point; feeds: the category is a feeding one. *)
Ends == (Devices \cap Present(rows)) \cup {Null}
DrawCable(feeds) ==
  \E c \in Unused(Cables), a \in Ends, b \in Ends, m \in Marks :
    LET r == [rows EXCEPT ![c] = NewCable(a, b, m)]
    IN  /\ a # b \/ a = Null
        /\ IF feeds /\ a # Null /\ b # Null THEN FeedLink(r, a, b, c, {}, {c}) ELSE Commit(r, {}, {c})

DeleteCable(c) ==
  /\ Cable(c)
  /\ Commit(Deleted(rows, {c}), {c} \cup LinksVia(c), {})

EditCableGeom(c) ==
  /\ Cable(c)
  /\ \E m \in Marks : Commit(Remarked(rows, {c}, m), {c}, {})

(* The second half is a new cable; a device may be put in at the cut. *)
SplitCable(c) ==
  /\ Cable(c)
  /\ \E b \in Unused(Cables), new \in {{}} \cup {{x} : x \in Unused(Devices)}, m \in Marks :
       LET cut == IF new = {} THEN Null ELSE CHOOSE x \in new : TRUE
           r == [i \in Ids |-> CASE i \in new -> NewDevice(Null, Null, m)
                                 [] i = b -> NewCable(cut, rows[c].dst, m)
                                 [] i = c -> [rows[c] EXCEPT !.dst = cut, !.mark = m]
                                 [] OTHER -> rows[i]]
       IN  Commit(r, {c}, {b} \cup new)

(* From one end to a device or a point.  A feeding cable extended to its own
   other end would feed the device from itself: ck_net_connections_not_self. *)
ExtendCable(c, feeds) ==
  /\ Cable(c)
  /\ \E t \in Ends, atStart \in BOOLEAN, m \in Marks :
       LET a == IF atStart THEN t ELSE rows[c].src
           b == IF atStart THEN rows[c].dst ELSE t
           r == [rows EXCEPT ![c] = [@ EXCEPT !.src = a, !.dst = b, !.mark = m]]
       IN  IF feeds /\ a # Null /\ b # Null
           THEN a # b /\ FeedLink(r, a, b, c, {c}, {})
           ELSE Commit(r, {c}, {})

Connect(a, b, feeds) ==
  /\ Asset(a) /\ Asset(b) /\ a # b
  /\ ~ Linked(a, b)
  /\ IF feeds THEN FeedLink(rows, a, b, Null, {}, {})
     ELSE \E l \in Unused(Links) : Commit([rows EXCEPT ![l] = NewLink(a, b, Null)], {}, {l})

Disconnect(l) ==
  /\ l \in Links \cap Present(rows)
  /\ Commit(Deleted(rows, {l}), {l}, {})

---------------------------------------------------------------------------
(* The log *)

(* Mutant of Undo: the oldest operation is taken, not the newest. *)
UndoOldest ==
  /\ Done # {}
  /\ rows' = Patched(rows, log[Oldest(Done)].inv)
  /\ log' = [log EXCEPT ![Oldest(Done)].undone = TRUE]
  /\ UNCHANGED past

Undo ==
  /\ Done # {}
  /\ PatchApplies(rows, log[Newest(Done)].inv)
  /\ rows' = Patched(rows, log[Newest(Done)].inv)
  /\ log' = [log EXCEPT ![Newest(Done)].undone = TRUE]
  /\ UNCHANGED past

Redo ==
  /\ Undone # {}
  /\ PatchApplies(rows, log[Oldest(Undone)].fwd)
  /\ rows' = Patched(rows, log[Oldest(Undone)].fwd)
  /\ log' = [log EXCEPT ![Oldest(Undone)].undone = FALSE]
  /\ UNCHANGED past

(* clear_log: a version was started, from the rows it was given. *)
NewVersion ==
  /\ rows' \in StartRows
  /\ log' = [s \in {} |-> Gone]
  /\ past' = [s \in {0} |-> rows']

EditDevice(a) ==
  \/ \E recalc \in BOOLEAN : MoveAsset(a, recalc)
  \/ \E keep \in BOOLEAN : DeleteAsset(a, keep)
  \/ UpdateAttrs(a)
EditCable(c) ==
  \/ UpdateAttrs(c) \/ DeleteCable(c) \/ EditCableGeom(c) \/ SplitCable(c)
  \/ \E feeds \in BOOLEAN : ExtendCable(c, feeds)
ApplyOperation ==
  \/ AddAsset
  \/ \E a \in Devices : EditDevice(a)
  \/ \E feeds \in BOOLEAN : DrawCable(feeds)
  \/ \E c \in Cables : EditCable(c)
  \/ \E a, b \in Devices, feeds \in BOOLEAN : Connect(a, b, feeds)
  \/ \E l \in Links : Disconnect(l)

Next == ApplyOperation \/ Undo \/ Redo \/ NewVersion

Spec == Init /\ [][Next]_vars

---------------------------------------------------------------------------
(* What must hold *)

TypeOK ==
  /\ rows \in [Ids -> Images \cup {Gone}]
  /\ DOMAIN log \subseteq 1..MaxOps
  /\ \A s \in DOMAIN log : log[s].undone \in BOOLEAN
  /\ 0 \in DOMAIN past /\ DOMAIN past \subseteq 0..MaxOps
  /\ \A s \in DOMAIN past : past[s] \in [Ids -> Images \cup {Gone}]

(* Undo takes operations back in the opposite order they were made, redo brings
   them back in the order they were made: the log is a done part, 1 to n, and an
   undone part after it, with no number missing or given twice. *)
LogIsALine ==
  \E n \in 0..MaxOps, k \in 0..MaxOps :
    /\ k <= n
    /\ DOMAIN log = 1..n
    /\ \A s \in 1..n : log[s].undone = (s > k)

(* Now: the operation whose outcome the working set should be showing. *)
Now == IF Done = {} THEN 0 ELSE Newest(Done)

(* x is y, but that one of the two may have lost its parent or its cable. *)
SameButLost(x, y) ==
  IF x = Gone \/ y = Gone THEN x = y
  ELSE /\ x = [y EXCEPT !.parent = x.parent, !.via = x.via]
       /\ x.parent = y.parent \/ Null \in {x.parent, y.parent}
       /\ x.via = y.via \/ Null \in {x.via, y.via}

(* After any number of undos and redos the working set has the rows it had at
   that point, with the same ends, marks and chain heads.  Only what the foreign
   keys set to NULL in rows the operation did not take images of can be missing,
   and only where an older image of the row is written back can it be there again. *)
UndoRestoresRows == \A i \in Ids : SameButLost(rows[i], past[Now][i])

(* No undo or redo fails on a row it needs and that is not there. *)
PatchesApply ==
  /\ Done # {} => PatchApplies(rows, log[Newest(Done)].inv)
  /\ Undone # {} => PatchApplies(rows, log[Oldest(Undone)].fwd)

(* A device feeds another once: no index keeps this for the links of a design,
   only the operations' own look before they insert, across every undo and redo. *)
LinkedOnce ==
  \A l, k \in Links \cap Present(rows) :
    rows[l].src = rows[k].src /\ rows[l].dst = rows[k].dst => l = k
===========================================================================
