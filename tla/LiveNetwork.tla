---------------------------- MODULE LiveNetwork ----------------------------
(***************************************************************************)
(* The live network and the register it is partly a copy of: files that    *)
(* add to either, files that delete from the register, and the edits of    *)
(* assets, cables and connections.  An action is a request's transaction,  *)
(* but committing a file is two: the request first passes the check of the *)
(* session's status and writes later, with others in between.              *)
(***************************************************************************)
EXTENDS NetMirror, Functions

CONSTANTS
  Uploads, Deletions,   \* sessions
  Files,    \* what may be uploaded: a kind, and rows well formed by themselves
  Seeds,    \* register and containment that may be there before the first upload
  HandTypes, HandCodes, HandEnds, \* what edits by hand set types, codes and ends to
  MAX_CASCADE_DEPTH, MAX_WALK, MAX_DEPTH, \* steps of the cascade, of _check_parent, of a trace
  MaxEdits  \* bound: edits by hand

Kinds == Tables \cup {"FDT", "FAT", "CABLE"}
EndCodes == Codes \cup {None}
FileRow == [code : EndCodes, from : EndCodes, to : EndCodes]

(* The foreign keys of splitter_boxes: to cabinets and to splitter_boxes. *)
Refers(r) ==
  \A i \in DOMAIN r :
    /\ r[i].kind = "CABINET" => r[i].cabinet = None /\ r[i].parent = None
    /\ r[i].cabinet # None => r[i].cabinet \in DOMAIN r /\ r[r[i].cabinet].kind = "CABINET"
    /\ r[i].parent # None => r[i].parent \in DOMAIN r /\ r[r[i].parent].kind = "SPLITTER"

Whole(r) ==
  \A i \in DOMAIN r : r[i].active => \A p \in {r[i].cabinet, r[i].parent} \ {None} : r[p].active

(* No box is more levels below one without a parent than a cascade goes down. *)
Shallow(r) ==
  DOMAIN r \subseteq Reach({<<r[i].parent, i>> : i \in DOMAIN r},
                          {i \in DOMAIN r : r[i].parent = None}, MAX_CASCADE_DEPTH)

(* Of two rows with one code the first was there when the other came. *)
FirstMirror(r) ==
  LET first == [i \in DOMAIN r |-> [r[i] EXCEPT !.active = @ /\
                  ~\E j \in 1..(i - 1) : r[j].kind = r[i].kind /\ r[j].code = r[i].code]]
  IN Mirrored(first, [a \in Assets |-> Blank])

(* The mirror, with the assets that were put into others. *)
Furnished(seed) ==
  LET n == FirstMirror(seed.rows)
  IN [a \in Assets |-> IF a \in DOMAIN seed.rows
        THEN [n[a] EXCEPT !.within = seed.within[a]] ELSE n[a]]

ContainersExist(n) == \A a \in Assets : n[a].within # None => n[n[a].within].state # "unused"

(* A loop is a set of assets each inside another of the set. *)
Loopless(n, size) ==
  \A S \in SUBSET Assets :
    S # {} /\ Cardinality(S) <= size => \E a \in S : n[a].within \notin S

(* What was deleted before the first upload was deleted with what hung from it, *)
(* and what was moved was moved without closing a loop.                         *)
SeedAssumption(seed) ==
  /\ seed.rows \in Seq(Row) /\ Len(seed.rows) <= MaxReg
  /\ seed.within \in [DOMAIN seed.rows -> Assets \cup {None}]
  /\ Refers(seed.rows) /\ (Shallow(seed.rows) => Whole(seed.rows))
  /\ ContainersExist(Furnished(seed)) /\ Loopless(Furnished(seed), MAX_WALK + 1)

ASSUME FilesAssumption ==
  /\ Files \subseteq [kind : Kinds, rows : Seq(FileRow)]
  /\ \A f \in Files : f.kind # "CABLE" => \A k \in DOMAIN f.rows : f.rows[k].code \in Codes
  /\ HandTypes \subseteq Types /\ HandCodes \subseteq Codes /\ HandEnds \subseteq Assets
  /\ {MAX_CASCADE_DEPTH, MAX_WALK, MAX_DEPTH, MaxEdits} \subseteq Nat
  /\ \A seed \in Seeds : SeedAssumption(seed)

VARIABLES
  reg,      \* the tables cabinets and splitter_boxes
  net,      \* net_assets
  cable,    \* net_cables
  links,    \* live net_connections
  upload,   \* upload sessions with the rows found valid and new
  asked,    \* requests to commit a session that have passed its status check
  deletion, \* deletion sessions: the rows matched, and those found to hang from them
  move,     \* the move that was checked and not yet written
  edits

vars == <<reg, net, cable, links, upload, asked, deletion, move, edits>>

NoUpload == [status |-> "none", kind |-> None, rows |-> <<>>, written |-> FALSE]
NoDeletion == [status |-> "none", kind |-> None, matched |-> {}, preview |-> {}]
NoCable == [state |-> "unused", from |-> None, to |-> None]

Ends == Assets \cup {None}

(* overtaken: another move was written after this one was checked; raced: a  *)
(* move so overtaken has been written.                                      *)
Moves == [asset : Ends, into : Ends, overtaken : BOOLEAN, raced : BOOLEAN]
NoMove == [asset |-> None, into |-> None, overtaken |-> FALSE, raced |-> FALSE]

LinkRow == [rule : {"cable", "parent_splitter", "cabinet", "parent_fdt", "manual"},
            of : Ends \cup Cables, from : Assets, to : Assets, via : Cables \cup {None}]

TypeOK ==
  /\ reg \in Seq(Row) /\ Len(reg) <= MaxReg
  /\ net \in [Assets -> Asset]
  /\ cable \in [Cables -> [state : {"unused", "live", "gone"}, from : Ends, to : Ends]]
  /\ links \subseteq LinkRow
  /\ upload \in [Uploads -> [status : {"none", "validated", "committed", "rolled_back"},
                             kind : Kinds \cup {None}, rows : Seq(FileRow), written : BOOLEAN]]
  /\ asked \in [Uploads -> 0..2]
  /\ deletion \in [Deletions -> [status : {"none", "pending", "executed", "failed"},
                                 kind : Tables \cup {None}, matched : SUBSET Mirrors, preview : SUBSET Mirrors]]
  /\ move \in Moves
  /\ edits \in 0..MaxEdits

Init ==
  /\ \E seed \in Seeds : reg = seed.rows /\ net = Furnished(seed)
  /\ cable = [c \in Cables |-> NoCable] /\ links = Sync(net, cable, {})
  /\ upload = [s \in Uploads |-> NoUpload] /\ asked = [s \in Uploads |-> 0]
  /\ deletion = [d \in Deletions |-> NoDeletion] /\ move = NoMove /\ edits = 0

-----------------------------------------------------------------------------
(* Upload sessions. *)

ActiveRows(r, kind) == {i \in DOMAIN r : r[i].active /\ r[i].kind = kind}
InRegister(kind, code) == \E i \in ActiveRows(reg, kind) : reg[i].code = code

(* The one live asset with the code, of whatever type. *)
End(code) == IF \E a \in Assets : Named(net, code) = {a}
             THEN CHOOSE a \in Assets : Named(net, code) = {a} ELSE None

(* What validation must refuse: a row that is there already, a row for the  *)
(* live network that repeats an earlier one, a cable whose end is not one   *)
(* asset.                                                                   *)
Refused(kind, rows, k) ==
  CASE kind = "CABINET" -> InRegister(kind, rows[k].code)
    [] kind = "SPLITTER" -> FALSE
    [] kind = "CABLE" -> \E e \in {rows[k].from, rows[k].to} : e # None /\ End(e) = None
    [] OTHER -> \/ Holders(net, kind, rows[k].code) # {}
                \/ \E j \in 1..(k - 1) : rows[j].code = rows[k].code

(* Splitter boxes are looked up by code and level, and may be found or not. *)
MayRefuse(kind, rows, k) ==
  Refused(kind, rows, k) \/ (kind = "SPLITTER" /\ InRegister(kind, rows[k].code))

(* The rows found valid and new are kept in the order of the file. *)
Orders(rows) ==
  {q \in UNION {[1..n -> DOMAIN rows] : n \in 0..Len(rows)} :
     \A i, j \in DOMAIN q : i < j => q[i] < q[j]}

UploadFile(s) ==
  /\ upload[s].status = "none"
  /\ \E f \in Files : \E good \in Orders(f.rows) :
       /\ \A k \in DOMAIN f.rows :
            IF k \in Range(good) THEN ~Refused(f.kind, f.rows, k) ELSE MayRefuse(f.kind, f.rows, k)
       /\ upload' = [upload EXCEPT ![s] =
            [status |-> "validated", kind |-> f.kind, written |-> FALSE,
             rows |-> [k \in DOMAIN good |-> f.rows[good[k]]]]]
  /\ UNCHANGED <<reg, net, cable, links, asked, deletion, move, edits>>

AskCommit(s) ==
  /\ upload[s].status = "validated" /\ asked[s] < 2
  /\ asked' = [asked EXCEPT ![s] = @ + 1]
  /\ UNCHANGED <<reg, net, cable, links, upload, deletion, move, edits>>

NewRow(kind, row) ==
  [kind |-> kind, code |-> row.code, active |-> TRUE, cabinet |-> None, parent |-> None]

(* uq_splitter_boxes_box_id_tenant; cabinets have no such index. *)
BoxesUnique(r) ==
  \A i, j \in ActiveRows(r, "SPLITTER") : r[i].code = r[j].code => i = j

(* mirror_uploaded, in the savepoint of what changed the register. *)
MirrorInto(r) ==
  /\ ~Clash(r, net)
  /\ reg' = r /\ net' = Mirrored(r, net) /\ links' = Sync(net', cable, links)

CommitRegister(s, batch) ==
  LET r == reg \o [k \in DOMAIN batch |-> NewRow(upload[s].kind, batch[k])] IN
  /\ Len(r) <= MaxReg /\ BoxesUnique(r)
  /\ IF batch = <<>> THEN UNCHANGED <<reg, net, links>> ELSE MirrorInto(r)
  /\ UNCHANGED cable

(* A staging row is the source of one asset or cable: uq_net_assets_source. *)
CommitAssets(s, batch) ==
  /\ batch # <<>> => ~upload[s].written
  /\ \A k \in DOMAIN batch : Holders(net, upload[s].kind, batch[k].code) = {}
  /\ \E h \in [DOMAIN batch -> {h \in Hands : net[h].state = "unused"}] :
       /\ \A j, k \in DOMAIN batch : h[j] = h[k] => j = k
       /\ net' = [a \in Assets |->
            IF \E k \in DOMAIN batch : h[k] = a
            THEN [Blank EXCEPT !.state = "live", !.type = upload[s].kind,
                               !.code = batch[CHOOSE k \in DOMAIN batch : h[k] = a].code]
            ELSE net[a]]
  /\ links' = Sync(net', cable, links)
  /\ UNCHANGED <<reg, cable>>

(* The ends are looked up again, and left open where that finds none. *)
CommitCables(s, batch) ==
  /\ batch # <<>> => ~upload[s].written
  /\ \E c \in [DOMAIN batch -> {c \in Cables : cable[c].state = "unused"}] :
       /\ \A j, k \in DOMAIN batch : c[j] = c[k] => j = k
       /\ cable' = [x \in Cables |->
            IF \E k \in DOMAIN batch : c[k] = x
            THEN LET row == batch[CHOOSE k \in DOMAIN batch : c[k] = x]
                 IN [state |-> "live", from |-> End(row.from), to |-> End(row.to)]
            ELSE cable[x]]
  /\ links' = Sync(net, cable', links)
  /\ UNCHANGED <<reg, net>>

(* The request has loaded the uncommitted rows before or after another one *)
(* committed them.                                                         *)
Commit(s) ==
  /\ asked[s] > 0
  /\ \E batch \in {upload[s].rows, IF upload[s].written THEN <<>> ELSE upload[s].rows} :
       CASE upload[s].kind \in Tables -> CommitRegister(s, batch)
         [] upload[s].kind = "CABLE" -> CommitCables(s, batch)
         [] OTHER -> CommitAssets(s, batch)
  /\ asked' = [asked EXCEPT ![s] = @ - 1]
  /\ upload' = [upload EXCEPT ![s].status = "committed", ![s].written = TRUE]
  /\ UNCHANGED <<deletion, move, edits>>

(* Any database error, a constraint that refuses the rows among them. *)
RollBack(s) ==
  /\ asked[s] > 0
  /\ asked' = [asked EXCEPT ![s] = @ - 1]
  /\ upload' = [upload EXCEPT ![s].status = "rolled_back"]
  /\ UNCHANGED <<reg, net, cable, links, deletion, move, edits>>

(* POST /network/assets/sync-uploaded *)
SyncUploaded ==
  /\ MirrorInto(reg)
  /\ UNCHANGED <<cable, upload, asked, deletion, move, edits>>

-----------------------------------------------------------------------------
(* Deletion sessions. *)

(* A key is a code with a level or a capacity, and matches one row or none. *)
Matches(kind) ==
  {m \in SUBSET ActiveRows(reg, kind) : \A i, j \in m : reg[i].code = reg[j].code => i = j}

(* _splitter_descendants goes down a bounded number of levels. *)
Below(r, S) ==
  Reach({<<r[i].parent, i>> : i \in ActiveRows(r, "SPLITTER")}, S, MAX_CASCADE_DEPTH)

(* collect_cascade_targets, with the matched boxes. *)
Cascade(r, kind, m) ==
  IF kind = "CABINET"
  THEN Below(r, {i \in ActiveRows(r, "SPLITTER") : r[i].cabinet \in m})
  ELSE Below(r, m)

AskDeletion(d) ==
  /\ deletion[d].status = "none"
  /\ \E kind \in Tables : \E m \in Matches(kind) :
       deletion' = [deletion EXCEPT ![d] =
         [status |-> "pending", kind |-> kind, matched |-> m, preview |-> Cascade(reg, kind, m)]]
  /\ UNCHANGED <<reg, net, cable, links, upload, asked, move, edits>>

(* Mutant of Doomed: the keys are matched again when they are deleted. *)
DoomedByKey(d) ==
  LET kind == deletion[d].kind
      m == {i \in ActiveRows(reg, kind) : \E j \in deletion[d].matched : reg[i].code = reg[j].code}
  IN m \cup Cascade(reg, kind, m)

(* The rows matched before, and what hangs from them now. *)
Doomed(d) == deletion[d].matched \cup Cascade(reg, deletion[d].kind, deletion[d].matched)

Execute(d) ==
  /\ deletion[d].status = "pending"
  /\ LET r == [i \in DOMAIN reg |-> [reg[i] EXCEPT !.active = @ /\ i \notin Doomed(d)]]
     IN IF r = reg THEN UNCHANGED <<reg, net, links>> ELSE MirrorInto(r)
  /\ deletion' = [deletion EXCEPT ![d].status = "executed"]
  /\ UNCHANGED <<cable, upload, asked, move, edits>>

ExecuteFails(d) ==
  /\ deletion[d].status = "pending"
  /\ deletion' = [deletion EXCEPT ![d].status = "failed"]
  /\ UNCHANGED <<reg, net, cable, links, upload, asked, move, edits>>

-----------------------------------------------------------------------------
(* Edits by hand; each asset edit is one PATCH of one field. *)

Edit == edits < MaxEdits /\ edits' = edits + 1

(* The write of an asset, and the sync that ends every such request. *)
WriteNet(n) ==
  /\ Linkable(n)
  /\ net' = n /\ links' = Sync(n, cable, links)
  /\ UNCHANGED <<reg, cable, upload, asked, deletion>>

(* A live asset an edit names, or none. *)
Given == (HandEnds \cap Live(net)) \cup {None}

CreateAsset(h) ==
  /\ Edit /\ net[h].state = "unused" /\ UNCHANGED move
  /\ \E type \in HandTypes, code \in HandCodes, w \in Given :
       /\ Holders(net, type, code) = {}
       /\ WriteNet([net EXCEPT ![h] = [Blank EXCEPT
            !.state = "live", !.type = type, !.code = code, !.within = w]])

Rename(a, code) ==
  /\ Edit /\ a \in Live(net) /\ UNCHANGED move
  /\ Holders(net, net[a].type, code) \subseteq {a}
  /\ WriteNet([net EXCEPT ![a].code = code])

Inside(n) == {<<a, n[a].within>> : a \in {a \in Assets : n[a].within # None}}

(* Mutant of Above: only containment in oneself is refused. *)
AboveNone(n, p) == {p}

(* _check_parent's walk up from p, which does not look at deleted_at. *)
Above(n, p) == Reach(Inside(n), {p}, MAX_WALK)

Checked(a, p) ==
  /\ a \in Live(net)
  /\ p # None => p \in Live(net) /\ a \notin Above(net, p)

Put(a, p) == WriteNet([net EXCEPT ![a].within = p])

(* A move that nothing comes between overtakes one that was checked before. *)
Move(a, p) ==
  /\ Edit /\ Checked(a, p) /\ Put(a, p)
  /\ move' = [move EXCEPT !.overtaken = move.asset # None]

(* A move that others come between: its check, and what it writes whatever *)
(* they did.                                                               *)
CheckMove(a, p) ==
  /\ Edit /\ Checked(a, p) /\ p # net[a].within /\ move.asset = None
  /\ move' = [move EXCEPT !.asset = a, !.into = p]
  /\ UNCHANGED <<reg, net, cable, links, upload, asked, deletion>>

WriteMove ==
  /\ move.asset # None /\ Put(move.asset, move.into)
  /\ move' = [NoMove EXCEPT !.raced = move.raced \/ move.overtaken]
  /\ UNCHANGED edits

(* Keys outside a type's specification are kept as they are sent. *)
SetAttributes(a) ==
  /\ Edit /\ a \in Live(net) /\ UNCHANGED move
  /\ \/ /\ net[a].type = "SPLITTER"
        /\ \E e \in HandEnds \cup {None} : \/ WriteNet([net EXCEPT ![a].cab = e])
                                         \/ WriteNet([net EXCEPT ![a].par = e])
     \/ /\ net[a].type = "FAT"
        /\ \E code \in HandCodes \cup {None} : WriteNet([net EXCEPT ![a].fdt = code])

DeleteAsset(a) ==
  /\ Edit /\ a \in Live(net) /\ UNCHANGED move
  /\ WriteNet([x \in Assets |->
       [net[x] EXCEPT !.state = IF x = a THEN "gone" ELSE @,
                      !.within = IF @ = a THEN None ELSE @]])

WriteCable(c, value) ==
  /\ cable' = [cable EXCEPT ![c] = value]
  /\ links' = Sync(net, cable', links)
  /\ UNCHANGED <<reg, net, upload, asked, deletion, move>>

(* create_cable, and update_cable, which may leave an end as it is. *)
LayCable(c) ==
  /\ Edit /\ cable[c].state # "gone"
  /\ \E from \in Given \cup {cable[c].from}, to \in Given \cup {cable[c].to} :
       WriteCable(c, [state |-> "live", from |-> from, to |-> to])

RemoveCable(c) ==
  /\ Edit /\ cable[c].state = "live"
  /\ WriteCable(c, [cable[c] EXCEPT !.state = "gone"])

Connect(from, to) ==
  /\ Edit /\ from # to /\ {from, to} \subseteq Live(net)
  /\ from \notin Reach(Feeds(links), {to}, MAX_DEPTH)
  /\ \E via \in {c \in Cables : cable[c].state = "live"} \cup {None} :
       /\ Link("manual", None, from, to, via) \notin links
       /\ links' = links \cup {Link("manual", None, from, to, via)}
  /\ UNCHANGED <<reg, net, cable, upload, asked, deletion, move>>

Disconnect ==
  /\ Edit
  /\ \E l \in links : l.rule = "manual" /\ links' = links \ {l}
  /\ UNCHANGED <<reg, net, cable, upload, asked, deletion, move>>

EditAsset(a) ==
  \/ \E code \in HandCodes : Rename(a, code)
  \/ \E p \in Ends : Move(a, p) \/ CheckMove(a, p)
  \/ SetAttributes(a)
  \/ DeleteAsset(a)

Next ==
  \/ \E s \in Uploads : UploadFile(s) \/ AskCommit(s) \/ Commit(s) \/ RollBack(s)
  \/ \E d \in Deletions : AskDeletion(d) \/ Execute(d) \/ ExecuteFails(d)
  \/ SyncUploaded
  \/ \E h \in Hands : CreateAsset(h)
  \/ \E a \in Assets : EditAsset(a)
  \/ WriteMove
  \/ \E c \in Cables : LayCable(c) \/ RemoveCable(c)
  \/ \E from, to \in Assets : Connect(from, to)
  \/ Disconnect

Spec == Init /\ [][Next]_vars

-----------------------------------------------------------------------------
(* The derived connections are those the live assets and cables imply now, *)
(* whichever request changed them last, and no connection has a dead end:  *)
(* every write of the network ends in sync_derived_connections.            *)
LinksFollowTheirData ==
  /\ {l \in links : l.rule # "manual"} = Rules(net, cable)
  /\ \A l \in links : {l.from, l.to} \subseteq Live(net)

(* What was deleted from the register is off the map, and stays off it     *)
(* whatever is uploaded, renamed or synced afterwards.                     *)
DeletedIsGone ==
  /\ \A i \in DOMAIN reg : net[i].state = "live" => reg[i].active
  /\ \A d \in Deletions : deletion[d].status = "executed" =>
       \A i \in deletion[d].matched : ~reg[i].active

(* Containment has no loop that a walk of MAX_WALK steps could have seen,  *)
(* although deleting an asset cuts links, a sync brings deleted assets back *)
(* with the container they had, and _check_parent sees only the asset that *)
(* moves -- unless a move was written between another's check and write.   *)
NoAssetContainsItself == ~move.raced => Loopless(net, MAX_WALK + 1)

(* The one step that is neither an edit nor a step of a session. *)
Synced == UNCHANGED <<cable, upload, asked, deletion, move, edits>>

(* A deletion deletes only what its preview showed to those who approved   *)
(* it, although the cascade is collected again when it is executed, and it *)
(* leaves nothing active below what is deleted as long as no box is deeper *)
(* down than the cascade goes.                                             *)
DeletesWhatWasShown ==
  [][\A d \in Deletions : deletion[d].status # "executed" /\ deletion'[d].status = "executed" =>
       /\ {i \in DOMAIN reg : reg[i].active /\ ~reg'[i].active}
            \subseteq deletion[d].matched \cup deletion[d].preview
       /\ Shallow(reg) => Whole(reg')]_vars

(* Every mirror puts each active row on the map, also one whose asset was  *)
(* deleted by hand, unless another live asset bore its code before.        *)
RegisterIsOnTheMap ==
  [][Synced \/ reg' # reg =>
       \A i \in DOMAIN reg' : reg'[i].active =>
         \/ net'[i].state = "live" /\ net'[i].code = reg'[i].code
         \/ Holders(net, reg'[i].kind, reg'[i].code) \ {i} # {}]_vars
=============================================================================
