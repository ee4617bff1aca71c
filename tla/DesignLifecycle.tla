-------------------------- MODULE DesignLifecycle --------------------------
(***************************************************************************)
(* One network design from its first edit to the live network:             *)
(*   design/service.py, design/operations.py   editing the working set     *)
(*   design/versions.py                        freeze, start, restore      *)
(*   design/auto_design.py                     engine runs and imports     *)
(*   approval/service.py                       two-step review, the gate   *)
(*   deployment/service.py                     construction, promotion     *)
(*                                                                         *)
(* Every API request runs in one database transaction and is one action    *)
(* here.  The first parameter d of a handler is the ORM row of the design  *)
(* as the request loaded it; reads of other tables are made when the       *)
(* handler runs.  In this module requests do not overlap, so d is always   *)
(* the stored row; DesignSessions lets d be stale.                         *)
(***************************************************************************)
EXTENDS Naturals, NetLifecycle

CONSTANTS Users,          \* who may call the API
          Admins,         \* users with role level 5 and above
          ReviewHolders,  \* hold design.review and boq.review (step 1)
          ApproveHolders, \* hold design.approve and boq.approve (step 2)
          Devices,        \* rows of net_assets, by code
          Cables,         \* rows of net_cables, by code
          Plans,          \* everything else a version holds: geometry,
                          \* attributes, inputs, boundary, engine settings
          Flawed,         \* the plans in which validation finds an ERROR
          MaxVersions, MaxRequests, MaxDeployments   \* bounds

ASSUME PeopleAssumption ==
  Admins \subseteq Users /\ ReviewHolders \subseteq Users /\ ApproveHolders \subseteq Users
ASSUME PlanAssumption == Flawed \subseteq Plans /\ Plans # {}
ASSUME BoundAssumption ==
  /\ MaxVersions \in Nat \ {0}
  /\ MaxRequests \in Nat
  /\ MaxDeployments \in Nat

Items == Devices \cup Cables
Versions == 1..MaxVersions
Requests == 1..MaxRequests
Deployments == 1..MaxDeployments

VARIABLES
  design,    \* the designs row: status, current_version_id, deleted_at
  work,      \* the working set: lifecycle state of each row, and the plan
  nver,      \* versions 1..nver exist
  frozen,    \* the versions whose snapshot is stored
  snapshot,  \* what each frozen version holds
  nreq,      \* approval requests 1..nreq exist, in order of submission
  req,
  ndep,      \* deployments 1..ndep exist, in order of start
  dep,
  run        \* the design's latest engine run: is it queued or running?

vars == <<design, work, nver, frozen, snapshot, nreq, req, ndep, dep, run>>

(* "NONE": the working set has no such row. *)
RowStates == LIFECYCLE_STATES \cup {"NONE"}
Contents == [rows : [Items -> RowStates], plan : Plans]
Present(c) == {i \in Items : c.rows[i] # "NONE"}
(* A working set without the lifecycle states of its rows. *)
Drawing(c) == [items |-> Present(c), plan |-> c.plan]
Drawings == [items : SUBSET Items, plan : Plans]

SubjectTypes == {"DESIGN_VERSION", "BOQ"}
StepStatuses == {"WAITING", "PENDING", "APPROVED", "REJECTED", "CANCELLED"}
RequestRows ==
  [type : SubjectTypes, ver : Versions, by : Users, payload : Drawings,
   status : {"PENDING", "APPROVED", "REJECTED", "WITHDRAWN"},
   step1 : StepStatuses, step2 : StepStatuses]
DeploymentRows == [ver : Versions, status : {"IN_PROGRESS", "PROMOTED"}]

TypeOK ==
  /\ design \in [status : DESIGN_STATUSES, cur : Versions, deleted : BOOLEAN]
  /\ work \in Contents
  /\ nver \in Versions
  /\ frozen \in SUBSET Versions
  /\ snapshot \in [Versions -> Contents]
  /\ nreq \in 0..MaxRequests
  /\ req \in [1..nreq -> RequestRows]
  /\ ndep \in 0..MaxDeployments
  /\ dep \in [1..ndep -> DeploymentRows]
  /\ run \in {"idle", "active"}

Blank(p) == [rows |-> [i \in Items |-> "NONE"], plan |-> p]

(* create_design: a DRAFT design whose version 1 is current. *)
Init ==
  /\ design = [status |-> "DRAFT", cur |-> 1, deleted |-> FALSE]
  /\ \E p \in Plans : work = Blank(p) /\ snapshot = [v \in Versions |-> Blank(p)]
  /\ nver = 1
  /\ frozen = {}
  /\ nreq = 0 /\ req = <<>>
  /\ ndep = 0 /\ dep = <<>>
  /\ run = "idle"

---------------------------------------------------------------------------
(* What handlers share *)

Found(d) == ~ d.deleted                              \* load_design
Editable(d) == d.status \notin LOCKED_STATUSES       \* ensure_editable
(* Assigning the loaded value to a column writes nothing. *)
Assigned(d, st) == IF d.status = st THEN design.status ELSE st
Touched(d) == IF d.status = "GENERATED" THEN "MODIFIED" ELSE design.status

InState(c, st) ==                                     \* set_lifecycle
  [c EXCEPT !.rows = [i \in Items |-> IF c.rows[i] = "NONE" THEN "NONE" ELSE st]]

(* The working set redrawn: rows kept keep their state, new rows are DESIGNED. *)
Redrawn(c, items, p) ==
  [rows |-> [i \in Items |-> IF i \notin items THEN "NONE"
                             ELSE IF c.rows[i] = "NONE" THEN "DESIGNED" ELSE c.rows[i]],
   plan |-> p]

(* freeze(): once, then the snapshot stays. *)
Freeze(v, c) ==
  /\ frozen' = frozen \cup {v}
  /\ snapshot' = IF v \in frozen THEN snapshot ELSE [snapshot EXCEPT ![v] = c]

(* start(): the next version becomes current; st is the status written with it. *)
Start(st) ==
  /\ nver < MaxVersions
  /\ nver' = nver + 1
  /\ design' = [design EXCEPT !.status = st, !.cur = nver + 1]

LatestIs(type, v, st) ==
  \E r \in 1..nreq :
    /\ req[r].type = type /\ req[r].ver = v /\ req[r].status = st
    /\ \A q \in (r+1)..nreq : ~ (req[q].type = type /\ req[q].ver = v)

(* gate() *)
DesignApproved(d) ==
  d.status \in {"APPROVED", "DEPLOYED"} /\ LatestIs("DESIGN_VERSION", d.cur, "APPROVED")
BoqApproved(d) == LatestIs("BOQ", d.cur, "APPROVED")

BeingDeployed == ndep > 0 /\ dep[ndep].status = "IN_PROGRESS"

(* _create(); uq_approval_requests_pending refuses a second open request. *)
Create(type, v, u) ==
  /\ nreq < MaxRequests
  /\ \A r \in 1..nreq : ~ (req[r].type = type /\ req[r].status = "PENDING")
  /\ nreq' = nreq + 1
  /\ req' = [r \in 1..(nreq+1) |->
               IF r <= nreq THEN req[r]
               ELSE [type |-> type, ver |-> v, by |-> u, payload |-> Drawing(work),
                     status |-> "PENDING", step1 |-> "PENDING", step2 |-> "WAITING"]]

---------------------------------------------------------------------------
(* Editing *)

UpdateDesign(d) ==
  /\ Found(d) /\ Editable(d)
  /\ \E st \in EDITABLE_STATUSES \cup {d.status} :
       design' = [design EXCEPT !.status = Assigned(d, st)]
  /\ \E p \in Plans : work' = [work EXCEPT !.plan = p]
  /\ UNCHANGED <<nver, frozen, snapshot, nreq, req, ndep, dep, run>>

(* Mutant of EditRows: ensure_editable forgotten. *)
EditRowsUnchecked(d) ==
  /\ Found(d)
  /\ \E items \in SUBSET Items, p \in Plans : work' = Redrawn(work, items, p)
  /\ design' = [design EXCEPT !.status = Touched(d)]
  /\ UNCHANGED <<nver, frozen, snapshot, nreq, req, ndep, dep, run>>

(* apply_operation, undo and redo: some change of the rows. *)
EditRows(d) ==
  /\ Found(d) /\ Editable(d)
  /\ \E items \in SUBSET Items, p \in Plans : work' = Redrawn(work, items, p)
  /\ design' = [design EXCEPT !.status = Touched(d)]
  /\ UNCHANGED <<nver, frozen, snapshot, nreq, req, ndep, dep, run>>

(* save_inputs into a layer that holds nothing yet, or appending. *)
AddInputs(d) ==
  /\ Found(d) /\ Editable(d)
  /\ \E p \in Plans : work' = [work EXCEPT !.plan = p]
  /\ design' = [design EXCEPT !.status = Touched(d)]
  /\ UNCHANGED <<nver, frozen, snapshot, nreq, req, ndep, dep, run>>

(* Mutant of ReplaceInputs: a new version is started, the old one not frozen. *)
ReplaceInputsUnkept(d) ==
  /\ Found(d) /\ Editable(d)
  /\ Start(Touched(d))
  /\ \E p \in Plans : work' = [work EXCEPT !.plan = p]
  /\ UNCHANGED <<frozen, snapshot, nreq, req, ndep, dep, run>>

(* save_inputs replacing a layer's data: checkpoint first. *)
ReplaceInputs(d) ==
  /\ Found(d) /\ Editable(d)
  /\ Freeze(d.cur, work)
  /\ Start(Touched(d))
  /\ \E p \in Plans : work' = [work EXCEPT !.plan = p]
  /\ UNCHANGED <<nreq, req, ndep, dep, run>>

(* delete_inputs of a layer with data: checkpoint first; the status stays. *)
DeleteInputs(d) ==
  /\ Found(d) /\ Editable(d)
  /\ Freeze(d.cur, work)
  /\ Start(design.status)
  /\ \E p \in Plans : work' = [work EXCEPT !.plan = p]
  /\ UNCHANGED <<nreq, req, ndep, dep, run>>

SaveVersion(d) ==
  /\ Found(d) /\ Editable(d)
  /\ Freeze(d.cur, work)
  /\ Start(design.status)
  /\ UNCHANGED <<work, nreq, req, ndep, dep, run>>

Restore(d, v) ==
  /\ Found(d) /\ Editable(d)
  /\ v \in frozen \ {d.cur}
  /\ Freeze(d.cur, work)
  /\ work' = snapshot[v]
  /\ Start(IF d.status = "DRAFT" THEN design.status ELSE Assigned(d, "MODIFIED"))
  /\ UNCHANGED <<nreq, req, ndep, dep, run>>

DeleteDesign(d) ==
  /\ Found(d) /\ d.status \notin {"APPROVED", "DEPLOYED"}
  /\ design' = [design EXCEPT !.deleted = TRUE]
  /\ UNCHANGED <<work, nver, frozen, snapshot, nreq, req, ndep, dep, run>>

---------------------------------------------------------------------------
(* Engine runs *)

(* queue_generate: the run's settings become the design's and are committed
   before the task is queued; without a task queue the run is failed at once. *)
QueueGenerate(d) ==
  /\ Found(d) /\ Editable(d)
  /\ run = "idle"
  /\ \E p \in Plans : work' = [work EXCEPT !.plan = p]
  /\ run' \in {"idle", "active"}
  /\ UNCHANGED <<design, nver, frozen, snapshot, nreq, req, ndep, dep>>

(* apply_output: the working set before it, as c, is frozen in the current
   version, and the run's output becomes the working set of a new one. *)
Replace(c) ==
  /\ Freeze(design.cur, c)
  /\ \E items \in SUBSET Items, p \in Plans : work' = Redrawn(Blank(p), items, p)
  /\ Start("GENERATED")

(* The worker writes a finished run into the design it locks and reads afresh. *)
ApplyOutput ==
  /\ run = "active"
  /\ Found(design) /\ Editable(design)
  /\ Replace(work)
  /\ run' = "idle"
  /\ UNCHANGED <<nreq, req, ndep, dep>>

(* The engine failed, or DesignLocked: the run is marked failed. *)
RunFails ==
  /\ run = "active"
  /\ run' = "idle"
  /\ UNCHANGED <<design, work, nver, frozen, snapshot, nreq, req, ndep, dep>>

(* import_run: the run's inputs and settings are copied into the design
   before apply_output freezes what it replaces. *)
ImportRun(d) ==
  /\ Found(d) /\ Editable(d)
  /\ run = "idle"
  /\ Found(design) /\ Editable(design)
  /\ \E p \in Plans : Replace([work EXCEPT !.plan = p])
  /\ UNCHANGED <<nreq, req, ndep, dep, run>>

---------------------------------------------------------------------------
(* Review *)

(* Mutant of SubmitDesign: submitted without validating. *)
SubmitDesignUnvalidated(d, u) ==
  /\ Found(d) /\ d.status \in SUBMITTABLE
  /\ Present(work) \cap Devices # {}
  /\ Freeze(d.cur, work)
  /\ Create("DESIGN_VERSION", d.cur, u)
  /\ design' = [design EXCEPT !.status = "UNDER_REVIEW"]
  /\ work' = InState(work, "UNDER_REVIEW")
  /\ UNCHANGED <<nver, ndep, dep, run>>

SubmitDesign(d, u) ==
  /\ Found(d) /\ d.status \in SUBMITTABLE
  /\ Present(work) \cap Devices # {}
  /\ work.plan \notin Flawed
  /\ Freeze(d.cur, work)
  /\ Create("DESIGN_VERSION", d.cur, u)
  /\ design' = [design EXCEPT !.status = "UNDER_REVIEW"]
  /\ work' = InState(work, "UNDER_REVIEW")
  /\ UNCHANGED <<nver, ndep, dep, run>>

SubmitBoq(d, u) ==
  /\ Found(d) /\ DesignApproved(d)
  /\ ~ LatestIs("BOQ", d.cur, "PENDING") /\ ~ LatestIs("BOQ", d.cur, "APPROVED")
  /\ Create("BOQ", d.cur, u)
  /\ UNCHANGED <<design, work, nver, frozen, snapshot, ndep, dep, run>>

(* The holders of the pending step's feature decide; admins hold every feature
   and are the only ones who may decide what they submitted. *)
MayDecide(u, q) ==
  /\ q.status = "PENDING"
  /\ u \in Admins \cup (IF q.step1 = "PENDING" THEN ReviewHolders ELSE ApproveHolders)
  /\ u # q.by \/ u \in Admins

(* A request whose row and steps were updated. *)
Marked(q, st, s1, s2) == [q EXCEPT !.status = st, !.step1 = s1, !.step2 = s2]

(* Mutant of ApproveStep1: the step passed stays open. *)
ApproveStep1LeftOpen(u, r) ==
  /\ MayDecide(u, req[r]) /\ req[r].step1 = "PENDING"
  /\ req' = [req EXCEPT ![r] = Marked(@, "PENDING", "PENDING", "PENDING")]
  /\ UNCHANGED <<design, work, nver, frozen, snapshot, nreq, ndep, dep, run>>

ApproveStep1(u, r) ==
  /\ MayDecide(u, req[r]) /\ req[r].step1 = "PENDING"
  /\ req' = [req EXCEPT ![r] = Marked(@, "PENDING", "APPROVED", "PENDING")]
  /\ UNCHANGED <<design, work, nver, frozen, snapshot, nreq, ndep, dep, run>>

ApproveStep2(u, r) ==
  /\ MayDecide(u, req[r]) /\ req[r].step2 = "PENDING"
  /\ req' = [req EXCEPT ![r] = Marked(@, "APPROVED", @.step1, "APPROVED")]
  /\ IF req[r].type = "DESIGN_VERSION"
     THEN /\ design' = [design EXCEPT !.status = "APPROVED"]
          /\ work' = InState(work, "APPROVED")
     ELSE UNCHANGED <<design, work>>
  /\ UNCHANGED <<nver, frozen, snapshot, nreq, ndep, dep, run>>

(* Mutants of BackToRevision: revised in the version that was reviewed; rows
   left in the state the review gave them. *)
BackToRevisionInPlace(st) ==
  /\ work' = InState(work, "DESIGNED")
  /\ design' = [design EXCEPT !.status = st]
  /\ UNCHANGED nver
BackToRevisionRowsLeft(st) ==
  /\ UNCHANGED work
  /\ Start(st)

(* A design sent back, withdrawn or reopened is revised in a new version. *)
BackToRevision(st) ==
  /\ work' = InState(work, "DESIGNED")
  /\ Start(st)

RejectedRow(q) ==
  IF q.step1 = "PENDING" THEN Marked(q, "REJECTED", "REJECTED", "CANCELLED")
  ELSE Marked(q, "REJECTED", q.step1, "REJECTED")

Reject(u, r) ==
  /\ MayDecide(u, req[r])
  /\ req' = [req EXCEPT ![r] = RejectedRow(req[r])]
  /\ IF req[r].type = "DESIGN_VERSION" THEN BackToRevision("REJECTED")
     ELSE UNCHANGED <<design, work, nver>>
  /\ UNCHANGED <<frozen, snapshot, nreq, ndep, dep, run>>

Cancelled(st) == IF st \in {"WAITING", "PENDING"} THEN "CANCELLED" ELSE st
Withdraw(u, r) ==
  /\ req[r].status = "PENDING" /\ req[r].by = u
  /\ req' = [req EXCEPT ![r] = Marked(@, "WITHDRAWN", Cancelled(@.step1), Cancelled(@.step2))]
  /\ IF req[r].type = "DESIGN_VERSION" THEN BackToRevision("MODIFIED")
     ELSE UNCHANGED <<design, work, nver>>
  /\ UNCHANGED <<frozen, snapshot, nreq, ndep, dep, run>>

(* Mutant of Reopen: the running deployment is not looked for. *)
ReopenWhileBuilt(d) ==
  /\ Found(d) /\ d.status = "APPROVED"
  /\ BackToRevision("MODIFIED")
  /\ UNCHANGED <<frozen, snapshot, nreq, req, ndep, dep, run>>

Reopen(d) ==
  /\ Found(d) /\ d.status = "APPROVED"
  /\ ~ \E k \in 1..ndep : dep[k].status = "IN_PROGRESS"
  /\ BackToRevision("MODIFIED")
  /\ UNCHANGED <<frozen, snapshot, nreq, req, ndep, dep, run>>

---------------------------------------------------------------------------
(* Deployment *)

(* Mutant of Deploy: only the design half of the gate is asked. *)
DeployUnpriced(d) ==
  /\ Found(d) /\ DesignApproved(d)
  /\ ~ BeingDeployed
  /\ ndep < MaxDeployments
  /\ work' = [work EXCEPT !.rows = [i \in Items |->
                IF work.rows[i] = "APPROVED" THEN "CONSTRUCTION" ELSE work.rows[i]]]
  /\ ndep' = ndep + 1
  /\ dep' = [k \in 1..(ndep+1) |->
               IF k <= ndep THEN dep[k] ELSE [ver |-> d.cur, status |-> "IN_PROGRESS"]]
  /\ UNCHANGED <<design, nver, frozen, snapshot, nreq, req, run>>

Deploy(d) ==
  /\ Found(d) /\ DesignApproved(d) /\ BoqApproved(d)
  /\ ~ BeingDeployed
  /\ ndep < MaxDeployments
  /\ work' = [work EXCEPT !.rows = [i \in Items |->
                IF work.rows[i] = "APPROVED" THEN "CONSTRUCTION" ELSE work.rows[i]]]
  /\ ndep' = ndep + 1
  /\ dep' = [k \in 1..(ndep+1) |->
               IF k <= ndep THEN dep[k] ELSE [ver |-> d.cur, status |-> "IN_PROGRESS"]]
  /\ UNCHANGED <<design, nver, frozen, snapshot, nreq, req, run>>

(* Items whose path is not legal are refused one by one; the rest advance. *)
Advance(d, items, action) ==
  /\ Found(d) /\ BeingDeployed
  /\ items # {} /\ items \subseteq Present(work)
  /\ work' = [work EXCEPT !.rows = [i \in Items |->
                IF i \in items THEN Advanced(action, work.rows[i]) ELSE work.rows[i]]]
  /\ UNCHANGED <<design, nver, frozen, snapshot, nreq, req, ndep, dep, run>>

CaptureAsBuilt(d, i) ==
  /\ Found(d) /\ BeingDeployed
  /\ i \in Present(work) /\ work.rows[i] # "CONSTRUCTION"
  /\ \E p \in Plans : work' = [work EXCEPT !.plan = p]
  /\ UNCHANGED <<design, nver, frozen, snapshot, nreq, req, ndep, dep, run>>

(* The rows leave the design for the live network; what was built is frozen as
   a version of its own first.  A clash with a live code refuses the promotion:
   that is a run in which this action is not taken. *)
Promote(d) ==
  /\ Found(d) /\ BeingDeployed
  /\ \A i \in Present(work) : work.rows[i] = "VERIFIED"
  /\ Start("DEPLOYED")
  /\ Freeze(nver + 1, work)
  /\ work' = Blank(work.plan)
  /\ dep' = [dep EXCEPT ![ndep].status = "PROMOTED"]
  /\ UNCHANGED <<nreq, req, ndep, run>>

---------------------------------------------------------------------------
(* The handlers as one request, or one task of the worker, runs them. *)

Edit(d) ==
  \/ UpdateDesign(d) \/ EditRows(d) \/ AddInputs(d) \/ ReplaceInputs(d) \/ DeleteInputs(d)
  \/ SaveVersion(d) \/ (\E v \in Versions : Restore(d, v)) \/ DeleteDesign(d)
  \/ QueueGenerate(d) \/ ImportRun(d)

Submit(d) == \E u \in Users : SubmitDesign(d, u) \/ SubmitBoq(d, u)

Decide ==
  \E u \in Users, r \in 1..nreq :
    ApproveStep1(u, r) \/ ApproveStep2(u, r) \/ Reject(u, r) \/ Withdraw(u, r)

Build(d) ==
  \/ Deploy(d)
  \/ \E items \in SUBSET Items, action \in FIELD_ACTIONS : Advance(d, items, action)
  \/ \E i \in Items : CaptureAsBuilt(d, i)
  \/ Promote(d)

Worker == ApplyOutput \/ RunFails

Next == Edit(design) \/ Submit(design) \/ Decide \/ Reopen(design) \/ Build(design) \/ Worker

Spec == Init /\ [][Next]_vars

---------------------------------------------------------------------------
(* What must always hold *)

(* The version being edited is never a frozen one: every way back to editing
   (reject, withdraw, reopen, restore, an engine run) started a new version. *)
EditableIsUnfrozen == Editable(design) => design.cur \notin frozen

(* What the reviewers decide about, and what is then built, is exactly the
   snapshot that submit_design froze: same rows, and the same plan until the
   field records where things really went. *)
ReviewedIsWhatWasFrozen ==
  design.status \in {"UNDER_REVIEW", "APPROVED"} =>
    /\ design.cur \in frozen
    /\ Present(work) = Present(snapshot[design.cur])
    /\ ~ BeingDeployed => work.plan = snapshot[design.cur].plan

(* The rows of the working set follow the design along the lifecycle, through
   set_lifecycle, the engine, restore, deploy and the field updates alike. *)
RowsIn(states) == \A i \in Present(work) : work.rows[i] \in states
RowsFollowStatus ==
  /\ Editable(design) => RowsIn({"DESIGNED"})
  /\ design.status = "UNDER_REVIEW" => RowsIn({"UNDER_REVIEW"})
  /\ design.status = "APPROVED" /\ ~ BeingDeployed => RowsIn({"APPROVED"})
  /\ BeingDeployed => RowsIn({"CONSTRUCTION", "INSTALLED", "TESTING", "VERIFIED"})
  /\ design.status = "DEPLOYED" => Present(work) = {}

(* A design is under review exactly while one request for its current version
   is open, and an open request always waits for exactly one step. *)
OpenReviews == {r \in 1..nreq : req[r].type = "DESIGN_VERSION" /\ req[r].status = "PENDING"}
OneOpenReview ==
  /\ design.status = "UNDER_REVIEW" <=> OpenReviews # {}
  /\ \A r \in OpenReviews : req[r].ver = design.cur /\ \A q \in OpenReviews : q = r
  /\ \A r \in 1..nreq : req[r].status = "PENDING" =>
       <<req[r].step1, req[r].step2>> \in {<<"PENDING", "WAITING">>, <<"APPROVED", "PENDING">>}

(* "so the next submission is a new design version": no version is reviewed twice. *)
EachVersionReviewedOnce ==
  \A r, q \in 1..nreq :
    req[r].type = "DESIGN_VERSION" /\ req[q].type = "DESIGN_VERSION" /\ req[r].ver = req[q].ver => r = q

(* The payload a BOQ request froze, and what a design request asks to approve,
   is the content of the version it names, and validation found no ERROR in it. *)
RequestsDescribeTheirVersion ==
  \A r \in 1..nreq :
    /\ req[r].ver \in frozen
    /\ req[r].payload = Drawing(snapshot[req[r].ver])
    /\ Present(snapshot[req[r].ver]) \cap Devices # {}
    /\ snapshot[req[r].ver].plan \notin Flawed

(* Construction goes on only for the current version, with its design and its
   BOQ approved from the deploy to the promotion: nothing reopens it meanwhile. *)
DeploymentGated ==
  BeingDeployed =>
    /\ design.status = "APPROVED" /\ ~ design.deleted
    /\ dep[ndep].ver = design.cur
    /\ DesignApproved(design) /\ BoqApproved(design)

(* Whatever replaces a working set (inputs, an engine run, an import, a restore,
   a promotion) leaves its rows in a frozen version; all but the import leave
   the plan that went with them, too. *)
NothingReplacedIsLost ==
  [][design.cur' # design.cur /\ Drawing(work') # Drawing(work) =>
       \E v \in frozen' : /\ Present(snapshot'[v]) = Present(work)
                          /\ snapshot'[v].plan = work.plan \/ ImportRun(design)]_vars

(* What ties the parts together, and makes them inductive: the version numbers
   only grow, versions frozen while editing hold DESIGNED rows (so restoring one
   brings back nothing else), a BOQ exists only for an approved current version,
   and the version a promotion froze has no requests of its own. *)
Drawn(c) == \A i \in Items : c.rows[i] \in {"NONE", "DESIGNED"}
VersionsAndRequestsAgree ==
  /\ design.status \notin {"VALIDATING", "SUPERSEDED"}
  /\ design.cur = nver
  /\ \A v \in frozen : v <= nver /\ (Drawn(snapshot[v]) \/ (design.status = "DEPLOYED" /\ v = nver))
  /\ \A r \in 1..nreq : req[r].type = "BOQ" /\ req[r].ver = nver => design.status = "APPROVED"
  /\ design.status = "DEPLOYED" =>
       nver \in frozen /\ ndep > 0 /\ \A r \in 1..nreq : req[r].ver # nver

(* The inductive invariant. *)
IInv ==
  /\ TypeOK
  /\ EditableIsUnfrozen
  /\ ReviewedIsWhatWasFrozen
  /\ RowsFollowStatus
  /\ OneOpenReview
  /\ EachVersionReviewedOnce
  /\ RequestsDescribeTheirVersion
  /\ DeploymentGated
  /\ VersionsAndRequestsAgree

---------------------------------------------------------------------------
(* The refinement of DesignPromise *)

phaseOf ==
  CASE design.status = "UNDER_REVIEW" -> "review"
    [] design.status = "APPROVED" -> IF BeingDeployed THEN "building" ELSE "approved"
    [] design.status = "DEPLOYED" -> "live"
    [] OTHER -> "editing"
(* A promoted design shows the version it froze as built. *)
drawingOf == IF phaseOf = "live" THEN Drawing(snapshot[design.cur]) ELSE Drawing(work)
reviewedOf ==
  CASE phaseOf = "editing" -> {}
    [] phaseOf \in {"building", "live"} -> {Drawing(snapshot[dep[ndep].ver])}
    [] OTHER -> {Drawing(snapshot[design.cur])}
pricedOf == phaseOf \in {"building", "live"} \/ BoqApproved(design)

P == INSTANCE DesignPromise WITH
       phase <- phaseOf, drawing <- drawingOf, reviewed <- reviewedOf, priced <- pricedOf

(* The whole workflow keeps the promise: every request and every worker task is
   one step of DesignPromise, or none of its business. *)
Promise == P!PromiseSpec

(* What is being built, and what went live, has the rows of the drawing that
   was reviewed, and its BOQ was approved. *)
LiveIsWhatWasReviewed == P!BuiltAsReviewed
===========================================================================
