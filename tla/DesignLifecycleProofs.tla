----------------------- MODULE DesignLifecycleProofs -----------------------
(***************************************************************************)
(* Theorems about DesignLifecycle, for every number of users, rows, plans, *)
(* versions, requests and deployments.                                     *)
(***************************************************************************)
EXTENDS DesignLifecycle, TLAPS

LEMMA RowStatesType == "NONE" \in RowStates /\ "DESIGNED" \in RowStates
BY DEF RowStates, LIFECYCLE_STATES

LEMMA BlankType ==
  ASSUME NEW p \in Plans PROVE Blank(p) \in Contents
BY RowStatesType DEF Blank, Contents

LEMMA InStateType ==
  ASSUME NEW c \in Contents, NEW st \in RowStates PROVE InState(c, st) \in Contents
BY RowStatesType DEF InState, Contents

LEMMA RedrawnType ==
  ASSUME NEW c \in Contents, NEW items, NEW p \in Plans PROVE Redrawn(c, items, p) \in Contents
BY RowStatesType DEF Redrawn, Contents

LEMMA AdvancedType ==
  ASSUME NEW action, NEW s \in RowStates PROVE Advanced(action, s) \in RowStates
BY DEF Advanced, RowStates, LIFECYCLE_STATES

LEMMA DrawingType ==
  ASSUME NEW c \in Contents PROVE Drawing(c) \in Drawings
BY DEF Drawing, Drawings, Contents, Present

LEMMA StatusType ==
  /\ "DEPLOYED" \in DESIGN_STATUSES /\ "MODIFIED" \in DESIGN_STATUSES /\ "REJECTED" \in DESIGN_STATUSES
  /\ "UNDER_REVIEW" \in DESIGN_STATUSES /\ "APPROVED" \in DESIGN_STATUSES /\ "GENERATED" \in DESIGN_STATUSES
  /\ "DRAFT" \in DESIGN_STATUSES
BY DEF DESIGN_STATUSES

LEMMA StartType ==
  ASSUME TypeOK, NEW st \in DESIGN_STATUSES, Start(st)
  PROVE  /\ nver' \in Versions
         /\ design' \in [status : DESIGN_STATUSES, cur : Versions, deleted : BOOLEAN]
<1>1. nver + 1 \in Versions
  BY BoundAssumption DEF Start, TypeOK, Versions
<1> QED  BY <1>1 DEF Start, TypeOK

LEMMA FreezeType ==
  ASSUME TypeOK, NEW v \in Versions, NEW c \in Contents, Freeze(v, c)
  PROVE  frozen' \in SUBSET Versions /\ snapshot' \in [Versions -> Contents]
BY DEF Freeze, TypeOK

LEMMA CreateType ==
  ASSUME TypeOK, NEW type \in SubjectTypes, NEW v \in Versions, NEW u \in Users, Create(type, v, u)
  PROVE  nreq' \in 0..MaxRequests /\ req' \in [1..nreq' -> RequestRows]
<1> DEFINE new == [type |-> type, ver |-> v, by |-> u, payload |-> Drawing(work),
                   status |-> "PENDING", step1 |-> "PENDING", step2 |-> "WAITING"]
<1>1. new \in RequestRows
  BY DrawingType DEF TypeOK, RequestRows, StepStatuses
<1>2. nreq' \in 0..MaxRequests
  BY BoundAssumption DEF Create, TypeOK
<1>3. req' \in [1..nreq' -> RequestRows]
  BY <1>1 DEF Create, TypeOK
<1> QED  BY <1>2, <1>3

LEMMA MarkedFacts ==
  ASSUME NEW q \in RequestRows, NEW st, NEW s1, NEW s2
  PROVE  /\ Marked(q, st, s1, s2).type = q.type
         /\ Marked(q, st, s1, s2).ver = q.ver
         /\ Marked(q, st, s1, s2).by = q.by
         /\ Marked(q, st, s1, s2).payload = q.payload
         /\ Marked(q, st, s1, s2).status = st
         /\ Marked(q, st, s1, s2).step1 = s1
         /\ Marked(q, st, s1, s2).step2 = s2
         /\ st \in {"PENDING", "APPROVED", "REJECTED", "WITHDRAWN"} /\ s1 \in StepStatuses /\ s2 \in StepStatuses
              => Marked(q, st, s1, s2) \in RequestRows
BY DEF Marked, RequestRows

LEMMA TypeInit == Init => TypeOK
<1> SUFFICES ASSUME Init PROVE TypeOK  OBVIOUS
<1>1. 1 \in Versions  BY BoundAssumption DEF Versions
<1>2. work \in Contents /\ snapshot \in [Versions -> Contents]
  BY BlankType DEF Init
<1> QED  BY <1>1, <1>2, StatusType, BoundAssumption DEF Init, TypeOK

LEMMA TypeStep == TypeOK /\ [Next]_vars => TypeOK'
<1> SUFFICES ASSUME TypeOK, [Next]_vars PROVE TypeOK'  OBVIOUS
<1>t. design.cur \in Versions /\ design.status \in DESIGN_STATUSES /\ work.plan \in Plans
  BY DEF TypeOK, Contents
<1>a. CASE UpdateDesign(design)
  <2>1. Assigned(design, "DRAFT") \in DESIGN_STATUSES /\ Assigned(design, "MODIFIED") \in DESIGN_STATUSES
        /\ Assigned(design, design.status) \in DESIGN_STATUSES
    BY <1>t, StatusType DEF Assigned
  <2>2. design' \in [status : DESIGN_STATUSES, cur : Versions, deleted : BOOLEAN]
    BY <1>a, <2>1 DEF UpdateDesign, EDITABLE_STATUSES, TypeOK
  <2>3. work' \in Contents
    BY <1>a DEF UpdateDesign, TypeOK, Contents
  <2> QED  BY <1>a, <2>2, <2>3 DEF UpdateDesign, TypeOK
<1>u. Touched(design) \in DESIGN_STATUSES
  BY <1>t, StatusType DEF Touched
<1>b. CASE EditRows(design)
  <2>1. work' \in Contents  BY <1>b, RedrawnType DEF EditRows, TypeOK
  <2> QED  BY <1>b, <1>u, <2>1 DEF EditRows, TypeOK
<1>c. CASE AddInputs(design)
  <2>1. work' \in Contents  BY <1>c DEF AddInputs, TypeOK, Contents
  <2> QED  BY <1>c, <1>u, <2>1 DEF AddInputs, TypeOK
<1>d. CASE ReplaceInputs(design)
  <2>1. work' \in Contents  BY <1>d DEF ReplaceInputs, TypeOK, Contents
  <2>2. frozen' \in SUBSET Versions /\ snapshot' \in [Versions -> Contents]
    BY <1>d, <1>t, FreezeType DEF ReplaceInputs, TypeOK
  <2>3. nver' \in Versions /\ design' \in [status : DESIGN_STATUSES, cur : Versions, deleted : BOOLEAN]
    BY <1>d, <1>u, StartType DEF ReplaceInputs
  <2> QED  BY <1>d, <2>1, <2>2, <2>3 DEF ReplaceInputs, TypeOK
<1>e. CASE DeleteInputs(design)
  <2>1. work' \in Contents  BY <1>e DEF DeleteInputs, TypeOK, Contents
  <2>2. frozen' \in SUBSET Versions /\ snapshot' \in [Versions -> Contents]
    BY <1>e, <1>t, FreezeType DEF DeleteInputs, TypeOK
  <2>3. nver' \in Versions /\ design' \in [status : DESIGN_STATUSES, cur : Versions, deleted : BOOLEAN]
    BY <1>e, <1>t, StartType DEF DeleteInputs
  <2> QED  BY <1>e, <2>1, <2>2, <2>3 DEF DeleteInputs, TypeOK
<1>f. CASE SaveVersion(design)
  <2>2. frozen' \in SUBSET Versions /\ snapshot' \in [Versions -> Contents]
    BY <1>f, <1>t, FreezeType DEF SaveVersion, TypeOK
  <2>3. nver' \in Versions /\ design' \in [status : DESIGN_STATUSES, cur : Versions, deleted : BOOLEAN]
    BY <1>f, <1>t, StartType DEF SaveVersion
  <2> QED  BY <1>f, <2>2, <2>3 DEF SaveVersion, TypeOK
<1>g. ASSUME NEW v \in Versions, Restore(design, v) PROVE TypeOK'
  <2>1. work' \in Contents  BY <1>g DEF Restore, TypeOK
  <2>2. frozen' \in SUBSET Versions /\ snapshot' \in [Versions -> Contents]
    BY <1>g, <1>t, FreezeType DEF Restore, TypeOK
  <2>3. (IF design.status = "DRAFT" THEN design.status ELSE Assigned(design, "MODIFIED")) \in DESIGN_STATUSES
    BY <1>t, StatusType DEF Assigned
  <2>4. nver' \in Versions /\ design' \in [status : DESIGN_STATUSES, cur : Versions, deleted : BOOLEAN]
    BY <1>g, <2>3, StartType DEF Restore
  <2> QED  BY <1>g, <2>1, <2>2, <2>4 DEF Restore, TypeOK
<1>h. CASE DeleteDesign(design)
  BY <1>h DEF DeleteDesign, TypeOK
<1>i. CASE QueueGenerate(design)
  <2>1. work' \in Contents  BY <1>i DEF QueueGenerate, TypeOK, Contents
  <2> QED  BY <1>i, <2>1 DEF QueueGenerate, TypeOK
<1>j. ASSUME NEW c \in Contents, Replace(c)
      PROVE  /\ nver' \in Versions /\ design' \in [status : DESIGN_STATUSES, cur : Versions, deleted : BOOLEAN]
             /\ frozen' \in SUBSET Versions /\ snapshot' \in [Versions -> Contents]
             /\ work' \in Contents
  <2>1. work' \in Contents  BY <1>j, RedrawnType, BlankType DEF Replace
  <2>2. frozen' \in SUBSET Versions /\ snapshot' \in [Versions -> Contents]
    BY <1>j, <1>t, FreezeType DEF Replace
  <2>3. nver' \in Versions /\ design' \in [status : DESIGN_STATUSES, cur : Versions, deleted : BOOLEAN]
    BY <1>j, StatusType, StartType DEF Replace
  <2> QED  BY <2>1, <2>2, <2>3
<1>k. CASE ImportRun(design)
  <2>1. PICK p \in Plans : Replace([work EXCEPT !.plan = p])  BY <1>k DEF ImportRun
  <2>2. [work EXCEPT !.plan = p] \in Contents  BY DEF TypeOK, Contents
  <2> QED  BY <1>j, <1>k, <2>1, <2>2 DEF ImportRun, TypeOK
<1>l. CASE ApplyOutput
  BY <1>j, <1>l DEF ApplyOutput, TypeOK
<1>m. CASE RunFails
  BY <1>m DEF RunFails, TypeOK
<1>n. ASSUME NEW u \in Users, SubmitDesign(design, u) PROVE TypeOK'
  <2>1. work' \in Contents  BY <1>n, InStateType DEF SubmitDesign, TypeOK, RowStates, LIFECYCLE_STATES
  <2>2. frozen' \in SUBSET Versions /\ snapshot' \in [Versions -> Contents]
    BY <1>n, <1>t, FreezeType DEF SubmitDesign, TypeOK
  <2>3. nreq' \in 0..MaxRequests /\ req' \in [1..nreq' -> RequestRows]
    BY <1>n, <1>t, CreateType DEF SubmitDesign, SubjectTypes
  <2> QED  BY <1>n, <2>1, <2>2, <2>3, StatusType DEF SubmitDesign, TypeOK
<1>o. ASSUME NEW u \in Users, SubmitBoq(design, u) PROVE TypeOK'
  <2>3. nreq' \in 0..MaxRequests /\ req' \in [1..nreq' -> RequestRows]
    BY <1>o, <1>t, CreateType DEF SubmitBoq, SubjectTypes
  <2> QED  BY <1>o, <2>3 DEF SubmitBoq, TypeOK
<1>st. /\ {"PENDING", "APPROVED", "REJECTED", "CANCELLED"} \subseteq StepStatuses
       /\ \A r \in 1..nreq : req[r] \in RequestRows /\ req[r].step1 \in StepStatuses /\ req[r].step2 \in StepStatuses
  BY DEF TypeOK, RequestRows, StepStatuses
<1>p. ASSUME NEW u \in Users, NEW r \in 1..nreq, ApproveStep1(u, r) PROVE TypeOK'
  <2>1. req' \in [1..nreq -> RequestRows]
    BY <1>p, <1>st, MarkedFacts DEF ApproveStep1, TypeOK
  <2> QED  BY <1>p, <2>1 DEF ApproveStep1, TypeOK
<1>q. ASSUME NEW u \in Users, NEW r \in 1..nreq, ApproveStep2(u, r) PROVE TypeOK'
  <2>1. req' \in [1..nreq -> RequestRows]
    BY <1>q, <1>st, MarkedFacts DEF ApproveStep2, TypeOK
  <2>2. InState(work, "APPROVED") \in Contents
    BY InStateType DEF TypeOK, RowStates, LIFECYCLE_STATES
  <2>3. work' \in Contents /\ design' \in [status : DESIGN_STATUSES, cur : Versions, deleted : BOOLEAN]
    BY <1>q, <2>2, StatusType DEF ApproveStep2, TypeOK
  <2> QED  BY <1>q, <2>1, <2>3 DEF ApproveStep2, TypeOK
<1>r. ASSUME NEW st \in DESIGN_STATUSES, BackToRevision(st)
      PROVE  /\ nver' \in Versions /\ design' \in [status : DESIGN_STATUSES, cur : Versions, deleted : BOOLEAN]
             /\ work' \in Contents
  BY <1>r, StartType, InStateType, RowStatesType DEF BackToRevision, TypeOK
<1>s. ASSUME NEW u \in Users, NEW r \in 1..nreq, Reject(u, r) PROVE TypeOK'
  <2>1. RejectedRow(req[r]) \in RequestRows
    BY <1>st, MarkedFacts DEF RejectedRow, TypeOK
  <2>2. req' \in [1..nreq -> RequestRows]
    BY <1>s, <2>1 DEF Reject, TypeOK
  <2>3. CASE req[r].type = "DESIGN_VERSION"
    BY <1>s, <1>r, <2>2, <2>3, StatusType DEF Reject, TypeOK
  <2>4. CASE req[r].type # "DESIGN_VERSION"
    BY <1>s, <2>2, <2>4 DEF Reject, TypeOK
  <2> QED  BY <2>3, <2>4
<1>v. ASSUME NEW u \in Users, NEW r \in 1..nreq, Withdraw(u, r) PROVE TypeOK'
  <2>1. req' \in [1..nreq -> RequestRows]
    BY <1>v, <1>st, MarkedFacts DEF Withdraw, Cancelled, TypeOK
  <2>3. CASE req[r].type = "DESIGN_VERSION"
    BY <1>v, <1>r, <2>1, <2>3, StatusType DEF Withdraw, TypeOK
  <2>4. CASE req[r].type # "DESIGN_VERSION"
    BY <1>v, <2>1, <2>4 DEF Withdraw, TypeOK
  <2> QED  BY <2>3, <2>4
<1>w. CASE Reopen(design)
  BY <1>w, <1>r, StatusType DEF Reopen, TypeOK
<1>x. CASE Deploy(design)
  <2>1. work' \in Contents
    BY <1>x DEF Deploy, TypeOK, Contents, RowStates, LIFECYCLE_STATES
  <2>2. ndep' \in 0..MaxDeployments /\ dep' \in [1..ndep' -> DeploymentRows]
    BY <1>x, <1>t, BoundAssumption DEF Deploy, TypeOK, DeploymentRows
  <2> QED  BY <1>x, <2>1, <2>2 DEF Deploy, TypeOK
<1>y. ASSUME NEW items \in SUBSET Items, NEW action \in FIELD_ACTIONS, Advance(design, items, action) PROVE TypeOK'
  <2>1. work' \in Contents
    BY <1>y, AdvancedType DEF Advance, TypeOK, Contents
  <2> QED  BY <1>y, <2>1 DEF Advance, TypeOK
<1>z. ASSUME NEW i \in Items, CaptureAsBuilt(design, i) PROVE TypeOK'
  <2>1. work' \in Contents  BY <1>z DEF CaptureAsBuilt, TypeOK, Contents
  <2> QED  BY <1>z, <2>1 DEF CaptureAsBuilt, TypeOK
<1>A. CASE Promote(design)
  <2>1. nver' \in Versions /\ design' \in [status : DESIGN_STATUSES, cur : Versions, deleted : BOOLEAN]
    BY <1>A, StatusType, StartType DEF Promote
  <2>2. nver + 1 \in Versions
    BY <2>1, <1>A DEF Promote, Start
  <2>3. frozen' \in SUBSET Versions /\ snapshot' \in [Versions -> Contents]
    BY <1>A, <2>2, FreezeType DEF Promote, TypeOK
  <2>4. work' \in Contents
    BY <1>A, <1>t, BlankType DEF Promote
  <2>5. dep' \in [1..ndep -> DeploymentRows]
    BY <1>A DEF Promote, TypeOK, DeploymentRows
  <2> QED  BY <1>A, <2>1, <2>3, <2>4, <2>5 DEF Promote, TypeOK
<1>B. CASE UNCHANGED vars
  BY <1>B DEF vars, TypeOK
<1> QED
  BY <1>a, <1>b, <1>c, <1>d, <1>e, <1>f, <1>g, <1>h, <1>i, <1>k, <1>l, <1>m, <1>n, <1>o, <1>p, <1>q,
     <1>s, <1>v, <1>w, <1>x, <1>y, <1>z, <1>A, <1>B
  DEF Next, Edit, Submit, Decide, Build, Worker

(* Every handler keeps every table well formed. *)
THEOREM TypeCorrect == Spec => []TypeOK
BY TypeInit, TypeStep, PTL DEF Spec
---------------------------------------------------------------------------
(* Safety.  IInv is inductive; most handlers are one of two kinds of step,
   an edit inside the current version or the start of a new one. *)

LEMMA DrawnFacts ==
  /\ \A c \in Contents : (\A i \in Present(c) : c.rows[i] = "DESIGNED") <=> Drawn(c)
  /\ \A p \in Plans : Drawn(Blank(p))
  /\ \A items : \A c \in Contents, p \in Plans : Drawn(c) => Drawn(Redrawn(c, items, p))
  /\ \A c \in Contents, p \in Plans : Drawn(c) => Drawn([c EXCEPT !.plan = p])
  /\ \A c \in Contents : Drawn(InState(c, "DESIGNED"))
BY DEF Drawn, Present, Contents, Blank, Redrawn, InState

LEMMA EditableFacts ==
  ASSUME IInv, Editable(design)
  PROVE  /\ Drawn(work)
         /\ design.cur = nver /\ nver \notin frozen
         /\ \A v \in frozen : v <= nver /\ Drawn(snapshot[v])
         /\ OpenReviews = {} /\ ~ BeingDeployed
         /\ design.status \in {"DRAFT", "GENERATED", "MODIFIED", "REJECTED"}
<1>1. design.status \in {"DRAFT", "GENERATED", "MODIFIED", "REJECTED"}
  BY DEF IInv, TypeOK, VersionsAndRequestsAgree, Editable, LOCKED_STATUSES, DESIGN_STATUSES
<1>2. Drawn(work)
  BY DrawnFacts DEF IInv, TypeOK, RowsFollowStatus, RowsIn
<1>3. OpenReviews = {} /\ ~ BeingDeployed
  BY <1>1 DEF IInv, OneOpenReview, DeploymentGated
<1>4. \A v \in frozen : v <= nver /\ Drawn(snapshot[v])
  BY <1>1 DEF IInv, VersionsAndRequestsAgree
<1> QED  BY <1>1, <1>2, <1>3, <1>4 DEF IInv, VersionsAndRequestsAgree, EditableIsUnfrozen

(* A handler that changes the working set or the status of the current version. *)
LEMMA EditStep ==
  ASSUME IInv, TypeOK', Editable(design),
         design'.status \in {"DRAFT", "GENERATED", "MODIFIED", "REJECTED"}, design'.cur = design.cur,
         Drawn(work'), UNCHANGED <<nver, frozen, snapshot, nreq, req, ndep, dep>>
  PROVE  IInv'
<1>1. EditableIsUnfrozen' /\ ReviewedIsWhatWasFrozen'
  BY EditableFacts DEF EditableIsUnfrozen, ReviewedIsWhatWasFrozen
<1>2. ~ BeingDeployed'
  BY EditableFacts DEF BeingDeployed
<1>3. RowsFollowStatus'
  <2>1. \A i \in Present(work') : work'.rows[i] = "DESIGNED"
    BY DEF Drawn, Present
  <2> QED  BY <1>2, <2>1 DEF RowsFollowStatus, RowsIn
<1>4. OneOpenReview'
  BY EditableFacts DEF IInv, OneOpenReview, OpenReviews
<1>5. EachVersionReviewedOnce' /\ RequestsDescribeTheirVersion'
  BY DEF IInv, EachVersionReviewedOnce, RequestsDescribeTheirVersion
<1>6. DeploymentGated'
  BY <1>2 DEF DeploymentGated
<1>7. VersionsAndRequestsAgree'
  <2>1. \A r \in 1..nreq : ~ (req[r].type = "BOQ" /\ req[r].ver = nver)
    BY EditableFacts DEF IInv, VersionsAndRequestsAgree
  <2> QED  BY <2>1, EditableFacts DEF VersionsAndRequestsAgree
<1> QED  BY <1>1, <1>3, <1>4, <1>5, <1>6, <1>7 DEF IInv

(* A handler that starts a new version to go on editing in: the frozen versions
   stay, the one left behind may be added to them, and no review is left open. *)
LEMMA NewVersionStep ==
  ASSUME IInv, TypeOK', NEW st \in {"DRAFT", "GENERATED", "MODIFIED", "REJECTED"}, Start(st),
         Drawn(work'), ~ BeingDeployed, UNCHANGED <<ndep, dep>>,
         frozen \subseteq frozen', frozen' \subseteq frozen \cup {design.cur},
         \A v \in frozen : snapshot'[v] = snapshot[v],
         \A v \in frozen' : Drawn(snapshot'[v]),
         nreq' = nreq,
         \A r \in 1..nreq : /\ req'[r].type = req[r].type /\ req'[r].ver = req[r].ver
                            /\ req'[r].payload = req[r].payload
                            /\ req'[r].status = "PENDING" => req'[r] = req[r] /\ req[r].type # "DESIGN_VERSION"
  PROVE  IInv'
<1>0. /\ nver \in Nat /\ design.cur = nver /\ design'.cur = nver + 1 /\ nver' = nver + 1
      /\ design'.status = st
      /\ \A v \in frozen' : v \in Nat /\ v <= nver
  BY BoundAssumption DEF IInv, TypeOK, Versions, VersionsAndRequestsAgree, Start
<1>1. EditableIsUnfrozen' /\ ReviewedIsWhatWasFrozen'
  BY <1>0 DEF EditableIsUnfrozen, ReviewedIsWhatWasFrozen
<1>2. ~ BeingDeployed'
  BY DEF BeingDeployed
<1>3. RowsFollowStatus'
  <2>1. \A i \in Present(work') : work'.rows[i] = "DESIGNED"
    BY DEF Drawn, Present
  <2> QED  BY <1>0, <1>2, <2>1 DEF RowsFollowStatus, RowsIn
<1>4. OneOpenReview'
  BY <1>0 DEF IInv, OneOpenReview, OpenReviews
<1>5. EachVersionReviewedOnce'
  BY DEF IInv, EachVersionReviewedOnce
<1>6. RequestsDescribeTheirVersion'
  BY DEF IInv, RequestsDescribeTheirVersion
<1>7. DeploymentGated'
  BY <1>2 DEF DeploymentGated
<1>8. VersionsAndRequestsAgree'
  <2>1. \A r \in 1..nreq : req[r].ver \in frozen
    BY DEF IInv, RequestsDescribeTheirVersion
  <2>2. \A r \in 1..nreq : req'[r].ver # nver + 1
    BY <1>0, <2>1
  <2> QED  BY <1>0, <2>2 DEF VersionsAndRequestsAgree
<1> QED  BY <1>1, <1>3, <1>4, <1>5, <1>6, <1>7, <1>8 DEF IInv

(* Freezing what is being edited and starting the next version from it. *)
LEMMA CheckpointStep ==
  ASSUME IInv, TypeOK', Editable(design), NEW c \in Contents, Drawn(c), Freeze(design.cur, c),
         NEW st \in {"DRAFT", "GENERATED", "MODIFIED", "REJECTED"}, Start(st),
         Drawn(work'), UNCHANGED <<nreq, req, ndep, dep>>
  PROVE  IInv'
<1>1. /\ frozen \subseteq frozen' /\ frozen' \subseteq frozen \cup {design.cur}
      /\ \A v \in frozen : snapshot'[v] = snapshot[v]
      /\ \A v \in frozen' : Drawn(snapshot'[v])
  BY EditableFacts DEF Freeze, IInv, TypeOK
<1>2. \A r \in 1..nreq : req[r].status = "PENDING" => req[r].type # "DESIGN_VERSION"
  BY EditableFacts DEF OpenReviews
<1> QED  BY <1>1, <1>2, EditableFacts, NewVersionStep

LEMMA EditingKeepsIInv ==
  ASSUME IInv, TypeOK', Edit(design) \/ ApplyOutput PROVE IInv'
<1>t. TypeOK /\ work \in Contents /\ work.plan \in Plans
  BY DEF IInv, TypeOK, Contents
<1>e. ASSUME Editable(design)
      PROVE  /\ Touched(design) \in {"DRAFT", "GENERATED", "MODIFIED", "REJECTED"}
             /\ \A p \in Plans : [work EXCEPT !.plan = p] \in Contents /\ Drawn([work EXCEPT !.plan = p])
  <2>1. \A p \in Plans : [work EXCEPT !.plan = p] \in Contents
    BY <1>t DEF Contents
  <2> QED  BY <1>e, <1>t, <2>1, EditableFacts, DrawnFacts DEF Touched
<1>a. CASE UpdateDesign(design)
  <2>1. Editable(design) /\ Drawn(work')
    BY <1>a, <1>e DEF UpdateDesign
  <2>2. design'.cur = design.cur /\ design'.status \in {"DRAFT", "GENERATED", "MODIFIED", "REJECTED"}
    BY <1>a, <1>t, <2>1, EditableFacts DEF UpdateDesign, EDITABLE_STATUSES, Assigned, TypeOK
  <2> QED  BY <1>a, <2>1, <2>2, EditStep DEF UpdateDesign
<1>b. CASE EditRows(design)
  <2>1. Editable(design)
    BY <1>b DEF EditRows
  <2>2. Drawn(work')
    BY <1>b, <1>t, <2>1, EditableFacts, DrawnFacts DEF EditRows
  <2>3. design'.cur = design.cur /\ design'.status \in {"DRAFT", "GENERATED", "MODIFIED", "REJECTED"}
    BY <1>b, <1>t, <2>1, <1>e DEF EditRows, TypeOK
  <2> QED  BY <1>b, <2>1, <2>2, <2>3, EditStep DEF EditRows
<1>c. CASE AddInputs(design)
  <2>1. Editable(design) /\ Drawn(work')
    BY <1>c, <1>e DEF AddInputs
  <2>2. design'.cur = design.cur /\ design'.status \in {"DRAFT", "GENERATED", "MODIFIED", "REJECTED"}
    BY <1>c, <1>t, <2>1, <1>e DEF AddInputs, TypeOK
  <2> QED  BY <1>c, <2>1, <2>2, EditStep DEF AddInputs
<1>d. CASE ReplaceInputs(design)
  <2>1. Editable(design) /\ Drawn(work') /\ Drawn(work)
    BY <1>d, <1>e, EditableFacts DEF ReplaceInputs
  <2> QED  BY <1>d, <1>t, <2>1, <1>e, CheckpointStep DEF ReplaceInputs
<1>f. CASE DeleteInputs(design)
  <2>1. Editable(design) /\ Drawn(work') /\ Drawn(work)
    BY <1>f, <1>e, EditableFacts DEF DeleteInputs
  <2> QED  BY <1>f, <1>t, <2>1, EditableFacts, CheckpointStep DEF DeleteInputs
<1>g. CASE SaveVersion(design)
  <2>1. Editable(design) /\ Drawn(work)
    BY <1>g, EditableFacts DEF SaveVersion
  <2>2. Drawn(work')
    BY <1>g, <2>1 DEF SaveVersion
  <2> QED  BY <1>g, <1>t, <2>1, <2>2, EditableFacts, CheckpointStep DEF SaveVersion
<1>h. ASSUME NEW v \in Versions, Restore(design, v) PROVE IInv'
  <2>1. Editable(design) /\ Drawn(work) /\ Drawn(work')
    BY <1>h, EditableFacts DEF Restore
  <2>2. (IF design.status = "DRAFT" THEN design.status ELSE Assigned(design, "MODIFIED"))
          \in {"DRAFT", "GENERATED", "MODIFIED", "REJECTED"}
    BY <2>1, EditableFacts DEF Assigned
  <2> QED  BY <1>h, <1>t, <2>1, <2>2, CheckpointStep DEF Restore
<1>i. CASE DeleteDesign(design)
  <2>1. /\ design'.status = design.status /\ design'.cur = design.cur /\ ~ BeingDeployed
        /\ UNCHANGED <<work, nver, frozen, snapshot, nreq, req, ndep, dep>>
    BY <1>i, <1>t DEF DeleteDesign, TypeOK, IInv, DeploymentGated
  <2>2. BeingDeployed' = BeingDeployed /\ OpenReviews' = OpenReviews
    BY <2>1 DEF BeingDeployed, OpenReviews
  <2>3. EditableIsUnfrozen' /\ ReviewedIsWhatWasFrozen' /\ RowsFollowStatus'
    BY <2>1, <2>2 DEF IInv, EditableIsUnfrozen, Editable, ReviewedIsWhatWasFrozen, RowsFollowStatus, RowsIn
  <2>4. OneOpenReview' /\ EachVersionReviewedOnce' /\ RequestsDescribeTheirVersion'
    BY <2>1, <2>2 DEF IInv, OneOpenReview, EachVersionReviewedOnce, RequestsDescribeTheirVersion
  <2>5. DeploymentGated' /\ VersionsAndRequestsAgree'
    BY <2>1, <2>2 DEF IInv, DeploymentGated, VersionsAndRequestsAgree
  <2> QED  BY <2>3, <2>4, <2>5 DEF IInv
<1>j. CASE QueueGenerate(design)
  <2>1. Editable(design) /\ Drawn(work')
    BY <1>j, <1>e DEF QueueGenerate
  <2>2. design'.cur = design.cur /\ design'.status \in {"DRAFT", "GENERATED", "MODIFIED", "REJECTED"}
    BY <1>j, <2>1, EditableFacts DEF QueueGenerate
  <2> QED  BY <1>j, <2>1, <2>2, EditStep DEF QueueGenerate
<1>r. ASSUME NEW c \in Contents, Drawn(c), Replace(c), Editable(design), UNCHANGED <<nreq, req, ndep, dep>>
      PROVE IInv'
  <2>1. Drawn(work')
    BY <1>r, BlankType, DrawnFacts DEF Replace
  <2> QED  BY <1>r, <2>1, CheckpointStep DEF Replace
<1>k. CASE ImportRun(design)
  <2>1. Editable(design) /\ UNCHANGED <<nreq, req, ndep, dep>>
    BY <1>k DEF ImportRun
  <2>2. PICK p \in Plans : Replace([work EXCEPT !.plan = p])
    BY <1>k DEF ImportRun
  <2> QED  BY <2>1, <2>2, <1>e, <1>r
<1>l. CASE ApplyOutput
  <2>1. Editable(design) /\ Drawn(work)
    BY <1>l, EditableFacts DEF ApplyOutput
  <2> QED  BY <1>l, <1>t, <2>1, <1>r DEF ApplyOutput
<1> QED
  BY <1>a, <1>b, <1>c, <1>d, <1>f, <1>g, <1>h, <1>i, <1>j, <1>k, <1>l DEF Edit

---------------------------------------------------------------------------
(* Review *)

LEMMA SubmittableFacts ==
  ASSUME IInv, design.status \in SUBMITTABLE PROVE Editable(design)
BY DEF SUBMITTABLE, Editable, LOCKED_STATUSES

(* A request that is the newest of its kind stays so while an open one changes. *)
LEMMA LatestKept ==
  ASSUME TypeOK, NEW r \in 1..nreq, NEW x, req' = [req EXCEPT ![r] = x], nreq' = nreq,
         x.type = req[r].type, x.ver = req[r].ver, req[r].status = "PENDING",
         NEW type, NEW v, LatestIs(type, v, "APPROVED"), v' = v, type' = type
  PROVE  LatestIs(type, v, "APPROVED")'
<1>1. \A q \in 1..nreq : /\ req'[q].type = req[q].type /\ req'[q].ver = req[q].ver
                         /\ q # r => req'[q] = req[q]
  BY DEF TypeOK
<1>2. PICK q \in 1..nreq : /\ req[q].type = type /\ req[q].ver = v /\ req[q].status = "APPROVED"
                           /\ \A s \in (q+1)..nreq : ~ (req[s].type = type /\ req[s].ver = v)
  BY DEF LatestIs
<1>3. \A s \in (q+1)..nreq : s \in 1..nreq
  BY DEF TypeOK
<1> QED  BY <1>1, <1>2, <1>3 DEF LatestIs

LEMMA SubmitDesignKeepsIInv ==
  ASSUME IInv, TypeOK', NEW u \in Users, SubmitDesign(design, u) PROVE IInv'
<1>e. Editable(design)
  BY SubmittableFacts DEF SubmitDesign
<1>f. /\ Drawn(work) /\ design.cur = nver /\ nver \notin frozen /\ OpenReviews = {} /\ ~ BeingDeployed
      /\ \A v \in frozen : v <= nver /\ Drawn(snapshot[v])
  BY <1>e, EditableFacts
<1>t. TypeOK /\ nver \in Versions /\ nver \in Nat /\ nreq \in Nat /\ work \in Contents
  BY BoundAssumption DEF IInv, TypeOK, Versions
<1>d. /\ design'.status = "UNDER_REVIEW" /\ design'.cur = nver /\ nver' = nver
      /\ frozen' = frozen \cup {nver}
      /\ snapshot' = [snapshot EXCEPT ![nver] = work]
      /\ work' = InState(work, "UNDER_REVIEW")
      /\ BeingDeployed' = BeingDeployed
  BY <1>f, <1>t DEF SubmitDesign, Freeze, TypeOK, BeingDeployed
<1>s. /\ snapshot'[nver] = work /\ \A v \in frozen : snapshot'[v] = snapshot[v]
  BY <1>d, <1>f, <1>t DEF TypeOK
<1>w. /\ Present(work') = Present(work) /\ work'.plan = work.plan
      /\ \A i \in Present(work') : work'.rows[i] = "UNDER_REVIEW"
  BY <1>d, <1>t DEF InState, Contents, Present
<1>r. /\ nreq' = nreq + 1
      /\ \A r \in 1..nreq' : r # nreq + 1 => r \in 1..nreq /\ req'[r] = req[r]
      /\ nreq + 1 \in 1..nreq'
      /\ req'[nreq+1] = [type |-> "DESIGN_VERSION", ver |-> nver, by |-> u, payload |-> Drawing(work),
                          status |-> "PENDING", step1 |-> "PENDING", step2 |-> "WAITING"]
  BY <1>f, <1>t DEF SubmitDesign, Create
<1>o. \A r \in 1..nreq : req[r].ver \in frozen
  BY DEF IInv, RequestsDescribeTheirVersion
<1>1. EditableIsUnfrozen'
  BY <1>d DEF EditableIsUnfrozen, Editable, LOCKED_STATUSES
<1>2. ReviewedIsWhatWasFrozen'
  BY <1>d, <1>s, <1>w DEF ReviewedIsWhatWasFrozen
<1>3. RowsFollowStatus'
  BY <1>d, <1>f, <1>w DEF RowsFollowStatus, RowsIn, Editable, LOCKED_STATUSES
<1>4. OneOpenReview'
  <2>1. OpenReviews' = {nreq + 1}
    BY <1>f, <1>r DEF OpenReviews
  <2>2. \A r \in 1..nreq : req[r].status = "PENDING" =>
          <<req[r].step1, req[r].step2>> \in {<<"PENDING", "WAITING">>, <<"APPROVED", "PENDING">>}
    BY DEF IInv, OneOpenReview
  <2> QED  BY <1>d, <1>r, <2>1, <2>2 DEF OneOpenReview
<1>5. EachVersionReviewedOnce'
  BY <1>r, <1>o, <1>f DEF IInv, EachVersionReviewedOnce
<1>6. RequestsDescribeTheirVersion'
  <2>1. \A r \in 1..nreq : RequestsDescribeTheirVersion => /\ req[r].ver \in frozen
            /\ req[r].payload = Drawing(snapshot[req[r].ver])
            /\ Present(snapshot[req[r].ver]) \cap Devices # {}
            /\ snapshot[req[r].ver].plan \notin Flawed
    BY DEF RequestsDescribeTheirVersion
  <2>2. Present(work) \cap Devices # {} /\ work.plan \notin Flawed
    BY DEF SubmitDesign
  <2> QED  BY <1>r, <1>o, <1>s, <1>d, <2>1, <2>2 DEF IInv, RequestsDescribeTheirVersion
<1>7. DeploymentGated'
  BY <1>d, <1>f DEF DeploymentGated
<1>8. VersionsAndRequestsAgree'
  BY <1>d, <1>f, <1>s, <1>r, <1>o, <1>t DEF VersionsAndRequestsAgree
<1> QED  BY <1>1, <1>2, <1>3, <1>4, <1>5, <1>6, <1>7, <1>8 DEF IInv

(* The gate is open only for an approved version that is still current. *)
LEMMA GateFacts ==
  ASSUME IInv, DesignApproved(design)
  PROVE  /\ design.status = "APPROVED" /\ design.cur = nver /\ OpenReviews = {}
         /\ nver \in frozen /\ Present(work) = Present(snapshot[nver])
         /\ ~ BeingDeployed => work.plan = snapshot[nver].plan
         /\ Present(snapshot[nver]) \cap Devices # {} /\ snapshot[nver].plan \notin Flawed
<1>1. PICK r \in 1..nreq : req[r].ver = design.cur
  BY DEF DesignApproved, LatestIs
<1>2. design.status = "APPROVED" /\ design.cur = nver
  BY <1>1 DEF DesignApproved, IInv, VersionsAndRequestsAgree
<1> QED  BY <1>1, <1>2 DEF IInv, ReviewedIsWhatWasFrozen, RequestsDescribeTheirVersion, OneOpenReview

LEMMA SubmitBoqKeepsIInv ==
  ASSUME IInv, TypeOK', NEW u \in Users, SubmitBoq(design, u) PROVE IInv'
<1>g. /\ design.status = "APPROVED" /\ design.cur = nver /\ OpenReviews = {}
      /\ nver \in frozen /\ Present(work) = Present(snapshot[nver])
      /\ Present(snapshot[nver]) \cap Devices # {} /\ snapshot[nver].plan \notin Flawed
  BY GateFacts DEF SubmitBoq
<1>n. ~ BeingDeployed /\ work.plan = snapshot[nver].plan
  BY <1>g, GateFacts DEF SubmitBoq, IInv, DeploymentGated, BoqApproved
<1>u. /\ UNCHANGED <<design, work, nver, frozen, snapshot, ndep, dep, run>>
      /\ BeingDeployed' = BeingDeployed /\ nreq \in Nat
  BY DEF SubmitBoq, BeingDeployed, IInv, TypeOK
<1>r. /\ nreq' = nreq + 1
      /\ \A r \in 1..nreq' : r # nreq + 1 => r \in 1..nreq /\ req'[r] = req[r]
      /\ nreq + 1 \in 1..nreq'
      /\ req'[nreq+1] = [type |-> "BOQ", ver |-> nver, by |-> u, payload |-> Drawing(work),
                          status |-> "PENDING", step1 |-> "PENDING", step2 |-> "WAITING"]
  BY <1>g, <1>u DEF SubmitBoq, Create
<1>1. EditableIsUnfrozen' /\ ReviewedIsWhatWasFrozen' /\ RowsFollowStatus'
  BY <1>u DEF IInv, EditableIsUnfrozen, Editable, ReviewedIsWhatWasFrozen, RowsFollowStatus, RowsIn
<1>4. OneOpenReview'
  <2>1. OpenReviews' = {}
    BY <1>g, <1>r DEF OpenReviews
  <2> QED  BY <1>g, <1>r, <1>u, <2>1 DEF IInv, OneOpenReview
<1>5. EachVersionReviewedOnce'
  BY <1>r DEF IInv, EachVersionReviewedOnce
<1>6. RequestsDescribeTheirVersion'
  <2>1. Drawing(work) = Drawing(snapshot[nver])
    BY <1>g, <1>n DEF Drawing
  <2> QED  BY <1>r, <1>u, <1>g, <2>1 DEF IInv, RequestsDescribeTheirVersion
<1>7. DeploymentGated'
  BY <1>u, <1>n DEF DeploymentGated
<1>8. VersionsAndRequestsAgree'
  BY <1>u, <1>r, <1>g DEF IInv, VersionsAndRequestsAgree
<1> QED  BY <1>1, <1>4, <1>5, <1>6, <1>7, <1>8 DEF IInv

(* A decision that leaves the design alone: step 1 of any review, or the end of
   the review of a BOQ. *)
LEMMA RequestRowStep ==
  ASSUME IInv, TypeOK', NEW r \in 1..nreq, NEW x, req' = [req EXCEPT ![r] = x],
         req[r].status = "PENDING",
         x.type = req[r].type, x.ver = req[r].ver, x.payload = req[r].payload,
         x.status = "PENDING" => <<x.step1, x.step2>> = <<"APPROVED", "PENDING">>,
         x.status # "PENDING" => req[r].type # "DESIGN_VERSION",
         UNCHANGED <<design, work, nver, frozen, snapshot, nreq, ndep, dep>>
  PROVE  IInv'
<1>1. /\ \A q \in 1..nreq : /\ req'[q].type = req[q].type /\ req'[q].ver = req[q].ver
                            /\ req'[q].payload = req[q].payload
                            /\ q # r => req'[q] = req[q]
      /\ req'[r] = x /\ TypeOK
  BY DEF IInv, TypeOK
<1>2. BeingDeployed' = BeingDeployed /\ OpenReviews' = OpenReviews
  BY <1>1 DEF BeingDeployed, OpenReviews
<1>3. EditableIsUnfrozen' /\ ReviewedIsWhatWasFrozen' /\ RowsFollowStatus'
  BY <1>2 DEF IInv, EditableIsUnfrozen, Editable, ReviewedIsWhatWasFrozen, RowsFollowStatus, RowsIn
<1>4. OneOpenReview'
  BY <1>1, <1>2 DEF IInv, OneOpenReview
<1>5. EachVersionReviewedOnce' /\ RequestsDescribeTheirVersion' /\ VersionsAndRequestsAgree'
  BY <1>1 DEF IInv, EachVersionReviewedOnce, RequestsDescribeTheirVersion, VersionsAndRequestsAgree
<1>6. DeploymentGated'
  <2> SUFFICES ASSUME BeingDeployed PROVE DeploymentGated'
    BY <1>2 DEF DeploymentGated
  <2>1. DesignApproved(design) /\ BoqApproved(design)
    BY DEF IInv, DeploymentGated
  <2>2. LatestIs("DESIGN_VERSION", design.cur, "APPROVED")' /\ LatestIs("BOQ", design.cur, "APPROVED")'
    BY <1>1, <2>1, LatestKept DEF DesignApproved, BoqApproved
  <2> QED  BY <2>1, <2>2 DEF IInv, DeploymentGated, DesignApproved, BoqApproved, BeingDeployed
<1> QED  BY <1>3, <1>4, <1>5, <1>6 DEF IInv

(* The design goes back to revision, in a new version, with no review open. *)
LEMMA RevisionStep ==
  ASSUME IInv, TypeOK', NEW st \in {"MODIFIED", "REJECTED"}, BackToRevision(st),
         ~ BeingDeployed, design.status \in {"UNDER_REVIEW", "APPROVED"},
         UNCHANGED <<frozen, snapshot, nreq, ndep, dep>>,
         \A r \in 1..nreq : /\ req'[r].type = req[r].type /\ req'[r].ver = req[r].ver
                            /\ req'[r].payload = req[r].payload
                            /\ req'[r].status = "PENDING" => req'[r] = req[r] /\ req[r].type # "DESIGN_VERSION"
  PROVE  IInv'
<1>1. Drawn(work')
  BY DrawnFacts DEF BackToRevision, IInv, TypeOK
<1>2. \A v \in frozen : Drawn(snapshot[v])
  BY DEF IInv, VersionsAndRequestsAgree
<1> QED  BY <1>1, <1>2, NewVersionStep DEF BackToRevision

LEMMA DecidingKeepsIInv ==
  ASSUME IInv, TypeOK', Decide PROVE IInv'
<1>1. PICK u \in Users, r \in 1..nreq :
        ApproveStep1(u, r) \/ ApproveStep2(u, r) \/ Reject(u, r) \/ Withdraw(u, r)
  BY DEF Decide
<1>2. /\ TypeOK /\ req[r] \in RequestRows /\ req[r].type \in SubjectTypes /\ req[r].status = "PENDING"
      /\ <<req[r].step1, req[r].step2>> \in {<<"PENDING", "WAITING">>, <<"APPROVED", "PENDING">>}
  BY <1>1 DEF IInv, TypeOK, RequestRows, OneOpenReview, ApproveStep1, ApproveStep2, Reject, Withdraw, MayDecide
<1>3. ASSUME req[r].type = "DESIGN_VERSION"
      PROVE  /\ design.status = "UNDER_REVIEW" /\ req[r].ver = nver /\ design.cur = nver /\ ~ BeingDeployed
             /\ \A q \in 1..nreq : req[q].type = "DESIGN_VERSION" /\ req[q].status = "PENDING" => q = r
  BY <1>2, <1>3 DEF IInv, OneOpenReview, OpenReviews, DeploymentGated, VersionsAndRequestsAgree
(* Sending back a design version, in whichever row the decision leaves behind. *)
<1>4. ASSUME NEW x, req' = [req EXCEPT ![r] = x], NEW st \in {"MODIFIED", "REJECTED"}, BackToRevision(st),
             x.type = req[r].type, x.ver = req[r].ver, x.payload = req[r].payload, x.status # "PENDING",
             req[r].type = "DESIGN_VERSION", UNCHANGED <<frozen, snapshot, nreq, ndep, dep>>
      PROVE  IInv'
  <2>1. \A q \in 1..nreq : req'[q] = IF q = r THEN x ELSE req[q]
    BY <1>2, <1>4 DEF TypeOK
  <2> QED  BY <1>3, <1>4, <2>1, RevisionStep
<1>a. CASE ApproveStep1(u, r)
  <2> DEFINE x == Marked(req[r], "PENDING", "APPROVED", "PENDING")
  <2>1. /\ x.type = req[r].type /\ x.ver = req[r].ver /\ x.payload = req[r].payload
        /\ x.status = "PENDING" /\ x.step1 = "APPROVED" /\ x.step2 = "PENDING"
    BY <1>2, MarkedFacts
  <2>2. req' = [req EXCEPT ![r] = x]
    BY <1>a DEF ApproveStep1
  <2> HIDE DEF x
  <2> QED  BY <1>a, <1>2, <2>1, <2>2, RequestRowStep DEF ApproveStep1
<1>b. CASE ApproveStep2(u, r)
  <2> DEFINE x == Marked(req[r], "APPROVED", req[r].step1, "APPROVED")
  <2>1. /\ x.type = req[r].type /\ x.ver = req[r].ver /\ x.payload = req[r].payload
        /\ x.status = "APPROVED"
    BY <1>2, MarkedFacts
  <2>2. req' = [req EXCEPT ![r] = x]
    BY <1>b DEF ApproveStep2
  <2> HIDE DEF x
  <2>3. CASE req[r].type # "DESIGN_VERSION"
    BY <1>b, <1>2, <2>1, <2>2, <2>3, RequestRowStep DEF ApproveStep2
  <2>4. CASE req[r].type = "DESIGN_VERSION"
    <3>1. /\ \A q \in 1..nreq : /\ req'[q].type = req[q].type /\ req'[q].ver = req[q].ver
                                /\ req'[q].payload = req[q].payload
                                /\ q # r => req'[q] = req[q]
          /\ req'[r] = x
      BY <1>2, <2>1, <2>2 DEF TypeOK
    <3>2. /\ design'.status = "APPROVED" /\ design'.cur = nver /\ work' = InState(work, "APPROVED")
          /\ UNCHANGED <<nver, frozen, snapshot, nreq, ndep, dep, run>>
          /\ BeingDeployed' = BeingDeployed
      BY <1>b, <1>2, <1>3, <2>4 DEF ApproveStep2, TypeOK, BeingDeployed
    <3>3. /\ Present(work') = Present(work) /\ work'.plan = work.plan
          /\ \A i \in Present(work') : work'.rows[i] = "APPROVED"
      BY <1>2, <3>2 DEF InState, Contents, Present, TypeOK
    <3>4. OpenReviews' = {}
      BY <1>3, <2>1, <2>4, <3>1, <3>2 DEF OpenReviews
    <3>5. EditableIsUnfrozen' /\ RowsFollowStatus' /\ DeploymentGated'
      BY <1>3, <2>4, <3>2, <3>3
      DEF EditableIsUnfrozen, Editable, LOCKED_STATUSES, RowsFollowStatus, RowsIn, DeploymentGated
    <3>6. ReviewedIsWhatWasFrozen'
      BY <1>3, <2>4, <3>2, <3>3 DEF IInv, ReviewedIsWhatWasFrozen
    <3>7. OneOpenReview'
      BY <2>1, <3>1, <3>2, <3>4 DEF IInv, OneOpenReview
    <3>8. EachVersionReviewedOnce' /\ RequestsDescribeTheirVersion' /\ VersionsAndRequestsAgree'
      BY <1>3, <2>4, <3>1, <3>2 DEF IInv, EachVersionReviewedOnce, RequestsDescribeTheirVersion, VersionsAndRequestsAgree
    <3> QED  BY <3>5, <3>6, <3>7, <3>8 DEF IInv
  <2> QED  BY <2>3, <2>4
<1>c. CASE Reject(u, r)
  <2> DEFINE x == RejectedRow(req[r])
  <2>1. x.type = req[r].type /\ x.ver = req[r].ver /\ x.payload = req[r].payload /\ x.status = "REJECTED"
    BY <1>2, MarkedFacts DEF RejectedRow
  <2>2. req' = [req EXCEPT ![r] = x]
    BY <1>c DEF Reject
  <2> HIDE DEF x
  <2>3. CASE req[r].type # "DESIGN_VERSION"
    BY <1>c, <1>2, <2>1, <2>2, <2>3, RequestRowStep DEF Reject
  <2>4. CASE req[r].type = "DESIGN_VERSION"
    BY <1>c, <1>4, <2>1, <2>2, <2>4 DEF Reject
  <2> QED  BY <2>3, <2>4
<1>d. CASE Withdraw(u, r)
  <2> DEFINE x == Marked(req[r], "WITHDRAWN", Cancelled(req[r].step1), Cancelled(req[r].step2))
  <2>1. x.type = req[r].type /\ x.ver = req[r].ver /\ x.payload = req[r].payload /\ x.status = "WITHDRAWN"
    BY <1>2, MarkedFacts
  <2>2. req' = [req EXCEPT ![r] = x]
    BY <1>d DEF Withdraw
  <2> HIDE DEF x
  <2>3. CASE req[r].type # "DESIGN_VERSION"
    BY <1>d, <1>2, <2>1, <2>2, <2>3, RequestRowStep DEF Withdraw
  <2>4. CASE req[r].type = "DESIGN_VERSION"
    BY <1>d, <1>4, <2>1, <2>2, <2>4 DEF Withdraw
  <2> QED  BY <2>3, <2>4
<1> QED  BY <1>1, <1>a, <1>b, <1>c, <1>d

LEMMA ReopenKeepsIInv ==
  ASSUME IInv, TypeOK', Reopen(design) PROVE IInv'
<1>1. ~ BeingDeployed
  BY DEF Reopen, BeingDeployed, IInv, TypeOK
<1>2. \A r \in 1..nreq : req[r].status = "PENDING" => req[r].type # "DESIGN_VERSION"
  BY DEF Reopen, IInv, OneOpenReview, OpenReviews
<1> QED  BY <1>1, <1>2, RevisionStep DEF Reopen

---------------------------------------------------------------------------
(* Deployment *)

(* A field update: the rows stay, in the states a deployment may have them in. *)
LEMMA FieldStep ==
  ASSUME IInv, TypeOK', BeingDeployed, Present(work') = Present(work),
         \A i \in Present(work) : work'.rows[i] \in {"CONSTRUCTION", "INSTALLED", "TESTING", "VERIFIED"},
         UNCHANGED <<design, nver, frozen, snapshot, nreq, req, ndep, dep>>
  PROVE  IInv'
<1>1. BeingDeployed' /\ OpenReviews' = OpenReviews /\ design.status = "APPROVED"
  BY DEF BeingDeployed, OpenReviews, IInv, DeploymentGated
<1>2. EditableIsUnfrozen' /\ ReviewedIsWhatWasFrozen'
  BY <1>1 DEF IInv, EditableIsUnfrozen, Editable, ReviewedIsWhatWasFrozen
<1>3. RowsFollowStatus'
  BY <1>1 DEF RowsFollowStatus, RowsIn, Editable, LOCKED_STATUSES
<1>4. OneOpenReview' /\ EachVersionReviewedOnce' /\ RequestsDescribeTheirVersion'
  BY <1>1 DEF IInv, OneOpenReview, EachVersionReviewedOnce, RequestsDescribeTheirVersion
<1>5. DeploymentGated' /\ VersionsAndRequestsAgree'
  BY <1>1 DEF IInv, DeploymentGated, VersionsAndRequestsAgree, DesignApproved, BoqApproved, LatestIs
<1> QED  BY <1>2, <1>3, <1>4, <1>5 DEF IInv

LEMMA DeployKeepsIInv ==
  ASSUME IInv, TypeOK', Deploy(design) PROVE IInv'
<1>t. TypeOK /\ ndep \in Nat
  BY BoundAssumption DEF IInv, TypeOK
<1>g. /\ design.status = "APPROVED" /\ design.cur = nver /\ ~ BeingDeployed /\ OpenReviews = {}
      /\ nver \in frozen /\ Present(work) = Present(snapshot[nver])
      /\ DesignApproved(design) /\ BoqApproved(design) /\ ~ design.deleted
  BY GateFacts DEF Deploy, Found
<1>1. /\ Present(work') = Present(work)
      /\ \A i \in Present(work') : work'.rows[i] = "CONSTRUCTION"
  BY <1>t, <1>g DEF Deploy, Present, TypeOK, Contents, IInv, RowsFollowStatus, RowsIn
<1>2. /\ UNCHANGED <<design, nver, frozen, snapshot, nreq, req>> /\ OpenReviews' = OpenReviews
      /\ ndep' = ndep + 1 /\ dep'[ndep + 1] = [ver |-> nver, status |-> "IN_PROGRESS"]
  BY <1>t, <1>g DEF Deploy, OpenReviews
<1>3. BeingDeployed'
  BY <1>t, <1>2 DEF BeingDeployed
<1>4. EditableIsUnfrozen' /\ ReviewedIsWhatWasFrozen'
  BY <1>g, <1>1, <1>2, <1>3 DEF IInv, EditableIsUnfrozen, Editable, ReviewedIsWhatWasFrozen
<1>5. RowsFollowStatus'
  BY <1>g, <1>1, <1>2, <1>3 DEF RowsFollowStatus, RowsIn, Editable, LOCKED_STATUSES
<1>6. OneOpenReview' /\ EachVersionReviewedOnce' /\ RequestsDescribeTheirVersion'
  BY <1>2 DEF IInv, OneOpenReview, EachVersionReviewedOnce, RequestsDescribeTheirVersion
<1>7. DesignApproved(design)' /\ BoqApproved(design)'
  BY <1>g, <1>2 DEF DesignApproved, BoqApproved, LatestIs
<1>8. DeploymentGated'
  BY <1>g, <1>2, <1>7 DEF DeploymentGated
<1>9. VersionsAndRequestsAgree'
  BY <1>g, <1>2 DEF IInv, VersionsAndRequestsAgree
<1> QED  BY <1>4, <1>5, <1>6, <1>8, <1>9 DEF IInv

LEMMA AdvanceKeepsIInv ==
  ASSUME IInv, TypeOK', NEW items \in SUBSET Items, NEW action \in FIELD_ACTIONS,
         Advance(design, items, action)
  PROVE  IInv'
<1>1. ASSUME NEW s \in {"CONSTRUCTION", "INSTALLED", "TESTING", "VERIFIED"}
      PROVE  Advanced(action, s) \in {"CONSTRUCTION", "INSTALLED", "TESTING", "VERIFIED"}
  BY DEF Advanced
<1>2. BeingDeployed /\ \A i \in Present(work) : work.rows[i] \in {"CONSTRUCTION", "INSTALLED", "TESTING", "VERIFIED"}
  BY DEF Advance, IInv, RowsFollowStatus, RowsIn
<1>3. \A i \in Items : work'.rows[i] = IF i \in items THEN Advanced(action, work.rows[i]) ELSE work.rows[i]
  BY DEF Advance, IInv, TypeOK, Contents
<1>4. items \subseteq Present(work)
  BY DEF Advance
<1>5. Present(work') = Present(work)
  BY <1>1, <1>2, <1>3, <1>4 DEF Present
<1>6. \A i \in Present(work) : work'.rows[i] \in {"CONSTRUCTION", "INSTALLED", "TESTING", "VERIFIED"}
  BY <1>1, <1>2, <1>3 DEF Present
<1> QED  BY <1>2, <1>5, <1>6, FieldStep DEF Advance

LEMMA CaptureKeepsIInv ==
  ASSUME IInv, TypeOK', NEW i \in Items, CaptureAsBuilt(design, i) PROVE IInv'
<1>1. work'.rows = work.rows
  BY DEF CaptureAsBuilt, IInv, TypeOK, Contents
<1>2. BeingDeployed /\ \A j \in Present(work) : work.rows[j] \in {"CONSTRUCTION", "INSTALLED", "TESTING", "VERIFIED"}
  BY DEF CaptureAsBuilt, IInv, RowsFollowStatus, RowsIn
<1>3. Present(work') = Present(work)
  BY <1>1 DEF Present
<1> QED  BY <1>1, <1>2, <1>3, FieldStep DEF CaptureAsBuilt

LEMMA PromoteKeepsIInv ==
  ASSUME IInv, TypeOK', Promote(design) PROVE IInv'
<1>t. TypeOK /\ nver \in Nat /\ ndep \in Nat
  BY BoundAssumption DEF IInv, TypeOK, Versions
<1>g. BeingDeployed /\ design.status = "APPROVED" /\ design.cur = nver /\ OpenReviews = {}
  BY DEF Promote, IInv, DeploymentGated, OneOpenReview, VersionsAndRequestsAgree
<1>1. /\ design'.status = "DEPLOYED" /\ design'.cur = nver + 1 /\ nver' = nver + 1
      /\ UNCHANGED <<nreq, req, ndep>> /\ OpenReviews' = {}
  BY <1>t, <1>g DEF Promote, Start, TypeOK, OpenReviews
<1>f. \A v \in frozen : v \in Nat /\ v <= nver /\ Drawn(snapshot[v])
  BY <1>t, <1>g DEF IInv, VersionsAndRequestsAgree, TypeOK, Versions
<1>2. /\ frozen' = frozen \cup {nver + 1}
      /\ \A v \in frozen : snapshot'[v] = snapshot[v]
  BY <1>t, <1>f DEF Promote, Freeze, TypeOK
<1>3. Present(work') = {}
  BY DEF Promote, Blank, Present
<1>4. ndep > 0 /\ ~ BeingDeployed'
  BY <1>t, <1>g DEF Promote, BeingDeployed, TypeOK
<1>5. EditableIsUnfrozen' /\ ReviewedIsWhatWasFrozen' /\ DeploymentGated'
  BY <1>1, <1>4 DEF EditableIsUnfrozen, Editable, LOCKED_STATUSES, ReviewedIsWhatWasFrozen, DeploymentGated
<1>6. RowsFollowStatus'
  BY <1>1, <1>3, <1>4 DEF RowsFollowStatus, RowsIn, Editable, LOCKED_STATUSES
<1>7. OneOpenReview' /\ EachVersionReviewedOnce'
  BY <1>1 DEF IInv, OneOpenReview, EachVersionReviewedOnce
<1>8. RequestsDescribeTheirVersion'
  BY <1>1, <1>2 DEF IInv, RequestsDescribeTheirVersion
<1>9. VersionsAndRequestsAgree'
  <2>1. \A r \in 1..nreq : req[r].ver # nver + 1
    BY <1>t, <1>f DEF IInv, RequestsDescribeTheirVersion
  <2> QED  BY <1>t, <1>1, <1>2, <1>f, <1>4, <2>1 DEF VersionsAndRequestsAgree
<1> QED  BY <1>5, <1>6, <1>7, <1>8, <1>9 DEF IInv

---------------------------------------------------------------------------
LEMMA InitIInv == Init => IInv
<1> SUFFICES ASSUME Init PROVE IInv  OBVIOUS
<1>1. TypeOK
  BY TypeInit
<1>2. design.status = "DRAFT" /\ design.cur = 1 /\ nver = 1 /\ frozen = {} /\ nreq = 0 /\ ndep = 0
  BY DEF Init
<1>3. Present(work) = {}
  BY DEF Init, Blank, Present
<1>4. ~ BeingDeployed /\ OpenReviews = {} /\ \A r \in 1..nreq : FALSE
  BY <1>2 DEF BeingDeployed, OpenReviews
<1>5. EditableIsUnfrozen /\ ReviewedIsWhatWasFrozen /\ RowsFollowStatus
  BY <1>2, <1>3, <1>4 DEF EditableIsUnfrozen, ReviewedIsWhatWasFrozen, RowsFollowStatus, RowsIn
<1>6. OneOpenReview /\ EachVersionReviewedOnce /\ RequestsDescribeTheirVersion
  BY <1>2, <1>4 DEF OneOpenReview, EachVersionReviewedOnce, RequestsDescribeTheirVersion
<1>7. DeploymentGated /\ VersionsAndRequestsAgree
  BY <1>2, <1>4 DEF DeploymentGated, VersionsAndRequestsAgree
<1> QED  BY <1>1, <1>5, <1>6, <1>7 DEF IInv

LEMMA StutterKeepsIInv ==
  ASSUME IInv, UNCHANGED <<design, work, nver, frozen, snapshot, nreq, req, ndep, dep>>, TypeOK' PROVE IInv'
<1>1. BeingDeployed' = BeingDeployed /\ OpenReviews' = OpenReviews
  BY DEF BeingDeployed, OpenReviews
<1>2. EditableIsUnfrozen' /\ ReviewedIsWhatWasFrozen' /\ RowsFollowStatus'
  BY <1>1 DEF IInv, EditableIsUnfrozen, Editable, ReviewedIsWhatWasFrozen, RowsFollowStatus, RowsIn
<1>3. OneOpenReview' /\ EachVersionReviewedOnce' /\ RequestsDescribeTheirVersion'
  BY <1>1 DEF IInv, OneOpenReview, EachVersionReviewedOnce, RequestsDescribeTheirVersion
<1>4. DeploymentGated' /\ VersionsAndRequestsAgree'
  BY <1>1 DEF IInv, DeploymentGated, VersionsAndRequestsAgree, DesignApproved, BoqApproved, LatestIs
<1> QED  BY <1>2, <1>3, <1>4 DEF IInv

LEMMA StepKeepsIInv == IInv /\ [Next]_vars => IInv'
<1> SUFFICES ASSUME IInv, [Next]_vars PROVE IInv'  OBVIOUS
<1>1. TypeOK'
  BY TypeStep DEF IInv
<1>2. CASE Edit(design) \/ ApplyOutput
  BY <1>1, <1>2, EditingKeepsIInv
<1>3. CASE Submit(design)
  BY <1>1, <1>3, SubmitDesignKeepsIInv, SubmitBoqKeepsIInv DEF Submit
<1>4. CASE Decide
  BY <1>1, <1>4, DecidingKeepsIInv
<1>5. CASE Reopen(design)
  BY <1>1, <1>5, ReopenKeepsIInv
<1>6. CASE Build(design)
  BY <1>1, <1>6, DeployKeepsIInv, AdvanceKeepsIInv, CaptureKeepsIInv, PromoteKeepsIInv DEF Build
<1>7. CASE RunFails
  BY <1>1, <1>7, StutterKeepsIInv DEF RunFails
<1>8. CASE UNCHANGED vars
  BY <1>1, <1>8, StutterKeepsIInv DEF vars
<1> QED  BY <1>2, <1>3, <1>4, <1>5, <1>6, <1>7, <1>8 DEF Next, Worker

(* Whatever the requests and the worker do, in any order: every invariant of the
   design, its versions, its reviews and its deployments holds. *)
THEOREM Safety == Spec => []IInv
BY InitIInv, StepKeepsIInv, PTL DEF Spec

(* What is decided about, and then built, is what submit_design froze. *)
THEOREM ReviewIsHonest == Spec => []ReviewedIsWhatWasFrozen
<1>1. IInv => ReviewedIsWhatWasFrozen
  BY DEF IInv
<1> QED  BY <1>1, Safety, PTL

(* gate() is still open at every moment of the construction it let begin. *)
THEOREM ConstructionIsGated == Spec => []DeploymentGated
<1>1. IInv => DeploymentGated
  BY DEF IInv
<1> QED  BY <1>1, Safety, PTL

(* set_lifecycle's plain UPDATEs and the field's transitions leave the rows
   with the status of their design (service.py:92, lifecycle.py). *)
THEOREM RowsInStep == Spec => []RowsFollowStatus
<1>1. IInv => RowsFollowStatus
  BY DEF IInv
<1> QED  BY <1>1, Safety, PTL

(* Every way into and out of a review leaves one open request exactly while
   the design is under review. *)
THEOREM ReviewsAreSingle == Spec => []OneOpenReview
<1>1. IInv => OneOpenReview
  BY DEF IInv
<1> QED  BY <1>1, Safety, PTL

(* What submit_design and submit_boq stored with a request stays what the
   version it names holds. *)
THEOREM RequestsStayTrue == Spec => []RequestsDescribeTheirVersion
<1>1. IInv => RequestsDescribeTheirVersion
  BY DEF IInv
<1> QED  BY <1>1, Safety, PTL

(* No handler leaves the current version frozen and the design editable. *)
THEOREM FrozenIsFrozen == Spec => []EditableIsUnfrozen
<1>1. IInv => EditableIsUnfrozen
  BY DEF IInv
<1> QED  BY <1>1, Safety, PTL

---------------------------------------------------------------------------
(* Replacing a working set *)

(* Kept: some frozen version holds the rows, and the plan unless imported. *)
Kept == \E v \in frozen' : /\ Present(snapshot'[v]) = Present(work)
                           /\ snapshot'[v].plan = work.plan \/ ImportRun(design)

LEMMA CheckpointKeeps ==
  ASSUME IInv, Editable(design), Freeze(design.cur, work) PROVE Kept
<1>1. design.cur \in frozen' /\ snapshot'[design.cur] = work
  BY EditableFacts DEF Freeze, IInv, TypeOK
<1> QED  BY <1>1 DEF Kept

LEMMA ImportKeeps ==
  ASSUME IInv, ImportRun(design) PROVE Kept
<1>1. PICK p \in Plans : Replace([work EXCEPT !.plan = p])
  BY DEF ImportRun
<1>2. design.cur \in frozen' /\ snapshot'[design.cur] = [work EXCEPT !.plan = p]
  BY <1>1, EditableFacts DEF Replace, Freeze, IInv, TypeOK, ImportRun
<1>3. Present([work EXCEPT !.plan = p]) = Present(work)
  BY DEF Present, IInv, TypeOK, Contents
<1> QED  BY <1>2, <1>3 DEF Kept

LEMMA RevisionKeepsDrawing ==
  ASSUME IInv, NEW st, BackToRevision(st) PROVE Drawing(work') = Drawing(work)
<1>1. Present(work') = Present(work) /\ work'.plan = work.plan
  BY DEF BackToRevision, InState, Present, IInv, TypeOK, Contents
<1> QED  BY <1>1 DEF Drawing

LEMMA ReplacementKept ==
  IInv /\ [Next]_vars => [design.cur' # design.cur /\ Drawing(work') # Drawing(work) => Kept]_vars
<1> SUFFICES ASSUME IInv, Next, design.cur' # design.cur, Drawing(work') # Drawing(work) PROVE Kept
  OBVIOUS
<1>1. CASE ReplaceInputs(design) \/ DeleteInputs(design) \/ SaveVersion(design) \/ ApplyOutput
  BY <1>1, CheckpointKeeps DEF ReplaceInputs, DeleteInputs, SaveVersion, ApplyOutput, Replace
<1>2. CASE \E v \in Versions : Restore(design, v)
  BY <1>2, CheckpointKeeps DEF Restore
<1>3. CASE ImportRun(design)
  BY <1>3, ImportKeeps
<1>4. CASE Promote(design)
  <2>1. \A v \in frozen : v <= nver
    BY DEF IInv, VersionsAndRequestsAgree
  <2>2. nver + 1 \in Versions /\ nver + 1 \notin frozen
    BY <1>4, <2>1, BoundAssumption DEF Promote, Start, IInv, TypeOK, Versions
  <2>3. nver + 1 \in frozen' /\ snapshot'[nver + 1] = work
    BY <1>4, <2>2 DEF Promote, Freeze, IInv, TypeOK
  <2> QED  BY <2>3 DEF Kept
<1>5. CASE Decide
  <2>1. PICK u \in Users, r \in 1..nreq :
          ApproveStep1(u, r) \/ ApproveStep2(u, r) \/ Reject(u, r) \/ Withdraw(u, r)
    BY <1>5 DEF Decide
  <2>2. design.cur' = design.cur \/ \E st \in {"MODIFIED", "REJECTED"} : BackToRevision(st)
    BY <2>1 DEF ApproveStep1, ApproveStep2, Reject, Withdraw, IInv, TypeOK
  <2> QED  BY <2>2, RevisionKeepsDrawing
<1>6. CASE Reopen(design)
  BY <1>6, RevisionKeepsDrawing DEF Reopen
<1>7. CASE UpdateDesign(design) \/ EditRows(design) \/ AddInputs(design) \/ DeleteDesign(design) \/ QueueGenerate(design)
  BY <1>7 DEF UpdateDesign, EditRows, AddInputs, DeleteDesign, QueueGenerate, IInv, TypeOK
<1>8. CASE Submit(design)
  BY <1>8 DEF Submit, SubmitDesign, SubmitBoq, IInv, TypeOK
<1>9. CASE Build(design) /\ ~ Promote(design)
  BY <1>9 DEF Build, Deploy, Advance, CaptureAsBuilt
<1>10. CASE RunFails
  BY <1>10 DEF RunFails
<1> QED
  BY <1>1, <1>2, <1>3, <1>4, <1>5, <1>6, <1>7, <1>8, <1>9, <1>10 DEF Next, Edit, Worker

(* Whatever replaces a working set leaves what it held in a frozen version. *)
THEOREM NothingLost == Spec => NothingReplacedIsLost
BY Safety, ReplacementKept, PTL DEF Spec, NothingReplacedIsLost, Kept

---------------------------------------------------------------------------
(***************************************************************************)
(* DesignPromise keeps its promise, and DesignLifecycle implements it.     *)
(***************************************************************************)

(* How the design's columns read as a phase. *)
PhaseReads ==
  /\ BeingDeployed => design.status = "APPROVED"
  /\ design.status = "UNDER_REVIEW" <=> phaseOf = "review"
  /\ design.status = "DEPLOYED" <=> phaseOf = "live"
  /\ design.status = "APPROVED" /\ ~ BeingDeployed <=> phaseOf = "approved"
  /\ BeingDeployed <=> phaseOf = "building"
  /\ Editable(design) <=> phaseOf = "editing"
  /\ phaseOf \in {"editing", "review", "approved", "building", "live"}

LEMMA PhaseFacts == IInv => PhaseReads
<1> SUFFICES ASSUME IInv PROVE PhaseReads  OBVIOUS
<1>1. BeingDeployed => design.status = "APPROVED"
  BY DEF IInv, DeploymentGated
<1>2. Editable(design) <=> design.status \notin {"UNDER_REVIEW", "APPROVED", "DEPLOYED"}
  BY DEF IInv, VersionsAndRequestsAgree, Editable, LOCKED_STATUSES
<1> QED  BY <1>1, <1>2 DEF phaseOf, PhaseReads

LEMMA PhaseFactsNext == (IInv => PhaseReads)'
BY PhaseFacts, PTL

(* What the mapped variables are in each phase. *)
MappedReads ==
  /\ phaseOf # "live" => drawingOf = Drawing(work)
  /\ phaseOf = "live" => drawingOf = Drawing(snapshot[design.cur])
  /\ phaseOf = "editing" => reviewedOf = {}
  /\ phaseOf \in {"review", "approved"} =>
       reviewedOf = {Drawing(work)} /\ reviewedOf = {Drawing(snapshot[nver])}
  /\ phaseOf \in {"building", "live"} => reviewedOf = {Drawing(snapshot[dep[ndep].ver])}
  /\ phaseOf = "building" => dep[ndep].ver = nver
  /\ phaseOf \in {"editing", "review"} => pricedOf = FALSE
  /\ phaseOf = "approved" => pricedOf = BoqApproved(design)
  /\ phaseOf \in {"building", "live"} => pricedOf = TRUE
  /\ pricedOf \in BOOLEAN
  /\ Drawing(work) \in Drawings
  /\ design.cur = nver

LEMMA MappedState == IInv => MappedReads
<1> SUFFICES ASSUME IInv PROVE MappedReads  OBVIOUS
<1>1. Drawing(work) \in Drawings /\ design.cur = nver
  BY DrawingType DEF IInv, TypeOK, VersionsAndRequestsAgree
<1>2. phaseOf \in {"review", "approved"} => Drawing(work) = Drawing(snapshot[nver])
  BY <1>1, PhaseFacts DEF PhaseReads, IInv, ReviewedIsWhatWasFrozen, Drawing, DeploymentGated
<1>3. phaseOf \in {"editing", "review"} => ~ BoqApproved(design)
  <2> SUFFICES ASSUME BoqApproved(design) PROVE design.status = "APPROVED"
    BY PhaseFacts DEF PhaseReads, Editable, LOCKED_STATUSES
  <2>1. PICK r \in 1..nreq : req[r].type = "BOQ" /\ req[r].ver = design.cur
    BY DEF BoqApproved, LatestIs
  <2> QED  BY <2>1 DEF IInv, VersionsAndRequestsAgree
<1>4. BoqApproved(design) \in BOOLEAN
  BY DEF BoqApproved, LatestIs
<1>5. phaseOf = "building" => dep[ndep].ver = nver
  BY <1>1, PhaseFacts DEF PhaseReads, IInv, DeploymentGated
<1>6. /\ phaseOf = "editing" => reviewedOf = {}
      /\ phaseOf \in {"review", "approved"} => reviewedOf = {Drawing(snapshot[nver])}
      /\ phaseOf \in {"building", "live"} => reviewedOf = {Drawing(snapshot[dep[ndep].ver])}
  BY <1>1, PhaseFacts DEF PhaseReads, reviewedOf
<1>7. /\ phaseOf \in {"building", "live"} => pricedOf = TRUE
      /\ phaseOf \notin {"building", "live"} => pricedOf = BoqApproved(design)
  BY <1>4 DEF pricedOf
<1> QED  BY <1>1, <1>2, <1>3, <1>4, <1>5, <1>6, <1>7, PhaseFacts DEF drawingOf, PhaseReads, MappedReads

LEMMA MappedStateNext == (IInv => MappedReads)'
BY MappedState, PTL

LEMMA InitMaps == Init => P!PromiseInit
<1> SUFFICES ASSUME Init PROVE P!PromiseInit  OBVIOUS
<1>1. design.status = "DRAFT" /\ \E p \in Plans : work = Blank(p)
  BY DEF Init
<1>2. IInv
  BY InitIInv
<1>3. phaseOf = "editing"
  BY <1>1 DEF phaseOf
<1>4. Drawing(work) \in [items : {{}}, plan : Plans]
  BY <1>1 DEF Drawing, Blank, Present
<1> QED  BY <1>2, <1>3, <1>4, MappedState DEF MappedReads, P!PromiseInit

---------------------------------------------------------------------------
(* Each kind of step, as DesignPromise sees it. *)

(* While a design is edited, whatever the handler does is drawing. *)
LEMMA EditingMaps ==
  ASSUME IInv, IInv', Editable(design), Editable(design)' PROVE [P!PromiseNext]_P!promise
<1>1. phaseOf = "editing" /\ phaseOf' = "editing"
  BY PhaseFacts, PhaseFactsNext DEF PhaseReads 
<1>2. /\ reviewedOf = {} /\ reviewedOf' = {} /\ pricedOf = FALSE /\ pricedOf' = FALSE
      /\ drawingOf' \in P!AllDrawings
  BY <1>1, MappedState, MappedStateNext DEF MappedReads, P!AllDrawings, Drawings
<1> QED  BY <1>1, <1>2 DEF P!PromiseNext, P!Draw

(* A step that leaves the design and its working set alone, and prices nothing. *)
LEMMA NothingMaps ==
  ASSUME IInv, IInv', phaseOf' = phaseOf, nver' = nver, Drawing(work)' = Drawing(work),
         phaseOf \in {"building", "live"} => UNCHANGED <<snapshot, dep, ndep, design>>,
         phaseOf = "approved" => BoqApproved(design)' = BoqApproved(design)
  PROVE  UNCHANGED P!promise
<1>1. phaseOf \in {"editing", "review", "approved", "building", "live"}
  BY PhaseFacts DEF PhaseReads
<1>2. CASE phaseOf \in {"editing", "review", "approved"}
  BY <1>2, MappedState, MappedStateNext DEF MappedReads, P!promise
<1>3. CASE phaseOf \in {"building", "live"}
  BY <1>3, MappedState, MappedStateNext DEF MappedReads, P!promise
<1> QED  BY <1>1, <1>2, <1>3

(* phaseOf is a function of the design's status and of the latest deployment. *)
LEMMA PhaseKept ==
  ASSUME design'.status = design.status, BeingDeployed' = BeingDeployed PROVE phaseOf' = phaseOf
BY DEF phaseOf

LEMMA SendBackMaps ==
  ASSUME IInv, IInv', phaseOf \in {"review", "approved"}, Editable(design)',
         Drawing(work)' = Drawing(work)
  PROVE  P!SendBack
<1>1. phaseOf' = "editing"
  BY PhaseFactsNext DEF PhaseReads
<1>2. reviewedOf' = {} /\ pricedOf' = FALSE /\ drawingOf' = drawingOf
  BY <1>1, MappedState, MappedStateNext DEF MappedReads
<1> QED  BY <1>1, <1>2 DEF P!SendBack

LEMMA InStateDrawing ==
  ASSUME NEW c \in Contents, NEW st, st # "NONE" PROVE Drawing(InState(c, st)) = Drawing(c)
<1>1. Present(InState(c, st)) = Present(c) /\ InState(c, st).plan = c.plan
  BY DEF InState, Present, Contents
<1> QED  BY <1>1 DEF Drawing

LEMMA EditMaps ==
  ASSUME IInv, IInv', Edit(design) \/ ApplyOutput PROVE [P!PromiseNext]_P!promise
<1>1. CASE DeleteDesign(design)
  <2>1. /\ design'.status = design.status /\ design'.cur = design.cur
        /\ UNCHANGED <<work, nver, frozen, snapshot, nreq, req, ndep, dep>>
    BY <1>1 DEF DeleteDesign, IInv, TypeOK
  <2>2. BeingDeployed' = BeingDeployed /\ BoqApproved(design)' = BoqApproved(design)
    BY <2>1 DEF BeingDeployed, BoqApproved, LatestIs
  <2>3. phaseOf' = phaseOf
    BY <2>1, <2>2, PhaseKept
  <2>4. drawingOf' = drawingOf /\ reviewedOf' = reviewedOf /\ pricedOf' = pricedOf
    BY <2>1, <2>2, <2>3 DEF drawingOf, reviewedOf, pricedOf
  <2> QED  BY <2>3, <2>4 DEF P!promise
<1>2. CASE ~ DeleteDesign(design)
  <2>1. Editable(design)
    BY <1>2 DEF Edit, ApplyOutput, UpdateDesign, EditRows, AddInputs, ReplaceInputs, DeleteInputs,
       SaveVersion, Restore, QueueGenerate, ImportRun
  <2>2. design'.status \in {"DRAFT", "GENERATED", "MODIFIED", "REJECTED"}
    <3>1. design.status \in {"DRAFT", "GENERATED", "MODIFIED", "REJECTED"}
      BY <2>1, EditableFacts
    <3>2. Touched(design) \in {"DRAFT", "GENERATED", "MODIFIED", "REJECTED"}
      BY <3>1 DEF Touched
    <3>3. design' = [design EXCEPT !.status = design'.status, !.cur = design'.cur]
      BY <1>2 DEF Edit, ApplyOutput, UpdateDesign, EditRows, AddInputs, ReplaceInputs, DeleteInputs,
         SaveVersion, Restore, QueueGenerate, ImportRun, Replace, Start, IInv, TypeOK
    <3> QED
      BY <1>2, <3>1, <3>2 DEF Edit, ApplyOutput, UpdateDesign, EditRows, AddInputs, ReplaceInputs,
         DeleteInputs, SaveVersion, Restore, QueueGenerate, ImportRun, Replace, Start, Assigned,
         EDITABLE_STATUSES, IInv, TypeOK
  <2>3. Editable(design)'
    BY <2>2 DEF Editable, LOCKED_STATUSES
  <2> QED  BY <2>1, <2>3, EditingMaps
<1> QED  BY <1>1, <1>2

LEMMA SubmitDesignMaps ==
  ASSUME IInv, IInv', NEW u \in Users, SubmitDesign(design, u) PROVE P!PutUpForReview
<1>1. Editable(design) /\ design'.status = "UNDER_REVIEW"
  BY SubmittableFacts DEF SubmitDesign, IInv, TypeOK
<1>2. phaseOf = "editing" /\ phaseOf' = "review"
  BY <1>1, PhaseFacts, PhaseFactsNext DEF PhaseReads
<1>3. Drawing(work)' = Drawing(work)
  BY InStateDrawing DEF SubmitDesign, IInv, TypeOK
<1>4. reviewedOf' = {drawingOf} /\ drawingOf' = drawingOf /\ pricedOf' = pricedOf
  BY <1>2, <1>3, MappedState, MappedStateNext DEF MappedReads
<1> QED  BY <1>2, <1>4 DEF P!PutUpForReview

LEMMA SubmitBoqMaps ==
  ASSUME IInv, IInv', NEW u \in Users, SubmitBoq(design, u) PROVE UNCHANGED P!promise
<1>1. UNCHANGED <<design, work, nver, frozen, snapshot, ndep, dep>>
  BY DEF SubmitBoq
<1>2. phaseOf' = phaseOf /\ Drawing(work)' = Drawing(work)
  BY <1>1, PhaseKept DEF BeingDeployed
<1>3. ~ BoqApproved(design)
  BY DEF SubmitBoq, BoqApproved
<1>4. ~ BoqApproved(design)'
  <2>1. /\ nreq' = nreq + 1 /\ nreq \in Nat
        /\ \A r \in 1..nreq : req'[r] = req[r]
        /\ req'[nreq+1].type = "BOQ" /\ req'[nreq+1].ver = design.cur /\ req'[nreq+1].status = "PENDING"
    BY DEF SubmitBoq, Create, IInv, TypeOK
  <2> QED  BY <1>1, <2>1 DEF BoqApproved, LatestIs
<1>5. BoqApproved(design)' = BoqApproved(design)
  BY <1>3, <1>4 DEF BoqApproved, LatestIs
<1> QED  BY <1>1, <1>2, <1>5, NothingMaps

(* The decisions that leave the design alone: at most the BOQ is approved. *)
LEMMA RequestRowMaps ==
  ASSUME IInv, IInv', NEW r \in 1..nreq, NEW x, req' = [req EXCEPT ![r] = x],
         req[r].status = "PENDING", x.type = req[r].type, x.ver = req[r].ver,
         UNCHANGED <<design, work, nver, frozen, snapshot, nreq, ndep, dep>>
  PROVE  [P!PromiseNext]_P!promise
<1>1. phaseOf' = phaseOf /\ Drawing(work)' = Drawing(work)
  BY PhaseKept DEF BeingDeployed
<1>2. CASE BoqApproved(design)' = BoqApproved(design)
  <2>1. UNCHANGED P!promise
    BY <1>1, <1>2, NothingMaps
  <2> QED  BY <2>1
<1>3. CASE phaseOf # "approved"
  <2>1. UNCHANGED P!promise
    BY <1>1, <1>3, NothingMaps
  <2> QED  BY <2>1
<1>4. CASE phaseOf = "approved" /\ BoqApproved(design)' # BoqApproved(design)
  <2>1. ~ BoqApproved(design) /\ BoqApproved(design)'
    <3>1. BoqApproved(design) => BoqApproved(design)'
      BY LatestKept DEF BoqApproved, IInv
    <3> QED  BY <1>4, <3>1 DEF BoqApproved, LatestIs
  <2>2. pricedOf = FALSE /\ pricedOf' = TRUE
    BY <1>1, <1>4, <2>1, MappedState, MappedStateNext DEF MappedReads
  <2>3. drawingOf' = drawingOf /\ reviewedOf' = reviewedOf
    BY <1>1, <1>4, MappedState, MappedStateNext DEF MappedReads
  <2> QED  BY <1>1, <1>4, <2>2, <2>3 DEF P!Price, P!PromiseNext
<1> QED  BY <1>2, <1>3, <1>4

LEMMA DecideMaps ==
  ASSUME IInv, IInv', Decide PROVE [P!PromiseNext]_P!promise
<1>1. PICK u \in Users, r \in 1..nreq :
        ApproveStep1(u, r) \/ ApproveStep2(u, r) \/ Reject(u, r) \/ Withdraw(u, r)
  BY DEF Decide
<1>2. req[r].status = "PENDING" /\ req[r] \in RequestRows /\ work \in Contents
  BY <1>1 DEF ApproveStep1, ApproveStep2, Reject, Withdraw, MayDecide, IInv, TypeOK
<1>3. ASSUME NEW st, NEW s1, NEW s2, req' = [req EXCEPT ![r] = Marked(req[r], st, s1, s2)],
             UNCHANGED <<design, work, nver, frozen, snapshot, nreq, ndep, dep>>
      PROVE  [P!PromiseNext]_P!promise
  <2> DEFINE x == Marked(req[r], st, s1, s2)
  <2>1. x.type = req[r].type /\ x.ver = req[r].ver /\ req' = [req EXCEPT ![r] = x]
    BY <1>2, <1>3, MarkedFacts
  <2> HIDE DEF x
  <2> QED  BY <1>2, <1>3, <2>1, RequestRowMaps
<1>4. ASSUME req[r].type = "DESIGN_VERSION" PROVE phaseOf = "review"
  BY <1>2, <1>4, PhaseFacts DEF PhaseReads, IInv, OneOpenReview, OpenReviews
<1>5. ASSUME req[r].type = "DESIGN_VERSION", NEW st \in {"MODIFIED", "REJECTED"}, BackToRevision(st)
      PROVE  P!SendBack
  <2>1. Editable(design)'
    BY <1>5 DEF BackToRevision, Start, Editable, LOCKED_STATUSES, IInv, TypeOK
  <2>2. Drawing(work)' = Drawing(work)
    BY <1>2, <1>5, InStateDrawing DEF BackToRevision
  <2> QED  BY <1>4, <1>5, <2>1, <2>2, SendBackMaps
<1>6. CASE ApproveStep1(u, r)
  BY <1>3, <1>6 DEF ApproveStep1
<1>7. CASE ApproveStep2(u, r)
  <2>1. CASE req[r].type # "DESIGN_VERSION"
    BY <1>3, <1>7, <2>1 DEF ApproveStep2
  <2>2. CASE req[r].type = "DESIGN_VERSION"
    <3>1. /\ design'.status = "APPROVED" /\ Drawing(work)' = Drawing(work)
          /\ UNCHANGED <<ndep, dep, nver, snapshot>>
      BY <1>2, <1>7, <2>2, InStateDrawing DEF ApproveStep2, IInv, TypeOK
    <3>2. phaseOf = "review" /\ phaseOf' = "approved"
      BY <1>4, <2>2, <3>1, PhaseFacts, PhaseFactsNext DEF PhaseReads, BeingDeployed
    <3>3. drawingOf' = drawingOf /\ reviewedOf' = reviewedOf
      BY <3>1, <3>2, MappedState, MappedStateNext DEF MappedReads
    <3>4. ~ BoqApproved(design)'
      <4>1. \A q \in 1..nreq : ~ (req[q].type = "BOQ" /\ req[q].ver = nver)
        BY <3>2, PhaseFacts DEF PhaseReads, IInv, VersionsAndRequestsAgree
      <4>2. \A q \in 1..nreq : req'[q].type = req[q].type /\ req'[q].ver = req[q].ver
        BY <1>2, <1>7, MarkedFacts DEF ApproveStep2, IInv, TypeOK
      <4> QED
        BY <1>7, <4>1, <4>2, <3>1, MappedStateNext DEF MappedReads, ApproveStep2, BoqApproved, LatestIs
    <3>5. pricedOf' = pricedOf
      BY <3>2, <3>4, MappedState, MappedStateNext DEF MappedReads
    <3> QED  BY <3>2, <3>3, <3>5 DEF P!Grant, P!PromiseNext
  <2> QED  BY <2>1, <2>2
<1>8. CASE Reject(u, r)
  <2>1. CASE req[r].type # "DESIGN_VERSION"
    BY <1>3, <1>8, <2>1 DEF Reject, RejectedRow
  <2>2. CASE req[r].type = "DESIGN_VERSION"
    BY <1>5, <1>8, <2>2 DEF Reject, P!PromiseNext
  <2> QED  BY <2>1, <2>2
<1>9. CASE Withdraw(u, r)
  <2>1. CASE req[r].type # "DESIGN_VERSION"
    BY <1>3, <1>9, <2>1 DEF Withdraw
  <2>2. CASE req[r].type = "DESIGN_VERSION"
    BY <1>5, <1>9, <2>2 DEF Withdraw, P!PromiseNext
  <2> QED  BY <2>1, <2>2
<1> QED  BY <1>1, <1>6, <1>7, <1>8, <1>9

LEMMA ReopenMaps ==
  ASSUME IInv, IInv', Reopen(design) PROVE P!SendBack
<1>1. ~ BeingDeployed /\ design.status = "APPROVED"
  BY DEF Reopen, BeingDeployed, IInv, TypeOK
<1>2. phaseOf = "approved"
  BY <1>1, PhaseFacts DEF PhaseReads
<1>3. Editable(design)'
  BY DEF Reopen, BackToRevision, Start, Editable, LOCKED_STATUSES, IInv, TypeOK
<1>4. Drawing(work)' = Drawing(work)
  BY InStateDrawing DEF Reopen, BackToRevision, IInv, TypeOK
<1> QED  BY <1>2, <1>3, <1>4, SendBackMaps

LEMMA DeployMaps ==
  ASSUME IInv, IInv', Deploy(design) PROVE P!BreakGround
<1>1. /\ design.status = "APPROVED" /\ BoqApproved(design) /\ ~ BeingDeployed
      /\ UNCHANGED <<design, nver, snapshot>>
  BY GateFacts DEF Deploy
<1>2. BeingDeployed'
  BY DEF Deploy, BeingDeployed, IInv, TypeOK
<1>3. phaseOf = "approved" /\ phaseOf' = "building"
  BY <1>1, <1>2, PhaseFacts, PhaseFactsNext DEF PhaseReads
<1>4. Drawing(work)' = Drawing(work)
  <2>1. Present(work') = Present(work) /\ work'.plan = work.plan
    BY DEF Deploy, Present, IInv, TypeOK, Contents
  <2> QED  BY <2>1 DEF Drawing
<1>5. pricedOf = TRUE /\ pricedOf' = TRUE
  BY <1>1, <1>3, MappedState, MappedStateNext DEF MappedReads, BoqApproved, LatestIs
<1>6. drawingOf' = drawingOf /\ reviewedOf' = reviewedOf
  BY <1>1, <1>3, <1>4, MappedState, MappedStateNext DEF MappedReads
<1> QED  BY <1>3, <1>5, <1>6 DEF P!BreakGround

LEMMA AdvanceMaps ==
  ASSUME IInv, IInv', NEW items \in SUBSET Items, NEW action \in FIELD_ACTIONS,
         Advance(design, items, action)
  PROVE  UNCHANGED P!promise
<1>1. UNCHANGED <<design, nver, frozen, snapshot, nreq, req, ndep, dep>>
  BY DEF Advance
<1>2. phaseOf' = phaseOf /\ phaseOf = "building"
  BY <1>1, PhaseKept, PhaseFacts DEF PhaseReads, Advance, BeingDeployed
<1>3. ASSUME NEW s, s # "NONE" PROVE Advanced(action, s) # "NONE"
  BY <1>3 DEF Advanced
<1>4. /\ \A i \in Items : work'.rows[i] = IF i \in items THEN Advanced(action, work.rows[i]) ELSE work.rows[i]
      /\ work'.plan = work.plan
  BY DEF Advance, IInv, TypeOK, Contents
<1>5. Present(work') = Present(work)
  BY <1>3, <1>4 DEF Advance, Present
<1>6. Drawing(work)' = Drawing(work)
  BY <1>4, <1>5 DEF Drawing
<1> QED  BY <1>1, <1>2, <1>6, NothingMaps

LEMMA CaptureMaps ==
  ASSUME IInv, IInv', NEW i \in Items, CaptureAsBuilt(design, i) PROVE P!Survey
<1>1. UNCHANGED <<design, nver, frozen, snapshot, nreq, req, ndep, dep>>
  BY DEF CaptureAsBuilt
<1>2. phaseOf' = phaseOf /\ phaseOf = "building"
  BY <1>1, PhaseKept, PhaseFacts DEF PhaseReads, CaptureAsBuilt, BeingDeployed
<1>3. work'.rows = work.rows /\ work'.plan \in Plans
  BY DEF CaptureAsBuilt, IInv, TypeOK, Contents
<1>4. drawingOf' = Drawing(work') /\ drawingOf = Drawing(work) /\ reviewedOf' = reviewedOf /\ pricedOf' = pricedOf
  BY <1>1, <1>2, MappedState, MappedStateNext DEF MappedReads
<1>5. drawingOf' \in [items : {drawingOf.items}, plan : Plans]
  BY <1>3, <1>4 DEF Drawing, Present
<1> QED  BY <1>2, <1>4, <1>5 DEF P!Survey

LEMMA PromoteMaps ==
  ASSUME IInv, IInv', Promote(design) PROVE P!GoLive
<1>1. BeingDeployed /\ design'.status = "DEPLOYED" /\ design'.cur = nver + 1
  BY DEF Promote, Start, IInv, TypeOK
<1>2. phaseOf = "building" /\ phaseOf' = "live"
  BY <1>1, PhaseFacts, PhaseFactsNext DEF PhaseReads
<1>3. nver \in frozen /\ \A v \in frozen : v \in Nat /\ v <= nver
  BY <1>2, PhaseFacts
  DEF PhaseReads, IInv, ReviewedIsWhatWasFrozen, DeploymentGated, VersionsAndRequestsAgree, TypeOK, Versions
<1>4. nver + 1 \in Versions /\ nver \in Versions /\ nver + 1 # nver /\ nver + 1 \notin frozen
  BY <1>3, BoundAssumption DEF Promote, Start, IInv, TypeOK, Versions
<1>5. snapshot'[nver + 1] = work /\ snapshot'[nver] = snapshot[nver]
  BY <1>4 DEF Promote, Freeze, IInv, TypeOK
<1>6. drawingOf = Drawing(work) /\ drawingOf' = Drawing(work) /\ pricedOf = TRUE /\ pricedOf' = TRUE
  BY <1>1, <1>2, <1>5, MappedState, MappedStateNext DEF MappedReads
<1>7. ndep' = ndep /\ dep'[ndep].ver = dep[ndep].ver
  BY <1>1 DEF Promote, IInv, TypeOK, BeingDeployed, DeploymentRows
<1>8. reviewedOf' = reviewedOf
  BY <1>2, <1>5, <1>7, MappedState, MappedStateNext DEF MappedReads
<1> QED  BY <1>2, <1>6, <1>8 DEF P!GoLive

LEMMA StepMaps == IInv /\ IInv' /\ [Next]_vars => [P!PromiseNext]_P!promise
<1> SUFFICES ASSUME IInv, IInv', [Next]_vars PROVE [P!PromiseNext]_P!promise  OBVIOUS
<1>1. CASE Edit(design) \/ ApplyOutput
  BY <1>1, EditMaps
<1>2. CASE Submit(design)
  BY <1>2, SubmitDesignMaps, SubmitBoqMaps DEF Submit, P!PromiseNext
<1>3. CASE Decide
  BY <1>3, DecideMaps
<1>4. CASE Reopen(design)
  BY <1>4, ReopenMaps DEF P!PromiseNext
<1>5. CASE Build(design)
  BY <1>5, DeployMaps, AdvanceMaps, CaptureMaps, PromoteMaps DEF Build, P!PromiseNext
<1>6. CASE RunFails \/ UNCHANGED vars
  <2>1. UNCHANGED <<design, work, nver, frozen, snapshot, nreq, req, ndep, dep>>
    BY <1>6 DEF RunFails, vars
  <2>2. UNCHANGED P!promise
    BY <2>1 DEF P!promise, phaseOf, drawingOf, reviewedOf, pricedOf, BeingDeployed, BoqApproved, LatestIs
  <2> QED  BY <2>2
<1> QED  BY <1>1, <1>2, <1>3, <1>4, <1>5, <1>6 DEF Next, Worker

(* The whole workflow, for every number of people, rows, versions, requests and
   deployments, implements edit - review - approve - price - build - go live. *)
THEOREM Implements == Spec => Promise
BY InitMaps, StepMaps, Safety, PTL DEF Spec, Promise, P!PromiseSpec

---------------------------------------------------------------------------
(* The abstract invariant: the drawing under review is the one reviewed, and
   what is built has its items.  It needs nothing but the abstract steps. *)
PromiseHeld ==
  /\ phaseOf \in {"review", "approved"} => reviewedOf = {drawingOf}
  /\ P!BuiltAsReviewed

LEMMA PromiseHeldInit == P!PromiseInit => PromiseHeld
BY DEF P!PromiseInit, PromiseHeld, P!BuiltAsReviewed

LEMMA PromiseHeldStep == PromiseHeld /\ [P!PromiseNext]_P!promise => PromiseHeld'
<1> SUFFICES ASSUME PromiseHeld, [P!PromiseNext]_P!promise PROVE PromiseHeld'  OBVIOUS
<1>1. CASE P!Draw \/ P!SendBack
  BY <1>1 DEF P!Draw, P!SendBack, PromiseHeld, P!BuiltAsReviewed
<1>2. CASE P!PutUpForReview \/ P!Grant \/ P!Price
  BY <1>2 DEF P!PutUpForReview, P!Grant, P!Price, PromiseHeld, P!BuiltAsReviewed
<1>3. CASE P!BreakGround \/ P!GoLive
  BY <1>3 DEF P!BreakGround, P!GoLive, PromiseHeld, P!BuiltAsReviewed
<1>4. CASE P!Survey
  BY <1>4 DEF P!Survey, PromiseHeld, P!BuiltAsReviewed
<1>5. CASE UNCHANGED P!promise
  BY <1>5 DEF P!promise, PromiseHeld, P!BuiltAsReviewed
<1> QED  BY <1>1, <1>2, <1>3, <1>4, <1>5 DEF P!PromiseNext

(* Nothing but a reviewed and priced drawing is ever built or goes live. *)
THEOREM LiveAsReviewed == Spec => []LiveIsWhatWasReviewed
<1>1. PromiseHeld => LiveIsWhatWasReviewed
  BY DEF PromiseHeld, LiveIsWhatWasReviewed
<1>2. Promise => []PromiseHeld
  BY PromiseHeldInit, PromiseHeldStep, PTL DEF Promise, P!PromiseSpec
<1> QED  BY <1>1, <1>2, Implements, PTL
=============================================================================
