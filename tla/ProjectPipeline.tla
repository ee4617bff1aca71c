-------------------------- MODULE ProjectPipeline --------------------------
(***************************************************************************)
(* The pipeline of one project (projects/pipeline_service.py): stages that *)
(* departments pass on to each other, gates, approvals and push-backs, and *)
(* the two places outside it that start a pipeline of their own or end it  *)
(* (projects/auto_generator.py, customers/service.py, tasks/service.py).   *)
(*                                                                         *)
(* Left out: StageFieldCompletion, a second gate of advance_stage whose    *)
(* rows no code writes, and start_graph_pipeline, which needs a published  *)
(* workflow: ProjectPipelineProofs shows that there is none.               *)
(***************************************************************************)
EXTENDS Naturals

CONSTANTS Users, Depts,
          Managers,  \* users with role level 4 and above
          Leads,     \* users with role level 3 and above
          Scope,     \* departments in a user's scopes
          Templates, \* active pipeline templates
          MaxStages  \* bound: the highest stage_order

Stages == 1..MaxStages

(* Orders need not be 1, 2, 3, ...: create_template stores what it is sent.  Which
   stages need an approval (requires_approval) is set in the database.  No gate is 0. *)
TemplateRows ==
  [orders : SUBSET Stages, parallel : SUBSET Stages, approval : SUBSET Stages,
   gate : [Stages -> 0..MaxStages], dept : [Stages -> Depts]]

ASSUME TemplateAssumption ==
  /\ MaxStages \in Nat
  /\ Templates \subseteq TemplateRows
  /\ Managers \subseteq Leads /\ Leads \subseteq Users /\ Scope \in [Users -> SUBSET Depts]

VARIABLES project,   \* pipeline_status and the order of current_stage, 0 without one
          template,  \* the template started from; of a pipeline without one, its stages
          stage,     \* status of the project's stages; "none": no such row
          approvals  \* stages with a row in project_stage_approvals

vars == <<project, template, stage, approvals>>

StageStatuses == {"pending", "active", "approved", "pushed_back", "none"}

(* The five stages of auto_generator and of _bootstrap_pipeline, in department d. *)
Seeded(d) ==
  [orders |-> 1..5 \cap Stages, parallel |-> {}, approval |-> {},
   gate |-> [o \in Stages |-> 0], dept |-> [o \in Stages |-> d]]

TypeOK ==
  /\ project \in [status : {"not_started", "active", "completed"}, current : 0..MaxStages]
  /\ template \in TemplateRows
  /\ stage \in [Stages -> StageStatuses]
  /\ approvals \in SUBSET Stages

Rows == {o \in Stages : stage[o] # "none"}

(* The template means nothing until the pipeline is started. *)
Init ==
  /\ project = [status |-> "not_started", current |-> 0]
  /\ \E d \in Depts : template = Seeded(d)
  /\ stage = [o \in Stages |-> "none"]
  /\ approvals = {}

---------------------------------------------------------------------------
(* Starting *)

Begin(t, done, active, current) ==
  /\ project.status = "not_started"
  /\ template' = t
  /\ stage' = [o \in Stages |-> IF o \notin t.orders THEN "none"
                               ELSE IF o \in active THEN "active"
                               ELSE IF o \in done THEN "approved" ELSE "pending"]
  /\ project' = [status |-> "active", current |-> current]
  /\ UNCHANGED approvals

(* Stage 1 begins, and stage 2 with it if it is parallel. *)
StartPipeline(t) ==
  /\ 1 \in t.orders
  /\ Begin(t, {}, {1} \cup (t.parallel \cap {2}), 1)

(* Without a template: a customer's project at stage 1, a task's where the task is. *)
SeedPipeline(d, k) ==
  k \in Seeded(d).orders /\ Begin(Seeded(d), 1..(k-1), {k}, k)

---------------------------------------------------------------------------
(* Passing on and pushing back *)

can_manage_pipeline(u, o) == u \in Managers \/ template.dept[o] \in Scope[u]
can_approve_stage(u, o) == u \in Leads \/ template.dept[o] \in Scope[u]

Current == project.current
AtWork == project.status = "active" /\ Current # 0 /\ stage[Current] = "active"

(* Mutant of GateCleared: a gate is open while its stage is being worked on. *)
GateClearedEarly(o) == template.gate[o] \in Rows => stage[template.gate[o]] \in {"active", "approved"}

GateCleared(o) == template.gate[o] \in Rows => stage[template.gate[o]] = "approved"

MayPass(o) == GateCleared(o) /\ (o \in template.approval => o \in approvals)

Next1(o) == {o + 1} \cap Rows

(* Mutant of Opened: a stage that was pushed back is not opened again. *)
OpenedOnce(o) ==
  {s \in Next1(o) \cup (IF Next1(o) \subseteq template.parallel THEN {p + 1 : p \in Next1(o)} \cap Rows ELSE {}) :
     stage[s] = "pending"}

(* The stages that begin when stage o is passed; a parallel one takes the one after
   it along. *)
Opened(o) == Next1(o) \cup (IF Next1(o) \subseteq template.parallel THEN {p + 1 : p \in Next1(o)} \cap Rows ELSE {})

(* To the stage after it, parallel or not: what the docstrings of advance_stage and
   push_back_stage say of going past parallel stages the code does not do. *)
Advance(u) ==
  LET o == Current
  IN  /\ AtWork /\ can_manage_pipeline(u, o) /\ MayPass(o)
      /\ stage' = [s \in Stages |-> CASE s = o -> "approved" [] s \in Opened(o) -> "active" [] OTHER -> stage[s]]
      /\ project' = IF Next1(o) = {} THEN [status |-> "completed", current |-> 0]
                    ELSE [project EXCEPT !.current = o + 1]
      /\ UNCHANGED <<template, approvals>>

(* Mutant of PushBack: the stage before it stays approved. *)
PushBackUnopened(u) ==
  LET o == Current
  IN  /\ AtWork /\ o # 1 /\ o - 1 \in Rows /\ can_manage_pipeline(u, o)
      /\ stage' = [stage EXCEPT ![o] = "pushed_back"]
      /\ project' = [project EXCEPT !.current = o - 1]
      /\ UNCHANGED <<template, approvals>>

(* To the stage before, parallel or not; its approval stands. *)
PushBack(u) ==
  LET o == Current
  IN  /\ AtWork /\ o # 1 /\ o - 1 \in Rows /\ can_manage_pipeline(u, o)
      /\ stage' = [stage EXCEPT ![o] = "pushed_back", ![o - 1] = "active"]
      /\ project' = [project EXCEPT !.current = o - 1]
      /\ UNCHANGED <<template, approvals>>

ApproveStage(u, o) ==
  /\ stage[o] = "active" /\ can_approve_stage(u, o)
  /\ approvals' = approvals \cup {o}
  /\ UNCHANGED <<project, template, stage>>

(* _check_project_completion: the last task of the project was archived.  It does
   not look at the stages, nor at whether the pipeline was started. *)
TasksDone ==
  /\ project' = [project EXCEPT !.status = "completed"]
  /\ UNCHANGED <<template, stage, approvals>>

Next ==
  \/ \E t \in Templates : StartPipeline(t)
  \/ \E d \in Depts, k \in Stages : SeedPipeline(d, k)
  \/ \E u \in Users : Advance(u)
  \/ \E u \in Users : PushBack(u)
  \/ \E u \in Users, o \in Stages : ApproveStage(u, o)
  \/ TasksDone

Spec == Init /\ [][Next]_vars

---------------------------------------------------------------------------
(* What must hold *)

(* While a pipeline runs somebody is at work on it: its current stage is active,
   every stage before it was passed and none after it was, however often it was
   pushed back and whichever stages run in parallel. *)
NothingSkipped ==
  project.status = "active" =>
    /\ Current \in Stages /\ stage[Current] = "active"
    /\ \A o \in Rows : stage[o] = "approved" <=> o < Current

(* A stage that was passed had its gate passed before it, and its approval
   recorded, and a push-back never takes the gate away from under it. *)
GatesHold ==
  \A o \in Stages :
    stage[o] = "approved" =>
      /\ template.gate[o] \in Rows => template.gate[o] < o /\ stage[template.gate[o]] = "approved"
      /\ o \in template.approval => o \in approvals

NoGap == \A o \in Rows : 1..o \subseteq Rows

(* A pipeline that ends by passing its last stage has passed them all, if its
   stages are numbered without a gap. *)
CompletedByStages ==
  [][project.status = "active" /\ project'.current = 0 /\ NoGap =>
       \A o \in Rows : stage'[o] = "approved"]_vars

(* A pipeline under way can always be passed on by someone: once its current
   stage is approved nothing keeps it, provided no stage is gated by itself or a
   later one. *)
GatesPointBack == \A o \in template.orders : template.gate[o] \in template.orders => template.gate[o] < o
CanGoOn == AtWork /\ GateCleared(Current)
NeverStuck == project.status = "active" /\ GatesPointBack => CanGoOn

(* The inductive invariant. *)
RowsFollowTemplate ==
  /\ project.status = "not_started" => Rows = {} /\ project.current = 0
  /\ Rows \subseteq template.orders
  /\ Current # 0 => Rows = template.orders
IInv == TypeOK /\ NothingSkipped /\ GatesHold /\ RowsFollowTemplate
=============================================================================
