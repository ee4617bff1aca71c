------------------------ MODULE ProjectPipelineProofs ------------------------
(***************************************************************************)
(* Theorems about ProjectPipeline, for any users, departments, templates   *)
(* and number of stages.                                                   *)
(***************************************************************************)
EXTENDS ProjectPipeline, TLAPS

(* Of a template only the type is assumed: orders may have gaps, gates point
   anywhere, any stage may be parallel. *)
LEMMA SeededType ==
  ASSUME NEW d \in Depts
  PROVE  /\ Seeded(d) \in TemplateRows
         /\ \A o \in Stages : Seeded(d).gate[o] = 0
         /\ Seeded(d).approval = {}
BY TemplateAssumption DEF Seeded, TemplateRows, Stages

(* Neither 0 nor anything past the last stage is a stage. *)
LEMMA StageNumbers ==
  /\ \A o \in Stages : o \in Nat /\ o # 0 /\ o >= 1 /\ o \in 0..MaxStages
  /\ 0 \in 0..MaxStages /\ 0 \notin Stages
BY TemplateAssumption DEF Stages

---------------------------------------------------------------------------
(* The handlers *)

(* A pipeline begins with the stages before the current one approved, and none of
   those is gated or needs an approval. *)
LEMMA BeginStep ==
  ASSUME IInv, NEW t \in TemplateRows, NEW k \in Stages, NEW active \in SUBSET Stages, NEW done \in SUBSET Nat,
         Begin(t, done, active, k), k \in t.orders, k \in active,
         \A o \in active : o >= k,
         \A o \in t.orders : o \in done <=> o < k,
         done # {} => t.approval = {} /\ \A o \in Stages : t.gate[o] = 0
  PROVE  IInv'
<1>. DEFINE f == [o \in Stages |-> IF o \notin t.orders THEN "none"
                                   ELSE IF o \in active THEN "active"
                                   ELSE IF o \in done THEN "approved" ELSE "pending"]
<1>1. stage' = f /\ template' = t /\ project' = [status |-> "active", current |-> k] /\ approvals' = approvals
  BY DEF Begin
<1>2. t.orders \subseteq Stages
  BY DEF TemplateRows
<1>3. \A o \in Stages : /\ f[o] \in StageStatuses
                        /\ f[o] # "none" <=> o \in t.orders
                        /\ f[o] = "approved" => o \in done /\ o \in t.orders /\ o \notin active
                        /\ o \in active /\ o \in t.orders => f[o] = "active"
                        /\ o \in done /\ o \in t.orders /\ o \notin active => f[o] = "approved"
  BY DEF StageStatuses
<1>. HIDE DEF f
<1>4. f \in [Stages -> StageStatuses]
  BY <1>3 DEF f
<1>5. Rows' = t.orders
  BY <1>1, <1>2, <1>3 DEF Rows
<1>6. TypeOK'
  BY <1>1, <1>4, StageNumbers DEF IInv, TypeOK
<1>7. NothingSkipped'
  <2>1. ASSUME NEW o \in t.orders PROVE f[o] = "approved" <=> o < k
    BY <1>2, <1>3, <2>1, StageNumbers
  <2>2. f[k] = "active"
    BY <1>3
  <2>. QED
    BY <1>1, <1>5, <2>1, <2>2 DEF NothingSkipped, Current
<1>8. GatesHold'
  <2>. SUFFICES ASSUME NEW o \in Stages, f[o] = "approved"
                PROVE  t.gate[o] \notin t.orders /\ o \notin t.approval
    BY <1>1, <1>5 DEF GatesHold
  <2>1. done # {}
    BY <1>3
  <2>. QED
    BY <1>2, <2>1, StageNumbers
<1>9. RowsFollowTemplate'
  BY <1>1, <1>5 DEF RowsFollowTemplate, Current
<1>. QED
  BY <1>6, <1>7, <1>8, <1>9 DEF IInv

LEMMA StartPipelineStep ==
  ASSUME IInv, NEW t \in Templates, StartPipeline(t)
  PROVE  IInv'
<1>1. t \in TemplateRows
  BY TemplateAssumption
<1>2. 1 \in Stages /\ t.orders \subseteq Stages /\ t.parallel \subseteq Stages
  BY <1>1 DEF StartPipeline, TemplateRows
<1>. DEFINE active == {1} \cup (t.parallel \cap {2})
<1>3. active \in SUBSET Stages /\ \A o \in active : o >= 1
  BY <1>2
<1>4. \A o \in t.orders : o \in {} <=> o < 1
  BY <1>2, StageNumbers
<1>5. Begin(t, {}, active, 1) /\ 1 \in t.orders
  BY DEF StartPipeline
<1>. HIDE DEF active
<1>6. 1 \in active
  BY DEF active
<1>. QED
  BY <1>1, <1>2, <1>3, <1>4, <1>5, <1>6, BeginStep

LEMMA SeedPipelineStep ==
  ASSUME IInv, NEW d \in Depts, NEW k \in Stages, SeedPipeline(d, k)
  PROVE  IInv'
<1>1. k \in Seeded(d).orders /\ Begin(Seeded(d), 1..(k-1), {k}, k)
  BY DEF SeedPipeline
<1>2. Seeded(d).orders \subseteq Stages
  BY SeededType DEF TemplateRows
<1>3. \A o \in Seeded(d).orders : o \in 1..(k-1) <=> o < k
  BY <1>2, StageNumbers
<1>4. /\ 1..(k-1) \in SUBSET Nat
      /\ {k} \in SUBSET Stages /\ k \in {k} /\ \A o \in {k} : o >= k
  BY StageNumbers
<1>5. Seeded(d) \in TemplateRows /\ Seeded(d).approval = {} /\ \A o \in Stages : Seeded(d).gate[o] = 0
  BY SeededType
<1>. DEFINE t == Seeded(d)
            done == 1..(k-1)
            active == {k}
<1>. HIDE DEF t, done, active
<1>6. /\ t \in TemplateRows /\ k \in t.orders /\ Begin(t, done, active, k)
      /\ \A o \in t.orders : o \in done <=> o < k
      /\ done \in SUBSET Nat /\ active \in SUBSET Stages /\ k \in active /\ \A o \in active : o >= k
      /\ t.approval = {} /\ \A o \in Stages : t.gate[o] = 0
  BY <1>1, <1>3, <1>4, <1>5 DEF t, done, active
<1>. QED
  BY <1>6, BeginStep

(* What a stage passed on leaves behind: it is approved, those it opens are active
   and come after it, and no other changes. *)
LEMMA AdvanceEffect ==
  ASSUME IInv, NEW u \in Users, Advance(u)
  PROVE  /\ Current \in Stages /\ Current \in Rows
         /\ stage' \in [Stages -> StageStatuses]
         /\ stage'[Current] = "approved"
         /\ \A s \in Stages : s < Current => stage'[s] = stage[s]
         /\ \A s \in Stages : s > Current => stage'[s] = stage[s] \/ stage'[s] = "active"
         /\ Current + 1 \in Rows => stage'[Current + 1] = "active"
         /\ Rows' = Rows
<1>1. Current \in Stages /\ stage[Current] = "active" /\ stage \in [Stages -> StageStatuses]
  BY DEF IInv, NothingSkipped, TypeOK, Advance, AtWork
<1>2. stage' = [s \in Stages |-> CASE s = Current -> "approved" [] s \in Opened(Current) -> "active" [] OTHER -> stage[s]]
  BY DEF Advance
<1>3. /\ Opened(Current) \subseteq Rows
      /\ \A s \in Opened(Current) : s > Current
      /\ Current + 1 \in Rows => Current + 1 \in Opened(Current)
  BY <1>1, StageNumbers DEF Opened, Next1, Rows
<1>4. \A s \in Stages : stage'[s] = CASE s = Current -> "approved" [] s \in Opened(Current) -> "active" [] OTHER -> stage[s]
  BY <1>2
<1>5. \A s \in Stages : s < Current => s # Current /\ s \notin Opened(Current)
  BY <1>1, <1>3, StageNumbers
<1>6. \A s \in Stages : s > Current => s # Current
  BY <1>1, StageNumbers
<1>7. Rows \subseteq Stages /\ Current \in Rows
  BY <1>1 DEF Rows
<1>8. stage' \in [Stages -> StageStatuses]
  BY <1>1, <1>2, <1>4 DEF StageStatuses
<1>9. \A s \in Stages : stage'[s] # "none" <=> stage[s] # "none"
  BY <1>1, <1>3, <1>4 DEF Rows
<1>10. Current + 1 \in Rows => stage'[Current + 1] = "active"
  BY <1>1, <1>3, <1>4, <1>6, <1>7, StageNumbers
<1>11. /\ stage'[Current] = "approved"
       /\ \A s \in Stages : s < Current => stage'[s] = stage[s]
       /\ \A s \in Stages : s > Current => stage'[s] = stage[s] \/ stage'[s] = "active"
  <2>1. Current \notin Opened(Current)
    BY <1>1, <1>3, StageNumbers
  <2>2. stage'[Current] = "approved"
    BY <1>1, <1>4, <2>1
  <2>3. ASSUME NEW s \in Stages, s < Current PROVE stage'[s] = stage[s]
    BY <1>4, <1>5, <2>3
  <2>4. ASSUME NEW s \in Stages, s > Current PROVE stage'[s] = stage[s] \/ stage'[s] = "active"
    BY <1>4, <1>6, <2>4
  <2>. QED
    BY <2>2, <2>3, <2>4
<1>12. Rows' = Rows
  BY <1>9 DEF Rows
<1>. QED
  BY <1>1, <1>7, <1>8, <1>10, <1>11, <1>12

LEMMA AdvanceStep ==
  ASSUME IInv, NEW u \in Users, Advance(u)
  PROVE  IInv'
<1>. DEFINE c == Current
<1>1. /\ c \in Stages /\ project.status = "active"
      /\ \A o \in Rows : stage[o] = "approved" <=> o < c
      /\ project \in [status : {"not_started", "active", "completed"}, current : 0..MaxStages]
      /\ Rows \subseteq Stages
  BY AdvanceEffect DEF IInv, NothingSkipped, TypeOK, Advance, AtWork, Rows
<1>2. /\ template' = template /\ approvals' = approvals
      /\ c + 1 \in Rows => project' = [project EXCEPT !.current = c + 1]
      /\ c + 1 \notin Rows => project' = [status |-> "completed", current |-> 0]
  BY DEF Advance, Next1
<1>3. \A o \in Rows : stage'[o] = "approved" <=> o < c + 1
  BY <1>1, AdvanceEffect, StageNumbers
<1>4. TypeOK'
  <2>1. project' \in [status : {"not_started", "active", "completed"}, current : 0..MaxStages]
    BY <1>1, <1>2, StageNumbers
  <2>. QED
    BY <1>2, <2>1, AdvanceEffect DEF IInv, TypeOK
<1>5. NothingSkipped'
  BY <1>1, <1>2, <1>3, AdvanceEffect DEF NothingSkipped, Current
<1>6. GatesHold'
  <2>. SUFFICES ASSUME NEW o \in Stages, stage'[o] = "approved"
                PROVE  /\ template.gate[o] \in Rows => template.gate[o] < o /\ stage'[template.gate[o]] = "approved"
                       /\ o \in template.approval => o \in approvals
    BY <1>2, AdvanceEffect DEF GatesHold
  <2>1. o \in Rows /\ o < c + 1
    BY <1>3, AdvanceEffect DEF Rows
  <2>2. CASE o = c
    <3>1. /\ template.gate[o] \in Rows => stage[template.gate[o]] = "approved"
          /\ o \in template.approval => o \in approvals
      BY <2>2 DEF Advance, MayPass, GateCleared
    <3>2. template.gate[o] \in Rows => template.gate[o] < o
      BY <1>1, <2>2, <3>1
    <3>. QED
      BY <1>1, <1>3, <2>2, <3>1, <3>2, StageNumbers
  <2>3. CASE o # c
    <3>1. stage[o] = "approved"
      BY <1>1, <2>1, <2>3, StageNumbers
    <3>2. /\ template.gate[o] \in Rows => template.gate[o] < o
          /\ o \in template.approval => o \in approvals
      BY <3>1 DEF IInv, GatesHold
    <3>. QED
      BY <1>1, <1>3, <2>1, <3>2, StageNumbers
  <2>. QED
    BY <2>2, <2>3
<1>7. RowsFollowTemplate'
  BY <1>1, <1>2, AdvanceEffect, StageNumbers DEF IInv, RowsFollowTemplate, Current
<1>. QED
  BY <1>4, <1>5, <1>6, <1>7 DEF IInv

LEMMA PushBackStep ==
  ASSUME IInv, NEW u \in Users, PushBack(u)
  PROVE  IInv'
<1>. DEFINE c == Current
<1>1. /\ c \in Stages /\ c - 1 \in Stages /\ c - 1 \in Rows /\ project.status = "active"
      /\ stage \in [Stages -> StageStatuses]
      /\ \A o \in Rows : stage[o] = "approved" <=> o < c
      /\ Rows \subseteq Stages
  BY DEF IInv, NothingSkipped, TypeOK, PushBack, AtWork, Rows
<1>2. /\ template' = template /\ approvals' = approvals
      /\ project' = [project EXCEPT !.current = c - 1]
      /\ stage' = [stage EXCEPT ![c] = "pushed_back", ![c - 1] = "active"]
  BY DEF PushBack
<1>3. c - 1 < c /\ c - 1 # c
  BY <1>1, StageNumbers
<1>4. /\ stage'[c] = "pushed_back" /\ stage'[c - 1] = "active"
      /\ \A o \in Stages : o # c /\ o # c - 1 => stage'[o] = stage[o]
      /\ stage' \in [Stages -> StageStatuses]
  BY <1>1, <1>2, <1>3 DEF StageStatuses
<1>5. Rows' = Rows
  BY <1>1, <1>4 DEF Rows, PushBack, AtWork
<1>6. \A o \in Rows : stage'[o] = "approved" <=> o < c - 1
  <2>. TAKE o \in Rows
  <2>1. CASE o = c
    BY <1>1, <1>4, <2>1, StageNumbers
  <2>2. CASE o = c - 1
    BY <1>1, <1>4, <2>2, StageNumbers
  <2>3. CASE o # c /\ o # c - 1
    BY <1>1, <1>4, <2>3, StageNumbers
  <2>. QED
    BY <2>1, <2>2, <2>3
<1>7. TypeOK'
  BY <1>1, <1>2, <1>4, StageNumbers DEF IInv, TypeOK
<1>8. NothingSkipped'
  BY <1>1, <1>2, <1>4, <1>5, <1>6 DEF IInv, TypeOK, NothingSkipped, Current
<1>9. GatesHold'
  <2>. SUFFICES ASSUME NEW o \in Stages, stage'[o] = "approved"
                PROVE  /\ template.gate[o] \in Rows => template.gate[o] < o /\ stage'[template.gate[o]] = "approved"
                       /\ o \in template.approval => o \in approvals
    BY <1>2, <1>5 DEF GatesHold
  <2>1. stage[o] = "approved" /\ o < c - 1
    BY <1>4, <1>5, <1>6 DEF Rows
  <2>2. /\ template.gate[o] \in Rows => template.gate[o] < o
        /\ o \in template.approval => o \in approvals
    BY <2>1 DEF IInv, GatesHold
  <2>. QED
    BY <1>1, <1>6, <2>1, <2>2, StageNumbers
<1>10. RowsFollowTemplate'
  BY <1>1, <1>2, <1>5, StageNumbers DEF IInv, RowsFollowTemplate, Current, TypeOK
<1>. QED
  BY <1>7, <1>8, <1>9, <1>10 DEF IInv

(* An approval is only ever added, and completion by tasks leaves stages alone. *)
LEMMA OtherSteps ==
  ASSUME IInv, \/ \E u \in Users, o \in Stages : ApproveStage(u, o)
               \/ TasksDone
               \/ UNCHANGED vars
  PROVE  IInv'
<1>1. /\ stage' = stage /\ template' = template /\ approvals \subseteq approvals' /\ approvals' \subseteq Stages
      /\ project' \in {project, [project EXCEPT !.status = "completed"]}
  BY DEF ApproveStage, TasksDone, vars, IInv, TypeOK
<1>2. Rows' = Rows
  BY <1>1 DEF Rows
<1>3. TypeOK'
  BY <1>1 DEF IInv, TypeOK
<1>4. NothingSkipped'
  BY <1>1, <1>2 DEF IInv, TypeOK, NothingSkipped, Current
<1>5. GatesHold'
  BY <1>1, <1>2 DEF IInv, GatesHold
<1>6. RowsFollowTemplate'
  BY <1>1, <1>2 DEF IInv, TypeOK, RowsFollowTemplate, Current
<1>. QED
  BY <1>3, <1>4, <1>5, <1>6 DEF IInv

---------------------------------------------------------------------------
(* The theorems *)

LEMMA InitHolds == Init => IInv
<1>. SUFFICES ASSUME Init PROVE IInv
  OBVIOUS
<1>1. Rows = {}
  BY DEF Init, Rows
<1>2. TypeOK
  BY SeededType, StageNumbers DEF Init, TypeOK, StageStatuses
<1>. QED
  BY <1>1, <1>2 DEF Init, IInv, NothingSkipped, GatesHold, RowsFollowTemplate, Current

LEMMA Inductive == IInv /\ [Next]_vars => IInv'
  BY StartPipelineStep, SeedPipelineStep, AdvanceStep, PushBackStep, OtherSteps DEF Next

(* Whatever is started, passed on, pushed back, approved or completed, the pipeline
   keeps the inductive invariant: types, NothingSkipped, GatesHold and rows that are
   those of the template. *)
THEOREM Safety == Spec => []IInv
  BY InitHolds, Inductive, PTL DEF Spec

(* The rows of projects, stages and approvals stay well formed. *)
THEOREM TypeCorrect == Spec => []TypeOK
<1>1. IInv => TypeOK
  BY DEF IInv
<1>. QED
  BY <1>1, Safety, PTL

(* However advance_stage and push_back_stage alternate, exactly the stages before
   the current one are approved, parallel or not. *)
THEOREM StagesInOrder == Spec => []NothingSkipped
<1>1. IInv => NothingSkipped
  BY DEF IInv
<1>. QED
  BY <1>1, Safety, PTL

(* A stage that advance_stage has passed keeps its gate and its approval. *)
THEOREM GatesKept == Spec => []GatesHold
<1>1. IInv => GatesHold
  BY DEF IInv
<1>. QED
  BY <1>1, Safety, PTL

(* With gates that point back, advance_stage never answers gate_not_cleared. *)
THEOREM NoDeadlock == Spec => []NeverStuck
<1>1. IInv => NeverStuck
  <2>. SUFFICES ASSUME IInv, project.status = "active", GatesPointBack
                PROVE  CanGoOn
    BY DEF NeverStuck
  <2>1. Current \in Stages /\ stage[Current] = "active" /\ \A o \in Rows : stage[o] = "approved" <=> o < Current
    BY DEF IInv, NothingSkipped
  <2>2. Current # 0 /\ Current \in Rows
    BY <2>1, StageNumbers DEF Rows
  <2>3. Current \in template.orders /\ Rows \subseteq template.orders
    BY <2>2 DEF IInv, RowsFollowTemplate
  <2>4. GateCleared(Current)
    BY <2>1, <2>3 DEF GateCleared, GatesPointBack
  <2>. QED
    BY <2>1, <2>2, <2>4 DEF CanGoOn, AtWork
<1>. QED
  BY <1>1, Safety, PTL

(* A pipeline without gaps that advance_stage ends has all its stages approved. *)
THEOREM EndsComplete == Spec => CompletedByStages
<1>1. IInv /\ [Next]_vars =>
        [project.status = "active" /\ project'.current = 0 /\ NoGap =>
           \A o \in Rows : stage'[o] = "approved"]_vars
  <2>. SUFFICES ASSUME IInv, [Next]_vars, project.status = "active", project'.current = 0, NoGap,
                       NEW o \in Rows
                PROVE  stage'[o] = "approved"
    OBVIOUS
  <2>1. Current # 0
    BY StageNumbers DEF IInv, NothingSkipped
  <2>2. PICK u \in Users : Advance(u)
    BY <2>1 DEF Next, StartPipeline, SeedPipeline, Begin, PushBack, ApproveStage, TasksDone, vars, IInv, TypeOK, Current
  <2>3. Current + 1 \notin Rows
    BY <2>2, AdvanceEffect, StageNumbers DEF Advance, Next1, IInv, TypeOK
  <2>4. o <= Current
    BY <2>2, <2>3, AdvanceEffect, StageNumbers DEF NoGap, Rows
  <2>5. CASE o = Current
    BY <2>2, <2>5, AdvanceEffect
  <2>6. CASE o < Current
    BY <2>2, <2>6, AdvanceEffect DEF IInv, NothingSkipped, Rows
  <2>. QED
    BY <2>2, <2>4, <2>5, <2>6, AdvanceEffect, StageNumbers DEF Rows
<1>. QED
  BY <1>1, Safety, PTL DEF Spec, CompletedByStages

---------------------------------------------------------------------------
(***************************************************************************)
(* Why ProjectPipeline leaves out start_graph_pipeline: no department      *)
(* workflow passes validation, so none is ever published.                  *)
(***************************************************************************)
CONSTANTS Groups, EdgeIds, None
VARIABLES edges, draft
W == INSTANCE WorkflowGraph

(* Whatever a search from the entries reaches is the head of some edge
   (find_reachable_departments). *)
LEMMA ReachedIsATarget ==
  ASSUME NEW g \in W!Graphs
  PROVE  W!find_reachable_departments(g) \subseteq W!to_set(g)
<1>1. W!to_set(g) \in SUBSET Depts
  BY DEF W!Graphs, W!Edge, W!to_set
<1>2. W!Closed(W!to_set(g), g)
  BY DEF W!Closed, W!to_set, W!entry_dept_ids
<1>. QED
  BY <1>1, <1>2 DEF W!find_reachable_departments

(* Rule 2, as find_terminal_departments reads it, asks for a department that no edge
   leads to; rule 6 wants every department reached: validate_workflow accepts
   nothing. *)
THEOREM NothingIsValid == \A g \in W!Graphs : ~ W!validate_workflow(g)
<1>. SUFFICES ASSUME NEW g \in W!Graphs, W!validate_workflow(g)
              PROVE  FALSE
  OBVIOUS
<1>1. PICK d : d \in W!from_set(g) /\ d \notin W!to_set(g)
  BY DEF W!validate_workflow, W!find_terminal_departments
<1>2. d \in W!find_reachable_departments(g)
  BY <1>1 DEF W!validate_workflow, W!OtherRules
<1>. QED
  BY <1>1, <1>2, ReachedIsATarget

Unpublished == W!TypeOK /\ draft

(* However a workflow is drawn, publish_workflow refuses it: start_graph_pipeline
   never finds one to start. *)
THEOREM NothingIsPublished == W!Spec => []Unpublished
<1>1. W!Init => Unpublished
  <2>. SUFFICES ASSUME W!Init PROVE edges \in W!Graphs
    BY DEF W!Init, Unpublished, W!TypeOK
  <2>1. edges \in [{} -> W!Edge] /\ {} \in SUBSET EdgeIds
    BY DEF W!Init
  <2>. QED
    BY <2>1 DEF W!Graphs
<1>2. Unpublished /\ [W!Next]_(W!vars) => Unpublished'
  <2>. SUFFICES ASSUME Unpublished, [W!Next]_(W!vars) PROVE Unpublished'
    OBVIOUS
  <2>0. PICK S \in SUBSET EdgeIds : edges \in [S -> W!Edge]
    BY DEF Unpublished, W!TypeOK, W!Graphs
  <2>1. ASSUME NEW i \in EdgeIds, NEW e \in W!Edge, W!AddEdge(i, e) PROVE Unpublished'
    <3>1. edges' \in [S \cup {i} -> W!Edge] /\ S \cup {i} \in SUBSET EdgeIds
      BY <2>0, <2>1 DEF W!AddEdge
    <3>. QED
      BY <2>1, <3>1 DEF W!AddEdge, Unpublished, W!TypeOK, W!Graphs
  <2>2. ASSUME NEW i \in DOMAIN edges, W!RemoveEdge(i) PROVE Unpublished'
    <3>1. edges' \in [S \ {i} -> W!Edge] /\ S \ {i} \in SUBSET EdgeIds
      BY <2>0, <2>2 DEF W!RemoveEdge
    <3>. QED
      BY <2>2, <3>1 DEF W!RemoveEdge, Unpublished, W!TypeOK, W!Graphs
  <2>3. ASSUME NEW i \in DOMAIN edges, NEW group \in Groups \cup {None}, NEW gate \in Groups \cup {None},
               W!UpdateEdge(i, group, gate)
        PROVE  Unpublished'
    <3>1. edges' \in [S -> W!Edge]
      BY <2>0, <2>3 DEF W!UpdateEdge, W!Edge
    <3>. QED
      BY <2>3, <3>1 DEF W!UpdateEdge, Unpublished, W!TypeOK, W!Graphs
  <2>4. ASSUME W!Publish PROVE FALSE
    BY <2>4, NothingIsValid DEF W!Publish, Unpublished, W!TypeOK
  <2>5. CASE UNCHANGED W!vars
    BY <2>5 DEF W!vars, Unpublished, W!TypeOK
  <2>. QED
    BY <2>1, <2>2, <2>3, <2>4, <2>5 DEF W!Next
<1>. QED
  BY <1>1, <1>2, PTL DEF W!Spec
=============================================================================
