------------------------- MODULE TaskWorkflowProofs -------------------------
(***************************************************************************)
(* Theorems about TaskWorkflow, and about TaskSessions, whose requests     *)
(* overlap, for every staff, number of departments and of routing rows.    *)
(***************************************************************************)
EXTENDS TaskSessions, TLAPS

(* The four invariants support one another only through TypeOK: each handler
   writes status, stage, approvals and routing consistently from a row of the
   right type. *)
IInv == TypeOK /\ ArchivedIsDualApproved /\ StageFollowsStatus /\ OneDepartmentHolds

LEMMA StageType ==
  ASSUME NEW st \in TASK_STATES
  PROVE  /\ STATUS_TO_PIPELINE_STAGE[st] \in PIPELINE_STAGES
         /\ STATUS_TO_PIPELINE_STAGE[st] =
              CASE st \in {"new", "assigned"} -> "backlog"
                [] st \in {"in_progress", "blocked"} -> "in_progress"
                [] st = "review" -> "review"
                [] st = "done" -> "unit_done"
                [] st = "archived" -> "archive"
BY DEF STATUS_TO_PIPELINE_STAGE, PIPELINE_STAGES, TASK_STATES

(* A request that nothing overtook leaves the row as it means to. *)
LEMMA WriteStored ==
  ASSUME TypeOK, NEW new \in Rows, Write(task, new)
  PROVE  task' = new
BY DEF Write, TypeOK, Rows

(* A handler that leaves the routing and the department alone keeps the invariant
   if it writes a stage that goes with the status and archives with both
   approvals. *)
LEMMA RowStep ==
  ASSUME IInv, NEW new \in Rows, Write(task, new), UNCHANGED <<routing, actions, waiting>>,
         new.dept = task.dept,
         new.status = "archived" => new.confirmed /\ new.approved,
         new.stage \in {STATUS_TO_PIPELINE_STAGE[new.status], "backlog"}
  PROVE  IInv'
<1>1. task' = new
  BY WriteStored DEF IInv
<1>2. TypeOK'
  BY <1>1 DEF IInv, TypeOK
<1>3. ArchivedIsDualApproved' /\ StageFollowsStatus'
  BY <1>1 DEF ArchivedIsDualApproved, StageFollowsStatus
<1>4. OneDepartmentHolds'
  BY <1>1 DEF IInv, OneDepartmentHolds, Current
<1> QED  BY <1>2, <1>3, <1>4 DEF IInv

---------------------------------------------------------------------------
(* The handlers *)

LEMMA UpdateStatusStep ==
  ASSUME IInv, NEW u \in Users, NEW new \in TASK_STATES, UpdateStatus(task, u, new)
  PROVE  IInv'
<1> DEFINE who == IF new = "in_progress" /\ task.assignee = None THEN u ELSE task.assignee
           row == [task EXCEPT !.status = new, !.stage = STATUS_TO_PIPELINE_STAGE[new], !.assignee = who]
<1>1. row \in Rows /\ row.dept = task.dept /\ row.status = new
      /\ row.stage = STATUS_TO_PIPELINE_STAGE[new]
      /\ row.confirmed = task.confirmed /\ row.approved = task.approved
  BY StageType DEF IInv, TypeOK, Rows
<1>2. Write(task, row) /\ UNCHANGED <<routing, actions, waiting>>
      /\ (new = "archived" => task.confirmed /\ task.approved)
  BY DEF UpdateStatus
<1> QED  BY <1>1, <1>2, RowStep

LEMMA AssignmentStep ==
  ASSUME IInv, NEW u \in Users, NEW a \in Users,
         AssignTask(task, routing, u, a) \/ ReassignTask(task, u, a) \/ ForwardTask(task, u, a)
  PROVE  IInv'
<1>1. CASE AssignTask(task, routing, u, a)
  <2> DEFINE row == [task EXCEPT !.assignee = a, !.status = "assigned", !.stage = "backlog"]
  <2>1. row \in Rows /\ row.dept = task.dept /\ row.status = "assigned" /\ row.stage = "backlog"
    BY DEF IInv, TypeOK, Rows, TASK_STATES, PIPELINE_STAGES
  <2>2. Write(task, row) /\ UNCHANGED <<routing, actions, waiting>>
    BY <1>1 DEF AssignTask
  <2> QED  BY <2>1, <2>2, RowStep
<1>2. CASE ReassignTask(task, u, a) \/ ForwardTask(task, u, a)
  <2> DEFINE row == [task EXCEPT !.assignee = a]
  <2>1. row \in Rows /\ row.dept = task.dept /\ row.status = task.status /\ row.stage = task.stage
        /\ row.confirmed = task.confirmed /\ row.approved = task.approved
    BY DEF IInv, TypeOK, Rows
  <2>2. Write(task, row) /\ UNCHANGED <<routing, actions, waiting>>
    BY <1>2 DEF ReassignTask, ForwardTask
  <2> QED  BY <2>1, <2>2, RowStep DEF IInv, ArchivedIsDualApproved, StageFollowsStatus
<1> QED  BY <1>1, <1>2

LEMMA PushBackStep ==
  ASSUME IInv, NEW u \in Users, NEW a \in Users \cup {task.assignee}, PushBack(task, u, a)
  PROVE  IInv'
<1> DEFINE row == [task EXCEPT !.assignee = a, !.stage = "in_progress", !.status = "in_progress",
                               !.confirmed = FALSE]
<1>1. row \in Rows /\ row.dept = task.dept /\ row.status = "in_progress" /\ row.stage = "in_progress"
  BY DEF IInv, TypeOK, Rows, TASK_STATES, PIPELINE_STAGES
<1>2. Write(task, row) /\ UNCHANGED <<routing, actions, waiting>>
  BY DEF PushBack
<1>3. STATUS_TO_PIPELINE_STAGE["in_progress"] = "in_progress"
  BY DEF STATUS_TO_PIPELINE_STAGE, TASK_STATES
<1> QED  BY <1>1, <1>2, <1>3, RowStep

LEMMA ApprovalStep ==
  ASSUME IInv, NEW u \in Users,
         MarkDone(task, u) \/ ApproveDone(task, u) \/ RejectDone(task, u) \/ ReopenTask(task, u)
  PROVE  IInv'
<1>0. /\ STATUS_TO_PIPELINE_STAGE["in_progress"] = "in_progress"
      /\ STATUS_TO_PIPELINE_STAGE["done"] = "unit_done"
      /\ STATUS_TO_PIPELINE_STAGE["archived"] = "archive"
  BY DEF STATUS_TO_PIPELINE_STAGE, TASK_STATES
<1>1. CASE MarkDone(task, u)
  <2> DEFINE row == [task EXCEPT !.confirmed = TRUE, !.stage = "unit_done", !.status = "done"]
  <2>1. row \in Rows /\ row.dept = task.dept /\ row.status = "done" /\ row.stage = "unit_done"
    BY DEF IInv, TypeOK, Rows, TASK_STATES, PIPELINE_STAGES
  <2>2. Write(task, row) /\ UNCHANGED <<routing, actions, waiting>>
    BY <1>1 DEF MarkDone
  <2> QED  BY <1>0, <2>1, <2>2, RowStep
<1>2. CASE ApproveDone(task, u)
  <2> DEFINE row == [task EXCEPT !.approved = TRUE, !.stage = "archive", !.status = "archived"]
  <2>1. row \in Rows /\ row.dept = task.dept /\ row.status = "archived" /\ row.stage = "archive"
        /\ row.approved /\ row.confirmed = task.confirmed
    BY DEF IInv, TypeOK, Rows, TASK_STATES, PIPELINE_STAGES
  <2>2. Write(task, row) /\ UNCHANGED <<routing, actions, waiting>> /\ task.confirmed
    BY <1>2 DEF ApproveDone
  <2> QED  BY <1>0, <2>1, <2>2, RowStep
<1>3. CASE RejectDone(task, u)
  <2> DEFINE row == [task EXCEPT !.confirmed = FALSE, !.stage = "in_progress", !.status = "in_progress"]
  <2>1. row \in Rows /\ row.dept = task.dept /\ row.status = "in_progress" /\ row.stage = "in_progress"
    BY DEF IInv, TypeOK, Rows, TASK_STATES, PIPELINE_STAGES
  <2>2. Write(task, row) /\ UNCHANGED <<routing, actions, waiting>>
    BY <1>3 DEF RejectDone
  <2> QED  BY <1>0, <2>1, <2>2, RowStep
<1>4. CASE ReopenTask(task, u)
  <2> DEFINE row == [task EXCEPT !.stage = "in_progress", !.status = "in_progress",
                                 !.confirmed = FALSE, !.approved = FALSE]
  <2>1. row \in Rows /\ row.dept = task.dept /\ row.status = "in_progress" /\ row.stage = "in_progress"
    BY DEF IInv, TypeOK, Rows, TASK_STATES, PIPELINE_STAGES
  <2>2. Write(task, row) /\ UNCHANGED <<routing, actions, waiting>>
    BY <1>4 DEF ReopenTask
  <2> QED  BY <1>0, <2>1, <2>2, RowStep
<1> QED  BY <1>1, <1>2, <1>3, <1>4

LEMMA DeletionStep ==
  ASSUME IInv, NEW u \in Users, SoftDelete(task, u) \/ RestoreTask(task, u) \/ PurgeTask(task, u)
  PROVE  IInv'
<1>1. CASE SoftDelete(task, u)
  <2> DEFINE row == [task EXCEPT !.life = "deleted"]
  <2>1. row \in Rows /\ row.dept = task.dept /\ row.status = task.status /\ row.stage = task.stage
        /\ row.confirmed = task.confirmed /\ row.approved = task.approved
    BY DEF IInv, TypeOK, Rows
  <2>2. Write(task, row) /\ UNCHANGED <<routing, actions, waiting>>
    BY <1>1 DEF SoftDelete
  <2> QED  BY <2>1, <2>2, RowStep DEF IInv, ArchivedIsDualApproved, StageFollowsStatus
<1>2. CASE RestoreTask(task, u)
  <2> DEFINE row == [task EXCEPT !.life = "live", !.stage = "backlog"]
  <2>1. row \in Rows /\ row.dept = task.dept /\ row.status = task.status /\ row.stage = "backlog"
        /\ row.confirmed = task.confirmed /\ row.approved = task.approved
    BY DEF IInv, TypeOK, Rows, PIPELINE_STAGES
  <2>2. Write(task, row) /\ UNCHANGED <<routing, actions, waiting>>
    BY <1>2 DEF RestoreTask
  <2> QED  BY <2>1, <2>2, RowStep DEF IInv, ArchivedIsDualApproved
<1>3. CASE PurgeTask(task, u)
  <2>1. /\ task' = [task EXCEPT !.life = "purged"] /\ routing' = <<>>
        /\ UNCHANGED <<actions, waiting>>
    BY <1>3 DEF PurgeTask
  <2>2. TypeOK'
    BY <2>1 DEF IInv, TypeOK, Rows
  <2>3. ArchivedIsDualApproved' /\ StageFollowsStatus'
    BY <2>1 DEF IInv, TypeOK, Rows, ArchivedIsDualApproved, StageFollowsStatus
  <2>4. OneDepartmentHolds'
    BY <2>1 DEF OneDepartmentHolds
  <2> QED  BY <2>2, <2>3, <2>4 DEF IInv
<1> QED  BY <1>1, <1>2, <1>3

(* The one current routing row, and the rows numbered as entered: forwarding
   closes it and opens the next, returning opens the one before it. *)
LEMMA ForwardDeptStep ==
  ASSUME IInv, NEW u \in Users, NEW d \in Depts, ForwardDept(task, routing, u, d)
  PROVE  IInv'
<1> DEFINE n   == Len(routing)
           hop == [dept |-> d, order |-> n + 1, current |-> TRUE]
           row == [task EXCEPT !.dept = d, !.assignee = None, !.stage = "backlog"]
<1>1. /\ routing \in Seq(Hops) /\ n \in Nat /\ n < MaxHops /\ DOMAIN routing = 1..n
      /\ routing' = Append(Closed(Current(routing)), hop)
      /\ Write(task, row) /\ UNCHANGED <<actions, waiting>>
  BY DEF ForwardDept, IInv, TypeOK
<1>2. /\ row \in Rows /\ row.dept = d /\ row.status = task.status /\ row.stage = "backlog"
      /\ row.confirmed = task.confirmed /\ row.approved = task.approved
  BY DEF IInv, TypeOK, Rows, PIPELINE_STAGES
<1>3. task' = row
  BY <1>1, <1>2, WriteStored DEF IInv
<1>4. hop \in Hops
  BY <1>1, StaffAssumption DEF Hops
<1>5. /\ Closed(Current(routing)) \in Seq(Hops) /\ Len(Closed(Current(routing))) = n
      /\ \A i \in 1..n : /\ Closed(Current(routing))[i].order = routing[i].order
                         /\ ~ Closed(Current(routing))[i].current
  <2>1. \A i \in 1..n : Closed(Current(routing))[i] =
          IF i \in Current(routing) THEN [routing[i] EXCEPT !.current = FALSE] ELSE routing[i]
    BY <1>1 DEF Closed
  <2>2. \A i \in 1..n : routing[i] \in Hops
    BY <1>1
  <2>3. \A i \in 1..n : Closed(Current(routing))[i] \in Hops
    BY <2>1, <2>2 DEF Hops
  <2>4. Closed(Current(routing)) \in [1..n -> Hops]
    BY <1>1, <2>3 DEF Closed
  <2>5. \A i \in 1..n : /\ Closed(Current(routing))[i].order = routing[i].order
                        /\ ~ Closed(Current(routing))[i].current
    BY <1>1, <2>1, <2>2 DEF Hops, Current
  <2>6. Closed(Current(routing)) \in Seq(Hops)
    BY <1>1, <2>4
  <2> QED  BY <1>1, <2>4, <2>5, <2>6
<1>6. /\ routing' \in Seq(Hops) /\ DOMAIN routing' = 1..(n + 1) /\ routing'[n + 1] = hop
      /\ \A i \in 1..n : routing'[i] = Closed(Current(routing))[i]
  BY <1>1, <1>4, <1>5
<1>7. TypeOK'
  BY <1>1, <1>2, <1>3, <1>6 DEF IInv, TypeOK
<1>8. ArchivedIsDualApproved' /\ StageFollowsStatus'
  BY <1>2, <1>3 DEF IInv, ArchivedIsDualApproved, StageFollowsStatus
<1>9. OneDepartmentHolds'
  <2>1. \A i \in 1..n : routing[i].order = i
    BY <1>1 DEF IInv, OneDepartmentHolds
  <2>2. \A i \in 1..(n + 1) : routing'[i].order = i
    BY <1>1, <1>5, <1>6, <2>1
  <2>3. Current(routing)' = {n + 1}
    <3>1. \A i \in 1..n : ~ routing'[i].current
      BY <1>5, <1>6
    <3>2. routing'[n + 1].current
      BY <1>6
    <3>3. \A i \in 1..(n + 1) : i \in 1..n \/ i = n + 1
      BY <1>1
    <3>4. n + 1 \in 1..(n + 1)
      BY <1>1
    <3> HIDE DEF n, hop
    <3> QED  BY <1>6, <3>1, <3>2, <3>3, <3>4 DEF Current
  <2>4. routing'[n + 1].dept = task'.dept
    BY <1>2, <1>3, <1>6
  <2>5. n + 1 \in 1..(n + 1)
    BY <1>1
  <2> HIDE DEF n
  <2> QED  BY <1>6, <2>2, <2>3, <2>4, <2>5 DEF OneDepartmentHolds
<1> QED  BY <1>7, <1>8, <1>9 DEF IInv

LEMMA ReturnDeptStep ==
  ASSUME IInv, NEW u \in Users, ReturnDept(task, routing, u)
  PROVE  IInv'
<1>1. PICK i \in Current(routing), j \in DOMAIN routing \ Current(routing) :
        /\ routing' = [Closed({i}) EXCEPT ![j].current = TRUE]
        /\ Write(task, [task EXCEPT !.dept = routing[j].dept, !.assignee = None,
                                    !.stage = "in_progress", !.status = "in_progress"])
  BY DEF ReturnDept
<1> DEFINE n   == Len(routing)
           row == [task EXCEPT !.dept = routing[j].dept, !.assignee = None,
                               !.stage = "in_progress", !.status = "in_progress"]
<1>2. /\ routing \in Seq(Hops) /\ n \in Nat /\ DOMAIN routing = 1..n /\ routing # <<>>
      /\ i \in 1..n /\ j \in 1..n /\ i # j
  BY <1>1 DEF IInv, TypeOK, Current
<1>3. Current(routing) = {i} /\ \A k \in 1..n : routing[k].order = k
  BY <1>1, <1>2 DEF IInv, OneDepartmentHolds
<1>4. \A k \in 1..n : routing[k] \in Hops
  BY <1>2
<1>5. /\ row \in Rows /\ row.dept = routing[j].dept
      /\ row.status = "in_progress" /\ row.stage = "in_progress"
  BY <1>2, <1>4 DEF IInv, TypeOK, Rows, Hops, TASK_STATES, PIPELINE_STAGES
<1>6. task' = row /\ UNCHANGED <<actions, waiting>>
  BY <1>1, <1>5, WriteStored DEF IInv, ReturnDept
<1>7. /\ routing' \in [1..n -> Hops]
      /\ routing'[j] = [routing[j] EXCEPT !.current = TRUE]
      /\ routing'[i] = [routing[i] EXCEPT !.current = FALSE]
      /\ \A k \in 1..n \ {i, j} : routing'[k] = routing[k]
  BY <1>1, <1>2, <1>4 DEF Closed, Hops
<1>8. TypeOK'
  BY <1>2, <1>5, <1>6, <1>7 DEF IInv, TypeOK
<1>9. ArchivedIsDualApproved' /\ StageFollowsStatus'
  <2>1. STATUS_TO_PIPELINE_STAGE["in_progress"] = "in_progress"
    BY DEF STATUS_TO_PIPELINE_STAGE, TASK_STATES
  <2> QED  BY <1>5, <1>6, <2>1 DEF ArchivedIsDualApproved, StageFollowsStatus
<1>10. OneDepartmentHolds'
  <2>1. DOMAIN routing' = 1..n
    BY <1>7
  <2>2. Current(routing)' = {j}
    <3>1. \A k \in 1..n : routing[k].current <=> k = i
      BY <1>2, <1>3 DEF Current
    <3>2. routing'[j].current /\ ~ routing'[i].current
      BY <1>2, <1>4, <1>7 DEF Hops
    <3>3. \A k \in 1..n \ {j} : ~ routing'[k].current
      BY <1>7, <3>1, <3>2
    <3> QED  BY <1>2, <2>1, <3>2, <3>3 DEF Current
  <2>3. routing'[j].dept = task'.dept
    BY <1>2, <1>4, <1>5, <1>6, <1>7 DEF Hops
  <2>4. \A k \in 1..n : routing'[k].order = k
    BY <1>2, <1>3, <1>4, <1>7 DEF Hops
  <2> QED  BY <1>2, <2>1, <2>2, <2>3, <2>4 DEF OneDepartmentHolds
<1> QED  BY <1>8, <1>9, <1>10 DEF IInv

---------------------------------------------------------------------------
(* The theorems *)

LEMMA InitIInv == Init => IInv
<1> SUFFICES ASSUME Init PROVE IInv
  OBVIOUS
<1>0. /\ STATUS_TO_PIPELINE_STAGE["new"] = "backlog" /\ STATUS_TO_PIPELINE_STAGE["assigned"] = "backlog"
      /\ 1 \in 1..MaxHops
  BY StaffAssumption DEF STATUS_TO_PIPELINE_STAGE, TASK_STATES
<1>1. /\ \E st \in {"new", "assigned"}, a \in Users \cup {None}, d \in Depts, sc \in {"internal", "external"} :
           task = FirstRow(st, a, d, sc)
      /\ routing = <<>> \/ routing = <<[dept |-> task.dept, order |-> 1, current |-> TRUE]>>
  BY StaffAssumption DEF Init, CreatedInternal, CreatedExternal, Cloned, FirstRow
<1>2. /\ task \in Rows /\ task.status \in {"new", "assigned"} /\ task.stage = "backlog"
  BY <1>0, <1>1 DEF FirstRow, Rows, TASK_STATES, PIPELINE_STAGES
<1>3. TypeOK
  <2>1. [dept |-> task.dept, order |-> 1, current |-> TRUE] \in Hops
    BY <1>0, <1>2 DEF Rows, Hops
  <2>2. routing \in Seq(Hops)
    <3> DEFINE hop == [dept |-> task.dept, order |-> 1, current |-> TRUE]
    <3>1. hop \in Hops
      BY <2>1
    <3> HIDE DEF hop
    <3>2. <<>> \in Seq(Hops) /\ <<hop>> \in Seq(Hops)
      BY <3>1
    <3> QED  BY <1>1, <3>2 DEF hop
  <2> QED  BY <1>2, <2>2 DEF Init, TypeOK
<1>4. ArchivedIsDualApproved /\ StageFollowsStatus
  BY <1>2 DEF ArchivedIsDualApproved, StageFollowsStatus
<1>5. OneDepartmentHolds
  <2>1. CASE routing = <<>>
    BY <2>1 DEF OneDepartmentHolds
  <2>2. CASE routing = <<[dept |-> task.dept, order |-> 1, current |-> TRUE]>>
    <3>1. DOMAIN routing = {1} /\ routing[1] = [dept |-> task.dept, order |-> 1, current |-> TRUE]
      BY <2>2
    <3>2. Current(routing) = {1}
      BY <3>1 DEF Current
    <3> QED  BY <3>1, <3>2 DEF OneDepartmentHolds
  <2> QED  BY <1>1, <2>1, <2>2
<1> QED  BY <1>3, <1>4, <1>5 DEF IInv

LEMMA AroundStep ==
  ASSUME IInv, Around PROVE IInv'
<1>1. /\ task' = task /\ routing' = routing
      /\ actions' \in BOOLEAN /\ waiting' \in BOOLEAN
  BY DEF Around, AddAction, ResolveAction, Dependencies, IInv, TypeOK
<1> QED  BY <1>1 DEF IInv, TypeOK, ArchivedIsDualApproved, StageFollowsStatus, OneDepartmentHolds, Current

LEMMA HandleStep ==
  ASSUME IInv, NEW u \in Users, Handle(task, routing, u)
  PROVE  IInv'
<1>1. CASE \E new \in TASK_STATES : UpdateStatus(task, u, new)
  BY <1>1, UpdateStatusStep
<1>2. CASE \E a \in Users : AssignTask(task, routing, u, a) \/ ReassignTask(task, u, a) \/ ForwardTask(task, u, a)
  BY <1>2, AssignmentStep
<1>3. CASE \E a \in Users \cup {task.assignee} : PushBack(task, u, a)
  BY <1>3, PushBackStep
<1>4. CASE \E d \in Depts : ForwardDept(task, routing, u, d)
  BY <1>4, ForwardDeptStep
<1>5. CASE ReturnDept(task, routing, u)
  BY <1>5, ReturnDeptStep
<1>6. CASE MarkDone(task, u) \/ ApproveDone(task, u) \/ RejectDone(task, u) \/ ReopenTask(task, u)
  BY <1>6, ApprovalStep
<1>7. CASE SoftDelete(task, u) \/ RestoreTask(task, u) \/ PurgeTask(task, u)
  BY <1>7, DeletionStep
<1> QED  BY <1>1, <1>2, <1>3, <1>4, <1>5, <1>6, <1>7 DEF Handle

(* Whatever requests are made of a task, in whatever order but one after the other,
   every invariant of TaskWorkflow holds. *)
THEOREM Safety == Spec => []IInv
<1>1. IInv /\ [Next]_vars => IInv'
  <2> SUFFICES ASSUME IInv, [Next]_vars PROVE IInv'
    OBVIOUS
  <2>1. CASE \E u \in Users : Handle(task, routing, u)
    BY <2>1, HandleStep
  <2>2. CASE Around
    BY <2>2, AroundStep
  <2>3. CASE UNCHANGED vars
    BY <2>3 DEF vars, IInv, TypeOK, ArchivedIsDualApproved, StageFollowsStatus, OneDepartmentHolds, Current
  <2> QED  BY <2>1, <2>2, <2>3 DEF Next
<1> QED  BY <1>1, InitIInv, PTL DEF Spec

(* The rows of tasks and task_department_routing stay well formed. *)
THEOREM TypeCorrect == Spec => []TypeOK
BY Safety, PTL DEF IInv

(* "No archive without dual approval": no request archives a task that does not
   bear both approvals. *)
THEOREM DualApproval == Spec => []ArchivedIsDualApproved
BY Safety, PTL DEF IInv

(* The board shows a task in the column of its status, or in the backlog. *)
THEOREM BoardFollows == Spec => []StageFollowsStatus
BY Safety, PTL DEF IInv

(* A task that is routed is in one department, the one it shows, however often it
   is forwarded and returned. *)
THEOREM OneDepartment == Spec => []OneDepartmentHolds
BY Safety, PTL DEF IInv

---------------------------------------------------------------------------
(***************************************************************************)
(* TaskSessions: one request acts on a row and a routing it read before    *)
(* others committed.  Of what was read only this can be relied on: the     *)
(* routing rows it saw are still there, for the same departments, because  *)
(* rows are added and closed but not taken out, until the task is purged   *)
(* and nothing can be written to it any more.                              *)
(***************************************************************************)
SameHops(rt) ==
  Len(rt) <= Len(routing) /\ \A i \in DOMAIN rt : rt[i].dept = routing[i].dept

SInv ==
  /\ STypeOK
  /\ HistoryKnowsDepartment
  /\ task.life = "purged" => routing = <<>>
  /\ slow # Idle /\ slow.at = "routing" /\ task.life # "purged" => SameHops(slow.routing)

(* A write of columns read earlier leaves a row of the right type; a department
   it means to leave alone stays the one that is stored. *)
LEMMA StaleWrite ==
  ASSUME TypeOK, NEW t \in Rows, NEW new \in Rows, Write(t, new),
         new.life \in {t.life, "live", "deleted"}
  PROVE  /\ task' \in Rows /\ task.life # "purged" /\ task'.life # "purged"
         /\ task'.dept = IF new.dept = t.dept THEN task.dept ELSE new.dept
         /\ task'.status = IF new.status = t.status THEN task.status ELSE new.status
BY DEF Write, TypeOK, Rows

(* What a handler may do, whatever row t and routing rt it acts on: only the two
   that route touch the department, and only the status machine blocks. *)
Unblocking(t, new) == new.status \in {t.status} \cup (TASK_STATES \ {"blocked"})
WritesRow(t) ==
  \E new \in Rows :
    /\ Write(t, new) /\ routing' = routing
    /\ new.dept = t.dept /\ new.life \in {t.life, "live", "deleted"}
    /\ task.life = "live" \/ Unblocking(t, new)
Forwards(t, rt) ==
  \E new \in Rows, d \in Depts :
    /\ Write(t, new) /\ new.dept = d /\ d # t.dept /\ new.life = t.life /\ Unblocking(t, new)
    /\ Len(rt) < MaxHops
    /\ routing' = Append(Closed(Current(rt)), [dept |-> d, order |-> Len(rt) + 1, current |-> TRUE])
Returns(t, rt) ==
  \E new \in Rows, i \in DOMAIN rt, j \in DOMAIN rt :
    /\ Write(t, new) /\ new.dept = rt[j].dept /\ new.life = t.life /\ Unblocking(t, new)
    /\ routing' = [Closed({i}) EXCEPT ![j].current = TRUE]
Purges == task' = [task EXCEPT !.life = "purged"] /\ routing' = <<>>

LEMMA HandleEffect ==
  ASSUME TypeOK, NEW t \in Rows, NEW rt \in Seq(Hops), NEW u \in Users, Handle(t, rt, u)
  PROVE  /\ WritesRow(t) \/ Forwards(t, rt) \/ Returns(t, rt) \/ Purges
         /\ UNCHANGED <<actions, waiting>>
<1>1. CASE \E new \in TASK_STATES : UpdateStatus(t, u, new)
  <2>1. PICK new \in TASK_STATES : UpdateStatus(t, u, new)
    BY <1>1
  <2> DEFINE who == IF new = "in_progress" /\ t.assignee = None THEN u ELSE t.assignee
             row == [t EXCEPT !.status = new, !.stage = STATUS_TO_PIPELINE_STAGE[new], !.assignee = who]
  <2>2. row \in Rows /\ row.dept = t.dept /\ row.life = t.life
    BY StageType DEF Rows
  <2>3. Write(t, row) /\ UNCHANGED <<routing, actions, waiting>> /\ task.life = "live"
    BY <2>1 DEF UpdateStatus
  <2> QED  BY <2>2, <2>3 DEF WritesRow
<1>2. CASE \E a \in Users : AssignTask(t, rt, u, a)
  <2>1. PICK a \in Users : AssignTask(t, rt, u, a)
    BY <1>2
  <2> DEFINE row == [t EXCEPT !.assignee = a, !.status = "assigned", !.stage = "backlog"]
  <2>2. row \in Rows /\ row.dept = t.dept /\ row.life = t.life /\ Unblocking(t, row)
    BY DEF Rows, TASK_STATES, PIPELINE_STAGES, Unblocking
  <2>3. Write(t, row) /\ UNCHANGED <<routing, actions, waiting>>
    BY <2>1 DEF AssignTask
  <2> QED  BY <2>2, <2>3 DEF WritesRow
<1>3. CASE \E a \in Users : ReassignTask(t, u, a) \/ ForwardTask(t, u, a)
  <2>1. PICK a \in Users : ReassignTask(t, u, a) \/ ForwardTask(t, u, a)
    BY <1>3
  <2> DEFINE row == [t EXCEPT !.assignee = a]
  <2>2. row \in Rows /\ row.dept = t.dept /\ row.life = t.life /\ Unblocking(t, row)
    BY DEF Rows, Unblocking
  <2>3. Write(t, row) /\ UNCHANGED <<routing, actions, waiting>>
    BY <2>1 DEF ReassignTask, ForwardTask
  <2> QED  BY <2>2, <2>3 DEF WritesRow
<1>4. CASE \E a \in Users \cup {t.assignee} : PushBack(t, u, a)
  <2>1. PICK a \in Users \cup {t.assignee} : PushBack(t, u, a)
    BY <1>4
  <2> DEFINE row == [t EXCEPT !.assignee = a, !.stage = "in_progress", !.status = "in_progress",
                              !.confirmed = FALSE]
  <2>2. row \in Rows /\ row.dept = t.dept /\ row.life = t.life /\ Unblocking(t, row)
    BY DEF Rows, TASK_STATES, PIPELINE_STAGES, Unblocking
  <2>3. Write(t, row) /\ UNCHANGED <<routing, actions, waiting>>
    BY <2>1 DEF PushBack
  <2> QED  BY <2>2, <2>3 DEF WritesRow
<1>5. CASE \E d \in Depts : ForwardDept(t, rt, u, d)
  <2>1. PICK d \in Depts : ForwardDept(t, rt, u, d)
    BY <1>5
  <2> DEFINE row == [t EXCEPT !.dept = d, !.assignee = None, !.stage = "backlog"]
  <2>2. row \in Rows /\ row.dept = d /\ row.life = t.life /\ Unblocking(t, row)
    BY DEF Rows, PIPELINE_STAGES, Unblocking
  <2>3. /\ Write(t, row) /\ d # t.dept /\ Len(rt) < MaxHops /\ UNCHANGED <<actions, waiting>>
        /\ routing' = Append(Closed(Current(rt)), [dept |-> d, order |-> Len(rt) + 1, current |-> TRUE])
    BY <2>1 DEF ForwardDept
  <2> QED  BY <2>2, <2>3 DEF Forwards
<1>6. CASE ReturnDept(t, rt, u)
  <2>1. PICK i \in Current(rt), j \in DOMAIN rt \ Current(rt) :
          /\ routing' = [Closed({i}) EXCEPT ![j].current = TRUE]
          /\ Write(t, [t EXCEPT !.dept = rt[j].dept, !.assignee = None,
                                !.stage = "in_progress", !.status = "in_progress"])
    BY <1>6 DEF ReturnDept
  <2> DEFINE row == [t EXCEPT !.dept = rt[j].dept, !.assignee = None,
                              !.stage = "in_progress", !.status = "in_progress"]
  <2>2. rt[j] \in Hops /\ i \in DOMAIN rt /\ j \in DOMAIN rt
    BY <2>1 DEF Current
  <2>3. row \in Rows /\ row.dept = rt[j].dept /\ row.life = t.life /\ Unblocking(t, row)
    BY <2>2 DEF Hops, Rows, TASK_STATES, PIPELINE_STAGES, Unblocking
  <2>4. UNCHANGED <<actions, waiting>>
    BY <1>6 DEF ReturnDept
  <2> QED  BY <2>1, <2>2, <2>3, <2>4 DEF Returns
<1>7. CASE MarkDone(t, u)
  <2> DEFINE row == [t EXCEPT !.confirmed = TRUE, !.stage = "unit_done", !.status = "done"]
  <2>1. row \in Rows /\ row.dept = t.dept /\ row.life = t.life /\ Unblocking(t, row)
    BY DEF Rows, TASK_STATES, PIPELINE_STAGES, Unblocking
  <2>2. Write(t, row) /\ UNCHANGED <<routing, actions, waiting>>
    BY <1>7 DEF MarkDone
  <2> QED  BY <2>1, <2>2 DEF WritesRow
<1>8. CASE ApproveDone(t, u)
  <2> DEFINE row == [t EXCEPT !.approved = TRUE, !.stage = "archive", !.status = "archived"]
  <2>1. row \in Rows /\ row.dept = t.dept /\ row.life = t.life /\ Unblocking(t, row)
    BY DEF Rows, TASK_STATES, PIPELINE_STAGES, Unblocking
  <2>2. Write(t, row) /\ UNCHANGED <<routing, actions, waiting>>
    BY <1>8 DEF ApproveDone
  <2> QED  BY <2>1, <2>2 DEF WritesRow
<1>9. CASE RejectDone(t, u)
  <2> DEFINE row == [t EXCEPT !.confirmed = FALSE, !.stage = "in_progress", !.status = "in_progress"]
  <2>1. row \in Rows /\ row.dept = t.dept /\ row.life = t.life /\ Unblocking(t, row)
    BY DEF Rows, TASK_STATES, PIPELINE_STAGES, Unblocking
  <2>2. Write(t, row) /\ UNCHANGED <<routing, actions, waiting>>
    BY <1>9 DEF RejectDone
  <2> QED  BY <2>1, <2>2 DEF WritesRow
<1>10. CASE ReopenTask(t, u)
  <2> DEFINE row == [t EXCEPT !.stage = "in_progress", !.status = "in_progress",
                              !.confirmed = FALSE, !.approved = FALSE]
  <2>1. row \in Rows /\ row.dept = t.dept /\ row.life = t.life /\ Unblocking(t, row)
    BY DEF Rows, TASK_STATES, PIPELINE_STAGES, Unblocking
  <2>2. Write(t, row) /\ UNCHANGED <<routing, actions, waiting>>
    BY <1>10 DEF ReopenTask
  <2> QED  BY <2>1, <2>2 DEF WritesRow
<1>11. CASE SoftDelete(t, u)
  <2> DEFINE row == [t EXCEPT !.life = "deleted"]
  <2>1. row \in Rows /\ row.dept = t.dept /\ row.life = "deleted" /\ Unblocking(t, row)
    BY DEF Rows, Unblocking
  <2>2. Write(t, row) /\ UNCHANGED <<routing, actions, waiting>>
    BY <1>11 DEF SoftDelete
  <2> QED  BY <2>1, <2>2 DEF WritesRow
<1>12. CASE RestoreTask(t, u)
  <2> DEFINE row == [t EXCEPT !.life = "live", !.stage = "backlog"]
  <2>1. row \in Rows /\ row.dept = t.dept /\ row.life = "live" /\ Unblocking(t, row)
    BY DEF Rows, PIPELINE_STAGES, Unblocking
  <2>2. Write(t, row) /\ UNCHANGED <<routing, actions, waiting>>
    BY <1>12 DEF RestoreTask
  <2> QED  BY <2>1, <2>2 DEF WritesRow
<1>13. CASE PurgeTask(t, u)
  BY <1>13 DEF PurgeTask, Purges
<1> QED  BY <1>1, <1>2, <1>3, <1>4, <1>5, <1>6, <1>7, <1>8, <1>9, <1>10, <1>11, <1>12, <1>13 DEF Handle

(* Whichever of these it is, the rows of the routing stay and keep their
   departments unless the task is purged, and the last one is for the department
   the task is given. *)
HopsStay ==
  task'.life # "purged" =>
    /\ task.life # "purged" /\ Len(routing) <= Len(routing')
    /\ \A i \in DOMAIN routing : routing'[i].dept = routing[i].dept

Holds == TypeOK /\ HistoryKnowsDepartment /\ (task.life = "purged" => routing = <<>>)

LEMMA ClosedHops ==
  ASSUME routing \in Seq(Hops), NEW S
  PROVE  /\ Closed(S) \in Seq(Hops) /\ Len(Closed(S)) = Len(routing)
         /\ Closed(S) \in [1..Len(routing) -> Hops]
         /\ \A i \in 1..Len(routing) : Closed(S)[i].dept = routing[i].dept
<1>1. Len(routing) \in Nat /\ DOMAIN routing = 1..Len(routing) /\ \A i \in 1..Len(routing) : routing[i] \in Hops
  OBVIOUS
<1>2. \A i \in 1..Len(routing) : Closed(S)[i] \in Hops /\ Closed(S)[i].dept = routing[i].dept
  BY <1>1 DEF Closed, Hops
<1>3. Closed(S) \in [1..Len(routing) -> Hops]
  BY <1>1, <1>2 DEF Closed
<1>4. Closed(S) \in Seq(Hops)
  BY <1>1, <1>3
<1> QED  BY <1>1, <1>2, <1>3, <1>4

LEMMA StaleRow ==
  ASSUME Holds, NEW t \in Rows, WritesRow(t), UNCHANGED <<actions, waiting>>
  PROVE  Holds' /\ HopsStay
<1>1. PICK new \in Rows : /\ Write(t, new) /\ routing' = routing
                          /\ new.dept = t.dept /\ new.life \in {t.life, "live", "deleted"}
  BY DEF WritesRow
<1>2. task' \in Rows /\ task'.dept = task.dept /\ task.life # "purged" /\ task'.life # "purged"
  BY <1>1, StaleWrite DEF Holds
<1>3. routing \in Seq(Hops)
  BY DEF Holds, TypeOK
<1> QED  BY <1>1, <1>2, <1>3 DEF Holds, TypeOK, HistoryKnowsDepartment, HopsStay

LEMMA StaleForward ==
  ASSUME Holds, NEW t \in Rows, NEW rt \in Seq(Hops), Forwards(t, rt), UNCHANGED <<actions, waiting>>
  PROVE  Holds' /\ HopsStay
<1> DEFINE n == Len(routing)
           hop(d) == [dept |-> d, order |-> Len(rt) + 1, current |-> TRUE]
<1>1. PICK new \in Rows, d \in Depts :
        /\ Write(t, new) /\ new.dept = d /\ d # t.dept /\ new.life = t.life
        /\ Len(rt) < MaxHops
        /\ routing' = Append(Closed(Current(rt)), hop(d))
  BY DEF Forwards
<1>2. task' \in Rows /\ task'.dept = d /\ task.life # "purged" /\ task'.life # "purged"
  BY <1>1, StaleWrite DEF Holds
<1>3. routing \in Seq(Hops) /\ n \in Nat /\ DOMAIN routing = 1..n
  BY DEF Holds, TypeOK
<1>4. hop(d) \in Hops
  BY <1>1, StaffAssumption DEF Hops
<1>5. /\ Closed(Current(rt)) \in Seq(Hops) /\ Len(Closed(Current(rt))) = n
      /\ \A i \in 1..n : Closed(Current(rt))[i].dept = routing[i].dept
  BY <1>3, ClosedHops
<1>6. /\ routing' \in Seq(Hops) /\ Len(routing') = n + 1 /\ DOMAIN routing' = 1..(n + 1)
      /\ routing'[n + 1] = hop(d)
      /\ \A i \in 1..n : routing'[i] = Closed(Current(rt))[i]
  <2> HIDE DEF hop
  <2> QED  BY <1>1, <1>3, <1>4, <1>5
<1>7. TypeOK'
  BY <1>2, <1>6 DEF Holds, TypeOK
<1>8. HistoryKnowsDepartment'
  BY <1>2, <1>3, <1>6 DEF HistoryKnowsDepartment
<1>9. HopsStay
  BY <1>2, <1>3, <1>5, <1>6 DEF HopsStay
<1> QED  BY <1>2, <1>7, <1>8, <1>9 DEF Holds

(* Returning names a row that the request saw; that row is there still. *)
LEMMA StaleReturn ==
  ASSUME Holds, NEW t \in Rows, NEW rt \in Seq(Hops), task.life # "purged" => SameHops(rt),
         Returns(t, rt), UNCHANGED <<actions, waiting>>
  PROVE  Holds' /\ HopsStay
<1> DEFINE n == Len(routing)
<1>1. PICK new \in Rows, i \in DOMAIN rt, j \in DOMAIN rt :
        /\ Write(t, new) /\ new.dept = rt[j].dept /\ new.life = t.life
        /\ routing' = [Closed({i}) EXCEPT ![j].current = TRUE]
  BY DEF Returns
<1>2. /\ task' \in Rows /\ task.life # "purged" /\ task'.life # "purged"
      /\ task'.dept \in {task.dept, rt[j].dept}
  BY <1>1, StaleWrite DEF Holds
<1>3. routing \in Seq(Hops) /\ n \in Nat /\ DOMAIN routing = 1..n
  BY DEF Holds, TypeOK
<1>4. j \in 1..n /\ rt[j].dept = routing[j].dept
  BY <1>2, <1>3 DEF SameHops
<1>5. /\ Closed({i}) \in Seq(Hops) /\ Len(Closed({i})) = n
      /\ \A k \in 1..n : Closed({i})[k].dept = routing[k].dept
  BY <1>3, ClosedHops
<1>6. /\ routing' \in [1..n -> Hops]
      /\ \A k \in 1..n : routing'[k].dept = routing[k].dept
  <2>1. Closed({i}) \in [1..n -> Hops]
    BY <1>3, ClosedHops
  <2>2. routing' = [k \in 1..n |-> IF k = j THEN [Closed({i})[k] EXCEPT !.current = TRUE] ELSE Closed({i})[k]]
    BY <1>1, <1>4, <2>1
  <2>3. \A k \in 1..n : routing'[k] \in Hops /\ routing'[k].dept = Closed({i})[k].dept
    BY <2>1, <2>2 DEF Hops
  <2> QED  BY <1>5, <2>2, <2>3
<1>7. routing' \in Seq(Hops) /\ Len(routing') = n /\ DOMAIN routing' = 1..n
  BY <1>3, <1>6
<1>8. TypeOK'
  BY <1>2, <1>7 DEF Holds, TypeOK
<1>9. HistoryKnowsDepartment'
  <2>1. PICK k \in 1..n : routing[k].dept = task.dept
    BY <1>3, <1>4 DEF Holds, HistoryKnowsDepartment
  <2> QED  BY <1>2, <1>4, <1>6, <1>7, <2>1 DEF HistoryKnowsDepartment
<1>10. HopsStay
  BY <1>2, <1>3, <1>6, <1>7 DEF HopsStay
<1> QED  BY <1>2, <1>8, <1>9, <1>10 DEF Holds

LEMMA StaleHandle ==
  ASSUME Holds, NEW t \in Rows, NEW rt \in Seq(Hops), task.life # "purged" => SameHops(rt),
         NEW u \in Users, Handle(t, rt, u)
  PROVE  Holds' /\ HopsStay
<1>1. /\ WritesRow(t) \/ Forwards(t, rt) \/ Returns(t, rt) \/ Purges
      /\ UNCHANGED <<actions, waiting>>
  BY HandleEffect DEF Holds
<1>2. CASE Purges
  <2>1. task' \in Rows /\ task'.life = "purged" /\ routing' = <<>>
    BY <1>2 DEF Purges, Holds, TypeOK, Rows
  <2> QED  BY <1>1, <2>1 DEF Holds, TypeOK, HistoryKnowsDepartment, HopsStay
<1> QED  BY <1>1, <1>2, StaleRow, StaleForward, StaleReturn

(* Only the status machine blocks a task, and it asks for a live row. *)
LEMMA HandleBlocks ==
  ASSUME TypeOK, NEW t \in Rows, NEW rt \in Seq(Hops), NEW u \in Users, Handle(t, rt, u),
         task.life = "deleted", task'.status = "blocked"
  PROVE  task.status = "blocked"
<1>1. CASE Purges
  BY <1>1 DEF Purges, TypeOK, Rows
<1>2. CASE \E new \in Rows : /\ Write(t, new) /\ new.life \in {t.life, "live", "deleted"}
                             /\ Unblocking(t, new)
  BY <1>2, StaleWrite DEF Unblocking
<1> QED  BY <1>1, <1>2, HandleEffect DEF WritesRow, Forwards, Returns

---------------------------------------------------------------------------
(* What a step of TaskSessions is: a request on a row and routing that were true
   once, or nothing that touches the task. *)
Acts ==
  \E u \in Users, t \in Rows, rt \in Seq(Hops) :
    Handle(t, rt, u) /\ (task.life # "purged" => SameHops(rt))

LEMMA SStep ==
  ASSUME SInv, SNext
  PROVE  /\ Acts \/ UNCHANGED vars
         /\ \/ slow' = Idle
            \/ slow' \in Reading /\ (Acts \/ UNCHANGED vars) /\
                 \/ slow # Idle /\ slow'.at = slow.at /\ slow'.routing = slow.routing
                 \/ slow'.at = "task"
                 \/ slow'.routing = routing /\ UNCHANGED vars
<1>0. TypeOK /\ task \in Rows /\ routing \in Seq(Hops) /\ SameHops(routing)
  BY DEF SInv, STypeOK, TypeOK, SameHops
<1>1. CASE \E u \in Users : Load(u)
  <2>1. PICK u \in Users : Load(u)
    BY <1>1
  <2>2. <<>> \in Seq(Hops) /\ 0 \in 0..MaxMissed
    BY MissedAssumption
  <2>3. slow' \in Reading /\ slow'.at = "task" /\ UNCHANGED vars
    BY <1>0, <2>1, <2>2 DEF Load, Reading
  <2> QED  BY <2>3
<1>2. CASE LoadRouting
  <2>1. slow \in Reading
    BY <1>2 DEF LoadRouting, SInv, STypeOK
  <2>2. slow' \in Reading /\ slow'.routing = routing /\ UNCHANGED vars
    BY <1>0, <1>2, <2>1 DEF LoadRouting, Reading
  <2> QED  BY <2>2
<1>3. CASE Finish
  <2>1. /\ slow \in Reading /\ slow' = Idle /\ SlowHandle(slow.task, slow.routing, slow.user)
    BY <1>3 DEF Finish, SInv, STypeOK
  <2>2. /\ slow.user \in Users /\ slow.task \in Rows /\ slow.routing \in Seq(Hops)
        /\ slow.at = "routing" /\ task.life # "purged" => SameHops(slow.routing)
    BY <2>1, <1>3 DEF Reading, SInv, Finish
  <2>3. CASE slow.at = "routing" /\ (\/ \E d \in Depts : ForwardDept(slow.task, slow.routing, slow.user, d)
                                     \/ ReturnDept(slow.task, slow.routing, slow.user))
    BY <2>1, <2>2, <2>3 DEF Acts, Handle
  <2>4. CASE ~ (slow.at = "routing" /\ (\/ \E d \in Depts : ForwardDept(slow.task, slow.routing, slow.user, d)
                                        \/ ReturnDept(slow.task, slow.routing, slow.user)))
    <3>1. Handle(slow.task, routing, slow.user)
      BY <2>1, <2>4 DEF SlowHandle, Preloaded, Handle, ReassignTask
    <3> QED  BY <1>0, <2>1, <2>2, <3>1 DEF Acts
  <2> QED  BY <2>3, <2>4
<1>4. CASE Abort
  BY <1>4 DEF Abort
<1>5. CASE Other
  <2>1. Acts
    BY <1>0, <1>5 DEF Other, Acts
  <2>2. CASE slow = Idle
    BY <1>5, <2>1, <2>2 DEF Other
  <2>3. CASE slow # Idle
    <3>1. slow \in Reading /\ slow.missed < MaxMissed /\ slow' = [slow EXCEPT !.missed = @ + 1]
      BY <1>5, <2>3 DEF Other, SInv, STypeOK
    <3>2. slow' \in Reading /\ slow'.at = slow.at /\ slow'.routing = slow.routing
      BY <3>1, MissedAssumption DEF Reading
    <3> QED  BY <2>1, <2>3, <3>2
  <2> QED  BY <2>2, <2>3
<1> QED  BY <1>1, <1>2, <1>3, <1>4, <1>5 DEF SNext

LEMMA SInvStep == SInv /\ [SNext]_svars => SInv'
<1> SUFFICES ASSUME SInv, [SNext]_svars PROVE SInv'
  OBVIOUS
<1>1. CASE UNCHANGED svars
  BY <1>1 DEF svars, SInv, STypeOK, TypeOK, HistoryKnowsDepartment, SameHops
<1>2. CASE SNext
  <2>1. Acts \/ UNCHANGED vars
    BY <1>2, SStep
  <2>2. Holds
    BY DEF SInv, STypeOK, Holds
  <2>3. Holds' /\ (HopsStay \/ UNCHANGED vars)
    <3>1. CASE Acts
      BY <2>2, <3>1, StaleHandle DEF Acts
    <3>2. CASE UNCHANGED vars
      BY <2>2, <3>2 DEF Holds, vars, TypeOK, HistoryKnowsDepartment
    <3> QED  BY <2>1, <3>1, <3>2
  <2>4. STypeOK'
    BY <1>2, <2>3, SStep DEF STypeOK, Holds
  <2>5. SameHops(slow.routing)' 
          \/ ~ (slow' # Idle /\ slow'.at = "routing" /\ task'.life # "purged")
    <3> SUFFICES ASSUME slow' # Idle, slow'.at = "routing", task'.life # "purged"
                 PROVE  SameHops(slow.routing)'
      OBVIOUS
    <3>1. CASE slow # Idle /\ slow'.at = slow.at /\ slow'.routing = slow.routing
      <4>1. task.life # "purged" /\ SameHops(slow.routing) /\ slow.routing \in Seq(Hops)
        BY <2>3, <3>1 DEF SInv, STypeOK, Reading, HopsStay, vars
      <4>2. routing \in Seq(Hops) /\ routing' \in Seq(Hops)
        BY <2>2, <2>3 DEF Holds, TypeOK
      <4>3. CASE HopsStay
        BY <3>1, <4>1, <4>2, <4>3 DEF HopsStay, SameHops
      <4>4. CASE UNCHANGED vars
        BY <3>1, <4>1, <4>4 DEF vars, SameHops
      <4> QED  BY <2>3, <4>3, <4>4
    <3>2. CASE slow'.routing = routing /\ UNCHANGED vars
      BY <2>2, <3>2 DEF vars, SameHops, Holds, TypeOK
    <3> QED  BY <1>2, <3>1, <3>2, SStep
  <2> QED  BY <2>3, <2>4, <2>5 DEF SInv, Holds
<1> QED  BY <1>1, <1>2

(* However requests on a task overlap: the rows stay well formed, a request relies
   only on routing rows that are still there, and a purged task has none. *)
THEOREM SessionSafety == SSpec => []SInv
<1>1. SInit => SInv
  <2> SUFFICES ASSUME SInit PROVE SInv
    OBVIOUS
  <2>1. IInv /\ slow = Idle
    BY InitIInv DEF SInit
  <2>2. task.life = "live"
    BY DEF SInit, Init, CreatedInternal, CreatedExternal, Cloned, FirstRow
  <2> QED  BY <2>1, <2>2 DEF IInv, SInv, STypeOK, HistoryKnowsDepartment, OneDepartmentHolds
<1> QED  BY <1>1, SInvStep, PTL DEF SSpec

(* The rows of tasks and of task_department_routing, and what a slow request holds
   of them, stay well formed. *)
THEOREM SessionTypes == SSpec => []STypeOK
BY SessionSafety, PTL DEF SInv

(* The routing of a task tells of the department it shows: no request, however
   stale what it read, moves the task without leaving a row. *)
THEOREM HistoryKnows == SSpec => []HistoryKnowsDepartment
BY SessionSafety, PTL DEF SInv

(* A request that read the task before it was deleted does not block it. *)
THEOREM DeletedNotBlocked == SSpec => DeletedIsNotBlocked
<1>1. SInv /\ [SNext]_svars =>
        [task.life = "deleted" /\ task'.status = "blocked" => task.status = "blocked"]_svars
  <2> SUFFICES ASSUME SInv, SNext, task.life = "deleted", task'.status = "blocked"
               PROVE  task.status = "blocked"
    BY DEF svars
  <2>1. CASE Acts
    BY <2>1, HandleBlocks DEF Acts, SInv, STypeOK
  <2>2. CASE UNCHANGED vars
    BY <2>2 DEF vars
  <2> QED  BY <2>1, <2>2, SStep
<1> QED  BY <1>1, SessionSafety, PTL DEF SSpec, DeletedIsNotBlocked
===========================================================================
