---------------------------- MODULE TaskWorkflow ----------------------------
(***************************************************************************)
(* One task: the status machine of tasks/router.py and the assignment,     *)
(* department routing, dual approval and deletion of tasks/service.py.     *)
(*                                                                         *)
(* A request loads the task's row, decides on it and writes back the       *)
(* columns it changed.  The parameter t of a handler is the row as it was  *)
(* loaded and rt the routing rows as they were read.  In this module       *)
(* requests do not overlap, so both are what is stored; TaskSessions lets  *)
(* them be stale.                                                          *)
(***************************************************************************)
EXTENDS Naturals, Sequences

CONSTANTS Users, Depts, None,
          Level,      \* role level of a user, 1 (staff) to 5 (super-admin)
          DeptOf,     \* department in a user's staff profile, None without a profile
          TeamLeads,  \* users with approval authority 2 and above
          Creator,    \* who created the task
          MaxHops     \* bound: routing rows

ASSUME StaffAssumption ==
  /\ Level \in [Users -> 1..5] /\ DeptOf \in [Users -> Depts \cup {None}]
  /\ Creator \in Users /\ None \notin Users /\ MaxHops \in Nat \ {0}

TASK_STATES == {"new", "assigned", "in_progress", "review", "blocked", "done", "archived"}
PIPELINE_STAGES == {"backlog", "in_progress", "review", "unit_done", "archive"}

ALLOWED_TRANSITIONS ==
  {<<"new", "assigned">>, <<"new", "in_progress">>,
   <<"assigned", "in_progress">>, <<"assigned", "blocked">>,
   <<"in_progress", "review">>, <<"in_progress", "blocked">>, <<"in_progress", "assigned">>,
   <<"review", "in_progress">>, <<"review", "done">>, <<"review", "blocked">>,
   <<"blocked", "in_progress">>, <<"blocked", "assigned">>,
   <<"done", "review">>, <<"done", "archived">>}
LevelFor(st) == CASE st = "done" -> 2 [] st = "archived" -> 3 [] OTHER -> 1

STATUS_TO_PIPELINE_STAGE ==
  [st \in TASK_STATES |->
     CASE st \in {"new", "assigned"} -> "backlog"
       [] st \in {"in_progress", "blocked"} -> "in_progress"
       [] st = "review" -> "review"
       [] st = "done" -> "unit_done"
       [] st = "archived" -> "archive"]

(* Its position in PIPELINE_FLOW; blocked is not in it. *)
_flow_index(st) ==
  CASE st = "blocked" -> 0 [] st = "new" -> 1 [] st = "assigned" -> 2
    [] st = "in_progress" -> 3 [] st = "review" -> 4 [] st = "done" -> 5 [] st = "archived" -> 6

VARIABLES task,     \* the row of tasks
          routing,  \* task_department_routing, in order of entry
          actions,  \* has it unresolved ACTION comments?
          waiting   \* does it depend on a task that is not done?

vars == <<task, routing, actions, waiting>>

Rows ==
  [status : TASK_STATES, stage : PIPELINE_STAGES, assignee : Users \cup {None}, dept : Depts,
   confirmed : BOOLEAN, approved : BOOLEAN,   \* assignee_confirmed_done, creator_approved_done
   life : {"live", "deleted", "purged"}, scope : {"internal", "external"}]
Hops == [dept : Depts, order : 1..MaxHops, current : BOOLEAN]

TypeOK ==
  /\ task \in Rows
  /\ routing \in Seq(Hops)
  /\ actions \in BOOLEAN /\ waiting \in BOOLEAN

(* The columns of new that differ from the row as loaded are written; an UPDATE
   that finds no row fails the request. *)
Write(t, new) ==
  LET col(now, was, is) == IF is = was THEN now ELSE is
  IN  /\ task.life # "purged"
      /\ task' = [status |-> col(task.status, t.status, new.status),
                  stage |-> col(task.stage, t.stage, new.stage),
                  assignee |-> col(task.assignee, t.assignee, new.assignee),
                  dept |-> col(task.dept, t.dept, new.dept),
                  confirmed |-> col(task.confirmed, t.confirmed, new.confirmed),
                  approved |-> col(task.approved, t.approved, new.approved),
                  life |-> col(task.life, t.life, new.life),
                  scope |-> col(task.scope, t.scope, new.scope)]

(* create_internal_task, create_external_task, and clone, which copies the scope
   and the department and opens no routing. *)
FirstRow(st, a, d, sc) ==
  [status |-> st, stage |-> STATUS_TO_PIPELINE_STAGE[st], assignee |-> a, dept |-> d,
   confirmed |-> FALSE, approved |-> FALSE, life |-> "live", scope |-> sc]
CreatedInternal ==
  /\ \/ task = FirstRow("new", None, DeptOf[Creator], "internal")
     \/ \E a \in Users : DeptOf[a] = DeptOf[Creator] /\ task = FirstRow("assigned", a, DeptOf[a], "internal")
  /\ DeptOf[Creator] # None
  /\ routing = <<>>
CreatedExternal ==
  \E d \in Depts :
    /\ task = FirstRow("new", None, d, "external")
    /\ routing = <<[dept |-> d, order |-> 1, current |-> TRUE]>>
Cloned == \E d \in Depts, sc \in {"internal", "external"} :
  task = FirstRow("new", None, d, sc) /\ routing = <<>>

Init ==
  /\ CreatedInternal \/ CreatedExternal \/ Cloned
  /\ actions = FALSE
  /\ waiting \in BOOLEAN

---------------------------------------------------------------------------
(* The status machine *)

can_transition(from, to, level, assignee) ==
  /\ from # "archived" /\ <<from, to>> \in ALLOWED_TRANSITIONS
  /\ level >= LevelFor(to)
  /\ to = "in_progress" => assignee # None /\ ~ waiting
  /\ _flow_index(to) > _flow_index(from) /\ actions => to = "blocked"

(* Mutant of UpdateStatus: archiving asks for the assignee's half only. *)
UpdateStatusHalfApproved(t, u, new) ==
  LET who == IF new = "in_progress" /\ t.assignee = None THEN u ELSE t.assignee
  IN  /\ t.life = "live" /\ task.life = "live"
      /\ t.status # new
      /\ can_transition(t.status, new, Level[u], who)
      /\ new = "archived" => t.confirmed
      /\ Write(t, [t EXCEPT !.status = new, !.stage = STATUS_TO_PIPELINE_STAGE[new], !.assignee = who])
      /\ UNCHANGED <<routing, actions, waiting>>

(* Mutant of UpdateStatus: is_deleted is looked at when the row is loaded only. *)
UpdateStatusUnlocked(t, u, new) ==
  LET who == IF new = "in_progress" /\ t.assignee = None THEN u ELSE t.assignee
  IN  /\ t.life = "live"
      /\ t.status # new
      /\ can_transition(t.status, new, Level[u], who)
      /\ new = "archived" => t.confirmed /\ t.approved
      /\ Write(t, [t EXCEPT !.status = new, !.stage = STATUS_TO_PIPELINE_STAGE[new], !.assignee = who])
      /\ UNCHANGED <<routing, actions, waiting>>

(* update_status, and start, submit-review, block, unblock, done, archive and the
   approval comments, which call it: starting an unassigned task assigns it. *)
UpdateStatus(t, u, new) ==
  LET who == IF new = "in_progress" /\ t.assignee = None THEN u ELSE t.assignee
  IN  /\ t.life = "live" /\ task.life = "live"
      /\ t.status # new
      /\ can_transition(t.status, new, Level[u], who)
      /\ new = "archived" => t.confirmed /\ t.approved
      /\ Write(t, [t EXCEPT !.status = new, !.stage = STATUS_TO_PIPELINE_STAGE[new], !.assignee = who])
      /\ UNCHANGED <<routing, actions, waiting>>

(* add_comment, resolve_comment: the first and the last unresolved ACTION count. *)
AddAction == task.life = "live" /\ actions' = TRUE /\ UNCHANGED <<task, routing, waiting>>
ResolveAction == task.life # "purged" /\ actions' = FALSE /\ UNCHANGED <<task, routing, waiting>>
(* Dependencies are added and removed, and the tasks they name move on. *)
Dependencies == waiting' \in BOOLEAN /\ UNCHANGED <<task, routing, actions>>

---------------------------------------------------------------------------
(* Assignment *)

Current(rt) == {i \in DOMAIN rt : rt[i].current}
OneAtMost(rt) == \A i, j \in Current(rt) : i = j   \* scalar_one_or_none
InDept(u, d) == DeptOf[u] \in {None, d}
_assert_can_assign(t, u) == InDept(u, t.dept) /\ (Level[u] >= 3 \/ u \in TeamLeads)
HandledBy(t, u) == t.assignee = u \/ Level[u] >= 3

AssignTask(t, rt, u, a) ==
  /\ t.life = "live" /\ _assert_can_assign(t, u) /\ OneAtMost(rt)
  /\ Write(t, [t EXCEPT !.assignee = a, !.status = "assigned", !.stage = "backlog"])
  /\ UNCHANGED <<routing, actions, waiting>>

ReassignTask(t, u, a) ==
  /\ t.life = "live" /\ _assert_can_assign(t, u)
  /\ Write(t, [t EXCEPT !.assignee = a])
  /\ UNCHANGED <<routing, actions, waiting>>

ForwardTask(t, u, a) ==
  /\ t.life = "live" /\ HandledBy(t, u) /\ InDept(a, t.dept)
  /\ Write(t, [t EXCEPT !.assignee = a])
  /\ UNCHANGED <<routing, actions, waiting>>

(* Mutant of PushBack: the stage is not moved with the status. *)
PushBackStageLeft(t, u, a) ==
  /\ t.life = "live" /\ HandledBy(t, u)
  /\ Write(t, [t EXCEPT !.assignee = a, !.status = "in_progress", !.confirmed = FALSE])
  /\ UNCHANGED <<routing, actions, waiting>>

(* a: the user named to get it, or the assignee it has. *)
PushBack(t, u, a) ==
  /\ t.life = "live" /\ HandledBy(t, u)
  /\ Write(t, [t EXCEPT !.assignee = a, !.stage = "in_progress", !.status = "in_progress",
                        !.confirmed = FALSE])
  /\ UNCHANGED <<routing, actions, waiting>>

---------------------------------------------------------------------------
(* Departments *)

Closed(S) == [i \in DOMAIN routing |-> IF i \in S THEN [routing[i] EXCEPT !.current = FALSE] ELSE routing[i]]

(* Mutant of ForwardDept: the new row is for the department left. *)
ForwardDeptToSender(t, rt, u, d) ==
  /\ t.life = "live" /\ t.scope = "external" /\ Level[u] >= 3 /\ d # t.dept /\ OneAtMost(rt)
  /\ Len(rt) < MaxHops
  /\ routing' = Append(Closed(Current(rt)), [dept |-> t.dept, order |-> Len(rt) + 1, current |-> TRUE])
  /\ Write(t, [t EXCEPT !.dept = d, !.assignee = None, !.stage = "backlog"])
  /\ UNCHANGED <<actions, waiting>>

(* Mutant of ForwardDept: the row of the department left is not closed. *)
ForwardDeptLeftOpen(t, rt, u, d) ==
  /\ t.life = "live" /\ t.scope = "external" /\ Level[u] >= 3 /\ d # t.dept /\ OneAtMost(rt)
  /\ Len(rt) < MaxHops
  /\ routing' = Append(routing, [dept |-> d, order |-> Len(rt) + 1, current |-> TRUE])
  /\ Write(t, [t EXCEPT !.dept = d, !.assignee = None, !.stage = "backlog"])
  /\ UNCHANGED <<actions, waiting>>

ForwardDept(t, rt, u, d) ==
  /\ t.life = "live" /\ t.scope = "external" /\ Level[u] >= 3 /\ d # t.dept /\ OneAtMost(rt)
  /\ Len(rt) < MaxHops
  /\ routing' = Append(Closed(Current(rt)), [dept |-> d, order |-> Len(rt) + 1, current |-> TRUE])
  /\ Write(t, [t EXCEPT !.dept = d, !.assignee = None, !.stage = "backlog"])
  /\ UNCHANGED <<actions, waiting>>

(* Back to the row before the current one in the order of entry. *)
ReturnDept(t, rt, u) ==
  /\ t.life = "live" /\ t.scope = "external" /\ Level[u] >= 3
  /\ \E i \in Current(rt), j \in DOMAIN rt \ Current(rt) :
       /\ \A k \in Current(rt) : rt[k].order <= rt[i].order
       /\ rt[j].order = rt[i].order - 1
       /\ routing' = [Closed({i}) EXCEPT ![j].current = TRUE]
       /\ Write(t, [t EXCEPT !.dept = rt[j].dept, !.assignee = None,
                             !.stage = "in_progress", !.status = "in_progress"])
  /\ UNCHANGED <<actions, waiting>>

---------------------------------------------------------------------------
(* Dual approval *)

MarkDone(t, u) ==
  /\ t.life = "live" /\ t.assignee = u
  /\ t.stage \in {"in_progress", "review"} /\ ~ t.confirmed
  /\ Write(t, [t EXCEPT !.confirmed = TRUE, !.stage = "unit_done", !.status = "done"])
  /\ UNCHANGED <<routing, actions, waiting>>

ApproveDone(t, u) ==
  /\ t.life = "live" /\ (u = Creator \/ Level[u] >= 4)
  /\ t.confirmed /\ ~ t.approved
  /\ Write(t, [t EXCEPT !.approved = TRUE, !.stage = "archive", !.status = "archived"])
  /\ UNCHANGED <<routing, actions, waiting>>

RejectDone(t, u) ==
  /\ t.life = "live" /\ u = Creator /\ t.confirmed
  /\ Write(t, [t EXCEPT !.confirmed = FALSE, !.stage = "in_progress", !.status = "in_progress"])
  /\ UNCHANGED <<routing, actions, waiting>>

ReopenTask(t, u) ==
  /\ t.life = "live" /\ t.stage = "archive" /\ (u = Creator \/ Level[u] >= 4)
  /\ Write(t, [t EXCEPT !.stage = "in_progress", !.status = "in_progress",
                        !.confirmed = FALSE, !.approved = FALSE])
  /\ UNCHANGED <<routing, actions, waiting>>

---------------------------------------------------------------------------
(* Deletion *)

SoftDelete(t, u) ==
  /\ Level[u] >= 4 /\ t.life = "live"
  /\ Write(t, [t EXCEPT !.life = "deleted"])
  /\ UNCHANGED <<routing, actions, waiting>>

RestoreTask(t, u) ==
  /\ Level[u] >= 4 /\ t.life = "deleted"
  /\ Write(t, [t EXCEPT !.life = "live", !.stage = "backlog"])
  /\ UNCHANGED <<routing, actions, waiting>>

(* The row goes, and with it its routing, comments and dependencies. *)
PurgeTask(t, u) ==
  /\ Level[u] >= 5 /\ t.life = "deleted" /\ task.life # "purged"
  /\ task' = [task EXCEPT !.life = "purged"]
  /\ routing' = <<>>
  /\ UNCHANGED <<actions, waiting>>

---------------------------------------------------------------------------
(* One request of user u *)

Handle(t, rt, u) ==
  \/ \E new \in TASK_STATES : UpdateStatus(t, u, new)
  \/ \E a \in Users : AssignTask(t, rt, u, a) \/ ReassignTask(t, u, a) \/ ForwardTask(t, u, a)
  \/ \E a \in Users \cup {t.assignee} : PushBack(t, u, a)
  \/ \E d \in Depts : ForwardDept(t, rt, u, d)
  \/ ReturnDept(t, rt, u)
  \/ MarkDone(t, u) \/ ApproveDone(t, u) \/ RejectDone(t, u) \/ ReopenTask(t, u)
  \/ SoftDelete(t, u) \/ RestoreTask(t, u) \/ PurgeTask(t, u)

Around == AddAction \/ ResolveAction \/ Dependencies

Next == (\E u \in Users : Handle(task, routing, u)) \/ Around

Spec == Init /\ [][Next]_vars

---------------------------------------------------------------------------
(* What must hold *)

(* "No archive without dual approval": whatever a request, in whatever order,
   did to the status, an archived task bears both approvals. *)
ArchivedIsDualApproved == task.status = "archived" => task.confirmed /\ task.approved

(* The board's column follows the status, through every handler that writes one
   of the two: only routing and restoring put a task back to the backlog column
   whatever its status is. *)
StageFollowsStatus == task.stage \in {STATUS_TO_PIPELINE_STAGE[task.status], "backlog"}

(* The department a task shows is the one whose routing row is current, the only
   one, and the rows are numbered as they were entered. *)
OneDepartmentHolds ==
  routing # <<>> =>
    /\ \E i \in DOMAIN routing : Current(routing) = {i} /\ routing[i].dept = task.dept
    /\ \A i \in DOMAIN routing : routing[i].order = i
=============================================================================
