---------------------------- MODULE TaskSessions ----------------------------
(***************************************************************************)
(* Requests on one task that overlap.  Each runs in a transaction of its   *)
(* own (core/database.py, READ COMMITTED): it reads the row, perhaps its   *)
(* routing, decides, and at its commit writes the columns it changed.  One *)
(* request is slow; the others read and commit in one step, which is what  *)
(* any of them does when nothing comes in between.                         *)
(***************************************************************************)
EXTENDS TaskWorkflow

CONSTANT MaxMissed  \* bound: requests committed while the slow one runs

ASSUME MissedAssumption == MaxMissed \in Nat

VARIABLE slow  \* what the slow request has read

svars == <<task, routing, actions, waiting, slow>>

Idle == [at |-> "idle"]
Reading == [at : {"task", "routing"}, user : Users, task : Rows, routing : Seq(Hops),
            missed : 0..MaxMissed]

STypeOK == TypeOK /\ (slow = Idle \/ slow \in Reading)

SInit == Init /\ slow = Idle

(* _get_task_or_404, _get_or_404: the row as committed. *)
Load(u) ==
  /\ slow = Idle /\ task.life # "purged"
  /\ slow' = [at |-> "task", user |-> u, task |-> task, routing |-> <<>>, missed |-> 0]
  /\ UNCHANGED vars

(* forward_dept and return_dept read the routing after the task and before they
   write anything. *)
LoadRouting ==
  /\ slow # Idle /\ slow.at = "task"
  /\ slow' = [slow EXCEPT !.at = "routing", !.routing = routing]
  /\ UNCHANGED vars

(* The calls of update_status whose caller holds the row: archive, block, done,
   and approving or rejecting a comment.  SELECT ... FOR UPDATE waits for the
   others but gives back the object the session already has. *)
Preloaded(t, u, new) ==
  /\ new \in {"archived", "blocked", "done", "in_progress"}
  /\ new = "in_progress" => t.status = "review"
  /\ UpdateStatus(t, u, new)

(* assign_task has written the task, and so locked it, when it reads the routing. *)
SlowHandle(t, rt, u) ==
  \/ \E new \in TASK_STATES : Preloaded(t, u, new)
  \/ \E a \in Users : AssignTask(t, routing, u, a) \/ ReassignTask(t, u, a) \/ ForwardTask(t, u, a)
  \/ \E a \in Users \cup {t.assignee} : PushBack(t, u, a)
  \/ slow.at = "routing" /\ ((\E d \in Depts : ForwardDept(t, rt, u, d)) \/ ReturnDept(t, rt, u))
  \/ MarkDone(t, u) \/ ApproveDone(t, u) \/ RejectDone(t, u) \/ ReopenTask(t, u)
  \/ SoftDelete(t, u) \/ RestoreTask(t, u) \/ PurgeTask(t, u)

Finish == slow # Idle /\ SlowHandle(slow.task, slow.routing, slow.user) /\ slow' = Idle
(* Refused, or its transaction failed. *)
Abort == slow # Idle /\ slow' = Idle /\ UNCHANGED vars

Other ==
  /\ slow # Idle => slow.missed < MaxMissed
  /\ \E u \in Users : Handle(task, routing, u)
  /\ slow' = IF slow = Idle THEN Idle ELSE [slow EXCEPT !.missed = @ + 1]

SNext == (\E u \in Users : Load(u)) \/ LoadRouting \/ Finish \/ Abort \/ Other

SSpec == SInit /\ [][SNext]_svars

---------------------------------------------------------------------------
(* However requests overlap, the routing of a task that was routed tells of the
   department it shows: no request moves the task without leaving a row. *)
HistoryKnowsDepartment ==
  routing # <<>> => \E i \in DOMAIN routing : routing[i].dept = task.dept

(* A task that was deleted is not blocked, by a request that read it before it was
   deleted either: FOR UPDATE looks at is_deleted again. *)
DeletedIsNotBlocked ==
  [][task.life = "deleted" /\ task'.status = "blocked" => task.status = "blocked"]_svars
===========================================================================
