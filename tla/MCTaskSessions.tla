--------------------------- MODULE MCTaskSessions ---------------------------
(* TaskSessions with a staff member and an administrator without a profile, who
   created the task; two departments. *)
EXTENDS TaskSessions, TLC

CONSTANTS staff, admin, noc, field

MCLevel == (staff :> 1) @@ (admin :> 5)
MCDeptOf == (staff :> noc) @@ (admin :> None)
=============================================================================
