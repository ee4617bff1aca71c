--------------------------- MODULE MCTaskWorkflow ---------------------------
(* A staff member, the creator (a team lead of the same department) and an
   administrator without a staff profile; two departments. *)
EXTENDS TaskWorkflow, TLC

CONSTANTS staff, lead, admin, noc, field

MCLevel == (staff :> 1) @@ (lead :> 2) @@ (admin :> 5)
MCDeptOf == (staff :> noc) @@ (lead :> noc) @@ (admin :> None)
=============================================================================
