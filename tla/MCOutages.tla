---------------------------- MODULE MCOutages ----------------------------
(* Outages with one tenant, two OLTs with an alarm each, one report logged at
   the desk. *)
EXTENDS Outages, TLC

CONSTANTS t1, o1, o2, a1, a2, r1, i1, i2

MCOwner == (o1 :> t1) @@ (o2 :> t1) @@ (r1 :> t1)
MCSource == (a1 :> o1) @@ (a2 :> o2)
MCEventId == (a1 :> i1) @@ (a2 :> i2)
=============================================================================
