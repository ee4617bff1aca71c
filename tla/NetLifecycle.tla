--------------------------- MODULE NetLifecycle ---------------------------
(***************************************************************************)
(* The one lifecycle of a network row (device, cable or connection), as    *)
(* app/modules/network/lifecycle.py defines it, and the status sets of a   *)
(* design (app/modules/design/models.py, app/modules/approval/service.py). *)
(***************************************************************************)

LIFECYCLE_STATES ==
  {"DRAFT", "PLANNED", "DESIGNED", "UNDER_REVIEW", "APPROVED", "CONSTRUCTION",
   "INSTALLED", "TESTING", "VERIFIED", "ACTIVE", "FAULTY", "RETIRED", "REJECTED"}

TRANSITIONS ==
  {<<"DRAFT", "PLANNED">>, <<"DRAFT", "DESIGNED">>,
   <<"PLANNED", "DRAFT">>, <<"PLANNED", "DESIGNED">>,
   <<"DESIGNED", "PLANNED">>, <<"DESIGNED", "UNDER_REVIEW">>,
   <<"UNDER_REVIEW", "APPROVED">>, <<"UNDER_REVIEW", "REJECTED">>,
   <<"REJECTED", "DESIGNED">>, <<"REJECTED", "RETIRED">>,
   <<"APPROVED", "CONSTRUCTION">>, <<"CONSTRUCTION", "INSTALLED">>,
   <<"INSTALLED", "TESTING">>,
   <<"TESTING", "VERIFIED">>, <<"TESTING", "FAULTY">>, <<"TESTING", "INSTALLED">>,
   <<"VERIFIED", "ACTIVE">>, <<"ACTIVE", "FAULTY">>, <<"ACTIVE", "RETIRED">>,
   <<"FAULTY", "ACTIVE">>, <<"FAULTY", "RETIRED">>}

can_transition(current, target) == <<current, target>> \in TRANSITIONS

DESIGN_STATUSES ==
  {"DRAFT", "GENERATED", "MODIFIED", "VALIDATING", "UNDER_REVIEW", "APPROVED",
   "REJECTED", "SUPERSEDED", "DEPLOYED"}
EDITABLE_STATUSES == {"DRAFT", "MODIFIED"}
LOCKED_STATUSES == {"VALIDATING", "UNDER_REVIEW", "APPROVED", "SUPERSEDED", "DEPLOYED"}
SUBMITTABLE == {"DRAFT", "GENERATED", "MODIFIED", "REJECTED"}

(***************************************************************************)
(* What one field update does to a row in state s, or s itself when        *)
(* advance() refuses it: the path of the action must be legal step by step *)
(* and "fail" is for rows under test only.                                 *)
(***************************************************************************)
FIELD_ACTIONS == {"install", "test", "verify", "fail"}
Advanced(action, s) ==
  CASE action = "install" /\ can_transition(s, "INSTALLED") -> "INSTALLED"
    [] action = "test" /\ can_transition(s, "TESTING") -> "TESTING"
    [] action = "verify" /\ s = "TESTING" -> "VERIFIED"
    [] action = "verify" /\ can_transition(s, "TESTING") /\ can_transition("TESTING", "VERIFIED") -> "VERIFIED"
    [] action = "fail" /\ s = "TESTING" -> "INSTALLED"
    [] OTHER -> s
===========================================================================
