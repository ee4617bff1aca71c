------------------------------ MODULE MCForms ------------------------------
(* A form of two fields: the first for everybody; the second for one role and shown
   when the first is filled in, or required later, or a required total that is
   computed. *)
EXTENDS Forms, TLC

CONSTANTS k1, k2, r1, r2, u1, u2

Always == [kind |-> "value", required |-> "always", role |-> None, action |-> "none", on |-> k1]
Shown == [kind |-> "value", required |-> "later", role |-> r1, action |-> "show", on |-> k1]
Total == [Always EXCEPT !.kind = "computed"]
MCDefinitions == (k1 :> {Always}) @@ (k2 :> {Shown, Total})
Symmetry == Permutations({u1, u2})
=============================================================================
