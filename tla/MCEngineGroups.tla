--------------------------- MODULE MCEngineGroups ---------------------------
(* EngineGroups on small networks.  Swaps: two dead ends at one junction of a
   through road, one of which needs a loan.  Loans: a through road that can
   spare FATs.  Pools: small dead ends at both ends of a road, another without a
   road to go to.  Median: the two sides of a dual carriageway between two
   streets. *)
EXTENDS EngineGroups, TLC

Nobody(n) == [r \in 0..n |-> Nil]

Swaps ==
  [pons |-> 1,
   ends |-> (0 :> <<1, 2>>) @@ (1 :> <<3, 1>>) @@ (2 :> <<1, 4>>) @@ (3 :> <<2, 5>>),
   fats |-> (0 :> 2) @@ (1 :> 5) @@ (2 :> 4) @@ (3 :> 1),
   partner |-> Nobody(3), rank |-> (0 :> 3) @@ (1 :> 2) @@ (2 :> 2) @@ (3 :> 2)]

Loans ==
  [pons |-> 1,
   ends |-> (0 :> <<1, 2>>) @@ (1 :> <<3, 1>>) @@ (2 :> <<2, 5>>),
   fats |-> (0 :> 7) @@ (1 :> 4) @@ (2 :> 2),
   partner |-> Nobody(2), rank |-> (0 :> 3) @@ (1 :> 2) @@ (2 :> 2)]

Pools ==
  [pons |-> 1,
   ends |-> (0 :> <<1, 2>>) @@ (1 :> <<3, 1>>) @@ (2 :> <<2, 4>>) @@ (3 :> <<2, 5>>)
            @@ (4 :> <<1, 2>>) @@ (5 :> <<6, 7>>),
   fats |-> (0 :> 7) @@ (1 :> 2) @@ (2 :> 3) @@ (3 :> 3) @@ (4 :> 0) @@ (5 :> 2),
   partner |-> Nobody(5),
   rank |-> (0 :> 3) @@ (1 :> 2) @@ (2 :> 2) @@ (3 :> 2) @@ (4 :> 3) @@ (5 :> 2)]

Median ==
  [pons |-> 2,
   ends |-> (0 :> <<1, 2>>) @@ (1 :> <<1, 2>>) @@ (2 :> <<2, 3>>) @@ (3 :> <<3, 1>>),
   fats |-> (0 :> 4) @@ (1 :> 3) @@ (2 :> 3) @@ (3 :> 0),
   partner |-> (0 :> 1) @@ (1 :> 0) @@ (2 :> Nil) @@ (3 :> Nil),
   rank |-> (0 :> 4) @@ (1 :> 4) @@ (2 :> 3) @@ (3 :> 1)]

MCNetworks == {Swaps, Loans, Pools, Median}
=============================================================================
