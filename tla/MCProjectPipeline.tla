--------------------------- MODULE MCProjectPipeline ---------------------------
(* ProjectPipeline with a clerk of the sales department, a lead and a manager. *)
EXTENDS ProjectPipeline, TLC
CONSTANTS clerk, lead, manager, sales, finance

MCScope == clerk :> {sales} @@ lead :> {} @@ manager :> {}
AllIn(d) == [o \in Stages |-> d]
NoGate == [o \in Stages |-> 0]
Split == [o \in Stages |-> IF o % 2 = 1 THEN sales ELSE finance]

(* Stage 2 runs beside stage 3; stage 4 waits for it and both need an approval. *)
Parallel == [orders |-> 1..4, parallel |-> {2}, approval |-> {2, 4},
             gate |-> [NoGate EXCEPT ![4] = 2], dept |-> Split]
(* Two parallel stages in a row, the last one gated by the first. *)
Chained == [orders |-> 1..5, parallel |-> {2, 3}, approval |-> {1},
            gate |-> [NoGate EXCEPT ![5] = 3, ![3] = 1], dept |-> Split]
(* Numbered with a gap. *)
Gappy == [orders |-> {1, 2, 4}, parallel |-> {2}, approval |-> {}, gate |-> NoGate, dept |-> AllIn(finance)]
(* The first stages of the template of scripts/seed_pipeline_template.py: the payment
   confirmation (2) runs beside the network design (3) and is gated by it. *)
Expansion == [orders |-> 1..4, parallel |-> {2}, approval |-> {},
              gate |-> [NoGate EXCEPT ![2] = 3], dept |-> Split]
MCTemplates == {Parallel, Chained, Gappy, Expansion}
================================================================================
