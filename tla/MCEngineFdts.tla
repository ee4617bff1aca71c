---------------------------- MODULE MCEngineFdts ----------------------------
(* EngineFdts on three FDTs, in jobs of one and of two PONs: totals that fill
   FDTs exactly and totals that cannot. *)
EXTENDS EngineFdts, TLC

MCJobs == {<<1, 20>>, <<1, 22>>, <<2, 29>>}
Alike == Permutations(FDTs)
=============================================================================
