---------------------------- MODULE MCEngineFats ----------------------------
(* EngineFats on three roads that meet: a major one and two others, with a
   compound, a short tail and homes that two roads reach. *)
EXTENDS EngineFats

MCRoads == 1..3
MCHomes == 1..4
MCCustomers == <<{1, 3}, {9, 17}, {2}, {6}>>
MCNear == <<{1}, {1, 2}, {2, 3}, {3}>>
MCEnds == <<<<1, 2>>, <<2, 3>>, <<2, 4>>>>
MCMajor == {1}
=============================================================================
