--------------------------- MODULE MCLiveNetwork ---------------------------
(* A cabinet with a splitter box in it, a second box below the first, and the *)
(* cabinet's asset put into the box's; or a cabinet that was committed twice; *)
(* or boxes deeper down than a cascade goes.  Files with a cabinet, a box,   *)
(* FATs and a cable.                                                         *)
EXTENDS LiveNetwork

CONSTANTS a, b, c, h1, k1

Cabinet == [kind |-> "CABINET", code |-> a, active |-> TRUE, cabinet |-> None, parent |-> None]
Box(code, cabinet, parent) ==
  [kind |-> "SPLITTER", code |-> code, active |-> TRUE, cabinet |-> cabinet, parent |-> parent]
MCSeeds == { [rows |-> << Cabinet, Box(a, 1, None), Box(b, None, 2) >>, within |-> << 2, None, None >>],
             [rows |-> << Cabinet, Cabinet >>, within |-> << None, None >>],
             [rows |-> << Box(a, None, None), Box(b, None, 1), Box(c, None, 2) >>,
              within |-> << None, None, None >>] }

Of(code) == [code |-> code, from |-> None, to |-> None]
MCFiles == { [kind |-> "CABINET", rows |-> << Of(b) >>],
             [kind |-> "SPLITTER", rows |-> << Of(b) >>],
             [kind |-> "FAT", rows |-> << Of(a), Of(a) >>],
             [kind |-> "CABLE", rows |-> << [code |-> None, from |-> a, to |-> b] >>] }
=============================================================================
