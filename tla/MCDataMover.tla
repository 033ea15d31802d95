----------------------------- MODULE MCDataMover -----------------------------
(* Sources of 11 and 6 units under chunks of 2 and an interval of 5: chunk *)
(* ends meet the interval at 5k and 5k+1, the longer source ends in a      *)
(* short chunk, and zeros cover a chunk that should have been saved.       *)
EXTENDS DataMover

MCSources ==
  {[size |-> 11, zeros |-> {}], [size |-> 11, zeros |-> {2, 4, 5}],
   [size |-> 6, zeros |-> {}]}
=============================================================================
