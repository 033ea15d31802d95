------------------------ MODULE MCDirtyBufferLogger ------------------------
(* Two backup workers flush at the same time on a host with three pages:   *)
(* enough for a flush that leaves the count lower, equal or higher.        *)
EXTENDS DirtyBufferLogger, TLC

Symmetry == Permutations(Calls) \cup Permutations(Pages)
=============================================================================
