----------------------------- MODULE MCCdpEngine -----------------------------
(* CdpEngine on small instances: two callers, so that start, stop and      *)
(* shutdown overlap; few ids, so that one can be started twice.            *)
EXTENDS CdpEngine, TLC

Symmetry ==
  Permutations(Callers) \cup Permutations(Sids) \cup Permutations(Objs)
=============================================================================
