------------------------- MODULE MCRemoteReplication -------------------------
(* RemoteReplication with two starts that may overlap and have one id or   *)
(* two.                                                                    *)
EXTENDS RemoteReplication

(* The ids are alike, so the first start may as well take the first.       *)
FirstJob == CHOOSE j \in Jobs : TRUE
FirstId == id[FirstJob] \in {NoId, CHOOSE i \in Ids : TRUE}
=============================================================================
