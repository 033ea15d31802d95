---------------------------- MODULE JobLifecycle ----------------------------
(***************************************************************************)
(* What a backup job promises to whoever watches it: it runs at most once, *)
(* it ends at most once, in one of three ways, and its status callback is  *)
(* told the truth: RUNNING only while it runs, the end once and last.      *)
(***************************************************************************)
EXTENDS Sequences

CONSTANT Jobs

VARIABLES
  status,     (* JobStatus                                                  *)
  told        (* what the status callback has been called with              *)

vars == <<status, told>>

Ends == {"COMPLETED", "FAILED", "CANCELLED"}

Init ==
  /\ status = [j \in Jobs |-> "PENDING"]
  /\ told = [j \in Jobs |-> <<>>]

Start(j) ==
  /\ status[j] = "PENDING"
  /\ status' = [status EXCEPT ![j] = "RUNNING"]
  /\ UNCHANGED told

Finish(j) ==
  /\ status[j] = "RUNNING"
  /\ \E e \in Ends : status' = [status EXCEPT ![j] = e]
  /\ UNCHANGED told

(* The callback is told the present status; nothing follows an end.        *)
Tell(j) ==
  /\ status[j] # "PENDING"
  /\ \A i \in DOMAIN told[j] : told[j][i] = "RUNNING"
  /\ told' = [told EXCEPT ![j] = Append(@, status[j])]
  /\ UNCHANGED status

Next == \E j \in Jobs : Start(j) \/ Finish(j) \/ Tell(j)

Spec == Init /\ [][Next]_vars
=============================================================================
