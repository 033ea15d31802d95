-------------------------- MODULE MCDrOrchestrator --------------------------
(* Two runs within two seconds, of a plan whose steps have different     *)
(* orders, one booting slowly, and of a plan whose steps have the same     *)
(* order.  MCBackwards is a plan whose orders contradict its dependencies. *)
EXTENDS DrOrchestrator, TLC

CONSTANTS db, app

MCDb(o) == [vm |-> db, order |-> o, deps |-> {}, delayed |-> TRUE]
MCApp(o) == [vm |-> app, order |-> o, deps |-> {db}, delayed |-> FALSE]

MCPlans == {{MCDb(1), MCApp(2)}, {MCApp(1)}}
MCBackwards == {{MCDb(1), MCApp(2)}, {MCDb(2), MCApp(1)}}

Symmetry == Permutations(Calls)
=============================================================================
