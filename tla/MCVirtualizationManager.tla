---------------------- MODULE MCVirtualizationManager ----------------------
(* Two threads on one host, with as many connections as Adapters allows.   *)
EXTENDS VirtualizationManager
=============================================================================
