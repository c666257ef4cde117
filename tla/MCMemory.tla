------------------------------ MODULE MCMemory ------------------------------
(* Instances of SessionMemory. *)
EXTENDS SessionMemory
=============================================================================
