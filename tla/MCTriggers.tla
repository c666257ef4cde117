---------------------------- MODULE MCTriggers ----------------------------
(* Instances of LocalTriggerQueue. *)
EXTENDS LocalTriggerQueue

CONSTANTS g1, g2

\* The second delivery belongs to a trigger of its own.
Owners == [d \in 1 .. MaxDeliveries |-> IF d = 2 THEN g2 ELSE g1]
=============================================================================
