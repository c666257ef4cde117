----------------------------- MODULE MCHistory -----------------------------
(* Instances of TurnHistory. *)
EXTENDS TurnHistory

CONSTANTS t1, t2, t3, c1, f1, f2
=============================================================================
