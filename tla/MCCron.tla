------------------------------- MODULE MCCron -------------------------------
(* Instances of CronService. *)
EXTENDS CronService

CONSTANTS j1, j2, m1

\* j2 is due when j1, which is stored, comes round.
DueAt == [j \in Job |-> 3]
=============================================================================
