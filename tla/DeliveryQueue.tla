---------------------------- MODULE DeliveryQueue ----------------------------
(***************************************************************************)
(* What the queue of local triggers promises: a delivery that was put is   *)
(* run, one delivery at a time and no more than MaxTries times, until it   *)
(* ends, and what has ended stays so.  A run whose end was not recorded    *)
(* counts as a failed one, which is what makes the queue at-least-once.    *)
(* Files, batches, restarts and errors are the business of the module that *)
(* implements it, LocalTriggerQueue.                                       *)
(***************************************************************************)
EXTENDS Naturals

CONSTANTS Item, MaxTries

VARIABLES
    state,  \* of each delivery
    tries   \* how often it was run

vars == <<state, tries>>

Init ==
    /\ state = [i \in Item |-> "new"]
    /\ tries = [i \in Item |-> 0]

Put(i) ==
    /\ state[i] = "new"
    /\ state' = [state EXCEPT ![i] = "waiting"]
    /\ UNCHANGED tries

Run(i) ==
    /\ state[i] = "waiting"
    /\ \A j \in Item : state[j] # "running"
    /\ tries[i] < MaxTries
    /\ state' = [state EXCEPT ![i] = "running"]
    /\ tries' = [tries EXCEPT ![i] = @ + 1]

\* It will be tried again.
Return(i) ==
    /\ state[i] = "running"
    /\ state' = [state EXCEPT ![i] = "waiting"]
    /\ UNCHANGED tries

\* Completed, given up, or taken away: with a trigger go all its deliveries.
End(S) ==
    /\ \A i \in S : state[i] \in {"waiting", "running"}
    /\ state' = [i \in Item |-> IF i \in S THEN "ended" ELSE state[i]]
    /\ UNCHANGED tries

Next ==
    \/ \E i \in Item : Put(i) \/ Run(i) \/ Return(i)
    \/ \E S \in SUBSET Item : End(S)

Spec == Init /\ [][Next]_vars
=============================================================================
