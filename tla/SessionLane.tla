------------------------------ MODULE SessionLane ------------------------------
(***************************************************************************)
(* What the dispatcher is for: every session is a lane.  A message that    *)
(* was accepted is served in a turn of its own, or its text joins one turn *)
(* of its lane that is not over, or it ends without either; one turn is    *)
(* served in a lane at a time; and nothing that was decided is decided     *)
(* again.  The bus, the locks, the gate, deferred turns and cancellation   *)
(* are the business of AgentDispatch.                                      *)
(***************************************************************************)
CONSTANTS Item, LaneOf, Nowhere

VARIABLES
    state,  \* of each message
    host    \* the turn that has its text

vars == <<state, host>>

Init ==
    /\ state = [i \in Item |-> "new"]
    /\ host = [i \in Item |-> Nowhere]

Accept(i) ==
    /\ state[i] = "new"
    /\ state' = [state EXCEPT ![i] = "waiting"]
    /\ UNCHANGED host

Serve(i) ==
    /\ state[i] = "waiting"
    /\ \A j \in Item : LaneOf[j] = LaneOf[i] => state[j] # "served"
    /\ state' = [state EXCEPT ![i] = "served"]
    /\ host' = [host EXCEPT ![i] = i]

Join(i, j) ==
    /\ state[i] = "waiting"
    /\ i # j
    /\ LaneOf[i] = LaneOf[j]
    /\ state[j] \in {"waiting", "served"}
    /\ state' = [state EXCEPT ![i] = "joined"]
    /\ host' = [host EXCEPT ![i] = j]

\* A turn ends; a command ends others with it.
End(S) ==
    /\ \A i \in S : state[i] \in {"waiting", "served"}
    /\ state' = [i \in Item |-> IF i \in S THEN "over" ELSE state[i]]
    /\ UNCHANGED host

Next ==
    \/ \E i \in Item : Accept(i) \/ Serve(i)
    \/ \E i, j \in Item : Join(i, j)
    \/ \E S \in SUBSET Item : End(S)

Spec == Init /\ [][Next]_vars
=============================================================================
