----------------------------- MODULE MCDispatch -----------------------------
(* Instances of AgentDispatch: the casts of messages the runs use. *)
EXTENDS AgentDispatch

CONSTANTS s1, s2, u1, u2, u3, a1, a2, a3, b1, p1, c1, e1, n1, d1, k1

Ordinary == [m \in Msg |->
    CASE m \in {u1, u2, u3} -> "user"
      [] m \in {a1, a2, a3} -> "auto"
      [] m = b1 -> "system"
      [] m = c1 -> "cont"
      [] m = e1 -> "autocont"
      [] m = p1 -> "stop"
      [] m = n1 -> "new"
      [] m = k1 -> "cmd"
      [] m = d1 -> "direct"]

\* u3 and a3 belong to the second session, everybody else to the first.
Home == [m \in Msg |-> IF m \in {u3, a3} THEN s2 ELSE s1]
=============================================================================
