------------------------------ MODULE MCStreams ------------------------------
(* Instances of StreamDelivery: the turns t1 and t2 of one session, and t3 of *)
(* another one, in a chat of its own or in another topic of the same chat.    *)
EXTENDS StreamDelivery

CONSTANTS t1, t2, t3, Topics

MCSessionOf == [t \in Turn |-> IF t = t3 THEN "s2" ELSE "s1"]
MCChatOf == [t \in Turn |-> IF t = t3 /\ ~Topics THEN "c2" ELSE "c1"]
=============================================================================
