------------------------ MODULE AgentDispatchProofs ------------------------
(* What AgentDispatch guarantees for every cast of messages. *)
EXTENDS AgentDispatch, SequenceTheorems, TLAPS

\* Cutting one position out of a queue leaves a queue, with the same head
\* unless the head was cut.
LEMMA RemoveAtQueue ==
    ASSUME NEW S, NEW q \in Seq(S), NEW i \in 1..Len(q)
    PROVE  /\ RemoveAt(q, i) \in Seq(S)
           /\ i # 1 => RemoveAt(q, i) # <<>> /\ Head(RemoveAt(q, i)) = Head(q)
<1>. DEFINE a == SubSeq(q, 1, i-1)
            b == SubSeq(q, i+1, Len(q))
<1>0. Len(q) \in Nat
    BY LenProperties
<1>1. /\ a \in Seq(S)
      /\ i # 1 => Len(a) = i-1 /\ a[1] = q[1]
    <2>1. \A j \in 1 .. i-1 : q[j] \in S
        BY ElementOfSeq, <1>0
    <2>. QED  BY <2>1, SubSeqProperties, <1>0
<1>2. b \in Seq(S)
    <2>1. \A j \in i+1 .. Len(q) : q[j] \in S
        BY ElementOfSeq, <1>0
    <2>. QED  BY <2>1, SubSeqProperties, <1>0
<1>3. RemoveAt(q, i) = a \o b
    BY DEF RemoveAt
<1>. HIDE DEF a, b
<1>4. /\ a \o b \in Seq(S)
      /\ Len(a \o b) = Len(a) + Len(b)
      /\ \A k \in 1 .. Len(a) + Len(b) : (a \o b)[k] = IF k <= Len(a) THEN a[k] ELSE b[k - Len(a)]
    BY <1>1, <1>2, ConcatProperties
<1>5. ASSUME i # 1
      PROVE  a \o b # <<>> /\ Head(a \o b) = Head(q)
    <2>1. Len(a) >= 1 /\ Len(b) \in Nat /\ Len(a) \in Nat
        BY <1>0, <1>1, <1>2, <1>5, LenProperties
    <2>2. Len(a \o b) >= 1 /\ (a \o b)[1] = a[1]
        BY <2>1, <1>4
    <2>. QED  BY <2>2, <1>4, <1>1, <1>5
<1>. QED  BY <1>3, <1>4, <1>5

\* Removing an element from a queue leaves a queue, and removing one that is
\* not the head keeps the head.
LEMMA WithoutQueue ==
    ASSUME NEW S, NEW q \in Seq(S), NEW e
    PROVE  /\ Without(q, e) \in Seq(S)
           /\ q # <<>> /\ Head(q) # e => Without(q, e) # <<>> /\ Head(Without(q, e)) = Head(q)
<1>1. CASE e \notin ToSet(q)
    BY <1>1 DEF Without
<1>2. CASE e \in ToSet(q)
    <2>. DEFINE i == CHOOSE j \in DOMAIN q : q[j] = e
    <2>1. i \in 1..Len(q) /\ q[i] = e
        BY <1>2, LenProperties DEF ToSet
    <2>2. Without(q, e) = RemoveAt(q, i)
        BY <1>2 DEF Without
    <2>. HIDE DEF i
    <2>3. Head(q) # e => i # 1
        BY <2>1
    <2>. QED  BY <2>1, <2>2, <2>3, RemoveAtQueue
<1>. QED  BY <1>1, <1>2

-----------------------------------------------------------------------------
(* Types *)

\* The bus and the deferred turns of a session after one was published.
LEMMA PublishTypes ==
    ASSUME TypeOK, NEW s \in Session
    PROVE  /\ NextDeferred(s) \in Seq(Msg)
           /\ LaterDeferred(s) \in Seq(Msg)
           /\ \A left \in Seq(Msg) : bus \o left \in Seq(Msg)
           /\ \A left \in Seq(Msg) : (bus \o left) \o NextDeferred(s) \in Seq(Msg)
<1>1. deferred[s] \in Seq(Msg) /\ bus \in Seq(Msg)
    BY DEF TypeOK
<1>2. NextDeferred(s) \in Seq(Msg) /\ LaterDeferred(s) \in Seq(Msg)
    BY <1>1, HeadTailProperties, EmptySeq DEF NextDeferred, LaterDeferred, Due
<1>. QED  BY <1>1, <1>2, ConcatProperties

\* Leaving _dispatch: the next deferred turn, and the lock to the next in line.
LEMMA DepartTypes ==
    ASSUME TypeOK, NEW m \in Msg, Owner(m), NEW left \in Seq(Msg), Depart(m, left)
    PROVE  /\ bus' \in Seq(Msg)
           /\ deferred' \in [Session -> Seq(Msg)]
           /\ lockQ' \in [Session -> Seq(Msg)]
           /\ stage' \in [Msg -> Stages]
           /\ tracked' \subseteq Msg
<1>1. SessionOf[m] \in Session
    BY DispatchAssumption
<1>2. bus' \in Seq(Msg)
    BY <1>1, PublishTypes DEF Depart
<1>3. deferred' \in [Session -> Seq(Msg)]
    BY <1>1, PublishTypes DEF Depart, TypeOK
<1>4. lockQ' \in [Session -> Seq(Msg)]
    BY <1>1, HeadTailProperties DEF Depart, TypeOK, Owner
<1>. QED  BY <1>2, <1>3, <1>4 DEF Depart, TypeOK, Stages

LEMMA EndTurnTypes ==
    ASSUME TypeOK, NEW m \in Msg, Owner(m), NEW v \in {"ok", "error"}, EndTurn(m, v)
    PROVE  TypeOK'
<1>1. SessionOf[m] \in Session /\ pending[SessionOf[m]] \in Seq(Msg)
    BY DispatchAssumption DEF TypeOK
<1>2. waiter' \in [Msg -> Waits]
    BY DEF EndTurn, Settle, TypeOK, Waits
<1>3. /\ active' \subseteq Session
      /\ pending' \in [Session -> Seq(Msg)]
      /\ awaiting' \in [Msg -> SUBSET Msg]
      /\ doomed' \subseteq Msg
      /\ ready' \in Seq(Msg) /\ gateQ' \in Seq(Msg) /\ home' \in [Msg -> Msg \cup {NoMsg}]
    BY <1>1, EmptySeq DEF EndTurn, Unregister, TypeOK
<1>4. CASE stage[m] \in {"yielding", "yielded"}
    <2>1. Depart(m, pending[SessionOf[m]])
        BY <1>4 DEF EndTurn, Leftovers
    <2>. QED  BY <1>1, <1>2, <1>3, <2>1, DepartTypes DEF TypeOK
<1>5. CASE stage[m] \notin {"yielding", "yielded"}
    <2>1. bus' \in Seq(Msg)
        BY <1>5, <1>1, PublishTypes DEF EndTurn, Leftovers
    <2>2. stage' \in [Msg -> Stages]
        BY <1>5 DEF EndTurn, TypeOK, Stages, HoldStages
    <2>3. lockQ' = lockQ /\ deferred' = deferred /\ tracked' = tracked
        BY <1>5 DEF EndTurn
    <2>. QED  BY <1>2, <1>3, <2>1, <2>2, <2>3 DEF TypeOK
<1>. QED  BY <1>4, <1>5

LEMMA HoldersOwn ==
    ASSUME HolderIsHead, NEW m \in Msg, stage[m] \in TurnStages \cup {"gatewait", "closing"}
    PROVE  Owner(m)
BY DEF HolderIsHead, Holding, HoldStages

LEMMA TypeStep ==
    ASSUME TypeOK, HolderIsHead, [Next]_vars
    PROVE  TypeOK'
<1>. USE DispatchAssumption DEF TypeOK
<1>. DEFINE Move(m, x) == [stage EXCEPT ![m] = x]
<1>0. \A m \in Msg : \A x \in Stages : Move(m, x) \in [Msg -> Stages]
    OBVIOUS
<1>s. {"new", "queued", "merging", "executing", "ready", "lockwait", "absorbed",
       "handled", "dropped", "ended", "gatewait", "closing", "running",
       "resetting", "runnow", "yielding", "yielded"} \subseteq Stages
    BY DEF Stages, HoldStages, TurnStages
<1>1. ASSUME NEW m \in Msg, Send(m) PROVE TypeOK'
    BY <1>1, <1>0, <1>s, AppendProperties DEF Send, Waits
<1>2. ASSUME NEW m \in Msg, CallDirect(m) PROVE TypeOK'
    BY <1>2, <1>0, <1>s, AppendProperties DEF CallDirect
<1>3. ASSUME NEW m \in Msg, DropUnknown(m) PROVE TypeOK'
    BY <1>3, <1>0, <1>s, HeadTailProperties DEF DropUnknown, Consume
<1>4. ASSUME NEW m \in Msg, BeginCommand(m) PROVE TypeOK'
    BY <1>4, <1>0, <1>s, HeadTailProperties DEF BeginCommand, Consume, CancelActive, ActiveTasks
<1>5. ASSUME NEW m \in Msg, EndCommand(m) PROVE TypeOK'
    <2>1. stage' \in [Msg -> Stages]
        <3>. HIDE DEF TypeOK
        <3>1. stage \in [Msg -> Stages]
            BY DEF TypeOK
        <3>2. PICK drop : stage' = [x \in Msg |-> IF x \in drop THEN "dropped"
                                                ELSE IF x = m THEN "handled" ELSE stage[x]]
            BY <1>5 DEF EndCommand
        <3>. QED  BY <3>1, <3>2, <1>s
    <2>2. CASE Kind[m] = "stop"
        <3>1. Unregister(SessionOf[m])
            BY <1>5, <2>2 DEF EndCommand
        <3>2. active' \subseteq Session /\ pending' \in [Session -> Seq(Msg)]
            BY <3>1, EmptySeq DEF Unregister
        <3>. QED  BY <1>5, <2>1, <3>2 DEF EndCommand
    <2>3. CASE Kind[m] # "stop"
        BY <1>5, <2>1, <2>3 DEF EndCommand
    <2>. QED  BY <2>2, <2>3
<1>6. ASSUME NEW m \in Msg, AnswerCommand(m) PROVE TypeOK'
    BY <1>6, <1>0, <1>s, HeadTailProperties DEF AnswerCommand, Consume
<1>7. ASSUME NEW m \in Msg, Defer(m) PROVE TypeOK'
    BY <1>7, <1>0, <1>s, HeadTailProperties, AppendProperties DEF Defer, Consume
<1>8. ASSUME NEW m \in Msg, RouteFollowUp(m) PROVE TypeOK'
    BY <1>8, <1>0, <1>s, HeadTailProperties, AppendProperties DEF RouteFollowUp, Consume
<1>9. ASSUME NEW m \in Msg, OpenTurn(m) PROVE TypeOK'
    <2>1. bus' \in Seq(Msg) /\ ready' \in Seq(Msg) /\ tracked' \subseteq Msg
        BY <1>9, <1>0, HeadTailProperties, AppendProperties DEF OpenTurn, Consume, CreateTask
    <2>2. stage' \in [Msg -> Stages]
        BY <1>9, <1>0, <1>s DEF OpenTurn
    <2>. QED  BY <1>9, <1>0, <2>1, <2>2 DEF OpenTurn
<1>10. ASSUME NEW m \in Msg, OpenWindow(m) PROVE TypeOK'
    BY <1>10, <1>0, <1>s, HeadTailProperties DEF OpenWindow, Consume
<1>11. ASSUME NEW m \in Msg, MergeNext(m) PROVE TypeOK'
    BY <1>11, <1>0, <1>s, HeadTailProperties DEF MergeNext
<1>12. ASSUME NEW m \in Msg, CloseWindow(m) PROVE TypeOK'
    <2>1. bus' \in Seq(Msg)
        <3>. HIDE DEF TypeOK
        <3>1. bus \in Seq(Msg)
            BY DEF TypeOK
        <3>2. bus # <<>> => Append(Tail(bus), Head(bus)) \in Seq(Msg)
            BY <3>1, HeadTailProperties, AppendProperties
        <3>. QED  BY <1>12, <3>1, <3>2 DEF CloseWindow
    <2>2. ready' \in Seq(Msg) /\ tracked' \subseteq Msg
        BY <1>12, AppendProperties DEF CloseWindow, CreateTask
    <2>. QED  BY <1>12, <1>0, <1>s, <2>1, <2>2 DEF CloseWindow
<1>13. ASSUME NEW m \in Msg, StartTask(m) PROVE TypeOK'
    BY <1>13, <1>0, <1>s, HeadTailProperties, AppendProperties DEF StartTask
<1>14. ASSUME NEW m \in Msg, AcquireLock(m) PROVE TypeOK'
    <2>0. UNCHANGED <<bus, ready, lockQ, active, pending, deferred, tracked,
                     doomed, awaiting, waiter>>
        BY <1>14 DEF AcquireLock
    <2>1. CASE Kind[m] = "direct"
        <3>1. /\ stage' = Move(m, "running")
              /\ home' = [home EXCEPT ![m] = m]
              /\ gateQ' = gateQ
            BY <1>14, <2>1 DEF AcquireLock
        <3>. QED  BY <2>0, <3>1, <1>0, <1>s
    <2>2. CASE Kind[m] # "direct"
        <3>1. /\ stage' = Move(m, "gatewait")
              /\ gateQ' = Append(gateQ, m)
              /\ home' = home
            BY <1>14, <2>2 DEF AcquireLock
        <3>. QED  BY <2>0, <3>1, <1>0, <1>s, AppendProperties
    <2>. QED  BY <2>1, <2>2
<1>15. ASSUME NEW m \in Msg, BeginTurn(m) PROVE TypeOK'
    <2>1. gateQ' \in Seq(Msg)
        BY <1>15, HeadTailProperties DEF BeginTurn
    <2>2. /\ stage' = Move(m, "running")
          /\ active' = active \cup {SessionOf[m]}
          /\ pending' = [pending EXCEPT ![SessionOf[m]] = <<>>]
          /\ home' = [home EXCEPT ![m] = m]
          /\ UNCHANGED <<bus, ready, lockQ, deferred, tracked, doomed, awaiting, waiter>>
        BY <1>15 DEF BeginTurn
    <2>3. stage' \in [Msg -> Stages]
        BY <2>2, <1>0, <1>s
    <2>4. active' \subseteq Session /\ pending' \in [Session -> Seq(Msg)]
        BY <2>2, EmptySeq
    <2>. QED  BY <2>1, <2>2, <2>3, <2>4
<1>16. ASSUME NEW m \in Msg, Inject(m) PROVE TypeOK'
    BY <1>16, <1>0, <1>s, HeadTailProperties DEF Inject, Undrained
<1>17. ASSUME NEW m \in Msg, RunNowReturns(m) PROVE TypeOK'
    BY <1>17, <1>0, <1>s DEF RunNowReturns
<1>18. ASSUME NEW m \in Msg, BeginReset(m) PROVE TypeOK'
    BY <1>18, <1>0, <1>s DEF BeginReset, CancelActive, ActiveTasks
<1>19. ASSUME NEW m \in Msg, BeginContinue(m) PROVE TypeOK'
    BY <1>19, <1>0, <1>s DEF BeginContinue
<1>20. ASSUME NEW m \in Msg, PutContinuation(m) PROVE TypeOK'
    <2>1. PICK c \in Msg :
              /\ pending' = [pending EXCEPT ![SessionOf[m]] = Append(@, c)]
              /\ stage' = [stage EXCEPT ![m] = "yielded", ![c] = "queued"]
        BY <1>20 DEF PutContinuation, Continuations
    <2>2. pending' \in [Session -> Seq(Msg)]
        BY <2>1, AppendProperties
    <2>3. stage' \in [Msg -> Stages]
        BY <2>1, <1>s
    <2>. QED  BY <1>20, <2>2, <2>3 DEF PutContinuation
<1>21. ASSUME NEW m \in Msg, CloseTurn(m) PROVE TypeOK'
    BY <1>21, <1>0, <1>s, HoldersOwn, DepartTypes, EmptySeq DEF CloseTurn
<1>22. ASSUME NEW m \in Msg, ReturnDirect(m) PROVE TypeOK'
    BY <1>22, <1>0, <1>s, HoldersOwn, HeadTailProperties DEF ReturnDirect, TurnStages, Owner
<1>23. ASSUME NEW m \in Msg, CancelUnstarted(m) PROVE TypeOK'
    BY <1>23, <1>0, <1>s, HeadTailProperties DEF CancelUnstarted
<1>24. ASSUME NEW m \in Msg, CancelWaiting(m) PROVE TypeOK'
    <2>0. SessionOf[m] \in Session /\ lockQ[SessionOf[m]] \in Seq(Msg)
        OBVIOUS
    <2>1. bus' \in Seq(Msg) /\ deferred' \in [Session -> Seq(Msg)]
        BY <1>24, <2>0, PublishTypes, ConcatProperties DEF CancelWaiting
    <2>2. gateQ' \in Seq(Msg)
        BY <1>24, WithoutQueue DEF CancelWaiting
    <2>3. stage[m] = "gatewait" => lockQ[SessionOf[m]] # <<>>
        BY HoldersOwn DEF Owner
    <2>4. (IF stage[m] = "gatewait" THEN Tail(lockQ[SessionOf[m]])
                                    ELSE Without(lockQ[SessionOf[m]], m)) \in Seq(Msg)
        BY <2>0, <2>3, HeadTailProperties, WithoutQueue
    <2>5. lockQ' \in [Session -> Seq(Msg)]
        BY <1>24, <2>4 DEF CancelWaiting
    <2>6. stage' \in [Msg -> Stages]
        BY <1>24, <1>0, <1>s DEF CancelWaiting
    <2>. QED  BY <1>24, <2>1, <2>2, <2>5, <2>6 DEF CancelWaiting
<1>25. ASSUME NEW m \in Msg, CancelTurn(m) PROVE TypeOK'
    BY <1>25, <1>0, <1>s, HoldersOwn, EndTurnTypes DEF CancelTurn
<1>26. ASSUME NEW m \in Msg, CancelClosing(m) PROVE TypeOK'
    BY <1>26, <1>0, <1>s, HoldersOwn, HeadTailProperties DEF CancelClosing, Owner
<1>27. ASSUME NEW m \in Msg, NEW a \in Msg, RunNow(m, a) PROVE TypeOK'
    <2>1. bus' \in Seq(Msg)
        BY <1>27, <1>0, AppendProperties DEF RunNow
    <2>2. stage' \in [Msg -> Stages] /\ waiter' \in [Msg -> Waits]
        BY <1>27, <1>0, <1>s DEF RunNow, Waits
    <2>3. awaiting' \in [Msg -> SUBSET Msg]
        BY <1>27 DEF RunNow
    <2>4. UNCHANGED <<ready, lockQ, gateQ, active, pending, deferred, tracked, doomed, home>>
        BY <1>27 DEF RunNow
    <2>. QED  BY <2>1, <2>2, <2>3, <2>4
<1>28. ASSUME NEW m \in Msg, NEW v \in {"ok", "error"}, FinishTurn(m, v) PROVE TypeOK'
    <2>1. Owner(m) /\ EndTurn(m, v)
        BY <1>28, HoldersOwn DEF FinishTurn, TurnStages
    <2>. HIDE DEF TypeOK
    <2>. QED  BY <2>1, EndTurnTypes
<1>29. CASE UNCHANGED vars
    BY <1>29 DEF vars
<1>. HIDE DEF TypeOK
<1>a. ASSUME LoopStep PROVE TypeOK'
    BY <1>a, <1>3, <1>4, <1>5, <1>6, <1>7, <1>8, <1>9, <1>10, <1>11, <1>12 DEF LoopStep
<1>b. ASSUME NEW m \in Msg, TaskStep(m) PROVE TypeOK'
    BY <1>b, <1>13, <1>14, <1>15, <1>17, <1>18, <1>20, <1>21, <1>22, <1>23, <1>24, <1>25, <1>26, <1>28 DEF TaskStep
<1>c. ASSUME NEW m \in Msg, TurnChoice(m) PROVE TypeOK'
    BY <1>c, <1>16, <1>19, <1>27 DEF TurnChoice
<1>. QED  BY <1>a, <1>b, <1>c, <1>1, <1>2, <1>29 DEF Next

-----------------------------------------------------------------------------
(* The lock *)

\* A step that leaves the queues of the lock alone and gives it to nobody.
LEMMA NoNewHolder ==
    ASSUME HolderIsHead, UNCHANGED lockQ, \A x \in Msg : Holding(x)' => Holding(x)
    PROVE  HolderIsHead'
BY DEF HolderIsHead, Owner

\* The holder leaves: the next in line is not holding yet, so nobody is.
LEMMA Release ==
    ASSUME HolderIsHead, TypeOK, NEW m \in Msg, Owner(m),
           lockQ' = [lockQ EXCEPT ![SessionOf[m]] = Tail(@)],
           stage' = [stage EXCEPT ![m] = "ended"]
    PROVE  HolderIsHead'
<1>1. SUFFICES ASSUME NEW x \in Msg, Holding(x)' PROVE Owner(x)'
    BY DEF HolderIsHead
<1>2. x # m /\ Holding(x)
    BY <1>1 DEF Holding, HoldStages, TurnStages, TypeOK
<1>3. Owner(x)
    BY <1>2 DEF HolderIsHead
<1>4. SessionOf[x] # SessionOf[m]
    BY <1>2, <1>3 DEF Owner
<1>. QED  BY <1>3, <1>4, DispatchAssumption DEF Owner, TypeOK

\* A task or a call joins the queue of the lock.
LEMMA Join ==
    ASSUME HolderIsHead, TypeOK, NEW m \in Msg,
           lockQ' = [lockQ EXCEPT ![SessionOf[m]] = Append(@, m)],
           stage' = [stage EXCEPT ![m] = "lockwait"]
    PROVE  HolderIsHead'
<1>1. SUFFICES ASSUME NEW x \in Msg, Holding(x)' PROVE Owner(x)'
    BY DEF HolderIsHead
<1>2. Holding(x)
    BY <1>1 DEF Holding, HoldStages, TurnStages, TypeOK
<1>3. Owner(x)
    BY <1>2 DEF HolderIsHead
<1>4. CASE SessionOf[x] # SessionOf[m]
    BY <1>3, <1>4, DispatchAssumption DEF Owner, TypeOK
<1>5. CASE SessionOf[x] = SessionOf[m]
    <2>1. lockQ[SessionOf[m]] \in Seq(Msg)
        BY DispatchAssumption DEF TypeOK
    <2>2. lockQ'[SessionOf[m]] = Append(lockQ[SessionOf[m]], m)
        BY DispatchAssumption DEF TypeOK
    <2>. QED  BY <1>3, <1>5, <2>1, <2>2, AppendProperties, HeadTailAppend DEF Owner
<1>. QED  BY <1>4, <1>5

LEMMA EndTurnLock ==
    ASSUME HolderIsHead, TypeOK, NEW m \in Msg, Owner(m), stage[m] \in TurnStages,
           NEW v, EndTurn(m, v)
    PROVE  HolderIsHead'
<1>1. CASE stage[m] \in {"yielding", "yielded"}
    BY <1>1, Release DEF EndTurn, Depart
<1>2. CASE stage[m] \notin {"yielding", "yielded"}
    <2>1. \A x \in Msg : Holding(x)' => Holding(x)
        BY <1>2 DEF EndTurn, Holding, HoldStages, TurnStages, TypeOK
    <2>. QED  BY <1>2, <2>1, NoNewHolder DEF EndTurn
<1>. QED  BY <1>1, <1>2

LEMMA LockStep ==
    ASSUME TypeOK, HolderIsHead, [Next]_vars
    PROVE  HolderIsHead'
<1>. USE DispatchAssumption
<1>1. ASSUME NEW m \in Msg, Send(m) PROVE HolderIsHead'
    BY <1>1, NoNewHolder DEF Send, Holding, HoldStages, TurnStages, TypeOK
<1>2. ASSUME NEW m \in Msg, CallDirect(m) PROVE HolderIsHead'
    BY <1>2, Join DEF CallDirect
<1>3. ASSUME NEW m \in Msg, DropUnknown(m) PROVE HolderIsHead'
    BY <1>3, NoNewHolder DEF DropUnknown, Holding, HoldStages, TurnStages, TypeOK
<1>4. ASSUME NEW m \in Msg, BeginCommand(m) PROVE HolderIsHead'
    BY <1>4, NoNewHolder DEF BeginCommand, Holding, HoldStages, TurnStages, TypeOK
<1>5. ASSUME NEW m \in Msg, EndCommand(m) PROVE HolderIsHead'
    <2>1. \A x \in Msg : Holding(x)' => Holding(x)
        BY <1>5 DEF EndCommand, Holding, HoldStages, TurnStages, TypeOK
    <2>. QED  BY <1>5, <2>1, NoNewHolder DEF EndCommand
<1>6. ASSUME NEW m \in Msg, AnswerCommand(m) PROVE HolderIsHead'
    BY <1>6, NoNewHolder DEF AnswerCommand, Holding, HoldStages, TurnStages, TypeOK
<1>7. ASSUME NEW m \in Msg, Defer(m) PROVE HolderIsHead'
    BY <1>7, NoNewHolder DEF Defer, Holding, HoldStages, TurnStages, TypeOK
<1>8. ASSUME NEW m \in Msg, RouteFollowUp(m) PROVE HolderIsHead'
    BY <1>8, NoNewHolder DEF RouteFollowUp, Holding, HoldStages, TurnStages, TypeOK
<1>9. ASSUME NEW m \in Msg, OpenTurn(m) PROVE HolderIsHead'
    BY <1>9, NoNewHolder DEF OpenTurn, Holding, HoldStages, TurnStages, TypeOK
<1>10. ASSUME NEW m \in Msg, OpenWindow(m) PROVE HolderIsHead'
    BY <1>10, NoNewHolder DEF OpenWindow, Holding, HoldStages, TurnStages, TypeOK
<1>11. ASSUME NEW m \in Msg, MergeNext(m) PROVE HolderIsHead'
    BY <1>11, NoNewHolder DEF MergeNext, Holding, HoldStages, TurnStages, TypeOK
<1>12. ASSUME NEW m \in Msg, CloseWindow(m) PROVE HolderIsHead'
    BY <1>12, NoNewHolder DEF CloseWindow, Holding, HoldStages, TurnStages, TypeOK
<1>13. ASSUME NEW m \in Msg, StartTask(m) PROVE HolderIsHead'
    BY <1>13, Join DEF StartTask
<1>14. ASSUME NEW m \in Msg, AcquireLock(m) PROVE HolderIsHead'
    <2>1. Owner(m) /\ lockQ' = lockQ
        BY <1>14 DEF AcquireLock
    <2>2. \A x \in Msg : x # m /\ Holding(x)' => Holding(x)
        BY <1>14 DEF AcquireLock, Holding, TypeOK
    <2>. QED  BY <2>1, <2>2 DEF HolderIsHead, Owner
<1>15. ASSUME NEW m \in Msg, BeginTurn(m) PROVE HolderIsHead'
    BY <1>15, NoNewHolder DEF BeginTurn, Holding, HoldStages, TurnStages, TypeOK
<1>16. ASSUME NEW m \in Msg, Inject(m) PROVE HolderIsHead'
    BY <1>16, NoNewHolder DEF Inject, Holding, HoldStages, TurnStages, TypeOK
<1>17. ASSUME NEW m \in Msg, RunNowReturns(m) PROVE HolderIsHead'
    BY <1>17, NoNewHolder DEF RunNowReturns, Holding, HoldStages, TurnStages, TypeOK
<1>18. ASSUME NEW m \in Msg, BeginReset(m) PROVE HolderIsHead'
    BY <1>18, NoNewHolder DEF BeginReset, Holding, HoldStages, TurnStages, TypeOK
<1>19. ASSUME NEW m \in Msg, BeginContinue(m) PROVE HolderIsHead'
    BY <1>19, NoNewHolder DEF BeginContinue, Holding, HoldStages, TurnStages, TypeOK
<1>20. ASSUME NEW m \in Msg, PutContinuation(m) PROVE HolderIsHead'
    <2>1. PICK c \in Msg : stage' = [stage EXCEPT ![m] = "yielded", ![c] = "queued"]
        BY <1>20 DEF PutContinuation, Continuations
    <2>2. \A x \in Msg : Holding(x)' => Holding(x)
        BY <1>20, <2>1 DEF PutContinuation, Holding, HoldStages, TurnStages, TypeOK
    <2>. QED  BY <1>20, <2>2, NoNewHolder DEF PutContinuation
<1>21. ASSUME NEW m \in Msg, CloseTurn(m) PROVE HolderIsHead'
    BY <1>21, HoldersOwn, Release DEF CloseTurn, Depart, TurnStages
<1>22. ASSUME NEW m \in Msg, ReturnDirect(m) PROVE HolderIsHead'
    BY <1>22, HoldersOwn, Release DEF ReturnDirect, Depart, TurnStages
<1>23. ASSUME NEW m \in Msg, CancelUnstarted(m) PROVE HolderIsHead'
    BY <1>23, NoNewHolder DEF CancelUnstarted, Holding, HoldStages, TurnStages, TypeOK
<1>24. ASSUME NEW m \in Msg, CancelWaiting(m) PROVE HolderIsHead'
    <2>1. CASE stage[m] = "gatewait"
        BY <1>24, <2>1, HoldersOwn, Release DEF CancelWaiting
    <2>2. CASE stage[m] = "lockwait"
        <3>1. SUFFICES ASSUME NEW x \in Msg, Holding(x)' PROVE Owner(x)'
            BY DEF HolderIsHead
        <3>2. x # m /\ Holding(x)
            BY <1>24, <2>2, <3>1 DEF CancelWaiting, Holding, HoldStages, TurnStages, TypeOK
        <3>3. Owner(x)
            BY <3>2 DEF HolderIsHead
        <3>4. lockQ' = [lockQ EXCEPT ![SessionOf[m]] = Without(@, m)]
            BY <1>24, <2>2 DEF CancelWaiting, TypeOK
        <3>5. CASE SessionOf[x] = SessionOf[m]
            <4>1. lockQ[SessionOf[m]] \in Seq(Msg) /\ SessionOf[m] \in Session
                BY DEF TypeOK
            <4>2. lockQ'[SessionOf[m]] = Without(lockQ[SessionOf[m]], m)
                BY <3>4, <4>1 DEF TypeOK
            <4>. QED  BY <3>2, <3>3, <3>5, <4>1, <4>2, WithoutQueue DEF Owner
        <3>6. CASE SessionOf[x] # SessionOf[m]
            BY <3>3, <3>4, <3>6 DEF Owner, TypeOK
        <3>. QED  BY <3>5, <3>6
    <2>. QED  BY <1>24, <2>1, <2>2 DEF CancelWaiting
<1>25. ASSUME NEW m \in Msg, CancelTurn(m) PROVE HolderIsHead'
    BY <1>25, HoldersOwn, EndTurnLock DEF CancelTurn
<1>26. ASSUME NEW m \in Msg, CancelClosing(m) PROVE HolderIsHead'
    BY <1>26, HoldersOwn, Release DEF CancelClosing, Depart, TurnStages
<1>27. ASSUME NEW m \in Msg, NEW a \in Msg, RunNow(m, a) PROVE HolderIsHead'
    BY <1>27, NoNewHolder DEF RunNow, Holding, HoldStages, TurnStages, TypeOK
<1>28. ASSUME NEW m \in Msg, NEW v \in {"ok", "error"}, FinishTurn(m, v) PROVE HolderIsHead'
    <2>1. stage[m] \in TurnStages /\ Owner(m) /\ EndTurn(m, v)
        BY <1>28, HoldersOwn DEF FinishTurn, TurnStages
    <2>. QED  BY <2>1, EndTurnLock
<1>29. CASE UNCHANGED vars
    BY <1>29 DEF vars, HolderIsHead, Holding, Owner
<1>a. ASSUME LoopStep PROVE HolderIsHead'
    BY <1>a, <1>3, <1>4, <1>5, <1>6, <1>7, <1>8, <1>9, <1>10, <1>11, <1>12 DEF LoopStep
<1>b. ASSUME NEW m \in Msg, TaskStep(m) PROVE HolderIsHead'
    BY <1>b, <1>13, <1>14, <1>15, <1>17, <1>18, <1>20, <1>21, <1>22, <1>23, <1>24, <1>25, <1>26, <1>28 DEF TaskStep
<1>c. ASSUME NEW m \in Msg, TurnChoice(m) PROVE HolderIsHead'
    BY <1>c, <1>16, <1>19, <1>27 DEF TurnChoice
<1>. QED  BY <1>a, <1>b, <1>c, <1>1, <1>2, <1>29 DEF Next

-----------------------------------------------------------------------------
(* Theorems *)

\* Types and lock discipline are inductive together.
LEMMA Invariance == Spec => [](TypeOK /\ HolderIsHead)
<1>1. Init => TypeOK
    BY EmptySeq DEF Init, TypeOK, Stages, Waits
<1>2. Init => HolderIsHead
    BY DEF Init, HolderIsHead, Holding, HoldStages, TurnStages
<1>3. TypeOK /\ HolderIsHead /\ [Next]_vars => (TypeOK /\ HolderIsHead)'
    BY TypeStep, LockStep
<1>. QED  BY <1>1, <1>2, <1>3, PTL DEF Spec

\* The variables keep their types: the bus and the queues hold messages only, in
\* particular no empty deferred queue is ever popped (publish_next_deferred_turn),
\* and every task is in a known stage of run() and _dispatch.
THEOREM TypeCorrect == Spec => []TypeOK
BY Invariance, PTL

\* The holder of a session lock is the head of the queue of that lock, whatever
\* is cancelled, handed over or released (asyncio.Lock under _dispatch).
THEOREM LockDiscipline == Spec => []HolderIsHead
BY Invariance, PTL

\* Turns of one session never overlap, for every number of sessions, messages,
\* commands and direct calls and every size of the gate: two holders of one
\* lock would both be the head of its queue (_dispatch, process_direct).
THEOREM Exclusion == Spec => []OneTurnPerSession
<1>1. HolderIsHead => OneTurnPerSession
    BY DEF HolderIsHead, OneTurnPerSession, Owner
<1>. QED  BY <1>1, Invariance, PTL
=============================================================================
