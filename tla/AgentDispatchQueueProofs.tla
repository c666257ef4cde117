---------------------- MODULE AgentDispatchQueueProofs ----------------------
(* What becomes of the messages of AgentDispatch: while they wait on the bus,  *)
(* in the mid-turn queue of a session and in its deferred queue, and in the    *)
(* end, as SessionLane has it.                                                *)
EXTENDS AgentDispatchProofs, FiniteSetTheorems, FunctionTheorems

At(q, m) == {i \in 1 .. Len(q) : q[i] = m}

\* How often a message is in a queue is a natural number, and not 0 if it is
\* there at all.
LEMMA CountType ==
    ASSUME NEW S, NEW q \in Seq(S), NEW m
    PROVE  /\ IsFiniteSet(At(q, m))
           /\ Occurrences(q, m) = Cardinality(At(q, m))
           /\ Occurrences(q, m) \in Nat
           /\ Occurrences(q, m) = 0 <=> m \notin ToSet(q)
<1>1. Len(q) \in Nat /\ DOMAIN q = 1 .. Len(q)
    BY LenProperties
<1>2. IsFiniteSet(At(q, m))
    <2>1. IsFiniteSet(1 .. Len(q))
        BY <1>1, FS_Interval
    <2>2. At(q, m) \in SUBSET (1 .. Len(q))
        BY DEF At
    <2>. QED  BY <2>1, <2>2, FS_Subset
<1>3. Occurrences(q, m) = Cardinality(At(q, m))
    BY <1>1 DEF Occurrences, At
<1>4. Cardinality(At(q, m)) \in Nat /\ (Cardinality(At(q, m)) = 0 <=> At(q, m) = {})
    BY <1>2, FS_CardinalityType, FS_EmptySet
<1>5. At(q, m) = {} <=> m \notin ToSet(q)
    BY <1>1 DEF At, ToSet
<1>. QED  BY <1>2, <1>3, <1>4, <1>5

\* Two queues, one behind the other
LEMMA CountConcat ==
    ASSUME NEW S, NEW p \in Seq(S), NEW q \in Seq(S), NEW m
    PROVE  Occurrences(p \o q, m) = Occurrences(p, m) + Occurrences(q, m)
<1>. DEFINE f == [i \in At(q, m) |-> Len(p) + i]
            behind == {i \in At(p \o q, m) : i > Len(p)}
<1>1. /\ Len(p) \in Nat /\ Len(q) \in Nat
      /\ p \o q \in Seq(S)
      /\ Len(p \o q) = Len(p) + Len(q)
      /\ \A i \in 1 .. Len(p) + Len(q) : (p \o q)[i] = IF i <= Len(p) THEN p[i] ELSE q[i - Len(p)]
    BY LenProperties, ConcatProperties
<1>2. At(p \o q, m) = At(p, m) \cup behind /\ At(p, m) \cap behind = {}
    BY <1>1 DEF At
<1>3. behind = {Len(p) + i : i \in At(q, m)}
    <2>1. ASSUME NEW i \in behind PROVE i - Len(p) \in At(q, m) /\ i = Len(p) + (i - Len(p))
        BY <1>1 DEF At
    <2>2. ASSUME NEW i \in At(q, m) PROVE Len(p) + i \in behind
        <3>1. i \in 1 .. Len(q) /\ q[i] = m /\ (Len(p) + i) - Len(p) = i
            BY <1>1 DEF At
        <3>. QED  BY <1>1, <3>1 DEF At
    <2>. QED  BY <2>1, <2>2
<1>4. f \in Bijection(At(q, m), behind)
    <2>1. f \in [At(q, m) -> behind]
        BY <1>3
    <2>2. \A i, j \in At(q, m) : f[i] = f[j] => i = j
        BY <1>1 DEF At
    <2>3. \A i \in behind : \E j \in At(q, m) : f[j] = i
        BY <1>3
    <2>. QED  BY <2>1, <2>2, <2>3 DEF Bijection, Injection, Surjection, IsInjective
<1>5. Cardinality(behind) = Cardinality(At(q, m)) /\ IsFiniteSet(behind)
    BY <1>4, CountType, FS_Bijection DEF ExistsBijection
<1>. HIDE DEF behind
<1>6. Cardinality(At(p \o q, m)) = Cardinality(At(p, m)) + Cardinality(behind) - Cardinality({})
    BY <1>2, <1>5, CountType, FS_Union
<1>7. /\ Occurrences(p \o q, m) = Cardinality(At(p \o q, m))
      /\ Occurrences(p, m) = Cardinality(At(p, m)) /\ Occurrences(p, m) \in Nat
      /\ Occurrences(q, m) = Cardinality(At(q, m)) /\ Occurrences(q, m) \in Nat
    BY <1>1, CountType
<1>. QED  BY <1>5, <1>6, <1>7, FS_EmptySet

\* Queues of no message and of one
LEMMA CountFew ==
    ASSUME NEW S, NEW x \in S, NEW m
    PROVE  /\ Occurrences(<<>>, m) = 0
           /\ Occurrences(<<x>>, m) = IF x = m THEN 1 ELSE 0
<1>1. DOMAIN <<>> = {} /\ DOMAIN <<x>> = {1}
    OBVIOUS
<1>2. {i \in DOMAIN <<x>> : <<x>>[i] = m} = IF x = m THEN {1} ELSE {}
    BY <1>1
<1>3. {i \in DOMAIN <<>> : <<>>[i] = m} = {}
    BY <1>1
<1>. QED  BY <1>2, <1>3, FS_EmptySet, FS_Singleton DEF Occurrences

LEMMA CountAppend ==
    ASSUME NEW S, NEW q \in Seq(S), NEW x \in S, NEW m
    PROVE  Occurrences(Append(q, x), m) = Occurrences(q, m) + IF x = m THEN 1 ELSE 0
<1>1. <<x>> \in Seq(S)
    OBVIOUS
<1>2. Occurrences(q \o <<x>>, m) = Occurrences(q, m) + Occurrences(<<x>>, m)
    BY ONLY <1>1, CountConcat, q \in Seq(S)
<1>3. Append(q, x) = q \o <<x>>
    BY AppendIsConcat
<1>4. Occurrences(<<x>>, m) = IF x = m THEN 1 ELSE 0
    BY CountFew
<1>. QED  BY ONLY <1>2, <1>3, <1>4

\* A queue that loses its head
LEMMA CountTail ==
    ASSUME NEW S, NEW q \in Seq(S), q # <<>>, NEW m
    PROVE  Occurrences(q, m) = Occurrences(Tail(q), m) + IF Head(q) = m THEN 1 ELSE 0
<1>1. /\ Head(q) \in S /\ Tail(q) \in Seq(S) /\ <<Head(q)>> \in Seq(S)
      /\ q = <<Head(q)>> \o Tail(q)
    BY HeadTailProperties, ConcatProperties
<1>2. Occurrences(q, m) = Occurrences(<<Head(q)>>, m) + Occurrences(Tail(q), m)
    <2>1. Occurrences(<<Head(q)>> \o Tail(q), m)
            = Occurrences(<<Head(q)>>, m) + Occurrences(Tail(q), m)
        BY ONLY <1>1, CountConcat
    <2>. QED  BY ONLY <1>1, <2>1
<1>3. Occurrences(Tail(q), m) \in Nat
    BY <1>1, CountType
<1>. QED  BY <1>1, <1>2, <1>3, CountFew

-----------------------------------------------------------------------------
(* Where a message waits *)

InBus(m) == Occurrences(bus, m)
InPending(s, m) == Occurrences(pending[s], m)
InDeferred(s, m) == Occurrences(deferred[s], m)
InReady(m) == Occurrences(ready, m)
Copies(m) == InBus(m) + InPending(SessionOf[m], m) + InDeferred(SessionOf[m], m)

\* NothingLost, written with these
Once == \A m \in Msg : Copies(m) = IF stage[m] = "queued" THEN 1 ELSE 0

\* The queues of a session hold its own messages only.
AtHome ==
    \A s \in Session, m \in Msg :
        SessionOf[m] # s => InPending(s, m) = 0 /\ InDeferred(s, m) = 0

\* A task that was made waits for its first step once.
ReadyOnce == \A m \in Msg : InReady(m) = IF stage[m] = "ready" THEN 1 ELSE 0

Waiting == Once /\ AtHome /\ ReadyOnce

LEMMA Counts ==
    ASSUME TypeOK
    PROVE  \A m \in Msg : /\ InBus(m) \in Nat
                          /\ InReady(m) \in Nat
                          /\ \A s \in Session : InPending(s, m) \in Nat /\ InDeferred(s, m) \in Nat
<1>1. /\ bus \in Seq(Msg) /\ ready \in Seq(Msg)
      /\ \A s \in Session : pending[s] \in Seq(Msg) /\ deferred[s] \in Seq(Msg)
    BY DEF TypeOK
<1>. QED  BY <1>1, CountType DEF InBus, InReady, InPending, InDeferred

\* The head of the bus is there once, and nowhere else.
LEMMA OnBus ==
    ASSUME TypeOK, Once, bus # <<>>
    PROVE  /\ Head(bus) \in Msg
           /\ stage[Head(bus)] = "queued"
           /\ InPending(SessionOf[Head(bus)], Head(bus)) = 0
           /\ InDeferred(SessionOf[Head(bus)], Head(bus)) = 0
           /\ Tail(bus) \in Seq(Msg)
           /\ \A m \in Msg :
                Occurrences(Tail(bus), m) = IF m = Head(bus) THEN 0 ELSE InBus(m)
<1>. DEFINE h == Head(bus)
<1>1. bus \in Seq(Msg) /\ h \in Msg /\ Tail(bus) \in Seq(Msg) /\ SessionOf[h] \in Session
    BY HeadTailProperties, DispatchAssumption DEF TypeOK
<1>2. \A m \in Msg :
         /\ Occurrences(Tail(bus), m) \in Nat
         /\ InBus(m) = Occurrences(Tail(bus), m) + IF h = m THEN 1 ELSE 0
    BY <1>1, CountType, CountTail DEF InBus
<1>3. /\ Copies(h) = IF stage[h] = "queued" THEN 1 ELSE 0
      /\ Copies(h) = InBus(h) + InPending(SessionOf[h], h) + InDeferred(SessionOf[h], h)
      /\ InPending(SessionOf[h], h) \in Nat /\ InDeferred(SessionOf[h], h) \in Nat
    BY <1>1, Counts DEF Once, Copies
<1>4. InBus(h) = Occurrences(Tail(bus), h) + 1 /\ Occurrences(Tail(bus), h) \in Nat
    BY ONLY <1>1, <1>2
<1>5. /\ Occurrences(Tail(bus), h) = 0 /\ stage[h] = "queued"
      /\ InPending(SessionOf[h], h) = 0 /\ InDeferred(SessionOf[h], h) = 0
    BY ONLY <1>3, <1>4
<1>6. \A m \in Msg : Occurrences(Tail(bus), m) = IF m = h THEN 0 ELSE InBus(m)
    BY ONLY <1>2, <1>5
<1>. QED  BY ONLY <1>1, <1>5, <1>6

\* The first message of a mid-turn queue is there once, and nowhere else.
LEMMA OnPending ==
    ASSUME TypeOK, Once, AtHome, NEW s \in Session, pending[s] # <<>>
    PROVE  /\ Head(pending[s]) \in Msg
           /\ SessionOf[Head(pending[s])] = s
           /\ stage[Head(pending[s])] = "queued"
           /\ InBus(Head(pending[s])) = 0
           /\ InDeferred(s, Head(pending[s])) = 0
           /\ \A m \in Msg :
                Occurrences(Tail(pending[s]), m) = IF m = Head(pending[s]) THEN 0 ELSE InPending(s, m)
<1>. DEFINE h == Head(pending[s])
<1>1. pending[s] \in Seq(Msg) /\ h \in Msg /\ Tail(pending[s]) \in Seq(Msg)
    BY HeadTailProperties DEF TypeOK
<1>2. \A m \in Msg :
         /\ Occurrences(Tail(pending[s]), m) \in Nat
         /\ InPending(s, m) = Occurrences(Tail(pending[s]), m) + IF h = m THEN 1 ELSE 0
    BY <1>1, CountType, CountTail DEF InPending
<1>3. SessionOf[h] = s
    BY <1>1, <1>2 DEF AtHome
<1>4. /\ Copies(h) = IF stage[h] = "queued" THEN 1 ELSE 0
      /\ Copies(h) = InBus(h) + InPending(s, h) + InDeferred(s, h)
      /\ InBus(h) \in Nat /\ InDeferred(s, h) \in Nat
    BY <1>1, <1>3, Counts DEF Once, Copies
<1>5. InPending(s, h) = Occurrences(Tail(pending[s]), h) + 1 /\ Occurrences(Tail(pending[s]), h) \in Nat
    BY ONLY <1>1, <1>2
<1>6. /\ Occurrences(Tail(pending[s]), h) = 0 /\ stage[h] = "queued"
      /\ InBus(h) = 0 /\ InDeferred(s, h) = 0
    BY ONLY <1>4, <1>5
<1>7. \A m \in Msg : Occurrences(Tail(pending[s]), m) = IF m = h THEN 0 ELSE InPending(s, m)
    BY ONLY <1>2, <1>6
<1>. QED  BY ONLY <1>1, <1>3, <1>6, <1>7

\* Publishing a deferred turn moves it.
LEMMA Published ==
    ASSUME TypeOK, NEW s \in Session, NEW m \in Msg
    PROVE  /\ Occurrences(NextDeferred(s), m) \in Nat
           /\ Occurrences(LaterDeferred(s), m) \in Nat
           /\ InDeferred(s, m) = Occurrences(NextDeferred(s), m) + Occurrences(LaterDeferred(s), m)
<1>1. deferred[s] \in Seq(Msg) /\ NextDeferred(s) \in Seq(Msg) /\ LaterDeferred(s) \in Seq(Msg)
    BY PublishTypes DEF TypeOK
<1>2. CASE deferred[s] = <<>>
    <2>1. NextDeferred(s) = <<>> /\ LaterDeferred(s) = <<>>
        BY <1>2 DEF NextDeferred, LaterDeferred, Due
    <2>2. Occurrences(<<>>, m) = 0
        BY CountFew
    <2>. QED  BY <1>2, <2>1, <2>2 DEF InDeferred
<1>3. CASE deferred[s] # <<>>
    <2>1. NextDeferred(s) = <<Head(deferred[s])>> /\ LaterDeferred(s) = Tail(deferred[s])
        BY <1>3 DEF NextDeferred, LaterDeferred, Due
    <2>2. Head(deferred[s]) \in Msg
        BY <1>1, <1>3, HeadTailProperties
    <2>3. Occurrences(NextDeferred(s), m) = IF Head(deferred[s]) = m THEN 1 ELSE 0
        BY <2>1, <2>2, CountFew
    <2>4. InDeferred(s, m) = Occurrences(Tail(deferred[s]), m) + IF Head(deferred[s]) = m THEN 1 ELSE 0
        BY <1>1, <1>3, CountTail DEF InDeferred
    <2>5. Occurrences(LaterDeferred(s), m) \in Nat
        BY <1>1, CountType
    <2>. QED  BY <2>1, <2>3, <2>4, <2>5
<1>. QED  BY <1>2, <1>3

-----------------------------------------------------------------------------
(* Steps that move a task, and steps that move a message *)

\* The oldest task that was made is there once.
LEMMA OnReady ==
    ASSUME TypeOK, ReadyOnce, ready # <<>>
    PROVE  /\ Head(ready) \in Msg
           /\ stage[Head(ready)] = "ready"
           /\ \A m \in Msg :
                Occurrences(Tail(ready), m) = IF m = Head(ready) THEN 0 ELSE InReady(m)
<1>. DEFINE h == Head(ready)
<1>1. ready \in Seq(Msg) /\ h \in Msg /\ Tail(ready) \in Seq(Msg)
    BY HeadTailProperties DEF TypeOK
<1>2. \A m \in Msg :
         /\ Occurrences(Tail(ready), m) \in Nat
         /\ InReady(m) = Occurrences(Tail(ready), m) + IF h = m THEN 1 ELSE 0
    BY <1>1, CountType, CountTail DEF InReady
<1>3. InReady(h) = IF stage[h] = "ready" THEN 1 ELSE 0
    BY <1>1 DEF ReadyOnce
<1>. QED  BY <1>1, <1>2, <1>3

LEMMA ReadyStill ==
    ASSUME ReadyOnce, UNCHANGED ready,
           \A x \in Msg : stage'[x] = "ready" <=> stage[x] = "ready"
    PROVE  ReadyOnce'
BY DEF ReadyOnce, InReady

LEMMA ReadyMade ==
    ASSUME TypeOK, ReadyOnce, NEW m \in Msg, stage[m] # "ready",
           ready' = Append(ready, m), stage' = [stage EXCEPT ![m] = "ready"]
    PROVE  ReadyOnce'
<1>1. ready \in Seq(Msg)
    BY DEF TypeOK
<1>2. \A x \in Msg : InReady(x)' = InReady(x) + IF m = x THEN 1 ELSE 0
    BY <1>1, CountAppend DEF InReady
<1>3. \A x \in Msg : InReady(x) = IF stage[x] = "ready" THEN 1 ELSE 0
    BY DEF ReadyOnce
<1>. QED  BY <1>2, <1>3 DEF ReadyOnce, TypeOK

LEMMA ReadyLeaves ==
    ASSUME TypeOK, ReadyOnce, ready # <<>>, NEW to,
           ready' = Tail(ready), stage' = [stage EXCEPT ![Head(ready)] = to], to # "ready"
    PROVE  ReadyOnce'
<1>1. \A x \in Msg : InReady(x)' = IF x = Head(ready) THEN 0 ELSE InReady(x)
    BY OnReady DEF InReady
<1>2. Head(ready) \in Msg
    BY OnReady
<1>. QED  BY <1>1, <1>2 DEF ReadyOnce, TypeOK

\* No message moves.
LEMMA QueuesStill ==
    ASSUME Once, AtHome, UNCHANGED <<bus, pending, deferred>>,
           \A x \in Msg : stage'[x] = "queued" <=> stage[x] = "queued"
    PROVE  Once' /\ AtHome'
BY DEF Once, Copies, InBus, InPending, InDeferred, AtHome

\* The head of the bus is taken.
LEMMA QueuesConsume ==
    ASSUME TypeOK, Once, AtHome, bus # <<>>, NEW to, to # "queued",
           bus' = Tail(bus), UNCHANGED <<pending, deferred>>,
           stage' = [stage EXCEPT ![Head(bus)] = to]
    PROVE  Once' /\ AtHome'
<1>1. \A x \in Msg : InBus(x)' = IF x = Head(bus) THEN 0 ELSE InBus(x)
    BY OnBus DEF InBus
<1>2. \A x \in Msg, s \in Session :
        InPending(s, x)' = InPending(s, x) /\ InDeferred(s, x)' = InDeferred(s, x)
    BY DEF InPending, InDeferred
<1>3. AtHome'
    BY <1>2 DEF AtHome
<1>4. ASSUME NEW x \in Msg
      PROVE  Copies(x)' = IF stage'[x] = "queued" THEN 1 ELSE 0
    <2>1. SessionOf[x] \in Session
        BY DispatchAssumption
    <2>2. Copies(x)' = InBus(x)' + InPending(SessionOf[x], x) + InDeferred(SessionOf[x], x)
        BY <1>2, <2>1 DEF Copies
    <2>3. CASE x = Head(bus)
        BY <1>1, <2>2, <2>3, OnBus DEF TypeOK
    <2>4. CASE x # Head(bus)
        <3>1. Copies(x)' = Copies(x) /\ stage'[x] = stage[x]
            BY <1>1, <2>2, <2>4 DEF Copies, TypeOK
        <3>. QED  BY <3>1 DEF Once
    <2>. QED  BY <2>3, <2>4
<1>. QED  BY <1>3, <1>4 DEF Once

\* A message that was not there is put on the bus.
LEMMA QueuesPublish ==
    ASSUME TypeOK, Once, AtHome, NEW m \in Msg, stage[m] # "queued", stage'[m] = "queued",
           bus' = Append(bus, m), UNCHANGED <<pending, deferred>>,
           \A x \in Msg \ {m} : stage'[x] = "queued" <=> stage[x] = "queued"
    PROVE  Once' /\ AtHome'
<1>1. bus \in Seq(Msg)
    BY DEF TypeOK
<1>2. \A x \in Msg : InBus(x)' = InBus(x) + IF m = x THEN 1 ELSE 0
    BY <1>1, CountAppend DEF InBus
<1>3. \A x \in Msg, s \in Session :
        InPending(s, x)' = InPending(s, x) /\ InDeferred(s, x)' = InDeferred(s, x)
    BY DEF InPending, InDeferred
<1>4. ASSUME NEW x \in Msg
      PROVE  Copies(x)' = IF stage'[x] = "queued" THEN 1 ELSE 0
    <2>1. SessionOf[x] \in Session
        BY DispatchAssumption
    <2>2. /\ Copies(x)' = InBus(x)' + InPending(SessionOf[x], x) + InDeferred(SessionOf[x], x)
          /\ Copies(x) = InBus(x) + InPending(SessionOf[x], x) + InDeferred(SessionOf[x], x)
          /\ InBus(x) \in Nat
          /\ InPending(SessionOf[x], x) \in Nat /\ InDeferred(SessionOf[x], x) \in Nat
        BY <1>3, <2>1, Counts DEF Copies
    <2>3. Copies(x) = IF stage[x] = "queued" THEN 1 ELSE 0
        BY DEF Once
    <2>. QED  BY <1>2, <2>2, <2>3
<1>. QED  BY <1>3, <1>4 DEF Once, AtHome

\* The head of the bus goes to a queue of its session.
LEMMA QueuesRoute ==
    ASSUME TypeOK, Once, AtHome, bus # <<>>, bus' = Tail(bus), UNCHANGED stage,
           NEW s \in Session, s = SessionOf[Head(bus)],
           \/ /\ pending' = [pending EXCEPT ![s] = Append(@, Head(bus))]
              /\ UNCHANGED deferred
           \/ /\ deferred' = [deferred EXCEPT ![s] = Append(@, Head(bus))]
              /\ UNCHANGED pending
    PROVE  Once' /\ AtHome'
<1>. DEFINE h == Head(bus)
            Added(t, x) == IF t = s /\ x = h THEN 1 ELSE 0
<1>0. h \in Msg
    BY OnBus
<1>1. \A x \in Msg : InBus(x)' = IF x = h THEN 0 ELSE InBus(x)
    BY OnBus DEF InBus
<1>2. \A t \in Session : pending[t] \in Seq(Msg) /\ deferred[t] \in Seq(Msg)
    BY DEF TypeOK
<1>3. \A q \in Seq(Msg), x \in Msg :
        Occurrences(Append(q, h), x) = Occurrences(q, x) + IF h = x THEN 1 ELSE 0
    BY <1>0, CountAppend
<1>4. \/ \A t \in Session, x \in Msg : /\ InPending(t, x)' = InPending(t, x) + Added(t, x)
                                       /\ InDeferred(t, x)' = InDeferred(t, x)
      \/ \A t \in Session, x \in Msg : /\ InDeferred(t, x)' = InDeferred(t, x) + Added(t, x)
                                       /\ InPending(t, x)' = InPending(t, x)
    <2>1. CASE /\ pending' = [pending EXCEPT ![s] = Append(@, h)]
               /\ UNCHANGED deferred
        <3>1. ASSUME NEW t \in Session, NEW x \in Msg
              PROVE  InPending(t, x)' = InPending(t, x) + Added(t, x)
            <4>1. CASE t = s
                <5>1. pending'[s] = Append(pending[s], h)
                    BY <2>1 DEF TypeOK
                <5>. QED  BY <4>1, <5>1, <1>2, <1>3 DEF InPending
            <4>2. CASE t # s
                <5>1. pending'[t] = pending[t] /\ Occurrences(pending[t], x) \in Nat
                    BY <2>1, <4>2, <1>2, CountType DEF TypeOK
                <5>. QED  BY <4>2, <5>1 DEF InPending
            <4>. QED  BY <4>1, <4>2
        <3>. QED  BY <2>1, <3>1 DEF InDeferred
    <2>2. CASE /\ deferred' = [deferred EXCEPT ![s] = Append(@, h)]
               /\ UNCHANGED pending
        <3>1. ASSUME NEW t \in Session, NEW x \in Msg
              PROVE  InDeferred(t, x)' = InDeferred(t, x) + Added(t, x)
            <4>1. CASE t = s
                <5>1. deferred'[s] = Append(deferred[s], h)
                    BY <2>2 DEF TypeOK
                <5>. QED  BY <4>1, <5>1, <1>2, <1>3 DEF InDeferred
            <4>2. CASE t # s
                <5>1. deferred'[t] = deferred[t] /\ Occurrences(deferred[t], x) \in Nat
                    BY <2>2, <4>2, <1>2, CountType DEF TypeOK
                <5>. QED  BY <4>2, <5>1 DEF InDeferred
            <4>. QED  BY <4>1, <4>2
        <3>. QED  BY <2>2, <3>1 DEF InPending
    <2>. QED  BY <2>1, <2>2
<1>5. ASSUME NEW x \in Msg
      PROVE  Copies(x)' = IF stage'[x] = "queued" THEN 1 ELSE 0
    <2>1. SessionOf[x] \in Session
        BY DispatchAssumption
    <2>2. /\ InPending(SessionOf[x], x) \in Nat
          /\ InDeferred(SessionOf[x], x) \in Nat
          /\ InBus(x) \in Nat
        BY <2>1, Counts
    <2>3. CASE x = h
        <3>1. InPending(s, x) = 0 /\ InDeferred(s, x) = 0 /\ stage[x] = "queued"
            BY <2>3, OnBus
        <3>2. InBus(x)' + InPending(s, x)' + InDeferred(s, x)' = 1
            BY <1>1, <1>4, <2>3, <3>1
        <3>3. Copies(x)' = InBus(x)' + InPending(s, x)' + InDeferred(s, x)'
            BY <2>3 DEF Copies, InPending, InDeferred
        <3>. QED  BY <3>1, <3>2, <3>3
    <2>4. CASE x # h
        <3>1. Copies(x)' = Copies(x)
            BY <1>1, <1>4, <2>1, <2>2, <2>4 DEF Copies
        <3>. QED  BY <3>1 DEF Once
    <2>. QED  BY <2>3, <2>4
<1>6. AtHome'
    <2>1. ASSUME NEW t \in Session, NEW x \in Msg, SessionOf[x] # t
          PROVE  InPending(t, x)' = 0 /\ InDeferred(t, x)' = 0
        <3>1. InPending(t, x) = 0 /\ InDeferred(t, x) = 0 /\ Added(t, x) = 0
            BY <2>1 DEF AtHome
        <3>. QED  BY <1>4, <3>1
    <2>. QED  BY <2>1 DEF AtHome
<1>. QED  BY <1>5, <1>6 DEF Once

\* Queues of a session are poured behind the bus.
LEMMA QueuesPour ==
    ASSUME TypeOK, Once, AtHome, NEW s \in Session,
           NEW left \in Seq(Msg), NEW next \in Seq(Msg), bus' = (bus \o left) \o next,
           \A x \in Msg : /\ InPending(s, x)' \in Nat /\ InDeferred(s, x)' \in Nat
                          /\ InPending(s, x) = Occurrences(left, x) + InPending(s, x)'
                          /\ InDeferred(s, x) = Occurrences(next, x) + InDeferred(s, x)',
           \A t \in Session \ {s} : pending'[t] = pending[t] /\ deferred'[t] = deferred[t],
           \A x \in Msg : stage'[x] = "queued" <=> stage[x] = "queued"
    PROVE  Once' /\ AtHome'
<1>1. ASSUME NEW x \in Msg
      PROVE  /\ Occurrences(left, x) \in Nat /\ Occurrences(next, x) \in Nat /\ InBus(x) \in Nat
             /\ InBus(x)' = InBus(x) + Occurrences(left, x) + Occurrences(next, x)
    <2>1. bus \in Seq(Msg) /\ bus \o left \in Seq(Msg)
        BY ConcatProperties DEF TypeOK
    <2>2. Occurrences(bus \o left, x) = Occurrences(bus, x) + Occurrences(left, x)
        BY ONLY <2>1, CountConcat, left \in Seq(Msg)
    <2>3. Occurrences((bus \o left) \o next, x) = Occurrences(bus \o left, x) + Occurrences(next, x)
        BY ONLY <2>1, CountConcat, next \in Seq(Msg)
    <2>. QED  BY <2>1, <2>2, <2>3, CountType DEF InBus
<1>2. \A t \in Session \ {s}, x \in Msg :
        InPending(t, x)' = InPending(t, x) /\ InDeferred(t, x)' = InDeferred(t, x)
    BY DEF InPending, InDeferred
<1>3. ASSUME NEW x \in Msg PROVE Copies(x)' = Copies(x)
    <2>1. SessionOf[x] \in Session /\ InPending(s, x) \in Nat /\ InDeferred(s, x) \in Nat
        BY DispatchAssumption, Counts
    <2>2. CASE SessionOf[x] = s
        <3>1. /\ Copies(x)' = InBus(x)' + InPending(s, x)' + InDeferred(s, x)'
              /\ Copies(x) = InBus(x) + InPending(s, x) + InDeferred(s, x)
            BY <2>2 DEF Copies, InPending, InDeferred
        <3>2. /\ InPending(s, x)' \in Nat /\ InDeferred(s, x)' \in Nat
              /\ InPending(s, x) = Occurrences(left, x) + InPending(s, x)'
              /\ InDeferred(s, x) = Occurrences(next, x) + InDeferred(s, x)'
            OBVIOUS
        <3>3. InBus(x)' + InPending(s, x)' + InDeferred(s, x)' = InBus(x) + InPending(s, x) + InDeferred(s, x)
            BY <1>1, <3>2
        <3>. QED  BY <3>1, <3>3
    <2>3. CASE SessionOf[x] # s
        <3>1. InPending(s, x) = 0 /\ InDeferred(s, x) = 0
            BY <2>3 DEF AtHome
        <3>2. Occurrences(left, x) = 0 /\ Occurrences(next, x) = 0
            BY <1>1, <3>1
        <3>3. InBus(x)' = InBus(x)
            BY <1>1, <3>2
        <3>. QED  BY <1>2, <2>1, <2>3, <3>3 DEF Copies
    <2>. QED  BY <2>2, <2>3
<1>4. ASSUME NEW t \in Session, NEW x \in Msg, SessionOf[x] # t
      PROVE  InPending(t, x)' = 0 /\ InDeferred(t, x)' = 0
    <2>1. InPending(t, x) = 0 /\ InDeferred(t, x) = 0
        BY <1>4 DEF AtHome
    <2>2. CASE t = s
        BY <1>1, <2>1, <2>2
    <2>3. CASE t # s
        BY <1>2, <2>1, <2>3
    <2>. QED  BY <2>2, <2>3
<1>. QED  BY <1>3, <1>4 DEF Once, AtHome

\* The head of the bus is published again, behind the others.
LEMMA QueuesRotate ==
    ASSUME TypeOK, Once, AtHome, bus # <<>>, bus' = Append(Tail(bus), Head(bus)),
           UNCHANGED <<pending, deferred>>,
           \A x \in Msg : stage'[x] = "queued" <=> stage[x] = "queued"
    PROVE  Once' /\ AtHome'
<1>1. bus \in Seq(Msg) /\ Tail(bus) \in Seq(Msg) /\ Head(bus) \in Msg
    BY HeadTailProperties DEF TypeOK
<1>2. ASSUME NEW x \in Msg PROVE InBus(x)' = InBus(x)
    <2>0. \A q \in Seq(Msg), h \in Msg :
            Occurrences(Append(q, h), x) = Occurrences(q, x) + IF h = x THEN 1 ELSE 0
        BY CountAppend
    <2>1. Occurrences(bus', x) = Occurrences(Tail(bus), x) + IF Head(bus) = x THEN 1 ELSE 0
        BY <1>1, <2>0
    <2>2. Occurrences(bus, x) = Occurrences(Tail(bus), x) + IF Head(bus) = x THEN 1 ELSE 0
        BY <1>1, CountTail
    <2>. QED  BY <2>1, <2>2 DEF InBus
<1>3. \A x \in Msg : Copies(x)' = Copies(x)
    BY <1>2 DEF Copies, InPending, InDeferred
<1>. QED  BY <1>3 DEF Once, AtHome, InPending, InDeferred

\* A turn takes the first message of its mid-turn queue.
LEMMA QueuesInject ==
    ASSUME TypeOK, Once, AtHome, NEW s \in Session, pending[s] # <<>>,
           NEW to, to # "queued",
           stage' = [stage EXCEPT ![Head(pending[s])] = to],
           pending' = [pending EXCEPT ![s] = Tail(pending[s])], UNCHANGED <<bus, deferred>>
    PROVE  Once' /\ AtHome'
<1>1. Head(pending[s]) \in Msg /\ SessionOf[Head(pending[s])] = s
    BY OnPending
<1>2. pending'[s] = Tail(pending[s]) /\ \A t \in Session \ {s} : pending'[t] = pending[t]
    BY DEF TypeOK
<1>3. \A x \in Msg : InPending(s, x)' = IF x = Head(pending[s]) THEN 0 ELSE InPending(s, x)
    BY <1>2, OnPending DEF InPending
<1>4. \A x \in Msg : InBus(x)' = InBus(x)
                     /\ \A t \in Session : InDeferred(t, x)' = InDeferred(t, x)
    BY DEF InBus, InDeferred
<1>5. \A x \in Msg, t \in Session \ {s} : InPending(t, x)' = InPending(t, x)
    BY <1>2 DEF InPending
<1>6. ASSUME NEW x \in Msg PROVE Copies(x)' = IF stage'[x] = "queued" THEN 1 ELSE 0
    <2>0. SessionOf[x] \in Session
        BY DispatchAssumption
    <2>1. CASE x = Head(pending[s])
        <3>1. /\ InBus(x)' = 0
              /\ InPending(s, x)' = 0
              /\ InDeferred(s, x)' = 0
            BY <1>3, <1>4, <2>1, OnPending
        <3>2. Copies(x)' = InBus(x)' + InPending(s, x)' + InDeferred(s, x)'
            BY <1>1, <2>1 DEF Copies, InPending, InDeferred
        <3>3. stage'[x] # "queued"
            BY <1>1, <2>1 DEF TypeOK
        <3>. QED  BY <3>1, <3>2, <3>3
    <2>2. CASE x # Head(pending[s])
        <3>1. InPending(SessionOf[x], x)' = InPending(SessionOf[x], x)
            BY <1>3, <1>5, <2>0, <2>2
        <3>2. Copies(x)' = Copies(x) /\ stage'[x] = stage[x]
            BY <1>1, <1>4, <2>0, <2>2, <3>1 DEF Copies, TypeOK
        <3>. QED  BY <3>2 DEF Once
    <2>. QED  BY <2>1, <2>2
<1>7. ASSUME NEW t \in Session, NEW x \in Msg, SessionOf[x] # t
      PROVE  InPending(t, x)' = 0 /\ InDeferred(t, x)' = 0
    BY <1>3, <1>4, <1>5, <1>7 DEF AtHome
<1>. QED  BY <1>6, <1>7 DEF Once, AtHome

\* A continuation joins the mid-turn queue of its own turn.
LEMMA QueuesContinue ==
    ASSUME TypeOK, Once, AtHome, NEW c \in Msg, stage[c] # "queued", stage'[c] = "queued",
           pending' = [pending EXCEPT ![SessionOf[c]] = Append(@, c)], UNCHANGED <<bus, deferred>>,
           \A x \in Msg \ {c} : stage'[x] = "queued" <=> stage[x] = "queued"
    PROVE  Once' /\ AtHome'
<1>. DEFINE s == SessionOf[c]
<1>1. s \in Session /\ pending[s] \in Seq(Msg)
    BY DispatchAssumption DEF TypeOK
<1>2. pending'[s] = Append(pending[s], c) /\ \A t \in Session \ {s} : pending'[t] = pending[t]
    BY <1>1 DEF TypeOK
<1>3. \A x \in Msg : InPending(s, x)' = InPending(s, x) + IF c = x THEN 1 ELSE 0
    BY <1>1, <1>2, CountAppend DEF InPending
<1>4. \A x \in Msg : InBus(x)' = InBus(x)
                     /\ \A t \in Session : InDeferred(t, x)' = InDeferred(t, x)
    BY DEF InBus, InDeferred
<1>5. \A x \in Msg, t \in Session \ {s} : InPending(t, x)' = InPending(t, x)
    BY <1>2 DEF InPending
<1>6. ASSUME NEW x \in Msg PROVE Copies(x)' = IF stage'[x] = "queued" THEN 1 ELSE 0
    <2>0. /\ SessionOf[x] \in Session
          /\ InBus(x) \in Nat
          /\ InPending(SessionOf[x], x) \in Nat /\ InDeferred(SessionOf[x], x) \in Nat
        BY DispatchAssumption, Counts
    <2>1. InPending(SessionOf[x], x)' = InPending(SessionOf[x], x) + IF c = x THEN 1 ELSE 0
        BY <1>3, <1>5, <2>0
    <2>2. Copies(x)' = Copies(x) + IF c = x THEN 1 ELSE 0
        BY <1>4, <2>0, <2>1 DEF Copies
    <2>3. Copies(x) = IF stage[x] = "queued" THEN 1 ELSE 0
        BY DEF Once
    <2>. QED  BY <2>2, <2>3
<1>7. ASSUME NEW t \in Session, NEW x \in Msg, SessionOf[x] # t
      PROVE  InPending(t, x)' = 0 /\ InDeferred(t, x)' = 0
    <2>1. InPending(t, x) = 0 /\ InDeferred(t, x) = 0
        BY <1>7 DEF AtHome
    <2>2. CASE t = s
        BY <1>3, <1>4, <1>7, <2>1, <2>2
    <2>3. CASE t # s
        BY <1>4, <1>5, <2>1, <2>3
    <2>. QED  BY <2>2, <2>3
<1>. QED  BY <1>6, <1>7 DEF Once, AtHome

\* /stop drops what a session has queued.
LEMMA QueuesDrop ==
    ASSUME TypeOK, Once, AtHome, NEW s \in Session,
           pending' = [pending EXCEPT ![s] = <<>>], UNCHANGED <<bus, deferred>>,
           \A x \in Msg : IF x \in ToSet(pending[s]) THEN stage'[x] = "dropped"
                          ELSE stage'[x] = "queued" <=> stage[x] = "queued"
    PROVE  Once' /\ AtHome'
<1>1. pending[s] \in Seq(Msg)
    BY DEF TypeOK
<1>2. pending'[s] = <<>> /\ \A t \in Session \ {s} : pending'[t] = pending[t]
    BY DEF TypeOK
<1>3. \A x \in Msg : InPending(s, x)' = 0
    BY <1>2, CountFew DEF InPending
<1>4. \A x \in Msg : InBus(x)' = InBus(x)
                     /\ \A t \in Session : InDeferred(t, x)' = InDeferred(t, x)
    BY DEF InBus, InDeferred
<1>5. \A x \in Msg, t \in Session \ {s} : InPending(t, x)' = InPending(t, x)
    BY <1>2 DEF InPending
<1>6. \A x \in Msg : InPending(s, x) = 0 <=> x \notin ToSet(pending[s])
    BY <1>1, CountType DEF InPending
<1>7. ASSUME NEW x \in Msg PROVE Copies(x)' = IF stage'[x] = "queued" THEN 1 ELSE 0
    <2>0. /\ SessionOf[x] \in Session
          /\ InBus(x) \in Nat
          /\ InPending(SessionOf[x], x) \in Nat /\ InDeferred(SessionOf[x], x) \in Nat
        BY DispatchAssumption, Counts
    <2>1. Copies(x) = IF stage[x] = "queued" THEN 1 ELSE 0
        BY DEF Once
    <2>2. CASE x \in ToSet(pending[s])
        <3>1. SessionOf[x] = s /\ InPending(s, x) # 0
            BY <1>6, <2>2 DEF AtHome
        <3>2. Copies(x) = InBus(x) + InPending(s, x) + InDeferred(s, x)
            BY <3>1 DEF Copies, InPending, InDeferred
        <3>3. InBus(x) = 0 /\ InDeferred(s, x) = 0
            BY <2>0, <2>1, <3>1, <3>2
        <3>4. Copies(x)' = InBus(x)' + InPending(s, x)' + InDeferred(s, x)'
            BY <3>1 DEF Copies, InPending, InDeferred
        <3>. QED  BY <1>3, <1>4, <2>2, <3>3, <3>4
    <2>3. CASE x \notin ToSet(pending[s])
        <3>1. InPending(SessionOf[x], x)' = InPending(SessionOf[x], x)
            <4>1. CASE SessionOf[x] = s
                <5>1. InPending(s, x)' = InPending(s, x)
                    BY <1>3, <1>6, <2>3
                <5>. QED  BY <4>1, <5>1 DEF InPending
            <4>2. CASE SessionOf[x] # s
                BY <1>5, <2>0, <4>2
            <4>. QED  BY <4>1, <4>2
        <3>2. Copies(x)' = Copies(x)
            BY <1>4, <2>0, <3>1 DEF Copies
        <3>. QED  BY <2>1, <2>3, <3>2
    <2>. QED  BY <2>2, <2>3
<1>8. ASSUME NEW t \in Session, NEW x \in Msg, SessionOf[x] # t
      PROVE  InPending(t, x)' = 0 /\ InDeferred(t, x)' = 0
    <2>1. InPending(t, x) = 0 /\ InDeferred(t, x) = 0
        BY <1>8 DEF AtHome
    <2>. QED  BY <1>3, <1>4, <1>5, <2>1
<1>. QED  BY <1>7, <1>8 DEF Once, AtHome

-----------------------------------------------------------------------------
(* Tasks and the mid-turn queue they serve *)

\* A task of run() on its way through _dispatch, but for a /new that resets its
\* session and has forgotten itself.
TaskStages == {"ready", "lockwait", "gatewait"} \cup (TurnStages \ {"resetting"})
Serves(m) == Kind[m] # "direct" /\ stage[m] \in TaskStages /\ Live(m)

\* Stages a direct call has no part in
RunStages == {"queued", "merging", "ready", "gatewait", "executing", "yielding"}

\* Whoever cancels the tasks of a session reaches all that go on.
Tracked == \A m \in Msg : Serves(m) => m \in tracked

Registered == \A m \in Msg : Serves(m) /\ stage[m] \in TurnStages => SessionOf[m] \in active

\* While a command waits for the tasks it cancelled, no other goes on.
Frozen ==
    \A c, m \in Msg : stage[c] = "executing" /\ SessionOf[c] = SessionOf[m] => ~Serves(m)

\* run() does one thing at a time.
LoopOne ==
    \A a, b \in Msg :
        stage[a] \in {"merging", "executing"} /\ stage[b] \in {"merging", "executing"} => a = b

Outside == \A m \in Msg : Kind[m] = "direct" => stage[m] \notin RunStages

Serving == LoopOne /\ Outside /\ Tracked /\ Registered /\ Frozen /\ PendingHasReader

\* A step that registers nobody, unregisters nobody and wakes nobody
LEMMA ServingStill ==
    ASSUME Serving, UNCHANGED active,
           \A x \in Msg :
              /\ Serves(x)' => Serves(x) /\ (x \in tracked => x \in tracked')
              /\ Kind[x] # "direct" => (stage'[x] \in TurnStages <=> stage[x] \in TurnStages)
              /\ Kind[x] = "direct" /\ stage'[x] \in RunStages => stage[x] \in RunStages
              /\ stage'[x] \in {"merging", "executing"} => stage'[x] = stage[x],
           \A s \in Session \ active : pending'[s] = pending[s]
    PROVE  Serving'
<1>1. LoopOne' /\ Outside'
    BY DEF Serving, LoopOne, Outside
<1>2. Tracked'
    BY DEF Serving, Tracked
<1>3. Registered'
    <2>1. ASSUME NEW x \in Msg, Serves(x)', stage'[x] \in TurnStages
          PROVE  SessionOf[x] \in active
        <3>1. Serves(x) /\ Kind[x] # "direct"
            BY <2>1 DEF Serves
        <3>. QED  BY <2>1, <3>1 DEF Serving, Registered
    <2>. QED  BY <2>1 DEF Registered
<1>4. Frozen'
    BY DEF Serving, Frozen
<1>5. PendingHasReader'
    BY DEF Serving, PendingHasReader
<1>. QED  BY <1>1, <1>2, <1>3, <1>4, <1>5 DEF Serving

\* A task is made while no command is executing.
LEMMA ServingMade ==
    ASSUME TypeOK, Serving, NEW m \in Msg, Kind[m] # "direct", stage[m] \in {"queued", "merging"},
           \A c \in Msg : stage[c] # "executing",
           stage' = [stage EXCEPT ![m] = "ready"], CreateTask(m),
           UNCHANGED <<active, pending, doomed>>
    PROVE  Serving'
<1>1. stage'[m] = "ready" /\ tracked' = tracked \cup {m} /\ \A x \in Msg \ {m} : stage'[x] = stage[x]
    BY DEF TypeOK, CreateTask
<1>2. \A x \in Msg \ {m} : Serves(x)' => Serves(x)
    BY <1>1 DEF Serves, Live
<1>3. LoopOne' /\ Outside'
    BY <1>1 DEF Serving, LoopOne, Outside
<1>4. Tracked'
    BY <1>1, <1>2 DEF Serving, Tracked
<1>5. Registered'
    BY <1>1, <1>2 DEF Serving, Registered, TurnStages
<1>6. Frozen'
    BY <1>1 DEF Frozen
<1>7. PendingHasReader'
    BY <1>1 DEF Serving, PendingHasReader, TurnStages
<1>. QED  BY <1>3, <1>4, <1>5, <1>6, <1>7 DEF Serving

\* A mid-turn queue holds queued messages only.
LEMMA PendingQueued ==
    ASSUME TypeOK, Once, AtHome, NEW s \in Session, NEW m \in Msg, m \in ToSet(pending[s])
    PROVE  stage[m] = "queued" /\ SessionOf[m] = s
<1>1. pending[s] \in Seq(Msg)
    BY DEF TypeOK
<1>2. InPending(s, m) # 0
    BY <1>1, CountType DEF InPending
<1>3. SessionOf[m] = s
    BY <1>2 DEF AtHome
<1>4. /\ Copies(m) = IF stage[m] = "queued" THEN 1 ELSE 0
      /\ Copies(m) = InBus(m) + InPending(s, m) + InDeferred(s, m)
      /\ InBus(m) \in Nat /\ InPending(s, m) \in Nat /\ InDeferred(s, m) \in Nat
    BY <1>3, Counts DEF Once, Copies
<1>. QED  BY <1>2, <1>3, <1>4

\* The end of a turn
LEMMA ServingEnds ==
    ASSUME TypeOK, HolderIsHead, Serving, NEW m \in Msg, stage[m] \in TurnStages,
           NEW to \in {"closing", "ended"}, stage' = [stage EXCEPT ![m] = to],
           Unregister(SessionOf[m]), tracked \ {m} \subseteq tracked', doomed' = doomed \ {m}
    PROVE  Serving'
<1>. DEFINE s == SessionOf[m]
<1>1. /\ s \in Session
      /\ stage'[m] = to
      /\ \A x \in Msg \ {m} : stage'[x] = stage[x]
      /\ active' = active \ {s}
      /\ pending'[s] = <<>>
      /\ \A t \in Session \ {s} : pending'[t] = pending[t]
    BY DispatchAssumption DEF TypeOK, Unregister
<1>2. \A x \in Msg : Serves(x)' => x # m /\ Serves(x)
    BY <1>1 DEF Serves, Live, TaskStages, TurnStages
<1>3. \A x \in Msg : SessionOf[x] = s /\ stage[x] \in TurnStages => x = m
    BY DEF HolderIsHead, Owner, Holding, HoldStages
<1>4. LoopOne' /\ Outside'
    BY <1>1 DEF Serving, LoopOne, Outside, RunStages
<1>5. Tracked'
    BY <1>2 DEF Serving, Tracked
<1>6. Registered'
    BY <1>1, <1>2, <1>3 DEF Serving, Registered
<1>7. Frozen'
    BY <1>1, <1>2 DEF Serving, Frozen
<1>8. PendingHasReader'
    <2>1. ASSUME NEW t \in Session, t \in active', NEW r \in Msg, SessionOf[r] = t,
                 Kind[r] # "direct", stage[r] \in TurnStages
          PROVE  stage'[r] \in TurnStages
        BY <1>1, <2>1
    <2>2. ASSUME NEW t \in Session, t \notin active' PROVE pending'[t] = <<>>
        BY <1>1, <2>2 DEF Serving, PendingHasReader
    <2>. QED  BY <1>1, <2>1, <2>2 DEF Serving, PendingHasReader
<1>. QED  BY <1>4, <1>5, <1>6, <1>7, <1>8 DEF Serving

-----------------------------------------------------------------------------
(* The steps *)

IInv == TypeOK /\ HolderIsHead /\ Waiting /\ Serving

\* Before its turn a task finds its session without a mid-turn queue.
LEMMA NotActive ==
    ASSUME IInv, NEW m \in Msg, stage[m] = "gatewait"
    PROVE  SessionOf[m] \notin active /\ pending[SessionOf[m]] = <<>>
<1>1. \A x \in Msg : stage[x] \in TurnStages => Holding(x)
    BY DEF Holding, HoldStages
<1>2. Holding(m) /\ stage[m] \notin TurnStages
    BY DEF Holding, HoldStages, TurnStages
<1>3. \A x \in Msg : Holding(x) /\ SessionOf[x] = SessionOf[m] => x = m
    BY <1>2 DEF IInv, HolderIsHead, Owner
<1>4. SessionOf[m] \in Session
    BY DispatchAssumption
<1>. QED  BY <1>1, <1>2, <1>3, <1>4 DEF IInv, Serving, PendingHasReader

\* What the head of the bus is
LEMMA Consumed ==
    ASSUME IInv, NEW m \in Msg, Consume(m)
    PROVE  /\ bus # <<>> /\ m = Head(bus) /\ bus' = Tail(bus)
           /\ stage[m] = "queued"
           /\ Kind[m] # "direct"
           /\ \A c \in Msg : stage[c] \notin {"merging", "executing"}
<1>1. bus # <<>> /\ m = Head(bus) /\ bus' = Tail(bus)
    BY DEF Consume
<1>2. stage[m] = "queued"
    BY <1>1, OnBus DEF IInv, Waiting
<1>3. Kind[m] # "direct"
    BY <1>2 DEF IInv, Serving, Outside, RunStages
<1>. QED  BY <1>1, <1>2, <1>3 DEF Consume, LoopFree

\* A step of a task that moves no message and makes no task
LEMMA WaitingStill ==
    ASSUME Waiting, UNCHANGED <<bus, ready, pending, deferred>>,
           \A x \in Msg : /\ stage'[x] = "queued" <=> stage[x] = "queued"
                          /\ stage'[x] = "ready" <=> stage[x] = "ready"
    PROVE  Waiting'
BY QueuesStill, ReadyStill DEF Waiting

\* run() takes a message and makes no task of it.
LEMMA WaitingConsume ==
    ASSUME IInv, NEW m \in Msg, Consume(m), NEW to \in {"dropped", "executing", "handled", "merging"},
           stage' = [stage EXCEPT ![m] = to], UNCHANGED <<ready, pending, deferred>>
    PROVE  Waiting'
<1>1. Once' /\ AtHome'
    BY Consumed, QueuesConsume DEF IInv, Waiting
<1>2. ReadyOnce'
    BY Consumed, ReadyStill DEF IInv, Waiting, TypeOK
<1>. QED  BY <1>1, <1>2 DEF Waiting

\* Leaving _dispatch or being cancelled before: a deferred turn is published.
LEMMA WaitingPublished ==
    ASSUME IInv, NEW m \in Msg, stage[m] \notin {"queued", "ready"}, NEW to, to \notin {"queued", "ready"},
           NEW s \in Session, NEW left \in Seq(Msg), bus' = (bus \o left) \o NextDeferred(s),
           deferred' = [deferred EXCEPT ![s] = LaterDeferred(s)],
           \/ left = <<>> /\ UNCHANGED pending
           \/ left = pending[s] /\ pending' = [pending EXCEPT ![s] = <<>>],
           stage' = [stage EXCEPT ![m] = to], UNCHANGED ready
    PROVE  Waiting'
<1>1. /\ stage'[m] = to
      /\ \A x \in Msg \ {m} : stage'[x] = stage[x]
    BY DEF IInv, TypeOK
<1>2. /\ deferred'[s] = LaterDeferred(s)
      /\ \A t \in Session \ {s} : deferred'[t] = deferred[t] /\ pending'[t] = pending[t]
    BY DEF IInv, TypeOK
<1>3. NextDeferred(s) \in Seq(Msg) /\ pending[s] \in Seq(Msg)
    BY PublishTypes DEF IInv, TypeOK
<1>4. ASSUME NEW x \in Msg
      PROVE  /\ InDeferred(s, x)' \in Nat
             /\ InDeferred(s, x) = Occurrences(NextDeferred(s), x) + InDeferred(s, x)'
    <2>1. /\ Occurrences(LaterDeferred(s), x) \in Nat
          /\ InDeferred(s, x) = Occurrences(NextDeferred(s), x) + Occurrences(LaterDeferred(s), x)
        BY Published DEF IInv
    <2>. QED  BY <1>2, <2>1 DEF InDeferred
<1>5. ASSUME NEW x \in Msg
      PROVE  InPending(s, x)' \in Nat /\ InPending(s, x) = Occurrences(left, x) + InPending(s, x)'
    <2>1. Occurrences(<<>>, x) = 0 /\ InPending(s, x) \in Nat
        BY CountFew, Counts DEF IInv
    <2>2. CASE left = <<>> /\ UNCHANGED pending
        BY <2>1, <2>2 DEF InPending
    <2>3. CASE left = pending[s] /\ pending' = [pending EXCEPT ![s] = <<>>]
        <3>1. pending'[s] = <<>>
            BY <2>3 DEF IInv, TypeOK
        <3>. QED  BY <2>1, <2>3, <3>1 DEF InPending
    <2>. QED  BY <2>2, <2>3
<1>s. \A x \in Msg : /\ stage'[x] = "queued" <=> stage[x] = "queued"
                     /\ stage'[x] = "ready" <=> stage[x] = "ready"
    BY <1>1
<1>6. Once' /\ AtHome'
    <2>1. TypeOK /\ Once /\ AtHome
        BY DEF IInv, Waiting
    <2>2. \A x \in Msg : /\ InPending(s, x)' \in Nat /\ InDeferred(s, x)' \in Nat
                         /\ InPending(s, x) = Occurrences(left, x) + InPending(s, x)'
                         /\ InDeferred(s, x) = Occurrences(NextDeferred(s), x) + InDeferred(s, x)'
        BY <1>4, <1>5
    <2>3. /\ NextDeferred(s) \in Seq(Msg)
          /\ bus' = (bus \o left) \o NextDeferred(s)
          /\ \A t \in Session \ {s} : pending'[t] = pending[t] /\ deferred'[t] = deferred[t]
          /\ \A x \in Msg : stage'[x] = "queued" <=> stage[x] = "queued"
        BY <1>2, <1>3, <1>s
    <2>. QED  BY <2>1, <2>2, <2>3, QueuesPour, Zenon
<1>7. ReadyOnce'
    BY <1>s, ReadyStill DEF IInv, Waiting
<1>. QED  BY <1>6, <1>7 DEF Waiting

LEMMA WaitingEndTurn ==
    ASSUME IInv, NEW m \in Msg, stage[m] \in TurnStages, NEW v, EndTurn(m, v)
    PROVE  Waiting'
<1>. DEFINE s == SessionOf[m]
<1>1. s \in Session /\ pending[s] \in Seq(Msg) /\ bus \in Seq(Msg)
    BY DispatchAssumption DEF IInv, TypeOK
<1>2. /\ pending' = [pending EXCEPT ![s] = <<>>]
      /\ UNCHANGED ready
      /\ stage[m] \notin {"queued", "ready"}
    BY DEF EndTurn, Unregister, TurnStages
<1>3. CASE stage[m] \in {"yielding", "yielded"}
    <2>1. Depart(m, pending[s])
        BY <1>3 DEF EndTurn, Leftovers
    <2>. QED  BY <1>1, <1>2, <2>1, WaitingPublished DEF Depart
<1>4. CASE stage[m] \notin {"yielding", "yielded"}
    <2>1. bus' = bus \o pending[s] /\ stage' = [stage EXCEPT ![m] = "closing"] /\ UNCHANGED deferred
        BY <1>4 DEF EndTurn, Leftovers
    <2>2. /\ pending'[s] = <<>>
          /\ \A t \in Session \ {s} : deferred'[t] = deferred[t] /\ pending'[t] = pending[t]
        BY <1>1, <1>2, <2>1 DEF IInv, TypeOK
    <2>3. bus' = (bus \o pending[s]) \o <<>> /\ <<>> \in Seq(Msg)
        BY <1>1, <2>1, ConcatProperties, ConcatEmptySeq, EmptySeq
    <2>4. ASSUME NEW x \in Msg
          PROVE  /\ InPending(s, x)' \in Nat /\ InDeferred(s, x)' \in Nat
                 /\ InPending(s, x) = Occurrences(pending[s], x) + InPending(s, x)'
                 /\ InDeferred(s, x) = Occurrences(<<>>, x) + InDeferred(s, x)'
        <3>1. Occurrences(<<>>, x) = 0 /\ InPending(s, x) \in Nat /\ InDeferred(s, x) \in Nat
            BY <1>1, CountFew, Counts DEF IInv
        <3>. QED  BY <2>1, <2>2, <3>1 DEF InPending, InDeferred
    <2>5. \A x \in Msg : /\ stage'[x] = "queued" <=> stage[x] = "queued"
                         /\ stage'[x] = "ready" <=> stage[x] = "ready"
        BY <1>2, <2>1 DEF IInv, TypeOK
    <2>6. Once' /\ AtHome'
        BY <1>1, <2>2, <2>3, <2>4, <2>5, QueuesPour DEF IInv, Waiting
    <2>7. ReadyOnce'
        BY <1>2, <2>5, ReadyStill DEF IInv, Waiting
    <2>. QED  BY <2>6, <2>7 DEF Waiting
<1>. QED  BY <1>3, <1>4

LEMMA WaitingStep ==
    ASSUME IInv, [Next]_vars
    PROVE  Waiting'
<1>. USE DispatchAssumption
<1>0. /\ Waiting /\ Once /\ AtHome /\ ReadyOnce /\ TypeOK
      /\ stage \in [Msg -> Stages]
      /\ \A m \in Msg : SessionOf[m] \in Session
    BY DEF IInv, Waiting, TypeOK
<1>1. ASSUME NEW m \in Msg, Send(m) PROVE Waiting'
    <2>1. Once' /\ AtHome'
        BY <1>1, <1>0, QueuesPublish DEF Send
    <2>2. ReadyOnce'
        BY <1>1, <1>0, ReadyStill DEF Send
    <2>. QED  BY <2>1, <2>2 DEF Waiting
<1>2. ASSUME NEW m \in Msg, CallDirect(m) PROVE Waiting'
    BY <1>2, <1>0, WaitingStill DEF CallDirect
<1>3. ASSUME NEW m \in Msg, DropUnknown(m) PROVE Waiting'
    BY <1>3, WaitingConsume DEF DropUnknown
<1>4. ASSUME NEW m \in Msg, BeginCommand(m) PROVE Waiting'
    BY <1>4, WaitingConsume DEF BeginCommand
<1>5. ASSUME NEW m \in Msg, EndCommand(m) PROVE Waiting'
    <2>. DEFINE s == SessionOf[m]
    <2>1. stage[m] = "executing" /\ UNCHANGED <<bus, deferred, ready>>
        BY <1>5 DEF EndCommand
    <2>2. CASE Kind[m] = "stop"
        <3>1. /\ pending' = [pending EXCEPT ![s] = <<>>]
              /\ stage' = [x \in Msg |-> IF x \in ToSet(pending[s]) THEN "dropped"
                                         ELSE IF x = m THEN "handled" ELSE stage[x]]
            BY <1>5, <2>2 DEF EndCommand, Unregister
        <3>2. \A x \in Msg : x \in ToSet(pending[s]) => stage[x] = "queued"
            BY <1>0, PendingQueued
        <3>3. \A x \in Msg : IF x \in ToSet(pending[s]) THEN stage'[x] = "dropped"
                             ELSE stage'[x] = "queued" <=> stage[x] = "queued"
            BY <2>1, <3>1
        <3>4. Once' /\ AtHome'
            BY <1>0, <2>1, <3>1, <3>3, QueuesDrop
        <3>5. ReadyOnce'
            BY <1>0, <2>1, <3>1, <3>2, ReadyStill
        <3>. QED  BY <3>4, <3>5 DEF Waiting
    <2>3. CASE Kind[m] # "stop"
        <3>1. pending' = pending /\ stage' = [x \in Msg |-> IF x = m THEN "handled" ELSE stage[x]]
            BY <1>5, <2>3 DEF EndCommand
        <3>. QED  BY <1>0, <2>1, <3>1, WaitingStill
    <2>. QED  BY <2>2, <2>3
<1>6. ASSUME NEW m \in Msg, AnswerCommand(m) PROVE Waiting'
    BY <1>6, WaitingConsume DEF AnswerCommand
<1>7. ASSUME NEW m \in Msg, Defer(m) PROVE Waiting'
    <2>1. Once' /\ AtHome'
        BY <1>7, <1>0, Consumed, QueuesRoute DEF Defer
    <2>2. ReadyOnce'
        BY <1>7, <1>0, ReadyStill DEF Defer
    <2>. QED  BY <2>1, <2>2 DEF Waiting
<1>8. ASSUME NEW m \in Msg, RouteFollowUp(m) PROVE Waiting'
    <2>1. Once' /\ AtHome'
        BY <1>8, <1>0, Consumed, QueuesRoute DEF RouteFollowUp
    <2>2. ReadyOnce'
        BY <1>8, <1>0, ReadyStill DEF RouteFollowUp
    <2>. QED  BY <2>1, <2>2 DEF Waiting
<1>9. ASSUME NEW m \in Msg, OpenTurn(m) PROVE Waiting'
    <2>1. Consume(m) /\ bus # <<>> /\ m = Head(bus) /\ bus' = Tail(bus) /\ stage[m] = "queued"
        BY <1>9, Consumed DEF OpenTurn
    <2>2. Once' /\ AtHome'
        BY <1>9, <1>0, <2>1, QueuesConsume DEF OpenTurn
    <2>3. ReadyOnce'
        BY <1>9, <1>0, <2>1, ReadyMade DEF OpenTurn, CreateTask
    <2>. QED  BY <2>2, <2>3 DEF Waiting
<1>10. ASSUME NEW m \in Msg, OpenWindow(m) PROVE Waiting'
    BY <1>10, WaitingConsume DEF OpenWindow
<1>11. ASSUME NEW m \in Msg, MergeNext(m) PROVE Waiting'
    <2>1. Head(bus) \in Msg /\ stage[Head(bus)] = "queued"
        BY <1>11, <1>0, OnBus DEF MergeNext
    <2>2. Once' /\ AtHome'
        BY <1>11, <1>0, QueuesConsume DEF MergeNext
    <2>3. ReadyOnce'
        BY <1>11, <1>0, <2>1, ReadyStill DEF MergeNext
    <2>. QED  BY <2>2, <2>3 DEF Waiting
<1>12. ASSUME NEW m \in Msg, CloseWindow(m) PROVE Waiting'
    <2>1. stage[m] = "merging" /\ stage' = [stage EXCEPT ![m] = "ready"] /\ UNCHANGED <<pending, deferred>>
        BY <1>12 DEF CloseWindow
    <2>2. \A x \in Msg : stage'[x] = "queued" <=> stage[x] = "queued"
        BY <1>0, <2>1
    <2>3. ASSUME bus' = bus PROVE Once' /\ AtHome'
        BY <1>0, <2>1, <2>2, <2>3, QueuesStill
    <2>4. ASSUME bus # <<>>, bus' = Append(Tail(bus), Head(bus)) PROVE Once' /\ AtHome'
        BY <1>0, <2>1, <2>2, <2>4, QueuesRotate
    <2>5. ReadyOnce'
        BY <1>12, <1>0, <2>1, ReadyMade DEF CloseWindow, CreateTask
    <2>. QED  BY <1>12, <2>3, <2>4, <2>5 DEF CloseWindow, Waiting
<1>13. ASSUME NEW m \in Msg, StartTask(m) PROVE Waiting'
    <2>1. stage[m] = "ready"
        BY <1>13, <1>0, OnReady DEF StartTask
    <2>2. Once' /\ AtHome'
        BY <1>13, <1>0, <2>1, QueuesStill DEF StartTask
    <2>3. ReadyOnce'
        BY <1>13, <1>0, ReadyLeaves DEF StartTask
    <2>. QED  BY <2>2, <2>3 DEF Waiting
<1>14. ASSUME NEW m \in Msg, AcquireLock(m) PROVE Waiting'
    <2>1. \E to \in {"running", "gatewait"} : stage' = [stage EXCEPT ![m] = to]
        BY <1>14 DEF AcquireLock
    <2>. QED  BY <1>14, <1>0, <2>1, WaitingStill DEF AcquireLock
<1>15. ASSUME NEW m \in Msg, BeginTurn(m) PROVE Waiting'
    <2>1. pending[SessionOf[m]] = <<>> /\ pending \in [Session -> Seq(Msg)]
        BY <1>15, NotActive DEF BeginTurn, IInv, TypeOK
    <2>2. pending' = pending
        BY <1>15, <1>0, <2>1 DEF BeginTurn
    <2>. QED  BY <1>15, <1>0, <2>2, WaitingStill DEF BeginTurn
<1>16. ASSUME NEW m \in Msg, Inject(m) PROVE Waiting'
    <2>. DEFINE s == SessionOf[m]
    <2>1. s \in Session /\ pending[s] # <<>> /\ Head(pending[s]) \in Msg /\ stage[Head(pending[s])] = "queued"
        BY <1>16, <1>0, OnPending DEF Inject
    <2>2. Once' /\ AtHome'
        BY <1>16, <1>0, <2>1, QueuesInject DEF Inject, Undrained
    <2>3. ReadyOnce'
        BY <1>16, <1>0, <2>1, ReadyStill DEF Inject
    <2>. QED  BY <2>2, <2>3 DEF Waiting
<1>17. ASSUME NEW m \in Msg, RunNowReturns(m) PROVE Waiting'
    BY <1>17, <1>0, WaitingStill DEF RunNowReturns
<1>18. ASSUME NEW m \in Msg, BeginReset(m) PROVE Waiting'
    BY <1>18, <1>0, WaitingStill DEF BeginReset
<1>19. ASSUME NEW m \in Msg, BeginContinue(m) PROVE Waiting'
    BY <1>19, <1>0, WaitingStill DEF BeginContinue
<1>20. ASSUME NEW m \in Msg, PutContinuation(m) PROVE Waiting'
    <2>1. PICK c \in Continuations(m) :
              /\ pending' = [pending EXCEPT ![SessionOf[m]] = Append(@, c)]
              /\ stage' = [stage EXCEPT ![m] = "yielded", ![c] = "queued"]
        BY <1>20 DEF PutContinuation
    <2>2. /\ c \in Msg /\ stage[c] = "new" /\ SessionOf[c] = SessionOf[m]
          /\ stage[m] = "yielding" /\ UNCHANGED <<bus, ready, deferred>>
        BY <1>20, <2>1 DEF Continuations, Automated, PutContinuation
    <2>3. /\ stage'[c] = "queued"
          /\ \A x \in Msg \ {c} : stage'[x] = "queued" <=> stage[x] = "queued"
          /\ \A x \in Msg : stage'[x] = "ready" <=> stage[x] = "ready"
        BY <1>0, <2>1, <2>2
    <2>4. Once' /\ AtHome'
        BY <1>0, <2>1, <2>2, <2>3, QueuesContinue
    <2>5. ReadyOnce'
        BY <1>0, <2>2, <2>3, ReadyStill
    <2>. QED  BY <2>4, <2>5 DEF Waiting
<1>21. ASSUME NEW m \in Msg, CloseTurn(m) PROVE Waiting'
    <2>1. <<>> \in Seq(Msg) /\ UNCHANGED <<pending, ready>> /\ stage[m] = "closing" /\ Depart(m, <<>>)
        BY <1>21, EmptySeq DEF CloseTurn
    <2>. QED  BY <1>0, <2>1, WaitingPublished DEF Depart
<1>22. ASSUME NEW m \in Msg, ReturnDirect(m) PROVE Waiting'
    BY <1>22, <1>0, WaitingStill DEF ReturnDirect
<1>23. ASSUME NEW m \in Msg, CancelUnstarted(m) PROVE Waiting'
    <2>1. stage[m] = "ready"
        BY <1>23, <1>0, OnReady DEF CancelUnstarted
    <2>2. Once' /\ AtHome'
        BY <1>23, <1>0, <2>1, QueuesStill DEF CancelUnstarted
    <2>3. ReadyOnce'
        BY <1>23, <1>0, ReadyLeaves DEF CancelUnstarted
    <2>. QED  BY <2>2, <2>3 DEF Waiting
<1>24. ASSUME NEW m \in Msg, CancelWaiting(m) PROVE Waiting'
    <2>1. <<>> \in Seq(Msg) /\ bus \in Seq(Msg) /\ bus \o <<>> = bus
        BY EmptySeq, ConcatEmptySeq, <1>0 DEF TypeOK
    <2>2. /\ bus' = (bus \o <<>>) \o NextDeferred(SessionOf[m])
          /\ UNCHANGED <<pending, ready>>
          /\ stage[m] \notin {"queued", "ready"}
        BY <1>24, <2>1 DEF CancelWaiting
    <2>. QED  BY <1>24, <1>0, <2>1, <2>2, WaitingPublished DEF CancelWaiting
<1>25. ASSUME NEW m \in Msg, CancelTurn(m) PROVE Waiting'
    BY <1>25, WaitingEndTurn DEF CancelTurn
<1>26. ASSUME NEW m \in Msg, CancelClosing(m) PROVE Waiting'
    BY <1>26, <1>0, WaitingStill DEF CancelClosing
<1>27. ASSUME NEW m \in Msg, NEW a \in Msg, RunNow(m, a) PROVE Waiting'
    <2>1. /\ bus' = Append(bus, a) /\ UNCHANGED <<pending, deferred, ready>>
          /\ stage[a] = "new" /\ stage[m] = "running"
          /\ stage' = [stage EXCEPT ![m] = "runnow", ![a] = "queued"]
        BY <1>27 DEF RunNow
    <2>2. Once' /\ AtHome'
        BY <1>0, <2>1, QueuesPublish
    <2>3. ReadyOnce'
        BY <1>0, <2>1, ReadyStill
    <2>. QED  BY <2>2, <2>3 DEF Waiting
<1>28. ASSUME NEW m \in Msg, NEW v \in {"ok", "error"}, FinishTurn(m, v) PROVE Waiting'
    <2>1. stage[m] \in TurnStages /\ EndTurn(m, v)
        BY <1>28 DEF FinishTurn, TurnStages
    <2>. QED  BY <2>1, WaitingEndTurn
<1>29. CASE UNCHANGED vars
    BY <1>29, <1>0, WaitingStill DEF vars
<1>a. ASSUME LoopStep PROVE Waiting'
    BY <1>a, <1>3, <1>4, <1>5, <1>6, <1>7, <1>8, <1>9, <1>10, <1>11, <1>12 DEF LoopStep
<1>b. ASSUME NEW m \in Msg, TaskStep(m) PROVE Waiting'
    BY <1>b, <1>13, <1>14, <1>15, <1>17, <1>18, <1>20, <1>21, <1>22, <1>23, <1>24, <1>25, <1>26, <1>28 DEF TaskStep
<1>c. ASSUME NEW m \in Msg, TurnChoice(m) PROVE Waiting'
    BY <1>c, <1>16, <1>19, <1>27 DEF TurnChoice
<1>. QED  BY <1>a, <1>b, <1>c, <1>1, <1>2, <1>29 DEF Next

LEMMA ServingStep ==
    ASSUME IInv, [Next]_vars
    PROVE  Serving'
<1>. USE DispatchAssumption
<1>. DEFINE Calm == \A x \in Msg :
              /\ Serves(x)' => Serves(x) /\ (x \in tracked => x \in tracked')
              /\ Kind[x] # "direct" => (stage'[x] \in TurnStages <=> stage[x] \in TurnStages)
              /\ Kind[x] = "direct" /\ stage'[x] \in RunStages => stage[x] \in RunStages
              /\ stage'[x] \in {"merging", "executing"} => stage'[x] = stage[x]
<1>0. /\ TypeOK /\ HolderIsHead /\ Waiting /\ Once /\ AtHome /\ ReadyOnce /\ Serving
      /\ LoopOne /\ Outside /\ Tracked /\ Registered /\ Frozen /\ PendingHasReader
      /\ stage \in [Msg -> Stages]
      /\ \A m \in Msg : SessionOf[m] \in Session
    BY DEF IInv, Waiting, Serving, TypeOK
<1>s. Calm /\ UNCHANGED <<active, pending>> => Serving'
    BY <1>0, ServingStill
<1>. USE DEF Serves, Live, TaskStages, TurnStages, RunStages
<1>1. ASSUME NEW m \in Msg, Send(m) PROVE Serving'
    BY <1>1, <1>0, <1>s DEF Send
<1>2. ASSUME NEW m \in Msg, CallDirect(m) PROVE Serving'
    BY <1>2, <1>0, <1>s DEF CallDirect
<1>3. ASSUME NEW m \in Msg, DropUnknown(m) PROVE Serving'
    BY <1>3, <1>0, <1>s, Consumed DEF DropUnknown
<1>4. ASSUME NEW m \in Msg, BeginCommand(m) PROVE Serving'
    <2>1. /\ stage[m] = "queued" /\ Kind[m] # "direct"
          /\ \A c \in Msg : stage[c] \notin {"merging", "executing"}
        BY <1>4, Consumed DEF BeginCommand
    <2>2. /\ stage' = [stage EXCEPT ![m] = "executing"]
          /\ tracked' = tracked \ ActiveTasks(m)
          /\ doomed' = doomed \cup (ActiveTasks(m) \ {m})
          /\ UNCHANGED <<active, pending>>
        BY <1>4 DEF BeginCommand, CancelActive
    <2>3. \A x \in Msg : Serves(x)' => Serves(x) /\ x # m
        BY <1>0, <2>2
    <2>4. \A x \in Msg : Serves(x)' => SessionOf[x] # SessionOf[m]
        BY <1>0, <2>2, <2>3 DEF Tracked, ActiveTasks
    <2>5. LoopOne' /\ Outside'
        BY <1>0, <2>1, <2>2 DEF LoopOne, Outside
    <2>6. Tracked'
        BY <1>0, <2>2, <2>3, <2>4 DEF Tracked, ActiveTasks
    <2>7. Registered'
        BY <1>0, <2>2, <2>3 DEF Registered
    <2>8. Frozen'
        BY <1>0, <2>1, <2>2, <2>4 DEF Frozen
    <2>9. PendingHasReader'
        BY <1>0, <2>1, <2>2 DEF PendingHasReader
    <2>. QED  BY <2>5, <2>6, <2>7, <2>8, <2>9 DEF Serving
<1>5. ASSUME NEW m \in Msg, EndCommand(m) PROVE Serving'
    <2>. DEFINE s == SessionOf[m]
    <2>1. stage[m] = "executing" /\ UNCHANGED <<tracked, doomed>>
        BY <1>5 DEF EndCommand
    <2>2. CASE Kind[m] = "stop"
        <3>1. /\ pending' = [pending EXCEPT ![s] = <<>>] /\ active' = active \ {s}
              /\ stage' = [x \in Msg |-> IF x \in ToSet(pending[s]) THEN "dropped"
                                         ELSE IF x = m THEN "handled" ELSE stage[x]]
            BY <1>5, <2>2 DEF EndCommand, Unregister
        <3>2. \A x \in Msg : x \in ToSet(pending[s]) => stage[x] = "queued"
            BY <1>0, PendingQueued
        <3>3. \A x \in Msg : stage'[x] \in {"dropped", "handled"} \/ stage'[x] = stage[x]
            BY <3>1
        <3>4. \A x \in Msg : Serves(x)' => Serves(x) /\ SessionOf[x] # s
            BY <1>0, <2>1, <3>3 DEF Frozen
        <3>5. LoopOne' /\ Outside'
            BY <1>0, <3>3 DEF LoopOne, Outside
        <3>6. Tracked' /\ Registered'
            BY <1>0, <2>1, <3>1, <3>3, <3>4 DEF Tracked, Registered
        <3>7. Frozen'
            BY <1>0, <3>3, <3>4 DEF Frozen
        <3>8. \A x \in Msg : stage[x] \in TurnStages => stage'[x] = stage[x]
            BY <2>1, <3>1, <3>2
        <3>9. PendingHasReader'
            BY <1>0, <3>1, <3>8 DEF PendingHasReader, TypeOK
        <3>. QED  BY <3>5, <3>6, <3>7, <3>9 DEF Serving
    <2>3. CASE Kind[m] # "stop"
        <3>1. /\ UNCHANGED <<active, pending>>
              /\ stage' = [x \in Msg |-> IF x = m THEN "handled" ELSE stage[x]]
            BY <1>5, <2>3 DEF EndCommand
        <3>. QED  BY <1>0, <2>1, <3>1, <1>s
    <2>. QED  BY <2>2, <2>3
<1>6. ASSUME NEW m \in Msg, AnswerCommand(m) PROVE Serving'
    BY <1>6, <1>0, <1>s, Consumed DEF AnswerCommand
<1>7. ASSUME NEW m \in Msg, Defer(m) PROVE Serving'
    BY <1>7, <1>0, <1>s DEF Defer
<1>8. ASSUME NEW m \in Msg, RouteFollowUp(m) PROVE Serving'
    <2>1. Calm /\ UNCHANGED active
        BY <1>8 DEF RouteFollowUp
    <2>2. \A s \in Session \ active : pending'[s] = pending[s]
        BY <1>8, <1>0 DEF RouteFollowUp, Injectable, TypeOK
    <2>. QED  BY <1>0, <2>1, <2>2, ServingStill
<1>9. ASSUME NEW m \in Msg, OpenTurn(m) PROVE Serving'
    BY <1>9, <1>0, Consumed, ServingMade DEF OpenTurn
<1>10. ASSUME NEW m \in Msg, OpenWindow(m) PROVE Serving'
    <2>1. /\ stage[m] = "queued" /\ Kind[m] # "direct"
          /\ \A c \in Msg : stage[c] \notin {"merging", "executing"}
          /\ stage' = [stage EXCEPT ![m] = "merging"]
          /\ UNCHANGED <<active, pending, tracked, doomed>>
        BY <1>10, Consumed DEF OpenWindow
    <2>2. LoopOne' /\ Outside' /\ Frozen'
        BY <1>0, <2>1 DEF LoopOne, Outside, Frozen
    <2>3. Tracked' /\ Registered' /\ PendingHasReader'
        BY <1>0, <2>1 DEF Tracked, Registered, PendingHasReader
    <2>. QED  BY <2>2, <2>3 DEF Serving
<1>11. ASSUME NEW m \in Msg, MergeNext(m) PROVE Serving'
    BY <1>11, <1>0, <1>s, OnBus DEF MergeNext
<1>12. ASSUME NEW m \in Msg, CloseWindow(m) PROVE Serving'
    <2>1. stage[m] = "merging" /\ Kind[m] # "direct" /\ \A c \in Msg : stage[c] # "executing"
        BY <1>12, <1>0 DEF CloseWindow, LoopOne, Outside
    <2>. QED  BY <1>12, <1>0, <2>1, ServingMade DEF CloseWindow
<1>13. ASSUME NEW m \in Msg, StartTask(m) PROVE Serving'
    <2>1. stage[m] = "ready"
        BY <1>13, <1>0, OnReady DEF StartTask
    <2>. QED  BY <1>13, <1>0, <1>s, <2>1 DEF StartTask
<1>14. ASSUME NEW m \in Msg, AcquireLock(m) PROVE Serving'
    <2>1. \/ Kind[m] = "direct" /\ stage' = [stage EXCEPT ![m] = "running"]
          \/ Kind[m] # "direct" /\ stage' = [stage EXCEPT ![m] = "gatewait"]
        BY <1>14 DEF AcquireLock
    <2>. QED  BY <1>14, <1>0, <1>s, <2>1 DEF AcquireLock
<1>15. ASSUME NEW m \in Msg, BeginTurn(m) PROVE Serving'
    <2>. DEFINE s == SessionOf[m]
    <2>1. /\ stage[m] = "gatewait" /\ Kind[m] # "direct" /\ Live(m)
          /\ stage' = [stage EXCEPT ![m] = "running"]
          /\ active' = active \cup {s}
          /\ pending' = [pending EXCEPT ![s] = <<>>]
          /\ UNCHANGED <<tracked, doomed>>
        BY <1>15, <1>0 DEF BeginTurn, Outside
    <2>2. \A x \in Msg : Serves(x)' => Serves(x)
        BY <1>0, <2>1
    <2>3. LoopOne' /\ Outside'
        BY <1>0, <2>1 DEF LoopOne, Outside
    <2>4. Tracked' /\ Registered'
        BY <1>0, <2>1, <2>2 DEF Tracked, Registered
    <2>5. Frozen'
        BY <1>0, <2>1, <2>2 DEF Frozen
    <2>6. PendingHasReader'
        BY <1>0, <2>1 DEF PendingHasReader, TypeOK
    <2>. QED  BY <2>3, <2>4, <2>5, <2>6 DEF Serving
<1>16. ASSUME NEW m \in Msg, Inject(m) PROVE Serving'
    <2>. DEFINE s == SessionOf[m]
    <2>1. /\ s \in Session /\ s \in active /\ pending[s] # <<>>
          /\ pending' = [pending EXCEPT ![s] = Tail(pending[s])]
          /\ stage' = [stage EXCEPT ![Head(pending[s])] = "absorbed"]
          /\ UNCHANGED <<active, tracked, doomed>>
        BY <1>16, <1>0 DEF Inject, Undrained
    <2>2. Head(pending[s]) \in Msg /\ stage[Head(pending[s])] = "queued"
        BY <1>0, <2>1, OnPending
    <2>3. Calm
        BY <1>0, <2>1, <2>2
    <2>4. \A t \in Session \ active : pending'[t] = pending[t]
        BY <1>0, <2>1 DEF TypeOK
    <2>. QED  BY <1>0, <2>1, <2>3, <2>4, ServingStill
<1>17. ASSUME NEW m \in Msg, RunNowReturns(m) PROVE Serving'
    BY <1>17, <1>0, <1>s DEF RunNowReturns
<1>18. ASSUME NEW m \in Msg, BeginReset(m) PROVE Serving'
    <2>1. /\ stage[m] = "running"
          /\ stage' = [stage EXCEPT ![m] = "resetting"]
          /\ tracked' = tracked \ ActiveTasks(m)
          /\ doomed' = doomed \cup (ActiveTasks(m) \ {m})
          /\ UNCHANGED <<active, pending>>
        BY <1>18 DEF BeginReset, CancelActive
    <2>2. Calm
        BY <1>0, <2>1 DEF ActiveTasks
    <2>. QED  BY <2>1, <2>2, <1>s
<1>19. ASSUME NEW m \in Msg, BeginContinue(m) PROVE Serving'
    BY <1>19, <1>0, <1>s DEF BeginContinue, Continuations, Automated
<1>20. ASSUME NEW m \in Msg, PutContinuation(m) PROVE Serving'
    <2>. DEFINE s == SessionOf[m]
    <2>1. PICK c \in Continuations(m) :
              /\ pending' = [pending EXCEPT ![s] = Append(@, c)]
              /\ stage' = [stage EXCEPT ![m] = "yielded", ![c] = "queued"]
        BY <1>20 DEF PutContinuation
    <2>2. /\ c \in Msg /\ stage[c] = "new" /\ Kind[c] # "direct"
          /\ stage[m] = "yielding" /\ Live(m) /\ UNCHANGED <<active, tracked, doomed>>
        BY <1>20, <2>1 DEF Continuations, Automated, PutContinuation
    <2>3. Calm
        BY <1>0, <2>1, <2>2
    <2>4. s \in active
        BY <1>0, <2>2 DEF Registered, Outside
    <2>5. \A t \in Session \ active : pending'[t] = pending[t]
        BY <1>0, <2>1, <2>4 DEF TypeOK
    <2>. QED  BY <1>0, <2>2, <2>3, <2>5, ServingStill
<1>21. ASSUME NEW m \in Msg, CloseTurn(m) PROVE Serving'
    BY <1>21, <1>0, <1>s DEF CloseTurn, Depart
<1>22. ASSUME NEW m \in Msg, ReturnDirect(m) PROVE Serving'
    BY <1>22, <1>0, <1>s DEF ReturnDirect
<1>23. ASSUME NEW m \in Msg, CancelUnstarted(m) PROVE Serving'
    <2>1. stage[m] = "ready"
        BY <1>23, <1>0, OnReady DEF CancelUnstarted
    <2>. QED  BY <1>23, <1>0, <1>s, <2>1 DEF CancelUnstarted
<1>24. ASSUME NEW m \in Msg, CancelWaiting(m) PROVE Serving'
    BY <1>24, <1>0, <1>s DEF CancelWaiting
<1>25. ASSUME NEW m \in Msg, NEW v, stage[m] \in TurnStages, EndTurn(m, v) PROVE Serving'
    <2>1. Unregister(SessionOf[m]) /\ doomed' = doomed \ {m}
        BY <1>25 DEF EndTurn
    <2>2. \E to \in {"closing", "ended"} :
             stage' = [stage EXCEPT ![m] = to] /\ tracked \ {m} \subseteq tracked'
        BY <1>25 DEF EndTurn, Depart
    <2>. QED  BY <1>0, <1>25, <2>1, <2>2, ServingEnds
<1>26. ASSUME NEW m \in Msg, CancelClosing(m) PROVE Serving'
    BY <1>26, <1>0, <1>s DEF CancelClosing
<1>27. ASSUME NEW m \in Msg, NEW a \in Msg, RunNow(m, a) PROVE Serving'
    BY <1>27, <1>0, <1>s DEF RunNow
<1>28. ASSUME NEW m \in Msg, NEW v \in {"ok", "error"}, FinishTurn(m, v) PROVE Serving'
    BY <1>25, <1>28 DEF FinishTurn
<1>29. CASE UNCHANGED vars
    BY <1>29, <1>0, <1>s DEF vars
<1>30. ASSUME NEW m \in Msg, CancelTurn(m) PROVE Serving'
    BY <1>25, <1>30 DEF CancelTurn
<1>a. ASSUME LoopStep PROVE Serving'
    BY <1>a, <1>3, <1>4, <1>5, <1>6, <1>7, <1>8, <1>9, <1>10, <1>11, <1>12 DEF LoopStep
<1>b. ASSUME NEW m \in Msg, TaskStep(m) PROVE Serving'
    BY <1>b, <1>13, <1>14, <1>15, <1>17, <1>18, <1>20, <1>21, <1>22, <1>23, <1>24, <1>30, <1>26, <1>28 DEF TaskStep
<1>c. ASSUME NEW m \in Msg, TurnChoice(m) PROVE Serving'
    BY <1>c, <1>16, <1>19, <1>27 DEF TurnChoice
<1>. QED  BY <1>a, <1>b, <1>c, <1>1, <1>2, <1>29 DEF Next

-----------------------------------------------------------------------------
(* Theorems *)

LEMMA QueueInvariance == Spec => []IInv
<1>1. Init => TypeOK /\ HolderIsHead
    BY EmptySeq DEF Init, TypeOK, Stages, Waits, HolderIsHead, Holding, HoldStages, TurnStages
<1>2. Init => Waiting
    <2>. SUFFICES ASSUME Init PROVE Waiting
        OBVIOUS
    <2>1. \A m \in Msg : Occurrences(<<>>, m) = 0
        BY CountFew
    <2>2. \A m \in Msg : InBus(m) = 0 /\ InReady(m) = 0
        BY <2>1 DEF Init, InBus, InReady
    <2>3. \A m \in Msg, s \in Session : InPending(s, m) = 0 /\ InDeferred(s, m) = 0
        BY <2>1 DEF Init, InPending, InDeferred
    <2>4. \A m \in Msg : SessionOf[m] \in Session /\ stage[m] = "new"
        BY DispatchAssumption DEF Init
    <2>. QED  BY <2>2, <2>3, <2>4 DEF Waiting, Once, AtHome, ReadyOnce, Copies
<1>3. Init => Serving
    BY DEF Init, Serving, LoopOne, Outside, RunStages, Tracked, Registered, Frozen,
           PendingHasReader, Serves, TaskStages, TurnStages
<1>4. IInv /\ [Next]_vars => IInv'
    BY TypeStep, LockStep, WaitingStep, ServingStep DEF IInv
<1>. QED  BY <1>1, <1>2, <1>3, <1>4, PTL DEF Spec, IInv

\* A message that was accepted and not yet taken is in exactly one of the bus,
\* the mid-turn queue and the deferred queue of its session, exactly once:
\* routing, republishing, /stop and cancellation neither lose nor duplicate it.
THEOREM Conservation == Spec => []NothingLost
<1>1. IInv => NothingLost
    BY DEF IInv, Waiting, Once, Copies, InBus, InPending, InDeferred, NothingLost
<1>. QED  BY <1>1, QueueInvariance, PTL

\* A registered mid-turn queue has a turn that drains it or publishes it again,
\* and no other holds a message: no follow-up is stranded (_pending_queues).
THEOREM NoStrandedFollowUp == Spec => []PendingHasReader
<1>1. IInv => PendingHasReader
    BY DEF IInv, Serving
<1>. QED  BY <1>1, QueueInvariance, PTL

\* A turn passes from the gate into its body by BeginTurn alone
LEMMA PassesGate ==
    ASSUME IInv, Next, NEW m \in Msg, stage[m] = "gatewait", stage'[m] = "running"
    PROVE  Live(m)
<1>. USE DispatchAssumption
<1>0. stage \in [Msg -> Stages] /\ SessionOf[m] \in Session
    BY DEF IInv, TypeOK
<1>1. ASSUME NEW x \in Msg, Send(x) \/ CallDirect(x) PROVE FALSE
    BY <1>0, <1>1 DEF Send, CallDirect
<1>2. ASSUME NEW x \in Msg,
             DropUnknown(x) \/ BeginCommand(x) \/ AnswerCommand(x) \/ Defer(x)
                \/ RouteFollowUp(x) \/ OpenTurn(x) \/ OpenWindow(x)
      PROVE  FALSE
    BY <1>0, <1>2 DEF DropUnknown, BeginCommand, AnswerCommand, Defer, RouteFollowUp,
                      OpenTurn, OpenWindow
<1>3. ASSUME NEW x \in Msg, EndCommand(x) PROVE FALSE
    <2>1. stage'[m] \in {"dropped", "handled", stage[m]}
        BY <1>3 DEF EndCommand
    <2>. QED  BY <2>1
<1>4. ASSUME NEW x \in Msg, MergeNext(x) \/ CloseWindow(x) PROVE FALSE
    BY <1>0, <1>4 DEF MergeNext, CloseWindow
<1>5. ASSUME NEW x \in Msg, StartTask(x) \/ CloseTurn(x) \/ ReturnDirect(x)
                \/ CancelUnstarted(x) \/ CancelWaiting(x) \/ CancelClosing(x)
      PROVE  FALSE
    BY <1>0, <1>5 DEF StartTask, CloseTurn, ReturnDirect, CancelUnstarted, CancelWaiting,
                      CancelClosing, Depart
<1>6. ASSUME NEW x \in Msg, AcquireLock(x) PROVE FALSE
    BY <1>0, <1>6 DEF AcquireLock
<1>7. ASSUME NEW x \in Msg, BeginTurn(x) PROVE Live(m)
    BY <1>0, <1>7 DEF BeginTurn
<1>8. ASSUME NEW x \in Msg, RunNowReturns(x) \/ BeginReset(x) \/ BeginContinue(x)
      PROVE  FALSE
    BY <1>0, <1>8 DEF RunNowReturns, BeginReset, BeginContinue
<1>9. ASSUME NEW x \in Msg, PutContinuation(x) PROVE FALSE
    BY <1>0, <1>9 DEF PutContinuation, Continuations
<1>10. ASSUME NEW x \in Msg, NEW v \in {"ok", "error"}, EndTurn(x, v) PROVE FALSE
    BY <1>0, <1>10 DEF EndTurn, Depart
<1>11. ASSUME NEW x \in Msg, Inject(x) PROVE FALSE
    BY <1>0, <1>11 DEF Inject
<1>12. ASSUME NEW x \in Msg, NEW a \in Msg, RunNow(x, a) PROVE FALSE
    BY <1>0, <1>12 DEF RunNow
<1>a. ASSUME LoopStep PROVE FALSE
    BY <1>a, <1>2, <1>3, <1>4 DEF LoopStep
<1>b. ASSUME NEW x \in Msg, TaskStep(x) PROVE Live(m)
    <2>1. ASSUME NEW v \in {"ok", "error"}, FinishTurn(x, v) PROVE FALSE
        BY <2>1, <1>10 DEF FinishTurn
    <2>2. ASSUME CancelTurn(x) PROVE FALSE
        BY <2>2, <1>10 DEF CancelTurn
    <2>. QED  BY <1>b, <2>1, <2>2, <1>5, <1>6, <1>7, <1>8, <1>9 DEF TaskStep
<1>c. ASSUME NEW x \in Msg, TurnChoice(x) PROVE FALSE
    BY <1>c, <1>8, <1>11, <1>12 DEF TurnChoice
<1>. QED  BY <1>a, <1>b, <1>c, <1>1 DEF Next

\* While /stop, /new or session_discard wait for the tasks they cancelled, no
\* turn of their session begins, whoever handed over the lock or the gate.
THEOREM StopHolds == Spec => StopFreezesSession
<1>. DEFINE Freeze == \A c, m \in Msg :
              /\ stage[c] = "executing"
              /\ SessionOf[m] = SessionOf[c]
              => ~(stage[m] = "gatewait" /\ stage'[m] = "running")
<1>1. ASSUME IInv, Next, NEW c \in Msg, NEW m \in Msg, stage[c] = "executing",
             SessionOf[m] = SessionOf[c], stage[m] = "gatewait", stage'[m] = "running"
      PROVE  FALSE
    <2>1. Live(m)
        BY <1>1, PassesGate
    <2>. QED  BY <1>1, <2>1 DEF IInv, Serving, Frozen, Serves, TaskStages, Outside, RunStages
<1>2. IInv /\ [Next]_vars => [Freeze]_vars
    BY <1>1
<1>. QED  BY <1>2, QueueInvariance, PTL DEF Spec, StopFreezesSession

-----------------------------------------------------------------------------
(* What becomes of automation turns in a session in which nobody cancels *)

Undisturbed(s) ==
    \A m \in Msg : SessionOf[m] = s => Kind[m] \notin {"stop", "new", "discard"}

\* No cancel() is on its way to a task of such a session.
Spared == \A m \in Msg : Undisturbed(SessionOf[m]) => Live(m)

\* What is deferred are automation turns of the session.
DeferredHome ==
    \A s \in Session : \A m \in ToSet(deferred[s]) : Automated(m) /\ SessionOf[m] = s

\* Two of the properties, session by session
Followed == \A s \in Session : Undisturbed(s) => HasPublisher(s)
Answered == \A a \in Msg : Undisturbed(SessionOf[a]) => Settled(a)

Succession == Spared /\ DeferredHome /\ Followed /\ Answered

\* The publisher of a deferred turn
Publishes(m) ==
    /\ Kind[m] # "direct"
    /\ \/ stage[m] \in HoldStages \cup {"ready", "lockwait", "merging"}
       \/ Automated(m) /\ m \in ToSet(bus)

LEMMA PublisherOf ==
    ASSUME NEW s \in Session
    PROVE  HasPublisher(s) <=>
             (deferred[s] # <<>> => \E m \in Msg : SessionOf[m] = s /\ Publishes(m))
BY DEF HasPublisher, Publishes

\* The elements of two queues, one behind the other, and of the rest of a queue
LEMMA Elements ==
    ASSUME NEW S, NEW p \in Seq(S), NEW q \in Seq(S)
    PROVE  /\ ToSet(p \o q) = ToSet(p) \cup ToSet(q)
           /\ p # <<>> => /\ \A x : x \in ToSet(p) => x = Head(p) \/ x \in ToSet(Tail(p))
                          /\ \A x : x \in ToSet(Tail(p)) => x \in ToSet(p)
                          /\ Head(p) \in ToSet(p)
<1>1. ASSUME NEW x PROVE x \in ToSet(p \o q) <=> x \in ToSet(p) \/ x \in ToSet(q)
    <2>1. Occurrences(p \o q, x) = Occurrences(p, x) + Occurrences(q, x)
        BY CountConcat
    <2>2. p \o q \in Seq(S)
        BY ConcatProperties
    <2>3. /\ Occurrences(p, x) \in Nat /\ (Occurrences(p, x) = 0 <=> x \notin ToSet(p))
          /\ Occurrences(q, x) \in Nat /\ (Occurrences(q, x) = 0 <=> x \notin ToSet(q))
          /\ Occurrences(p \o q, x) = 0 <=> x \notin ToSet(p \o q)
        BY <2>2, CountType
    <2>. QED  BY ONLY <2>1, <2>3
<1>2. ASSUME NEW x, p # <<>>
      PROVE  x \in ToSet(p) <=> x = Head(p) \/ x \in ToSet(Tail(p))
    <2>1. Tail(p) \in Seq(S)
        BY <1>2, HeadTailProperties
    <2>2. Occurrences(p, x) = Occurrences(Tail(p), x) + IF Head(p) = x THEN 1 ELSE 0
        BY <1>2, CountTail
    <2>3. /\ Occurrences(p, x) \in Nat /\ (Occurrences(p, x) = 0 <=> x \notin ToSet(p))
          /\ Occurrences(Tail(p), x) \in Nat
          /\ Occurrences(Tail(p), x) = 0 <=> x \notin ToSet(Tail(p))
        BY <2>1, CountType
    <2>. QED  BY ONLY <2>2, <2>3
<1>. QED  BY <1>1, <1>2

LEMMA ElementsAppend ==
    ASSUME NEW S, NEW q \in Seq(S), NEW x \in S
    PROVE  ToSet(Append(q, x)) = ToSet(q) \cup {x}
<1>1. <<x>> \in Seq(S) /\ ToSet(<<x>>) = {x}
    BY DEF ToSet
<1>2. ToSet(q \o <<x>>) = ToSet(q) \cup ToSet(<<x>>)
    BY <1>1, Elements
<1>3. Append(q, x) = q \o <<x>>
    BY AppendIsConcat
<1>. QED  BY <1>1, <1>2, <1>3

\* Nothing is deferred, and whoever could publish a deferred turn still can.
LEMMA FollowedStill ==
    ASSUME DeferredHome, Followed, UNCHANGED deferred,
           \A m \in Msg : Publishes(m) =>
             \/ Publishes(m)'
             \/ ~Undisturbed(SessionOf[m])
             \/ \E n \in Msg : SessionOf[n] = SessionOf[m] /\ Publishes(n)'
    PROVE  DeferredHome' /\ Followed'
<1>1. DeferredHome'
    BY DEF DeferredHome
<1>2. ASSUME NEW s \in Session, Undisturbed(s), deferred[s] # <<>>
      PROVE  \E m \in Msg : SessionOf[m] = s /\ Publishes(m)'
    <2>1. PICK m \in Msg : SessionOf[m] = s /\ Publishes(m)
        BY <1>2, PublisherOf DEF Followed
    <2>. QED  BY <1>2, <2>1
<1>3. ASSUME NEW s \in Session, Undisturbed(s) PROVE HasPublisher(s)'
    BY <1>2, <1>3, PublisherOf DEF HasPublisher, Publishes
<1>. QED  BY <1>1, <1>3 DEF Followed

\* A task that leaves _dispatch publishes what is due itself.
LEMMA FollowedDeparts ==
    ASSUME TypeOK, DeferredHome, Followed, NEW m \in Msg,
           \A x \in Msg \ {m} : stage'[x] = stage[x],
           NEW left \in Seq(Msg),
           bus' = bus \o left \o NextDeferred(SessionOf[m]),
           deferred' = [deferred EXCEPT ![SessionOf[m]] = LaterDeferred(SessionOf[m])]
    PROVE  DeferredHome' /\ Followed'
<1>. DEFINE s == SessionOf[m]
<1>1. /\ s \in Session /\ deferred[s] \in Seq(Msg) /\ bus \in Seq(Msg)
      /\ bus \o left \in Seq(Msg) /\ NextDeferred(s) \in Seq(Msg)
      /\ deferred'[s] = LaterDeferred(s)
      /\ \A t \in Session \ {s} : deferred'[t] = deferred[t]
    BY DispatchAssumption, PublishTypes DEF TypeOK
<1>2. ToSet(bus') = ToSet(bus) \cup ToSet(left) \cup ToSet(NextDeferred(s))
    <2>1. ToSet(bus \o left) = ToSet(bus) \cup ToSet(left)
        BY <1>1, Elements
    <2>2. ToSet((bus \o left) \o NextDeferred(s)) = ToSet(bus \o left) \cup ToSet(NextDeferred(s))
        BY <1>1, Elements
    <2>. QED  BY <2>1, <2>2
<1>3. \A x : x \in ToSet(LaterDeferred(s)) => x \in ToSet(deferred[s])
    BY <1>1, Elements DEF LaterDeferred, Due
<1>4. DeferredHome'
    BY <1>1, <1>3 DEF DeferredHome
<1>5. ASSUME deferred'[s] # <<>>
      PROVE  \E x \in Msg : SessionOf[x] = s /\ Publishes(x)'
    <2>1. deferred[s] # <<>>
        BY <1>1, <1>5 DEF LaterDeferred, Due
    <2>2. NextDeferred(s) = <<Head(deferred[s])>>
        BY <2>1 DEF NextDeferred, Due
    <2>3. Head(deferred[s]) \in Msg /\ Head(deferred[s]) \in ToSet(deferred[s])
        BY <1>1, <2>1, HeadTailProperties, Elements
    <2>4. Head(deferred[s]) \in ToSet(NextDeferred(s))
        BY <1>1, <2>2, Elements DEF ToSet
    <2>5. Automated(Head(deferred[s])) /\ SessionOf[Head(deferred[s])] = s
        BY <1>1, <2>3 DEF DeferredHome
    <2>. QED  BY <1>2, <2>3, <2>4, <2>5 DEF Publishes, Automated
<1>6. ASSUME NEW t \in Session \ {s}, Undisturbed(t), deferred'[t] # <<>>
      PROVE  \E x \in Msg : SessionOf[x] = t /\ Publishes(x)'
    <2>1. PICK x \in Msg : SessionOf[x] = t /\ Publishes(x)
        BY <1>1, <1>6, PublisherOf DEF Followed
    <2>. QED  BY <1>2, <1>6, <2>1 DEF Publishes
<1>7. ASSUME NEW t \in Session, Undisturbed(t) PROVE HasPublisher(t)'
    BY <1>5, <1>6, <1>7 DEF HasPublisher, Publishes
<1>. QED  BY <1>4, <1>7 DEF Followed

\* A cancel() comes from /stop, /new or session_discard of the session.
LEMMA SparedStep ==
    ASSUME Spared, [Next]_vars
    PROVE  Spared'
<1>1. ASSUME NEW c \in Msg, CancelActive(c), Kind[c] \in {"stop", "new", "discard"}
      PROVE  Spared'
    BY <1>1 DEF CancelActive, ActiveTasks, Spared, Undisturbed, Live
<1>2. ASSUME doomed' \subseteq doomed PROVE Spared'
    BY <1>2 DEF Spared, Live
<1>3. ASSUME NEW c \in Msg, BeginCommand(c) PROVE Spared'
    BY <1>1, <1>3 DEF BeginCommand
<1>4. ASSUME NEW c \in Msg, BeginReset(c) PROVE Spared'
    BY <1>1, <1>4 DEF BeginReset
<1>5. ASSUME NEW m \in Msg, NEW v, EndTurn(m, v) PROVE doomed' \subseteq doomed
    BY <1>5 DEF EndTurn
<1>6. ASSUME NEW m \in Msg, Send(m) \/ CallDirect(m) PROVE doomed' \subseteq doomed
    BY <1>6 DEF Send, CallDirect
<1>7. ASSUME LoopStep PROVE Spared'
    BY <1>2, <1>3, <1>7 DEF LoopStep, DropUnknown, EndCommand, AnswerCommand, Defer,
       RouteFollowUp, OpenTurn, OpenWindow, MergeNext, CloseWindow
<1>8. ASSUME NEW m \in Msg, TaskStep(m) PROVE Spared'
    <2>1. ASSUME NEW v \in {"ok", "error"}, FinishTurn(m, v) PROVE doomed' \subseteq doomed
        BY <1>5, <2>1 DEF FinishTurn
    <2>2. ASSUME CancelTurn(m) PROVE doomed' \subseteq doomed
        BY <1>5, <2>2 DEF CancelTurn
    <2>. QED
        BY <1>2, <1>4, <1>8, <2>1, <2>2 DEF TaskStep, StartTask, AcquireLock, BeginTurn,
           RunNowReturns, PutContinuation, CloseTurn, ReturnDirect, CancelUnstarted,
           CancelWaiting, CancelClosing
<1>9. ASSUME NEW m \in Msg, TurnChoice(m) PROVE doomed' \subseteq doomed
    BY <1>9 DEF TurnChoice, Inject, BeginContinue, RunNow
<1>10. ASSUME UNCHANGED vars PROVE doomed' \subseteq doomed
    BY <1>10 DEF vars
<1>. QED  BY <1>2, <1>6, <1>7, <1>8, <1>9, <1>10 DEF Next

\* A turn that ends settles its future; only a cancel ends a task before that.
LEMMA AnsweredStep ==
    ASSUME IInv, Spared, Answered, [Next]_vars
    PROVE  Answered'
<1>. USE DispatchAssumption
<1>0. /\ stage \in [Msg -> Stages] /\ waiter \in [Msg -> Waits]
      /\ \A a \in Msg : Undisturbed(SessionOf[a]) => Settled(a) /\ a \notin doomed
    BY DEF IInv, TypeOK, Spared, Live, Answered
<1>s. ASSUME \A a \in Msg : Undisturbed(SessionOf[a]) /\ Kind[a] = "auto" =>
                /\ stage'[a] \in {"closing", "ended"} => stage[a] \in {"closing", "ended"}
                /\ waiter'[a] = "waiting" => waiter[a] = "waiting" \/ stage'[a] = "queued"
      PROVE  Answered'
    BY <1>0, <1>s DEF Answered, Settled
<1>1. ASSUME NEW m \in Msg, Send(m) \/ CallDirect(m) PROVE Answered'
    BY <1>0, <1>1, <1>s DEF Send, CallDirect
<1>2. ASSUME NEW m \in Msg, EndCommand(m) PROVE Answered'
    <2>1. /\ UNCHANGED waiter
          /\ \A x \in Msg : stage'[x] \in {"dropped", "handled"} \/ stage'[x] = stage[x]
        BY <1>2 DEF EndCommand
    <2>. QED  BY <1>0, <1>s, <2>1
<1>3. ASSUME NEW m \in Msg,
             \/ DropUnknown(m) \/ BeginCommand(m) \/ AnswerCommand(m)
             \/ Defer(m) \/ RouteFollowUp(m) \/ OpenTurn(m) \/ OpenWindow(m)
      PROVE  Answered'
    BY <1>0, <1>3, <1>s DEF DropUnknown, BeginCommand, AnswerCommand, Defer, RouteFollowUp,
       OpenTurn, OpenWindow
<1>4. ASSUME NEW m \in Msg, MergeNext(m) \/ CloseWindow(m) PROVE Answered'
    BY <1>0, <1>4, <1>s DEF MergeNext, CloseWindow
<1>5. ASSUME NEW m \in Msg, StartTask(m) \/ AcquireLock(m) \/ BeginTurn(m) PROVE Answered'
    BY <1>0, <1>5, <1>s DEF StartTask, AcquireLock, BeginTurn
<1>6. ASSUME NEW m \in Msg, RunNowReturns(m) \/ BeginReset(m) \/ BeginContinue(m) \/ Inject(m)
      PROVE Answered'
    BY <1>0, <1>6, <1>s DEF RunNowReturns, BeginReset, BeginContinue, Inject
<1>7. ASSUME NEW m \in Msg, PutContinuation(m) PROVE Answered'
    BY <1>0, <1>7, <1>s DEF PutContinuation, Continuations
<1>8. ASSUME NEW m \in Msg, NEW v \in {"ok", "error"}, EndTurn(m, v) PROVE Answered'
    <2>1. /\ \A x \in Msg \ {m} : stage'[x] = stage[x]
          /\ \A x \in Msg : waiter'[x] = "waiting" => x # m /\ waiter[x] = "waiting"
        BY <1>0, <1>8 DEF EndTurn, Depart, Settle
    <2>. QED  BY <1>0, <2>1 DEF Answered, Settled
<1>9. ASSUME NEW m \in Msg, CloseTurn(m) PROVE Answered'
    BY <1>0, <1>9, <1>s DEF CloseTurn, Depart
<1>10. ASSUME NEW m \in Msg, ReturnDirect(m) PROVE Answered'
    BY <1>0, <1>10, <1>s DEF ReturnDirect
<1>11. ASSUME NEW m \in Msg, CancelUnstarted(m) \/ CancelWaiting(m) \/ CancelClosing(m)
       PROVE  Answered'
    <2>1. m \in doomed /\ UNCHANGED waiter /\ \A x \in Msg \ {m} : stage'[x] = stage[x]
        BY <1>0, <1>11 DEF CancelUnstarted, CancelWaiting, CancelClosing
    <2>. QED  BY <1>0, <1>s, <2>1
<1>12. ASSUME NEW m \in Msg, NEW a \in Msg, RunNow(m, a) PROVE Answered'
    BY <1>0, <1>12, <1>s DEF RunNow
<1>13. ASSUME UNCHANGED vars PROVE Answered'
    BY <1>13, <1>s DEF vars
<1>a. ASSUME LoopStep PROVE Answered'
    BY <1>a, <1>2, <1>3, <1>4 DEF LoopStep
<1>b. ASSUME NEW m \in Msg, TaskStep(m) PROVE Answered'
    <2>1. ASSUME NEW v \in {"ok", "error"}, FinishTurn(m, v) PROVE Answered'
        BY <1>8, <2>1 DEF FinishTurn
    <2>2. ASSUME CancelTurn(m) PROVE Answered'
        BY <1>8, <2>2 DEF CancelTurn
    <2>. QED  BY <1>b, <2>1, <2>2, <1>5, <1>6, <1>7, <1>9, <1>10, <1>11 DEF TaskStep
<1>c. ASSUME NEW m \in Msg, TurnChoice(m) PROVE Answered'
    BY <1>c, <1>6, <1>12 DEF TurnChoice
<1>. QED  BY <1>a, <1>b, <1>c, <1>1, <1>13 DEF Next

\* A deferred turn never loses its last publisher.
LEMMA FollowedStep ==
    ASSUME IInv, Spared, DeferredHome, Followed, [Next]_vars
    PROVE  DeferredHome' /\ Followed'
<1>. USE DispatchAssumption
<1>. DEFINE Kept == \A x \in Msg : Publishes(x) =>
              \/ Publishes(x)'
              \/ ~Undisturbed(SessionOf[x])
              \/ \E n \in Msg : SessionOf[n] = SessionOf[x] /\ Publishes(n)'
            Goal == DeferredHome' /\ Followed'
<1>0. /\ stage \in [Msg -> Stages] /\ bus \in Seq(Msg) /\ TypeOK
      /\ Once /\ AtHome /\ ReadyOnce /\ Outside /\ PendingHasReader
      /\ \A m \in Msg : SessionOf[m] \in Session
      /\ \A m \in Msg : Undisturbed(SessionOf[m]) => m \notin doomed
    BY DEF IInv, Waiting, Serving, TypeOK, Spared, Live
<1>s. ASSUME Kept, UNCHANGED deferred PROVE Goal
    BY <1>s, FollowedStill
<1>. USE DEF HoldStages, TurnStages
<1>g. ASSUME NEW q \in Seq(Msg), bus' = bus \o q PROVE \A x : x \in ToSet(bus) => x \in ToSet(bus')
    BY <1>0, <1>g, Elements
<1>p. ASSUME NEW m \in Msg, bus' = Append(bus, m) PROVE \A x : x \in ToSet(bus) => x \in ToSet(bus')
    BY <1>0, <1>p, ElementsAppend
<1>t. ASSUME bus # <<>>
      PROVE  \A x : x \in ToSet(bus) => x = Head(bus) \/ x \in ToSet(Tail(bus))
    BY <1>0, <1>t, EmptySeq, Elements
<1>1. ASSUME NEW m \in Msg, Send(m) \/ CallDirect(m) PROVE Goal
    <2>1. \A x : x \in ToSet(bus) => x \in ToSet(bus')
        BY <1>1, <1>p DEF Send, CallDirect
    <2>2. \A x \in Msg : stage'[x] = stage[x] \/ stage[x] = "new"
        BY <1>0, <1>1 DEF Send, CallDirect
    <2>3. Kept
        BY <2>1, <2>2 DEF Publishes
    <2>. QED  BY <1>1, <2>3, <1>s DEF Send, CallDirect
<1>2. ASSUME NEW m \in Msg, ~Automated(m), Consume(m), UNCHANGED deferred,
             \A x \in Msg \ {m} : stage'[x] = stage[x]
      PROVE  Goal
    <2>1. bus # <<>> /\ m = Head(bus) /\ bus' = Tail(bus) /\ stage[m] = "queued"
        BY <1>2, Consumed
    <2>2. Kept
        BY <1>2, <1>t, <2>1 DEF Publishes
    <2>. QED  BY <1>2, <2>2, <1>s
<1>3. ASSUME NEW m \in Msg, OpenTurn(m) \/ OpenWindow(m) PROVE Goal
    <2>1. /\ bus # <<>> /\ m = Head(bus) /\ bus' = Tail(bus) /\ stage[m] = "queued"
          /\ Kind[m] # "direct"
        BY <1>3, Consumed DEF OpenTurn, OpenWindow
    <2>2. /\ UNCHANGED deferred
          /\ stage'[m] \in {"ready", "merging"}
          /\ \A x \in Msg \ {m} : stage'[x] = stage[x]
        BY <1>0, <1>3 DEF OpenTurn, OpenWindow
    <2>3. Kept
        BY <1>t, <2>1, <2>2 DEF Publishes
    <2>. QED  BY <2>2, <2>3, <1>s
<1>4. ASSUME NEW m \in Msg, DropUnknown(m) \/ BeginCommand(m) \/ AnswerCommand(m) \/ RouteFollowUp(m)
      PROVE  Goal
    <2>1. ~Automated(m) /\ Consume(m) /\ UNCHANGED deferred
        BY <1>4 DEF DropUnknown, BeginCommand, AnswerCommand, RouteFollowUp, Injectable, Automated
    <2>2. \A x \in Msg \ {m} : stage'[x] = stage[x]
        BY <1>0, <1>4 DEF DropUnknown, BeginCommand, AnswerCommand, RouteFollowUp
    <2>. QED  BY <1>2, <2>1, <2>2
<1>5. ASSUME NEW m \in Msg, EndCommand(m) PROVE Goal
    <2>. DEFINE drop == IF Kind[m] = "stop" THEN ToSet(pending[SessionOf[m]]) ELSE {}
    <2>1. /\ stage[m] = "executing" /\ UNCHANGED <<bus, deferred>>
          /\ stage' = [x \in Msg |-> IF x \in drop THEN "dropped"
                                     ELSE IF x = m THEN "handled" ELSE stage[x]]
        BY <1>5 DEF EndCommand
    <2>2. \A x \in Msg : x \in drop => stage[x] = "queued"
        BY <1>0, PendingQueued
    <2>. HIDE DEF drop
    <2>3. Kept
        BY <2>1, <2>2 DEF Publishes
    <2>. QED  BY <2>1, <2>3, <1>s
<1>6. ASSUME NEW m \in Msg, Defer(m) PROVE Goal
    <2>. DEFINE s == SessionOf[m]
    <2>1. /\ bus # <<>> /\ m = Head(bus) /\ bus' = Tail(bus) /\ UNCHANGED stage
          /\ Automated(m) /\ s \in active /\ s \in Session
          /\ deferred' = [deferred EXCEPT ![s] = Append(@, m)]
        BY <1>0, <1>6, Consumed DEF Defer
    <2>2. /\ deferred[s] \in Seq(Msg)
          /\ deferred'[s] = Append(deferred[s], m)
          /\ \A t \in Session \ {s} : deferred'[t] = deferred[t]
        BY <1>0, <2>1 DEF TypeOK
    <2>3. ToSet(deferred'[s]) = ToSet(deferred[s]) \cup {m}
        BY <2>2, ElementsAppend
    <2>4. DeferredHome'
        BY <2>1, <2>2, <2>3 DEF DeferredHome
    <2>5. PICK r \in Msg : SessionOf[r] = s /\ Kind[r] # "direct" /\ stage[r] \in TurnStages
        BY <1>0, <2>1 DEF PendingHasReader
    <2>6. SessionOf[r] = s /\ Publishes(r)'
        BY <2>1, <2>5 DEF Publishes
    <2>7. ASSUME NEW t \in Session \ {s}, Undisturbed(t), deferred[t] # <<>>
          PROVE  \E x \in Msg : SessionOf[x] = t /\ Publishes(x)'
        <3>1. PICK x \in Msg : SessionOf[x] = t /\ Publishes(x)
            BY <2>7, PublisherOf DEF Followed
        <3>. QED  BY <1>t, <2>1, <2>7, <3>1 DEF Publishes
    <2>8. ASSUME NEW t \in Session, Undisturbed(t) PROVE HasPublisher(t)'
        BY <2>2, <2>6, <2>7, <2>8 DEF HasPublisher, Publishes
    <2>. QED  BY <2>4, <2>8 DEF Followed
<1>7. ASSUME NEW m \in Msg, MergeNext(m) PROVE Goal
    <2>1. /\ bus # <<>> /\ bus' = Tail(bus) /\ UNCHANGED deferred
          /\ stage[m] = "merging" /\ Kind[m] # "direct" /\ SessionOf[Head(bus)] = SessionOf[m]
        BY <1>0, <1>7 DEF MergeNext, Mergeable, Outside, RunStages
    <2>2. /\ Head(bus) \in Msg /\ stage[Head(bus)] = "queued"
          /\ stage' = [stage EXCEPT ![Head(bus)] = "absorbed"]
        BY <1>0, <1>7, <2>1, OnBus DEF MergeNext
    <2>3. Publishes(m)'
        BY <1>0, <2>1, <2>2 DEF Publishes
    <2>4. \A x \in Msg : Publishes(x) => Publishes(x)' \/ x = Head(bus)
        BY <1>0, <1>t, <2>1, <2>2 DEF Publishes
    <2>. QED  BY <2>1, <2>3, <2>4, <1>s
<1>8. ASSUME NEW m \in Msg, CloseWindow(m) PROVE Goal
    <2>1. \A x : x \in ToSet(bus) => x \in ToSet(bus')
        <3>1. CASE bus' = bus
            BY <3>1
        <3>2. CASE bus # <<>> /\ bus' = Append(Tail(bus), Head(bus))
            <4>1. Head(bus) \in Msg /\ Tail(bus) \in Seq(Msg)
                BY <1>0, <3>2, HeadTailProperties
            <4>2. ToSet(bus') = ToSet(Tail(bus)) \cup {Head(bus)}
                BY <3>2, <4>1, ElementsAppend
            <4>. QED  BY <1>t, <3>2, <4>2
        <3>. QED  BY <1>8, <3>1, <3>2 DEF CloseWindow
    <2>2. /\ UNCHANGED deferred /\ stage[m] = "merging"
          /\ stage' = [stage EXCEPT ![m] = "ready"]
        BY <1>8 DEF CloseWindow
    <2>3. Kept
        BY <1>0, <2>1, <2>2 DEF Publishes
    <2>. QED  BY <2>2, <2>3, <1>s
<1>9. ASSUME NEW m \in Msg, StartTask(m) PROVE Goal
    <2>1. stage[m] = "ready" /\ stage' = [stage EXCEPT ![m] = "lockwait"] /\ UNCHANGED <<bus, deferred>>
        BY <1>0, <1>9, OnReady DEF StartTask
    <2>2. Kept
        BY <1>0, <2>1 DEF Publishes
    <2>. QED  BY <2>1, <2>2, <1>s
<1>10. ASSUME NEW m \in Msg, AcquireLock(m) \/ BeginTurn(m) \/ RunNowReturns(m) \/ BeginReset(m)
                 \/ BeginContinue(m)
       PROVE Goal
    <2>1. /\ UNCHANGED <<bus, deferred>>
          /\ stage'[m] \in HoldStages
          /\ \A x \in Msg \ {m} : stage'[x] = stage[x]
        BY <1>0, <1>10 DEF AcquireLock, BeginTurn, RunNowReturns, BeginReset, BeginContinue
    <2>2. Kept
        BY <1>0, <2>1 DEF Publishes
    <2>. QED  BY <2>1, <2>2, <1>s
<1>11. ASSUME NEW m \in Msg, Inject(m) PROVE Goal
    <2>1. /\ UNCHANGED <<bus, deferred>> /\ pending[SessionOf[m]] # <<>>
          /\ stage' = [stage EXCEPT ![Head(pending[SessionOf[m]])] = "absorbed"]
        BY <1>11 DEF Inject
    <2>2. stage[Head(pending[SessionOf[m]])] = "queued"
        BY <1>0, <2>1, OnPending
    <2>3. Kept
        BY <1>0, <2>1, <2>2 DEF Publishes
    <2>. QED  BY <2>1, <2>3, <1>s
<1>12. ASSUME NEW m \in Msg, PutContinuation(m) PROVE Goal
    <2>1. PICK c \in Continuations(m) : stage' = [stage EXCEPT ![m] = "yielded", ![c] = "queued"]
        BY <1>12 DEF PutContinuation
    <2>2. /\ c \in Msg /\ stage[c] = "new" /\ stage[m] = "yielding" /\ UNCHANGED <<bus, deferred>>
        BY <1>12, <2>1 DEF Continuations, PutContinuation
    <2>3. Kept
        BY <1>0, <2>1, <2>2 DEF Publishes
    <2>. QED  BY <2>2, <2>3, <1>s
<1>13. ASSUME NEW m \in Msg, NEW left \in Seq(Msg), Depart(m, left) PROVE Goal
    <2>1. \A x \in Msg \ {m} : stage'[x] = stage[x]
        BY <1>0, <1>13 DEF Depart
    <2>. QED  BY <1>0, <1>13, <2>1, FollowedDeparts DEF Depart
<1>14. ASSUME NEW m \in Msg, NEW v, stage[m] \in TurnStages, EndTurn(m, v) PROVE Goal
    <2>1. Leftovers(SessionOf[m]) \in Seq(Msg)
        BY <1>0 DEF TypeOK, Leftovers
    <2>2. CASE stage[m] \in {"yielding", "yielded"}
        BY <1>13, <1>14, <2>1, <2>2 DEF EndTurn
    <2>3. CASE stage[m] \notin {"yielding", "yielded"}
        <3>1. /\ bus' = bus \o Leftovers(SessionOf[m])
              /\ stage' = [stage EXCEPT ![m] = "closing"]
              /\ UNCHANGED deferred
            BY <1>14, <2>3 DEF EndTurn
        <3>2. Kept
            BY <1>0, <1>g, <2>1, <3>1 DEF Publishes
        <3>. QED  BY <3>1, <3>2, <1>s
    <2>. QED  BY <2>2, <2>3
<1>15. ASSUME NEW m \in Msg, CloseTurn(m) PROVE Goal
    BY <1>13, <1>15, EmptySeq DEF CloseTurn
<1>16. ASSUME NEW m \in Msg, ReturnDirect(m) PROVE Goal
    <2>1. Kind[m] = "direct" /\ UNCHANGED <<bus, deferred>> /\ \A x \in Msg \ {m} : stage'[x] = stage[x]
        BY <1>0, <1>16 DEF ReturnDirect
    <2>2. Kept
        BY <2>1 DEF Publishes
    <2>. QED  BY <2>1, <2>2, <1>s
<1>17. ASSUME NEW m \in Msg, CancelUnstarted(m) \/ CancelClosing(m) PROVE Goal
    <2>1. /\ m \in doomed /\ UNCHANGED <<bus, deferred>>
          /\ \A x \in Msg \ {m} : stage'[x] = stage[x]
        BY <1>0, <1>17 DEF CancelUnstarted, CancelClosing
    <2>2. Kept
        BY <1>0, <2>1 DEF Publishes
    <2>. QED  BY <2>1, <2>2, <1>s
<1>18. ASSUME NEW m \in Msg, CancelWaiting(m) PROVE Goal
    <2>1. /\ \A x \in Msg \ {m} : stage'[x] = stage[x]
          /\ deferred' = [deferred EXCEPT ![SessionOf[m]] = LaterDeferred(SessionOf[m])]
          /\ bus' = bus \o NextDeferred(SessionOf[m])
        BY <1>0, <1>18 DEF CancelWaiting
    <2>2. bus \o <<>> = bus /\ <<>> \in Seq(Msg)
        BY <1>0, EmptySeq, ConcatEmptySeq
    <2>. QED  BY <1>0, <2>1, <2>2, FollowedDeparts
<1>19. ASSUME NEW m \in Msg, NEW a \in Msg, RunNow(m, a) PROVE Goal
    <2>1. \A x : x \in ToSet(bus) => x \in ToSet(bus')
        BY <1>19, <1>p DEF RunNow
    <2>2. /\ UNCHANGED deferred /\ stage[a] = "new" /\ stage[m] = "running"
          /\ stage' = [stage EXCEPT ![m] = "runnow", ![a] = "queued"]
        BY <1>19 DEF RunNow
    <2>3. Kept
        BY <1>0, <2>1, <2>2 DEF Publishes
    <2>. QED  BY <2>2, <2>3, <1>s
<1>20. ASSUME UNCHANGED vars PROVE Goal
    BY <1>20, <1>s DEF vars, Publishes
<1>a. ASSUME LoopStep PROVE Goal
    BY <1>a, <1>3, <1>4, <1>5, <1>6, <1>7, <1>8 DEF LoopStep
<1>b. ASSUME NEW m \in Msg, TaskStep(m) PROVE Goal
    <2>1. ASSUME NEW v \in {"ok", "error"}, FinishTurn(m, v) PROVE Goal
        BY <1>14, <2>1 DEF FinishTurn
    <2>2. ASSUME CancelTurn(m) PROVE Goal
        BY <1>14, <2>2 DEF CancelTurn
    <2>. QED  BY <1>b, <2>1, <2>2, <1>9, <1>10, <1>12, <1>15, <1>16, <1>17, <1>18 DEF TaskStep
<1>c. ASSUME NEW m \in Msg, TurnChoice(m) PROVE Goal
    BY <1>c, <1>10, <1>11, <1>19 DEF TurnChoice
<1>. QED  BY <1>a, <1>b, <1>c, <1>1, <1>20 DEF Next

\* In a session in which nobody cancels, every deferred automation turn has a
\* publisher and every automation turn that is over has settled its future,
\* whatever is cancelled in other sessions (publish_next_deferred, _dispatch).
THEOREM AutomationIsServed ==
    Spec => [](\A s \in Session : Undisturbed(s) =>
                 /\ HasPublisher(s)
                 /\ \A a \in Msg : SessionOf[a] = s => Settled(a))
<1>1. Init => Succession
    BY DEF Init, Succession, Spared, Live, DeferredHome, ToSet, Followed, HasPublisher,
           Answered, Settled
<1>2. IInv /\ Succession /\ [Next]_vars => Succession'
    BY SparedStep, AnsweredStep, FollowedStep DEF Succession
<1>3. Succession => \A s \in Session : Undisturbed(s) =>
                 /\ HasPublisher(s)
                 /\ \A a \in Msg : SessionOf[a] = s => Settled(a)
    BY DEF Succession, Followed, Answered
<1>. QED  BY <1>1, <1>2, <1>3, QueueInvariance, PTL DEF Spec

\* Nobody sends /stop, /new or session_discard.
NothingCancels == \A m \in Msg : Kind[m] \notin {"stop", "new", "discard"}

\* A deferred automation turn is never stranded where nothing is cancelled.
THEOREM DeferredTurnsFollow == NothingCancels => (Spec => []DeferredHasPublisher)
<1>. SUFFICES ASSUME NothingCancels PROVE Spec => []DeferredHasPublisher
    OBVIOUS
<1>1. (\A s \in Session : Undisturbed(s) =>
          /\ HasPublisher(s)
          /\ \A a \in Msg : SessionOf[a] = s => Settled(a))
      => DeferredHasPublisher
    BY DEF NothingCancels, Undisturbed, DeferredHasPublisher
<1>. QED  BY <1>1, AutomationIsServed, PTL

\* Where nothing is cancelled, an automation turn that is over has settled the
\* future of its submitter (AutomationTurnCoordinator.complete).
THEOREM TurnsAreAnswered == NothingCancels => (Spec => []EndedTurnSettled)
<1>. SUFFICES ASSUME NothingCancels PROVE Spec => []EndedTurnSettled
    OBVIOUS
<1>1. (\A s \in Session : Undisturbed(s) =>
          /\ HasPublisher(s)
          /\ \A a \in Msg : SessionOf[a] = s => Settled(a))
      => EndedTurnSettled
    BY DispatchAssumption DEF NothingCancels, Undisturbed, EndedTurnSettled
<1>. QED  BY <1>1, AutomationIsServed, PTL

-----------------------------------------------------------------------------
(* Whose text a prompt holds *)

\* A turn that may still take follow-ups out of its mid-turn queue.
Reads(m) == Kind[m] # "direct" /\ stage[m] \in {"running", "runnow"}

Texts(q) == \A m \in ToSet(q) : Kind[m] \in {"user", "system", "cont"}

\* What waits for a running turn is text (the continuation of an automation turn
\* is put on the queue of a turn that reads no more), and nothing is merged but
\* in the debounce window.
TextOnly ==
    /\ \A m \in Msg : Reads(m) => Texts(pending[SessionOf[m]])
    /\ \A m \in Msg : stage[m] # "merging"
    /\ OnlyTextIsShared

LEMMA TextStep ==
    ASSUME ~Coalesce, TypeOK, HolderIsHead, TextOnly, [Next]_vars
    PROVE  TextOnly'
<1>. USE DispatchAssumption
<1>. DEFINE NoneMerging == \A x \in Msg : stage'[x] # "merging"
            Kept == \A x \in Msg : Reads(x)' => Texts(pending'[SessionOf[x]])
<1>0. /\ stage \in [Msg -> Stages] /\ home \in [Msg -> Msg \cup {NoMsg}]
      /\ \A m \in Msg : stage[m] # "merging" /\ SessionOf[m] \in Session
      /\ pending \in [Session -> Seq(Msg)]
      /\ \A m \in Msg : Reads(m) => Texts(pending[SessionOf[m]])
      /\ \A m \in Msg : home[m] \notin {NoMsg, m} => Kind[m] \in {"user", "system", "cont"}
    BY DEF TypeOK, TextOnly, OnlyTextIsShared
<1>e. Texts(<<>>)
    BY DEF Texts, ToSet
<1>s. ASSUME NoneMerging, Kept,
             \A m \in Msg : home'[m] \in {home[m], m} \/ Kind[m] \in {"user", "system", "cont"}
      PROVE  TextOnly'
    <2>1. OnlyTextIsShared'
        BY <1>0, <1>s DEF OnlyTextIsShared
    <2>. QED  BY <1>s, <2>1 DEF TextOnly, Texts
<1>p. ASSUME NoneMerging, UNCHANGED <<pending, home>>, \A x \in Msg : Reads(x)' => Reads(x)
      PROVE  TextOnly'
    BY <1>0, <1>p, <1>s
<1>1. ASSUME NEW m \in Msg, Send(m) \/ CallDirect(m) PROVE TextOnly'
    BY <1>0, <1>1, <1>p DEF Send, CallDirect, Reads
<1>2. ASSUME NEW m \in Msg,
             DropUnknown(m) \/ BeginCommand(m) \/ AnswerCommand(m) \/ Defer(m) \/ OpenTurn(m)
      PROVE  TextOnly'
    BY <1>0, <1>2, <1>p DEF DropUnknown, BeginCommand, AnswerCommand, Defer, OpenTurn, Reads
<1>3. ASSUME NEW m \in Msg, OpenWindow(m) \/ MergeNext(m) \/ CloseWindow(m) PROVE FALSE
    BY <1>0, <1>3 DEF OpenWindow, MergeNext, CloseWindow
<1>u. ASSUME NEW s, Unregister(s), \A x \in Msg : Reads(x)' => Reads(x)
      PROVE  Kept
    BY <1>0, <1>e, <1>u DEF Unregister
<1>4. ASSUME NEW m \in Msg, EndCommand(m) PROVE TextOnly'
    <2>1. UNCHANGED home /\ \A x \in Msg : stage'[x] \in {"dropped", "handled", stage[x]}
        BY <1>4 DEF EndCommand
    <2>2. \A x \in Msg : Reads(x)' => Reads(x)
        BY <2>1 DEF Reads
    <2>3. Unregister(SessionOf[m]) \/ UNCHANGED pending
        BY <1>4 DEF EndCommand
    <2>4. Kept
        BY <1>0, <1>u, <2>2, <2>3
    <2>. QED  BY <1>0, <1>s, <2>1, <2>4
<1>5. ASSUME NEW m \in Msg, RouteFollowUp(m) PROVE TextOnly'
    <2>. DEFINE s == SessionOf[m]
    <2>1. /\ Kind[m] \in {"user", "system", "cont"}
          /\ pending' = [pending EXCEPT ![s] = Append(@, m)]
          /\ UNCHANGED <<stage, home>>
        BY <1>5 DEF RouteFollowUp, Injectable
    <2>2. ToSet(Append(pending[s], m)) = ToSet(pending[s]) \cup {m}
        BY <1>0, ElementsAppend
    <2>3. Texts(pending[s]) => Texts(pending'[s])
        BY <1>0, <2>1, <2>2 DEF Texts
    <2>4. Kept
        BY <1>0, <2>1, <2>3 DEF Reads
    <2>. QED  BY <1>0, <1>s, <2>1, <2>4
<1>6. ASSUME NEW m \in Msg, StartTask(m) \/ CloseTurn(m) \/ ReturnDirect(m) PROVE TextOnly'
    BY <1>0, <1>6, <1>p DEF StartTask, CloseTurn, Depart, ReturnDirect, Reads
<1>7. ASSUME NEW m \in Msg, AcquireLock(m) PROVE TextOnly'
    <2>1. \A x \in Msg : Reads(x)' => Reads(x)
        BY <1>0, <1>7 DEF AcquireLock, Reads
    <2>. QED  BY <1>0, <1>7, <1>s, <2>1 DEF AcquireLock
<1>8. ASSUME NEW m \in Msg, BeginTurn(m) PROVE TextOnly'
    <2>1. Kept
        BY <1>0, <1>8, <1>e DEF BeginTurn, Reads
    <2>. QED  BY <1>0, <1>8, <1>s, <2>1 DEF BeginTurn
<1>9. ASSUME NEW m \in Msg, RunNowReturns(m) \/ BeginReset(m) \/ BeginContinue(m) PROVE TextOnly'
    BY <1>0, <1>9, <1>p DEF RunNowReturns, BeginReset, BeginContinue, Reads
<1>10. ASSUME NEW m \in Msg, Inject(m) PROVE TextOnly'
    <2>. DEFINE s == SessionOf[m]
                h == Head(pending[s])
    <2>1. /\ pending[s] # <<>> /\ pending[s] \in Seq(Msg) /\ Reads(m)
          /\ pending' = [pending EXCEPT ![s] = Tail(pending[s])]
          /\ stage' = [stage EXCEPT ![h] = "absorbed"]
          /\ home' = [home EXCEPT ![h] = m]
        BY <1>0, <1>10 DEF Inject, Undrained, Reads
    <2>2. /\ \A x : x \in ToSet(Tail(pending[s])) => x \in ToSet(pending[s])
          /\ h \in ToSet(pending[s])
        BY <2>1, Elements
    <2>3. Texts(pending'[s]) /\ Kind[h] \in {"user", "system", "cont"}
        BY <1>0, <2>1, <2>2 DEF Texts
    <2>4. \A x \in Msg : Reads(x)' => Reads(x)
        BY <1>0, <2>1 DEF Reads
    <2>5. Kept
        BY <1>0, <2>1, <2>3, <2>4
    <2>. QED  BY <1>0, <1>s, <2>1, <2>3, <2>5
<1>11. ASSUME NEW m \in Msg, PutContinuation(m) PROVE TextOnly'
    <2>. DEFINE s == SessionOf[m]
    <2>1. PICK c \in Continuations(m) :
              /\ pending' = [pending EXCEPT ![s] = Append(@, c)]
              /\ stage' = [stage EXCEPT ![m] = "yielded", ![c] = "queued"]
        BY <1>11 DEF PutContinuation
    <2>2. c \in Msg /\ UNCHANGED home /\ stage[m] = "yielding"
        BY <1>11 DEF Continuations, PutContinuation
    <2>3. \A x \in Msg : Reads(x) => SessionOf[x] # s
        BY <1>0, <2>2, HoldersOwn DEF Reads, Owner, TurnStages
    <2>4. \A x \in Msg : Reads(x)' => Reads(x)
        BY <1>0, <2>1, <2>2 DEF Reads
    <2>5. NoneMerging /\ Kept
        BY <1>0, <2>1, <2>2, <2>3, <2>4
    <2>. QED  BY <1>0, <1>s, <2>2, <2>5
<1>12. ASSUME NEW m \in Msg, NEW v, EndTurn(m, v) PROVE TextOnly'
    <2>1. NoneMerging /\ UNCHANGED home /\ \A x \in Msg : Reads(x)' => Reads(x)
        BY <1>0, <1>12 DEF EndTurn, Depart, Reads
    <2>2. Kept
        BY <1>12, <1>u, <2>1 DEF EndTurn
    <2>. QED  BY <1>0, <1>s, <2>1, <2>2
<1>13. ASSUME NEW m \in Msg, CancelUnstarted(m) \/ CancelWaiting(m) \/ CancelClosing(m)
       PROVE  TextOnly'
    BY <1>0, <1>13, <1>p DEF CancelUnstarted, CancelWaiting, CancelClosing, Reads
<1>14. ASSUME NEW m \in Msg, NEW a \in Msg, RunNow(m, a) PROVE TextOnly'
    BY <1>0, <1>14, <1>p DEF RunNow, Reads
<1>15. ASSUME UNCHANGED vars PROVE TextOnly'
    BY <1>0, <1>15, <1>p DEF vars, Reads
<1>a. ASSUME LoopStep PROVE TextOnly'
    BY <1>a, <1>2, <1>3, <1>4, <1>5 DEF LoopStep
<1>b. ASSUME NEW m \in Msg, TaskStep(m) PROVE TextOnly'
    <2>1. ASSUME NEW v \in {"ok", "error"}, FinishTurn(m, v) PROVE TextOnly'
        BY <1>12, <2>1 DEF FinishTurn
    <2>2. ASSUME CancelTurn(m) PROVE TextOnly'
        BY <1>12, <2>2 DEF CancelTurn
    <2>. QED  BY <1>b, <2>1, <2>2, <1>6, <1>7, <1>8, <1>9, <1>11, <1>13 DEF TaskStep
<1>c. ASSUME NEW m \in Msg, TurnChoice(m) PROVE TextOnly'
    BY <1>c, <1>9, <1>10, <1>14 DEF TurnChoice
<1>. QED  BY <1>a, <1>b, <1>c, <1>1, <1>15 DEF Next

\* Without the debounce window no automation turn, command or control joins the
\* prompt of another turn: what TLC finds against OnlyTextIsShared is the doing
\* of _coalesce_same_session alone.
THEOREM OnlyTheWindowMixes == ~Coalesce => (Spec => []OnlyTextIsShared)
<1>. SUFFICES ASSUME ~Coalesce PROVE Spec => []OnlyTextIsShared
    OBVIOUS
<1>1. Init => TextOnly
    BY DEF Init, TextOnly, Reads, OnlyTextIsShared
<1>2. IInv /\ TextOnly /\ [Next]_vars => TextOnly'
    BY TextStep DEF IInv
<1>3. TextOnly => OnlyTextIsShared
    BY DEF TextOnly
<1>. QED  BY <1>1, <1>2, <1>3, QueueInvariance, PTL DEF Spec

-----------------------------------------------------------------------------
(* The refinement of SessionLane *)

Over == {"handled", "dropped", "ended"}
Idle == {"queued", "merging", "executing", "ready", "lockwait", "gatewait"}

LEMMA LaneIs ==
    ASSUME TypeOK
    PROVE  /\ DOMAIN Lane = Msg
           /\ \A m \in Msg :
                /\ Lane[m] = "new" <=> stage[m] = "new"
                /\ Lane[m] = "served" <=> stage[m] \in TurnStages \cup {"closing"}
                /\ Lane[m] = "joined" <=> stage[m] = "absorbed"
                /\ Lane[m] = "over" <=> stage[m] \in Over
                /\ Lane[m] = "waiting" <=> stage[m] \in Idle
<1>1. \A m \in Msg : stage[m] \in Stages
    BY DEF TypeOK
<1>. QED  BY <1>1 DEF Lane, Stages, HoldStages, TurnStages, Over, Idle

\* A step that moves no message between the states of its lane
LEMMA LaneStill ==
    ASSUME UNCHANGED home,
           \A m \in Msg :
              \/ stage'[m] = stage[m]
              \/ stage[m] \in Idle /\ stage'[m] \in Idle
              \/ stage[m] \in TurnStages \cup {"closing"} /\ stage'[m] \in TurnStages \cup {"closing"}
    PROVE  UNCHANGED Lanes!vars
<1>1. ASSUME NEW m \in Msg PROVE Lane'[m] = Lane[m]
    BY DEF Lane, Idle, TurnStages
<1>2. Lane' = Lane
    BY <1>1 DEF Lane
<1>. QED  BY <1>2 DEF Lanes!vars

LEMMA LaneMoves ==
    ASSUME NEW m \in Msg, NEW v, Lane'[m] = v, \A x \in Msg \ {m} : Lane'[x] = Lane[x]
    PROVE  Lane' = [Lane EXCEPT ![m] = v]
<1>1. Lane = [x \in Msg |-> Lane[x]] /\ Lane' = [x \in Msg |-> Lane'[x]]
    BY DEF Lane
<1>. QED  BY ONLY <1>1, m \in Msg, Lane'[m] = v, \A x \in Msg \ {m} : Lane'[x] = Lane[x]

\* A message is accepted; the state of nobody else's lane changes.
LEMMA LaneAccepts ==
    ASSUME TypeOK, NEW m \in Msg, stage[m] = "new", stage'[m] \in Idle, UNCHANGED home,
           \A x \in Msg \ {m} :
              \/ stage'[x] = stage[x]
              \/ stage[x] \in TurnStages /\ stage'[x] \in TurnStages
    PROVE  Lanes!Next
<1>1. Lane[m] = "new" /\ Lane'[m] = "waiting"
    BY DEF Lane, Idle, TurnStages
<1>2. \A x \in Msg \ {m} : Lane'[x] = Lane[x]
    BY DEF Lane, TurnStages
<1>3. Lane' = [Lane EXCEPT ![m] = "waiting"]
    BY <1>1, <1>2, LaneMoves
<1>. QED  BY <1>1, <1>3 DEF Lanes!Next, Lanes!Accept

\* Messages end.
LEMMA LaneEnds ==
    ASSUME TypeOK, UNCHANGED home,
           \A x \in Msg :
              \/ stage'[x] = stage[x]
              \/ stage[x] \in Idle \cup TurnStages \cup {"closing"} /\ stage'[x] \in Over
    PROVE  Lanes!Next
<1>. DEFINE S == {x \in Msg : stage'[x] # stage[x]}
<1>1. \A x \in S : Lane[x] \in {"waiting", "served"} /\ Lane'[x] = "over"
    BY DEF Lane, Idle, TurnStages, Over
<1>2. \A x \in Msg \ S : Lane'[x] = Lane[x]
    BY DEF Lane
<1>3. Lane' = [x \in Msg |-> IF x \in S THEN "over" ELSE Lane[x]]
    <2>1. Lane' = [x \in Msg |-> Lane'[x]]
        BY DEF Lane
    <2>2. \A x \in Msg : Lane'[x] = IF x \in S THEN "over" ELSE Lane[x]
        BY <1>1, <1>2
    <2>. QED  BY <2>1, <2>2
<1>4. S \in SUBSET Msg
    OBVIOUS
<1>. HIDE DEF S
<1>5. Lanes!End(S)
    BY <1>1, <1>3 DEF Lanes!End
<1>. QED  BY <1>4, <1>5 DEF Lanes!Next

\* A turn begins where no other of its session is served.
LEMMA LaneServes ==
    ASSUME TypeOK, NEW m \in Msg, stage[m] \in Idle, stage' = [stage EXCEPT ![m] = "running"],
           home' = [home EXCEPT ![m] = m],
           \A x \in Msg : SessionOf[x] = SessionOf[m] => stage[x] \notin TurnStages \cup {"closing"}
    PROVE  Lanes!Next
<1>0. stage'[m] = "running" /\ \A x \in Msg \ {m} : stage'[x] = stage[x]
    BY DEF TypeOK
<1>1. Lane[m] = "waiting" /\ Lane'[m] = "served"
    BY <1>0 DEF Lane, Idle, TurnStages
<1>2. \A x \in Msg \ {m} : Lane'[x] = Lane[x]
    BY <1>0 DEF Lane
<1>3. Lane' = [Lane EXCEPT ![m] = "served"]
    BY <1>1, <1>2, LaneMoves
<1>4. \A x \in Msg : SessionOf[x] = SessionOf[m] => Lane[x] # "served"
    BY LaneIs
<1>. QED  BY <1>1, <1>3, <1>4 DEF Lanes!Next, Lanes!Serve

\* The text of a message goes to another that is not over.
LEMMA LaneJoins ==
    ASSUME TypeOK, NEW m \in Msg, NEW r \in Msg, m # r, SessionOf[m] = SessionOf[r],
           stage[m] \in Idle, stage[r] \in Idle \cup TurnStages,
           stage' = [stage EXCEPT ![m] = "absorbed"], home' = [home EXCEPT ![m] = r]
    PROVE  Lanes!Next
<1>0. stage'[m] = "absorbed" /\ \A x \in Msg \ {m} : stage'[x] = stage[x]
    BY DEF TypeOK
<1>1. Lane[m] = "waiting" /\ Lane'[m] = "joined"
    BY <1>0 DEF Lane, Idle, TurnStages
<1>2. \A x \in Msg \ {m} : Lane'[x] = Lane[x]
    BY <1>0 DEF Lane
<1>3. Lane' = [Lane EXCEPT ![m] = "joined"]
    BY <1>1, <1>2, LaneMoves
<1>4. Lane[r] \in {"waiting", "served"}
    BY DEF Lane, Idle, TurnStages
<1>. QED  BY <1>1, <1>3, <1>4 DEF Lanes!Next, Lanes!Join

\* Every step of the dispatcher is one of the lanes, or none.
LEMMA StepServes == IInv /\ [Next]_vars => [Lanes!Next]_(Lanes!vars)
<1>. SUFFICES ASSUME IInv, [Next]_vars PROVE Lanes!Next \/ UNCHANGED Lanes!vars
    OBVIOUS
<1>. USE DispatchAssumption
<1>. DEFINE Goal == Lanes!Next \/ UNCHANGED Lanes!vars
            Still == \A m \in Msg :
              \/ stage'[m] = stage[m]
              \/ stage[m] \in Idle /\ stage'[m] \in Idle
              \/ stage[m] \in TurnStages \cup {"closing"} /\ stage'[m] \in TurnStages \cup {"closing"}
            Ending == \A m \in Msg :
              \/ stage'[m] = stage[m]
              \/ stage[m] \in Idle \cup TurnStages \cup {"closing"} /\ stage'[m] \in Over
<1>0. /\ TypeOK /\ HolderIsHead /\ Once /\ AtHome /\ ReadyOnce /\ Outside
      /\ stage \in [Msg -> Stages]
      /\ \A m \in Msg : SessionOf[m] \in Session
    BY DEF IInv, Waiting, Serving, TypeOK
<1>s. ASSUME Still, UNCHANGED home PROVE Goal
    BY <1>s, LaneStill
<1>e. ASSUME Ending, UNCHANGED home PROVE Goal
    BY <1>0, <1>e, LaneEnds
<1>h. ASSUME NEW m \in Msg, Owner(m), stage[m] \in Idle
      PROVE  \A x \in Msg : SessionOf[x] = SessionOf[m] => stage[x] \notin TurnStages \cup {"closing"}
    BY <1>0, <1>h DEF HolderIsHead, Holding, Owner, HoldStages, Idle, TurnStages
<1>1. ASSUME NEW m \in Msg, Send(m) \/ CallDirect(m) PROVE Goal
    <2>1. /\ stage[m] = "new" /\ stage'[m] \in Idle /\ UNCHANGED home
          /\ \A x \in Msg \ {m} : stage'[x] = stage[x]
        BY <1>0, <1>1 DEF Send, CallDirect, Idle
    <2>. QED  BY <1>0, <2>1, LaneAccepts
<1>2. ASSUME NEW m \in Msg, DropUnknown(m) \/ AnswerCommand(m) PROVE Goal
    <2>1. stage[m] = "queued"
        BY <1>2, Consumed DEF DropUnknown, AnswerCommand
    <2>2. Ending /\ UNCHANGED home
        BY <1>0, <1>2, <2>1 DEF DropUnknown, AnswerCommand, Idle, Over
    <2>. QED  BY <1>e, <2>2
<1>3. ASSUME NEW m \in Msg,
             BeginCommand(m) \/ Defer(m) \/ RouteFollowUp(m) \/ OpenTurn(m) \/ OpenWindow(m)
      PROVE  Goal
    <2>1. stage[m] = "queued"
        BY <1>3, Consumed DEF BeginCommand, Defer, RouteFollowUp, OpenTurn, OpenWindow
    <2>2. Still /\ UNCHANGED home
        BY <1>0, <1>3, <2>1 DEF BeginCommand, Defer, RouteFollowUp, OpenTurn, OpenWindow, Idle
    <2>. QED  BY <1>s, <2>2
<1>4. ASSUME NEW m \in Msg, EndCommand(m) PROVE Goal
    <2>. DEFINE drop == IF Kind[m] = "stop" THEN ToSet(pending[SessionOf[m]]) ELSE {}
    <2>1. /\ stage[m] = "executing" /\ UNCHANGED home
          /\ stage' = [x \in Msg |-> IF x \in drop THEN "dropped"
                                     ELSE IF x = m THEN "handled" ELSE stage[x]]
        BY <1>4 DEF EndCommand
    <2>2. \A x \in Msg : x \in drop => stage[x] = "queued"
        BY <1>0, PendingQueued
    <2>. HIDE DEF drop
    <2>3. Ending
        BY <2>1, <2>2 DEF Idle, Over
    <2>. QED  BY <1>e, <2>1, <2>3
<1>5. ASSUME NEW m \in Msg, MergeNext(m) PROVE Goal
    <2>1. /\ bus # <<>> /\ stage[m] = "merging" /\ SessionOf[Head(bus)] = SessionOf[m]
          /\ stage' = [stage EXCEPT ![Head(bus)] = "absorbed"]
          /\ home' = [home EXCEPT ![Head(bus)] = m]
        BY <1>5 DEF MergeNext, Mergeable
    <2>2. Head(bus) \in Msg /\ stage[Head(bus)] = "queued"
        BY <1>0, <2>1, OnBus
    <2>3. PICK h \in Msg : h = Head(bus)
        BY <2>2
    <2>4. h # m /\ stage[h] \in Idle /\ stage[m] \in Idle
        BY <2>1, <2>2, <2>3 DEF Idle
    <2>5. /\ stage' = [stage EXCEPT ![h] = "absorbed"] /\ home' = [home EXCEPT ![h] = m]
          /\ SessionOf[h] = SessionOf[m]
        BY <2>1, <2>3
    <2>. QED  BY <1>0, <2>4, <2>5, LaneJoins
<1>6. ASSUME NEW m \in Msg, CloseWindow(m) PROVE Goal
    <2>1. Still /\ UNCHANGED home
        BY <1>0, <1>6 DEF CloseWindow, Idle
    <2>. QED  BY <1>s, <2>1
<1>7. ASSUME NEW m \in Msg, StartTask(m) PROVE Goal
    <2>1. stage[m] = "ready"
        BY <1>0, <1>7, OnReady DEF StartTask
    <2>2. Still /\ UNCHANGED home
        BY <1>0, <1>7, <2>1 DEF StartTask, Idle
    <2>. QED  BY <1>s, <2>2
<1>8. ASSUME NEW m \in Msg, AcquireLock(m) PROVE Goal
    <2>1. stage[m] = "lockwait" /\ stage[m] \in Idle /\ Owner(m)
        BY <1>8 DEF AcquireLock, Idle
    <2>2. CASE Kind[m] = "direct"
        <3>1. stage' = [stage EXCEPT ![m] = "running"] /\ home' = [home EXCEPT ![m] = m]
            BY <1>8, <2>2 DEF AcquireLock
        <3>. QED  BY <1>0, <1>h, <2>1, <3>1, LaneServes
    <2>3. CASE Kind[m] # "direct"
        <3>1. Still /\ UNCHANGED home
            BY <1>0, <1>8, <2>1, <2>3 DEF AcquireLock, Idle
        <3>. QED  BY <1>s, <3>1
    <2>. QED  BY <2>2, <2>3
<1>9. ASSUME NEW m \in Msg, BeginTurn(m) PROVE Goal
    <2>1. /\ stage[m] = "gatewait" /\ stage[m] \in Idle
          /\ stage' = [stage EXCEPT ![m] = "running"] /\ home' = [home EXCEPT ![m] = m]
        BY <1>9 DEF BeginTurn, Idle
    <2>2. Owner(m)
        BY <1>0, <2>1 DEF HolderIsHead, Holding, HoldStages
    <2>. QED  BY <1>0, <1>h, <2>1, <2>2, LaneServes
<1>10. ASSUME NEW m \in Msg, RunNowReturns(m) \/ BeginReset(m) \/ BeginContinue(m) PROVE Goal
    <2>1. Still /\ UNCHANGED home
        BY <1>0, <1>10 DEF RunNowReturns, BeginReset, BeginContinue, TurnStages
    <2>. QED  BY <1>s, <2>1
<1>11. ASSUME NEW m \in Msg, Inject(m) PROVE Goal
    <2>1. /\ pending[SessionOf[m]] # <<>> /\ stage[m] = "running"
          /\ stage' = [stage EXCEPT ![Head(pending[SessionOf[m]])] = "absorbed"]
          /\ home' = [home EXCEPT ![Head(pending[SessionOf[m]])] = m]
        BY <1>11 DEF Inject
    <2>2. PICK h \in Msg : h = Head(pending[SessionOf[m]])
        BY <1>0, <2>1, OnPending
    <2>3. stage[h] = "queued" /\ SessionOf[h] = SessionOf[m]
        BY <1>0, <2>1, <2>2, OnPending
    <2>4. h # m /\ stage[h] \in Idle /\ stage[m] \in TurnStages
        BY <2>1, <2>3 DEF Idle, TurnStages
    <2>5. stage' = [stage EXCEPT ![h] = "absorbed"] /\ home' = [home EXCEPT ![h] = m]
        BY <2>1, <2>2
    <2>. QED  BY <1>0, <2>3, <2>4, <2>5, LaneJoins
<1>12. ASSUME NEW m \in Msg, PutContinuation(m) PROVE Goal
    <2>1. PICK c \in Continuations(m) : stage' = [stage EXCEPT ![m] = "yielded", ![c] = "queued"]
        BY <1>12 DEF PutContinuation
    <2>2. /\ c \in Msg /\ stage[c] = "new" /\ stage[m] = "yielding" /\ UNCHANGED home
        BY <1>12, <2>1 DEF Continuations, PutContinuation
    <2>3. /\ stage'[c] = "queued" /\ stage'[m] = "yielded"
          /\ \A x \in Msg \ {c, m} : stage'[x] = stage[x]
        BY <1>0, <2>1, <2>2
    <2>4. /\ stage'[c] \in Idle
          /\ \A x \in Msg \ {c} :
               stage'[x] = stage[x] \/ (stage[x] \in TurnStages /\ stage'[x] \in TurnStages)
        BY <2>2, <2>3 DEF Idle, TurnStages
    <2>. QED  BY <1>0, <2>2, <2>4, LaneAccepts
<1>13. ASSUME NEW m \in Msg, NEW left, stage[m] \in TurnStages \cup {"closing"}, Depart(m, left),
              UNCHANGED home
       PROVE  Goal
    <2>1. Ending
        BY <1>0, <1>13 DEF Depart, Over
    <2>. QED  BY <1>13, <1>e, <2>1
<1>14. ASSUME NEW m \in Msg, NEW v, stage[m] \in TurnStages, EndTurn(m, v) PROVE Goal
    <2>1. CASE stage[m] \in {"yielding", "yielded"}
        BY <1>13, <1>14, <2>1 DEF EndTurn
    <2>2. CASE stage[m] \notin {"yielding", "yielded"}
        <3>1. Still /\ UNCHANGED home
            BY <1>0, <1>14, <2>2 DEF EndTurn
        <3>. QED  BY <1>s, <3>1
    <2>. QED  BY <2>1, <2>2
<1>15. ASSUME NEW m \in Msg, CloseTurn(m) PROVE Goal
    BY <1>13, <1>15 DEF CloseTurn
<1>16. ASSUME NEW m \in Msg, ReturnDirect(m) \/ CancelClosing(m) PROVE Goal
    <2>1. Ending /\ UNCHANGED home
        BY <1>0, <1>16 DEF ReturnDirect, CancelClosing, TurnStages, Over
    <2>. QED  BY <1>e, <2>1
<1>17. ASSUME NEW m \in Msg, CancelUnstarted(m) PROVE Goal
    <2>1. stage[m] = "ready"
        BY <1>0, <1>17, OnReady DEF CancelUnstarted
    <2>2. Ending /\ UNCHANGED home
        BY <1>0, <1>17, <2>1 DEF CancelUnstarted, Idle, Over
    <2>. QED  BY <1>e, <2>2
<1>18. ASSUME NEW m \in Msg, CancelWaiting(m) PROVE Goal
    <2>1. Ending /\ UNCHANGED home
        BY <1>0, <1>18 DEF CancelWaiting, Idle, Over
    <2>. QED  BY <1>e, <2>1
<1>19. ASSUME NEW m \in Msg, NEW a \in Msg, RunNow(m, a) PROVE Goal
    <2>1. /\ stage[a] = "new" /\ stage[m] = "running" /\ UNCHANGED home
          /\ stage' = [stage EXCEPT ![m] = "runnow", ![a] = "queued"]
        BY <1>19 DEF RunNow
    <2>2. /\ stage'[a] = "queued" /\ stage'[m] = "runnow"
          /\ \A x \in Msg \ {a, m} : stage'[x] = stage[x]
        BY <1>0, <2>1
    <2>3. /\ stage'[a] \in Idle
          /\ \A x \in Msg \ {a} :
               stage'[x] = stage[x] \/ (stage[x] \in TurnStages /\ stage'[x] \in TurnStages)
        BY <2>1, <2>2 DEF Idle, TurnStages
    <2>. QED  BY <1>0, <2>1, <2>3, LaneAccepts
<1>20. ASSUME UNCHANGED vars PROVE Goal
    BY <1>20, <1>s DEF vars
<1>a. ASSUME LoopStep PROVE Goal
    BY <1>a, <1>2, <1>3, <1>4, <1>5, <1>6 DEF LoopStep
<1>b. ASSUME NEW m \in Msg, TaskStep(m) PROVE Goal
    <2>1. ASSUME NEW v \in {"ok", "error"}, FinishTurn(m, v) PROVE Goal
        <3>1. stage[m] \in TurnStages /\ EndTurn(m, v)
            BY <2>1 DEF FinishTurn, TurnStages
        <3>. QED  BY <1>14, <3>1
    <2>2. ASSUME CancelTurn(m) PROVE Goal
        BY <1>14, <2>2 DEF CancelTurn
    <2>. QED  BY <1>b, <2>1, <2>2, <1>7, <1>8, <1>9, <1>10, <1>12, <1>15, <1>16, <1>17, <1>18 DEF TaskStep
<1>c. ASSUME NEW m \in Msg, TurnChoice(m) PROVE Goal
    BY <1>c, <1>10, <1>11, <1>19 DEF TurnChoice
<1>. QED  BY <1>a, <1>b, <1>c, <1>1, <1>20 DEF Next

\* The dispatcher implements SessionLane: a message is served or joins another
\* turn of its session once at most, one turn of a session is served at a time,
\* and what is over never runs again.
THEOREM Refinement == Spec => ServesLanes
<1>1. Init => Lanes!Init
    BY DEF Init, Lanes!Init, Lane, TurnStages
<1>. QED  BY <1>1, StepServes, QueueInvariance, PTL DEF Spec, ServesLanes, Lanes!Spec
=============================================================================
