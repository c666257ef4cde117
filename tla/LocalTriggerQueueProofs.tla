---------------------- MODULE LocalTriggerQueueProofs ----------------------
(* What LocalTriggerQueue guarantees for any number of deliveries, any limit *)
(* of attempts and any size of the batch.                                    *)
EXTENDS LocalTriggerQueue, TLAPS

(***************************************************************************)
(* The inductive invariant.  A retry that was cut in two leaves a delivery *)
(* in two directories; it is harmless because recovery will write the same *)
(* file again, which is what the second part of Place says.                *)
(***************************************************************************)
Fresh(e) ==
    e > made => /\ e \notin In(inbox) \cup In(processing) \cup In(failed) \cup In(held)
                /\ runs[e] = 0

Place(e) ==
    /\ e \in In(inbox) => e \notin In(failed)
    /\ e \in In(processing) =>
         /\ e \in In(inbox) => processing[e] + 1 < MaxAttempts
         /\ e \in In(failed) => processing[e] + 1 >= MaxAttempts
         /\ stage \notin {"down", "recovering"} => e \notin In(inbox) \cup In(failed)
    /\ e \in In(held) =>
         /\ e \notin In(inbox) \cup In(failed)
         /\ e \in In(processing) => processing[e] = held[e]
    /\ e \in done => e \notin In(inbox) \cup In(processing) \cup In(held)

\* A submission counts against the copy that was claimed for it.
Limit(e) ==
    /\ e \in In(inbox) => inbox[e] < MaxAttempts /\ runs[e] <= inbox[e]
    /\ e \in In(processing) => processing[e] < MaxAttempts /\ runs[e] <= processing[e] + 1
    /\ e \in In(held) => /\ held[e] < MaxAttempts
                         /\ runs[e] <= IF current = e THEN held[e] + 1 ELSE held[e]
    /\ runs[e] <= MaxAttempts

Kept(e) ==
    e \in 1 .. made =>
        e \in done \/ Deleted(e) \/ e \in In(inbox) \cup In(processing) \cup In(failed)

\* Only a running gateway holds deliveries, the one whose turn runs among them.
Holding ==
    /\ stage \in {"down", "recovering"} => In(held) = {}
    /\ current # NoDelivery => current \in In(held)

Rest == Holding /\ \A e \in Delivery : Fresh(e) /\ Place(e) /\ Limit(e) /\ Kept(e)
IInv == TypeOK /\ Rest
-----------------------------------------------------------------------------
(* Types *)

LEMMA InitType == Init => TypeOK
<1>. SUFFICES ASSUME Init PROVE TypeOK
    OBVIOUS
<1>1. Empty \in Directory
    BY DEF Empty, Directory
<1>. QED  BY <1>1, QueueAssumption DEF Init, TypeOK, TriggerState, Stages, Delivery, NoDelivery

\* The effects the actions are built from keep the types.
LEMMA RemovedType ==
    ASSUME NEW directory \in Directory, NEW S
    PROVE  Removed(directory, S) \in Directory
BY DEF Removed, Directory

LEMMA RetargetedType ==
    ASSUME TypeOK, NEW d \in Delivery, NEW n \in Nat, Retargeted(d, n)
    PROVE  inbox' \in Directory /\ failed' \in Directory
<1>1. \A directory \in Directory : [directory EXCEPT ![d] = n + 1] \in Directory
    BY DEF Directory
<1>. QED  BY <1>1 DEF Retargeted, TypeOK

LEMMA UnlinkedType ==
    ASSUME TypeOK, NEW d \in Delivery, Unlinked(d)
    PROVE  processing' \in Directory
BY DEF Unlinked, TypeOK, Directory

\* What a step leaves of the loop when the gateway dies or goes on.
LEMMA LoopType ==
    ASSUME TypeOK, NEW d \in Delivery, GatewayDies \/ NextDelivery(d)
    PROVE  /\ stage' \in Stages \ {"turn"}
           /\ current' = NoDelivery
           /\ held' \in Directory
<1>1. CASE GatewayDies
    BY <1>1 DEF GatewayDies, Empty, Directory, Stages
<1>2. CASE NextDelivery(d)
    BY <1>2 DEF NextDelivery, TypeOK, Directory, Stages
<1>. QED  BY <1>1, <1>2

\* A directory entry that is there is a number of attempts.
LEMMA Recorded ==
    ASSUME NEW directory \in Directory, NEW d \in In(directory)
    PROVE  d \in Delivery /\ directory[d] \in Nat
BY DEF In, Directory

\* The delivery a step of the gateway is about was claimed, so it was made.
Handled(d) == (stage = "working" /\ IsNext(d)) \/ current = d

LEMMA Claimed ==
    ASSUME IInv, NEW d \in Delivery, Handled(d)
    PROVE  /\ d \in In(held) /\ held[d] \in Nat /\ held[d] < MaxAttempts
           /\ d <= made
           /\ stage \notin {"down", "recovering"}
           /\ current \in {d, NoDelivery}
<1>1. d \in In(held)
    BY DEF Handled, IInv, Rest, Holding, IsNext, Oldest, TypeOK, Delivery, NoDelivery
<1>2. Fresh(d) /\ Limit(d)
    BY DEF IInv, Rest
<1>3. stage \notin {"down", "recovering"} /\ current \in {d, NoDelivery}
    BY DEF Handled, IInv, TypeOK, Delivery, NoDelivery
<1>. QED  BY <1>3, <1>1, <1>2, Recorded DEF Fresh, Limit, IInv, TypeOK, Delivery

LEMMA TypeStep == IInv /\ [Next]_vars => TypeOK'
<1>. SUFFICES ASSUME IInv, [Next]_vars PROVE TypeOK'
    OBVIOUS
<1>. USE DEF IInv
<1>1. CASE Enqueue
    <2>1. made' \in Delivery /\ made' \in 0 .. MaxDeliveries /\ 1 .. made \subseteq 1 .. made'
        BY <1>1, QueueAssumption DEF Enqueue, TypeOK, Delivery
    <2>2. inbox' \in Directory
        BY <1>1 DEF Enqueue, TypeOK, Directory
    <2>. QED  BY <1>1, <2>1, <2>2 DEF Enqueue, TypeOK
<1>2. ASSUME NEW t \in Trigger, SetEnabled(t) PROVE TypeOK'
    BY <1>2 DEF SetEnabled, TypeOK, TriggerState
<1>3. ASSUME NEW t \in Trigger, Delete(t) PROVE TypeOK'
    BY <1>3, RemovedType DEF Delete, TypeOK, TriggerState
<1>4. CASE Start
    BY <1>4 DEF Start, TypeOK, files, Stages
<1>5. CASE Recovered
    BY <1>5 DEF Recovered, TypeOK, files, Stages
<1>6. CASE Claim
    <2>1. /\ inbox' \in Directory /\ processing' \in Directory /\ held' \in Directory
          /\ stage' \in Stages /\ current' \in Delivery \cup {NoDelivery}
          /\ stage' = "turn" <=> current' # NoDelivery
        <3>1. PICK S \in SUBSET In(inbox) :
                /\ inbox' = Removed(inbox, S)
                /\ processing' = [d \in Delivery |-> IF d \in S THEN inbox[d] ELSE processing[d]]
                /\ \/ /\ stage' = "working"
                      /\ held' = [d \in Delivery |-> IF d \in S THEN inbox[d] ELSE held[d]]
                      /\ UNCHANGED current
                   \/ GatewayDies
            BY <1>6 DEF Claim
        <3>2. [d \in Delivery |-> IF d \in S THEN inbox[d] ELSE processing[d]] \in Directory
            BY DEF TypeOK, Directory
        <3>3. [d \in Delivery |-> IF d \in S THEN inbox[d] ELSE held[d]] \in Directory
            BY DEF TypeOK, Directory
        <3>4. GatewayDies => held' \in Directory
            BY DEF GatewayDies, Empty, Directory
        <3>. QED  BY <1>6, <3>1, <3>2, <3>3, <3>4, RemovedType DEF Claim, GatewayDies, TypeOK, Stages
    <2>. QED  BY <1>6, <2>1 DEF Claim, TypeOK
<1>7. CASE BatchDone
    BY <1>7 DEF BatchDone, TypeOK, files, Stages
<1>8. ASSUME NEW d \in Delivery, Recover(d) PROVE TypeOK'
    <2>1. processing[d] \in Nat
        BY <1>8, Recorded DEF Recover, Oldest, TypeOK
    <2>2. Retargeted(d, processing[d]) /\ (Unlinked(d) \/ UNCHANGED processing)
        BY <1>8 DEF Recover, Retried, HalfRetried
    <2>3. inbox' \in Directory /\ failed' \in Directory /\ processing' \in Directory
        BY <2>1, <2>2, RetargetedType, UnlinkedType DEF TypeOK
    <2>4. UNCHANGED <<stage, held, current>> \/ GatewayDies
        BY <1>8 DEF Recover
    <2>. QED  BY <1>8, <2>3, <2>4, LoopType DEF Recover, TypeOK
<1>9. ASSUME NEW d \in Delivery, Drop(d) PROVE TypeOK'
    <2>1. d \in 1 .. made
        BY <1>9, Claimed DEF Drop, Handled, Delivery, TypeOK
    <2>2. (Completed(d) /\ NextDelivery(d)) \/ (GatewayDies /\ UNCHANGED <<files, done>>)
        BY <1>9 DEF Drop, HandlerFails
    <2>. QED  BY <1>9, <2>1, <2>2, LoopType, UnlinkedType DEF Drop, Completed, TypeOK, files
<1>10. ASSUME NEW d \in Delivery, Submit(d) PROVE TypeOK'
    BY <1>10 DEF Submit, TypeOK, files, Stages, Delivery, NoDelivery
<1>11. ASSUME NEW d \in Delivery, TurnEnds(d) PROVE TypeOK'
    <2>1. d \in 1 .. made
        BY <1>11, Claimed DEF TurnEnds, Handled, Delivery, TypeOK
    <2>2. (Completed(d) /\ NextDelivery(d)) \/ (GatewayDies /\ UNCHANGED <<files, done>>)
        BY <1>11 DEF TurnEnds, HandlerFails
    <2>. QED  BY <1>11, <2>1, <2>2, LoopType, UnlinkedType DEF TurnEnds, Completed, TypeOK, files
<1>12. ASSUME NEW d \in Delivery, Retry(d) \/ Shutdown(d) PROVE TypeOK'
    <2>1. held[d] \in Nat
        BY <1>12, Claimed DEF Retry, Shutdown, Handled
    <2>2. Retargeted(d, held[d]) /\ (Unlinked(d) \/ UNCHANGED processing)
        BY <1>12 DEF Retry, Shutdown, Retried, HalfRetried
    <2>3. inbox' \in Directory /\ failed' \in Directory /\ processing' \in Directory
        BY <2>1, <2>2, RetargetedType, UnlinkedType DEF TypeOK
    <2>4. NextDelivery(d) \/ GatewayDies
        BY <1>12 DEF Retry, Shutdown
    <2>5. UNCHANGED <<trigger, made, runs, done>>
        BY <1>12 DEF Retry, Shutdown
    <2>. QED  BY <2>3, <2>4, <2>5, LoopType DEF TypeOK
<1>14. CASE Crash
    <2>1. GatewayDies /\ UNCHANGED <<trigger, made, files, runs, done>>
        BY <1>14 DEF Crash
    <2>2. held' \in Directory
        BY <2>1 DEF GatewayDies, Empty, Directory
    <2>. QED  BY <2>1, <2>2 DEF GatewayDies, TypeOK, files, Stages
<1>15. CASE UNCHANGED vars
    BY <1>15 DEF vars, TypeOK
<1>. QED  BY <1>1, <1>2, <1>3, <1>4, <1>5, <1>6, <1>7, <1>8, <1>9, <1>10, <1>11, <1>12, <1>14, <1>15 DEF Next, Gateway
-----------------------------------------------------------------------------
(* Holding *)

LEMMA HoldingStep == IInv /\ [Next]_vars => Holding'
<1>. SUFFICES ASSUME IInv, [Next]_vars PROVE Holding'
    OBVIOUS
<1>. USE DEF Holding, In
<1>0. Holding
    BY DEF IInv, Rest
<1>1. GatewayDies => Holding'
    BY DEF GatewayDies, Empty
<1>2. ASSUME NEW d, NextDelivery(d) PROVE Holding'
    BY <1>2 DEF NextDelivery
<1>3. CASE UNCHANGED <<stage, current, held>>
    BY <1>0, <1>3
<1>4. CASE Start \/ Recovered \/ BatchDone
    BY <1>0, <1>4 DEF Start, Recovered, BatchDone
<1>5. CASE Claim
    <2>1. GatewayDies \/ (stage' = "working" /\ UNCHANGED current /\ stage = "polling")
        BY <1>5 DEF Claim
    <2>2. stage = "polling" => current = NoDelivery
        BY DEF IInv, TypeOK
    <2>. QED  BY <1>1, <2>1, <2>2
<1>6. ASSUME NEW d \in Delivery, Submit(d) PROVE Holding'
    BY <1>6, Claimed DEF Submit, Handled
<1>. QED
    BY <1>1, <1>2, <1>3, <1>4, <1>5, <1>6
    DEF Next, Gateway, vars, Enqueue, SetEnabled, Delete, Recover, Drop, HandlerFails,
        TurnEnds, Retry, Shutdown, Crash
-----------------------------------------------------------------------------
(* One delivery *)

Good(e) == Fresh(e) /\ Place(e) /\ Limit(e) /\ Kept(e)

\* A step that leaves the delivery and the loop alone.
LEMMA GoodUnchanged ==
    ASSUME IInv, NEW e \in Delivery,
           UNCHANGED <<trigger, made, files, runs, done>>,
           \/ GatewayDies
           \/ /\ held'[e] \in {held[e], NoFile}
              /\ current' = e => current = e
              /\ stage' \in {"down", "recovering"} \/ stage \notin {"down", "recovering"}
              /\ current = e => current' = e \/ held'[e] = NoFile
    PROVE  Good(e)'
<1>1. Good(e) /\ TypeOK
    BY DEF IInv, Rest, Good
<1>2. held[e] \in Nat \cup {NoFile} /\ held'[e] \in {held[e], NoFile}
    BY <1>1 DEF TypeOK, Directory, GatewayDies, Empty
<1>3. Fresh(e)'
    BY <1>1, <1>2 DEF Good, Fresh, In, files
<1>4. Place(e)'
    BY <1>1, <1>2 DEF Good, Place, In, files, GatewayDies
<1>5. Limit(e)'
    BY <1>1, <1>2 DEF Good, Limit, In, files, GatewayDies, Empty
<1>6. Kept(e)'
    BY <1>1 DEF Good, Kept, In, files, Deleted
<1>. QED  BY <1>3, <1>4, <1>5, <1>6 DEF Good

\* A delivery is completed and leaves the queue.
LEMMA GoodCompleted ==
    ASSUME IInv, NEW d \in Delivery, Handled(d),
           Completed(d), NextDelivery(d), UNCHANGED <<trigger, made, runs>>,
           NEW e \in Delivery
    PROVE  Good(e)'
<1>1. Good(e) /\ TypeOK
    BY DEF IInv, Rest, Good
<1>2. /\ d \in In(held) /\ d <= made /\ current \in {d, NoDelivery}
      /\ stage \notin {"down", "recovering"}
    BY Claimed
<1>3. Place(d)
    BY DEF IInv, Rest
<1>4. /\ inbox' = inbox /\ failed' = failed
      /\ held'[e] = IF e = d THEN NoFile ELSE held[e]
      /\ processing'[e] = IF e = d THEN NoFile ELSE processing[e]
      /\ stage' = "working" /\ current' = NoDelivery
      /\ done' = done \cup {d}
    BY <1>1 DEF Completed, NextDelivery, Unlinked, TypeOK, Directory
<1>6. Fresh(e)'
    BY <1>1, <1>4 DEF Good, Fresh, In
<1>7. Place(e)'
    BY <1>1, <1>2, <1>3, <1>4 DEF Good, Place, In
<1>8. Limit(e)'
    BY <1>1, <1>2, <1>4 DEF Good, Limit, In, Delivery, NoDelivery
<1>9. Kept(e)'
    BY <1>1, <1>4 DEF Good, Kept, In, Deleted
<1>. QED  BY <1>6, <1>7, <1>8, <1>9 DEF Good

\* A retry rewrites a claimed delivery with one attempt more; the copy in
\* processing/ is left only where the gateway dies.
LEMMA GoodRetried ==
    ASSUME IInv, NEW d \in Delivery, Handled(d),
           Retargeted(d, held[d]),
           \/ Unlinked(d) /\ (NextDelivery(d) \/ GatewayDies)
           \/ UNCHANGED processing /\ GatewayDies,
           UNCHANGED <<trigger, made, runs, done>>,
           NEW e \in Delivery
    PROVE  Good(e)'
<1>1. Good(e) /\ Good(d) /\ TypeOK
    BY DEF IInv, Rest, Good
<1>2. /\ d \in In(held) /\ held[d] \in Nat /\ held[d] < MaxAttempts /\ d <= made
      /\ current \in {d, NoDelivery}
    BY Claimed
<1>3. /\ processing'[e] \in {processing[e], NoFile}
      /\ e = d => processing'[e] = NoFile \/ stage' = "down"
      /\ e # d => inbox'[e] = inbox[e] /\ failed'[e] = failed[e]
      /\ held'[e] \in {held[e], NoFile}
      /\ stage' \in {"working", "down"} /\ current' = NoDelivery
      /\ stage' = "down" \/ e = d => held'[e] = NoFile
    BY <1>1, <1>2 DEF Retargeted, Unlinked, NextDelivery, GatewayDies, Empty, TypeOK, Directory
<1>4. CASE e # d
    <2>1. stage \notin {"down", "recovering"} /\ current # e
        BY <1>2, <1>4, Claimed DEF Delivery, NoDelivery
    <2>2. Fresh(e)' /\ Kept(e)'
        <3>1. e # d => processing'[e] = processing[e]
            BY <1>1 DEF Unlinked, TypeOK, Directory
        <3>. QED  BY <1>1, <1>3, <1>4, <3>1 DEF Good, Fresh, Kept, In, Deleted
    <2>3. Place(e)'
        BY <1>1, <1>3, <1>4, <2>1 DEF Good, Place, In
    <2>4. Limit(e)'
        BY <1>1, <1>3, <1>4, <2>1 DEF Good, Limit, In, Delivery, NoDelivery
    <2>. QED  BY <2>2, <2>3, <2>4 DEF Good
<1>5. CASE e = d
    <2>1. \/ held[d] + 1 < MaxAttempts /\ inbox'[d] = held[d] + 1 /\ failed'[d] = failed[d]
          \/ held[d] + 1 >= MaxAttempts /\ failed'[d] = held[d] + 1 /\ inbox'[d] = inbox[d]
        BY <1>1, <1>2, QueueAssumption DEF Retargeted, TypeOK, Directory
    <2>2. inbox[d] = NoFile /\ failed[d] = NoFile /\ held[d] + 1 # NoFile
        BY <1>1, <1>2, QueueAssumption DEF Good, Place, In
    <2>3. runs[d] <= held[d] + 1 /\ runs[d] \in Nat /\ MaxAttempts \in Nat
        BY <1>1, <1>2, QueueAssumption DEF Good, Limit, TypeOK
    <2>4. Fresh(e)'
        BY <1>1, <1>2, <1>5, QueueAssumption DEF Fresh, TypeOK, Delivery
    <2>5. Place(e)'
        BY <1>1, <1>2, <1>3, <1>5, <2>1, <2>2 DEF Good, Place, In
    <2>6. Limit(e)'
        BY <1>1, <1>2, <1>3, <1>5, <2>1, <2>2, <2>3 DEF Good, Limit, In, Delivery, NoDelivery
    <2>7. Kept(e)'
        BY <1>5, <2>1, <2>2 DEF Kept, In
    <2>. QED  BY <2>4, <2>5, <2>6, <2>7 DEF Good
<1>. QED  BY <1>4, <1>5

\* Recovery retries what a dead gateway left, a half-done retry included: it
\* writes the file that is already there.
LEMMA GoodRecovered ==
    ASSUME IInv, NEW d \in Delivery, Recover(d), NEW e \in Delivery
    PROVE  Good(e)'
<1>1. Good(e) /\ Good(d) /\ TypeOK
    BY DEF IInv, Rest, Good
<1>2. /\ d \in In(processing) /\ processing[d] \in Nat /\ processing[d] < MaxAttempts
      /\ In(held) = {}
      /\ current = NoDelivery
    BY <1>1, Recorded DEF Recover, Oldest, Good, Limit, IInv, Rest, Holding, TypeOK
<1>3. /\ processing'[e] \in {processing[e], NoFile}
      /\ e # d => /\ inbox'[e] = inbox[e] /\ failed'[e] = failed[e]
                  /\ processing'[e] = processing[e]
      /\ held'[e] = NoFile /\ held[e] = NoFile
      /\ stage' \in {"recovering", "down"} /\ current' = NoDelivery
      /\ UNCHANGED <<trigger, made, runs, done>>
    BY <1>1, <1>2 DEF Recover, Retried, HalfRetried, Retargeted, Unlinked, GatewayDies, Empty, In, TypeOK, Directory
<1>4. CASE e # d
    BY <1>1, <1>2, <1>3, <1>4 DEF Good, Fresh, Place, Limit, Kept, In, Deleted, Delivery, NoDelivery
<1>5. CASE e = d
    <2>. DEFINE n == processing[d] + 1
    <2>1. \/ n < MaxAttempts /\ inbox'[d] = n /\ failed'[d] = failed[d]
          \/ n >= MaxAttempts /\ failed'[d] = n /\ inbox'[d] = inbox[d]
        BY <1>1, <1>2, QueueAssumption DEF Recover, Retried, HalfRetried, Retargeted, TypeOK, Directory
    <2>2. /\ n < MaxAttempts => failed[d] = NoFile
          /\ n >= MaxAttempts => inbox[d] = NoFile
          /\ n # NoFile
        BY <1>1, <1>2, QueueAssumption DEF Good, Place, In
    <2>3. runs[d] <= n /\ runs[d] \in Nat /\ MaxAttempts \in Nat /\ n <= MaxAttempts /\ n \in Nat
        BY <1>1, <1>2, QueueAssumption DEF Good, Limit, TypeOK
    <2>4. Fresh(e)'
        BY <1>1, <1>2, <1>3, <1>5 DEF Good, Fresh
    <2>5. d \notin done
        BY <1>1, <1>2 DEF Good, Place
    <2>6. Place(e)'
        BY <1>1, <1>2, <1>3, <1>5, <2>1, <2>2, <2>5 DEF Place, In
    <2>7. Limit(e)'
        BY <1>1, <1>2, <1>3, <1>5, <2>1, <2>2, <2>3 DEF Limit, In, Good
    <2>8. Kept(e)'
        BY <1>5, <2>1, <2>2 DEF Kept, In
    <2>. QED  BY <2>4, <2>6, <2>7, <2>8 DEF Good
<1>. QED  BY <1>4, <1>5

LEMMA GoodClaimed ==
    ASSUME IInv, Claim, NEW e \in Delivery
    PROVE  Good(e)'
<1>1. Good(e) /\ TypeOK
    BY DEF IInv, Rest, Good
<1>2. PICK S \in SUBSET In(inbox) :
        /\ inbox' = Removed(inbox, S)
        /\ processing' = [d \in Delivery |-> IF d \in S THEN inbox[d] ELSE processing[d]]
        /\ \/ /\ stage' = "working"
              /\ held' = [d \in Delivery |-> IF d \in S THEN inbox[d] ELSE held[d]]
              /\ UNCHANGED current
           \/ GatewayDies
    BY DEF Claim
<1>3. /\ stage = "polling" /\ current = NoDelivery
      /\ UNCHANGED <<trigger, made, failed, runs, done>>
    BY <1>1 DEF Claim, TypeOK
<1>4. /\ inbox'[e] = IF e \in S THEN NoFile ELSE inbox[e]
      /\ processing'[e] = IF e \in S THEN inbox[e] ELSE processing[e]
      /\ held'[e] = NoFile \/ held'[e] = (IF e \in S THEN inbox[e] ELSE held[e])
      /\ current' = NoDelivery
      /\ e \in S => inbox[e] \in Nat /\ inbox[e] # NoFile
    BY <1>1, <1>2, <1>3, QueueAssumption DEF Removed, GatewayDies, Empty, In, TypeOK, Directory
<1>5. runs[e] \in Nat /\ MaxAttempts \in Nat
    BY <1>1, QueueAssumption DEF TypeOK
<1>6. Fresh(e)'
    BY <1>1, <1>3, <1>4 DEF Good, Fresh, In
<1>7. Place(e)'
    BY <1>1, <1>3, <1>4 DEF Good, Place, In
<1>8. Limit(e)'
    BY <1>1, <1>3, <1>4, <1>5 DEF Good, Limit, In, Delivery, NoDelivery
<1>9. Kept(e)'
    BY <1>1, <1>3, <1>4 DEF Good, Kept, In, Deleted
<1>. QED  BY <1>6, <1>7, <1>8, <1>9 DEF Good

LEMMA GoodSubmitted ==
    ASSUME IInv, NEW d \in Delivery, Submit(d), NEW e \in Delivery
    PROVE  Good(e)'
<1>1. Good(e) /\ TypeOK
    BY DEF IInv, Rest, Good
<1>2. /\ d \in In(held) /\ held[d] \in Nat /\ held[d] < MaxAttempts /\ d <= made
      /\ current = NoDelivery
    BY <1>1, Claimed DEF Handled, Submit, TypeOK
<1>3. /\ runs'[e] = IF e = d THEN runs[e] + 1 ELSE runs[e]
      /\ current' = d /\ stage' = "turn" /\ stage = "working"
      /\ UNCHANGED <<trigger, made, inbox, processing, failed, held, done>>
    BY <1>1 DEF Submit, files, TypeOK
<1>4. runs[e] \in Nat /\ MaxAttempts \in Nat /\ made \in Nat
    BY <1>1, QueueAssumption DEF TypeOK
<1>5. Fresh(e)'
    BY <1>1, <1>2, <1>3, <1>4 DEF Good, Fresh, In, Delivery
<1>6. Place(e)'
    BY <1>1, <1>3 DEF Good, Place, In
<1>7. Limit(e)'
    BY <1>1, <1>2, <1>3, <1>4 DEF Good, Limit, Place, In, Delivery, NoDelivery
<1>8. Kept(e)'
    BY <1>1, <1>3 DEF Good, Kept, In, Deleted
<1>. QED  BY <1>5, <1>6, <1>7, <1>8 DEF Good

LEMMA GoodEnqueued ==
    ASSUME IInv, Enqueue, NEW e \in Delivery
    PROVE  Good(e)'
<1>1. Good(e) /\ TypeOK
    BY DEF IInv, Rest, Good
<1>2. /\ made \in Nat /\ MaxAttempts \in Nat \ {0} /\ runs[e] \in Nat /\ 0 # NoFile
      /\ done \subseteq 1 .. made
    BY <1>1, QueueAssumption DEF TypeOK
<1>3. /\ made' = made + 1
      /\ inbox'[e] = IF e = made + 1 THEN 0 ELSE inbox[e]
      /\ UNCHANGED <<trigger, processing, failed, held, stage, current, runs, done>>
    BY <1>1 DEF Enqueue, TypeOK, Directory
<1>4. CASE e = made + 1
    <2>1. e > made /\ e \notin done
        BY <1>2, <1>4
    <2>2. /\ e \notin In(inbox) \cup In(processing) \cup In(failed) \cup In(held)
          /\ runs[e] = 0
        BY <1>1, <2>1 DEF Good, Fresh
    <2>. QED  BY <1>2, <1>3, <1>4, <2>1, <2>2 DEF Good, Fresh, Place, Limit, Kept, In
<1>5. CASE e # made + 1
    BY <1>1, <1>2, <1>3, <1>5 DEF Good, Fresh, Place, Limit, Kept, In, Deleted, Delivery
<1>. QED  BY <1>4, <1>5

LEMMA GoodDeleted ==
    ASSUME IInv, NEW t \in Trigger, Delete(t), NEW e \in Delivery
    PROVE  Good(e)'
<1>1. Good(e) /\ TypeOK
    BY DEF IInv, Rest, Good
<1>2. PICK S \in SUBSET {d \in Delivery : TriggerOf[d] = t} :
        /\ inbox' = Removed(inbox, S)
        /\ processing' = Removed(processing, S)
        /\ failed' = Removed(failed, S)
    BY DEF Delete
<1>3. /\ e \notin S => UNCHANGED <<inbox[e], processing[e], failed[e]>>
      /\ e \in S => /\ inbox'[e] = NoFile /\ processing'[e] = NoFile /\ failed'[e] = NoFile
                    /\ TriggerOf[e] = t
      /\ UNCHANGED <<made, held, stage, current, runs, done>>
    BY <1>2 DEF Removed, Delete
<1>4. Deleted(e) => Deleted(e)'
    BY <1>1 DEF Deleted, Delete, TypeOK
<1>5. e \in S => Deleted(e)'
    BY <1>1, <1>3 DEF Deleted, Delete, TypeOK
<1>6. Fresh(e)' /\ Place(e)'
    BY <1>1, <1>3 DEF Good, Fresh, Place, In
<1>7. Limit(e)'
    BY <1>1, <1>3 DEF Good, Limit, In
<1>8. Kept(e)'
    BY <1>1, <1>3, <1>4, <1>5 DEF Good, Kept, In
<1>. QED  BY <1>6, <1>7, <1>8 DEF Good

LEMMA GoodToggled ==
    ASSUME IInv, NEW t \in Trigger, SetEnabled(t), NEW e \in Delivery
    PROVE  Good(e)'
<1>1. Good(e) /\ TypeOK
    BY DEF IInv, Rest, Good
<1>2. Deleted(e) => Deleted(e)'
    BY <1>1 DEF Deleted, SetEnabled, TypeOK
<1>. QED
    BY <1>1, <1>2 DEF Good, Fresh, Place, Limit, Kept, In, SetEnabled
-----------------------------------------------------------------------------
(* The invariant *)

LEMMA GoodStep ==
    ASSUME IInv, [Next]_vars, NEW e \in Delivery
    PROVE  Good(e)'
<1>1. Good(e)
    BY DEF IInv, Rest, Good
<1>2. CASE Start \/ BatchDone \/ Crash
    <2>1. UNCHANGED <<trigger, made, files, runs, done>>
        BY <1>2 DEF Start, BatchDone, Crash
    <2>. QED  BY <1>2, <2>1, GoodUnchanged DEF Start, BatchDone, Crash
<1>3. CASE Recovered
    BY <1>1, <1>3 DEF Recovered, files, Good, Fresh, Place, Limit, Kept, In, Deleted
<1>4. ASSUME NEW d \in Delivery, Drop(d) \/ TurnEnds(d)
      PROVE  Good(e)'
    <2>1. Handled(d) /\ UNCHANGED <<trigger, made, runs>>
        BY <1>4 DEF Drop, TurnEnds, Handled
    <2>2. CASE Completed(d) /\ NextDelivery(d)
        BY <2>1, <2>2, GoodCompleted
    <2>3. CASE HandlerFails
        BY <2>1, <2>3, GoodUnchanged DEF HandlerFails
    <2>. QED  BY <1>4, <2>2, <2>3 DEF Drop, TurnEnds
<1>5. ASSUME NEW d \in Delivery, Retry(d) \/ Shutdown(d)
      PROVE  Good(e)'
    BY <1>5, GoodRetried DEF Retry, Shutdown, Retried, HalfRetried, Handled
<1>6. CASE UNCHANGED vars
    BY <1>1, <1>6 DEF vars, Good, Fresh, Place, Limit, Kept, In, Deleted
<1>. QED
    BY <1>2, <1>3, <1>4, <1>5, <1>6, GoodRecovered, GoodClaimed, GoodSubmitted,
       GoodEnqueued, GoodDeleted, GoodToggled DEF Next, Gateway

LEMMA Inductive == Spec => []IInv
<1>1. Init => IInv
    <2>. SUFFICES ASSUME Init PROVE IInv
        OBVIOUS
    <2>1. In(Empty) = {}
        BY DEF In, Empty
    <2>2. Holding
        BY <2>1 DEF Init, Holding
    <2>3. \A e \in Delivery : Good(e)
        BY <2>1, QueueAssumption DEF Init, Good, Fresh, Place, Limit, Kept, Delivery
    <2>. QED  BY <2>2, <2>3, InitType DEF IInv, Rest, Good
<1>2. IInv /\ [Next]_vars => IInv'
    BY TypeStep, HoldingStep, GoodStep DEF IInv, Rest, Good
<1>. QED  BY <1>1, <1>2, PTL DEF Spec

\* Every variable keeps its type: what recovery reads is always a number below
\* the limit, and what the gateway completes was always enqueued.
THEOREM TypeCorrect == Spec => []TypeOK
<1>1. IInv => TypeOK
    BY DEF IInv
<1>. QED  BY <1>1, Inductive, PTL

\* At least once: no crash, shutdown, failed write or deletion of another
\* trigger loses a delivery (_retry_delivery_unlocked writes before it unlinks).
THEOREM AtLeastOnce == Spec => []DeliveryKept
<1>1. IInv => DeliveryKept
    BY QueueAssumption DEF IInv, Rest, Kept, DeliveryKept, TypeOK, Delivery
<1>. QED  BY <1>1, Inductive, PTL

\* Bounded retries: however often the gateway dies, no delivery is submitted
\* more than _MAX_DELIVERY_ATTEMPTS times.
THEOREM BoundedRetries == Spec => []RunsBounded
<1>1. IInv => RunsBounded
    BY DEF IInv, Rest, Limit, RunsBounded
<1>. QED  BY <1>1, Inductive, PTL

\* Recovery puts the directories right before anything is claimed.
THEOREM Disjoint == Spec => []OnePlace
<1>1. IInv => OnePlace
    BY DEF IInv, Rest, Place, OnePlace, In
<1>. QED  BY <1>1, Inductive, PTL

-----------------------------------------------------------------------------
(* The refinement of DeliveryQueue *)

Over(e) == e \in done \cup In(failed) \/ Deleted(e)

\* Nobody's turn begins or ends: whatever is over now ends in the promise.
LEMMA StepsEnd ==
    ASSUME IInv, made' = made, runs' = runs, current' = current,
           \A e \in Delivery : Over(e) => Over(e)'
    PROVE  Promised!Next
<1>. DEFINE S == {e \in Delivery : ~(e > made) /\ Over(e)' /\ ~Over(e)}
<1>1. Standing' = [e \in Delivery |-> IF e \in S THEN "ended" ELSE Standing[e]]
    BY DEF Standing, Over
<1>2. \A e \in S : Standing[e] \in {"waiting", "running"}
    BY DEF Standing, Over
<1>. QED  BY <1>1, <1>2 DEF Promised!Next, Promised!End

\* The turn of the current delivery is over, or is given up for a later one.
LEMMA TurnLeft ==
    ASSUME IInv, NEW d \in Delivery, current = d, current' = NoDelivery,
           made' = made, runs' = runs,
           \A e \in Delivery : Over(e) => Over(e)',
           \A e \in Delivery : e # d => (Over(e)' => Over(e))
    PROVE  [Promised!Next]_(Promised!vars)
<1>1. d <= made /\ d # NoDelivery /\ ~(d > made)
    <2>1. d \in In(held) /\ made \in Nat /\ d # NoDelivery
        BY DEF IInv, Rest, Holding, TypeOK, Delivery, NoDelivery
    <2>. QED  BY <2>1 DEF IInv, Rest, Fresh, Delivery
<1>2. \A e \in Delivery : e # NoDelivery
    BY DEF Delivery, NoDelivery
<1>3. CASE Over(d)
    <2>1. Standing' = Standing
        BY <1>2, <1>3 DEF Standing, Over
    <2>. QED  BY <2>1 DEF Promised!vars
<1>4. CASE ~Over(d) /\ Over(d)'
    <2>1. Standing' = [e \in Delivery |-> IF e \in {d} THEN "ended" ELSE Standing[e]]
        BY <1>1, <1>2, <1>4 DEF Standing, Over
    <2>2. Standing[d] = "running"
        BY <1>1, <1>4 DEF Standing, Over
    <2>. QED  BY <2>1, <2>2 DEF Promised!Next, Promised!End
<1>5. CASE ~Over(d) /\ ~Over(d)'
    <2>1. Standing' = [Standing EXCEPT ![d] = "waiting"]
        BY <1>1, <1>2, <1>5 DEF Standing, Over
    <2>2. Standing[d] = "running"
        BY <1>1, <1>5 DEF Standing, Over
    <2>. QED  BY <2>1, <2>2 DEF Promised!Next, Promised!Return
<1>. QED  BY <1>3, <1>4, <1>5

\* Of what is over, a retry can only add its own delivery.
LEMMA RetryOver ==
    ASSUME IInv, NEW d \in Delivery, NEW n \in Nat, Retargeted(d, n), UNCHANGED <<trigger, done>>
    PROVE  /\ \A e \in Delivery : Over(e) => Over(e)'
           /\ \A e \in Delivery : e # d => (Over(e)' => Over(e))
<1>1. n + 1 # NoFile /\ failed \in Directory
    BY QueueAssumption DEF IInv, TypeOK
<1>. QED  BY <1>1 DEF Retargeted, Over, Deleted, In, Directory

LEMMA CompletedOver ==
    ASSUME NEW d \in Delivery, Completed(d), UNCHANGED trigger
    PROVE  /\ \A e \in Delivery : Over(e) => Over(e)'
           /\ \A e \in Delivery : e # d => (Over(e)' => Over(e))
BY DEF Completed, Over, Deleted, In

LEMMA SameOver ==
    ASSUME UNCHANGED <<trigger, failed, done>>
    PROVE  \A e \in Delivery : Over(e)' <=> Over(e)
BY DEF Over, Deleted, In

LEMMA DeleteOver ==
    ASSUME IInv, NEW t \in Trigger, Delete(t)
    PROVE  \A e \in Delivery : Over(e) => Over(e)'
<1>1. PICK S \in SUBSET {d \in Delivery : TriggerOf[d] = t} : failed' = Removed(failed, S)
    BY DEF Delete
<1>2. \A e \in Delivery : TriggerOf[e] \in Trigger
    BY QueueAssumption DEF Delivery
<1>3. /\ trigger \in [Trigger -> TriggerState] /\ trigger' = [trigger EXCEPT ![t] = "deleted"]
      /\ done' = done
    BY DEF Delete, IInv, TypeOK
<1>. QED  BY <1>1, <1>2, <1>3 DEF Over, Deleted, In, Removed

LEMMA SwitchOver ==
    ASSUME IInv, NEW t \in Trigger, SetEnabled(t)
    PROVE  \A e \in Delivery : Over(e) => Over(e)'
<1>1. \A e \in Delivery : TriggerOf[e] \in Trigger
    BY QueueAssumption DEF Delivery
<1>. QED  BY <1>1 DEF SetEnabled, IInv, TypeOK, Over, Deleted, In

LEMMA EnqueueKeeps ==
    ASSUME IInv, Enqueue
    PROVE  Promised!Next
<1>. DEFINE d == made + 1
<1>1. d \in Delivery /\ made' = d /\ made \in Nat /\ d > made
    BY QueueAssumption DEF Enqueue, IInv, TypeOK, Delivery
<1>2. d # current /\ current' = current /\ runs' = runs
    BY <1>1 DEF Enqueue, IInv, Rest, Holding, Fresh, NoDelivery, Delivery
<1>3. \A e \in Delivery : Over(e)' <=> Over(e)
    BY SameOver DEF Enqueue
<1>4. ~Over(d)
    BY <1>1 DEF Enqueue, EnabledFor, Over, Deleted, IInv, Rest, Fresh, TypeOK
<1>5. \A e \in Delivery : (e > made') <=> (e > made /\ e # d)
    BY <1>1 DEF Delivery
<1>6. Standing' = [Standing EXCEPT ![d] = "waiting"]
    BY <1>1, <1>2, <1>3, <1>4, <1>5 DEF Standing, Over
<1>7. Standing[d] = "new"
    BY <1>1 DEF Standing
<1>. QED  BY <1>1, <1>2, <1>6, <1>7 DEF Promised!Next, Promised!Put

LEMMA SubmitKeeps ==
    ASSUME IInv, NEW d \in Delivery, Submit(d)
    PROVE  Promised!Next
<1>1. /\ d \in In(held) /\ held[d] < MaxAttempts /\ d <= made /\ current = NoDelivery
      /\ runs[d] \in Nat /\ held[d] \in Nat
    BY Claimed DEF Submit, Handled, IInv, TypeOK
<1>2. runs[d] < MaxAttempts
    BY <1>1, QueueAssumption DEF IInv, Rest, Limit, Delivery, NoDelivery
<1>3. ~Over(d)
    BY <1>1 DEF IInv, Rest, Place, Over, Submit, EnabledFor, Deleted
<1>4. \A e \in Delivery : e # NoDelivery
    BY DEF Delivery, NoDelivery
<1>5. \A e \in Delivery : Over(e)' <=> Over(e)
    BY SameOver DEF Submit, files
<1>6. made \in Nat /\ ~(d > made)
    BY <1>1 DEF IInv, TypeOK, Delivery
<1>7. Standing' = [Standing EXCEPT ![d] = "running"]
    BY <1>1, <1>3, <1>4, <1>5, <1>6 DEF Standing, Over, Submit
<1>8. Standing[d] = "waiting" /\ \A e \in Delivery : Standing[e] # "running"
    BY <1>1, <1>3, <1>4, <1>6 DEF Standing, Over
<1>. QED  BY <1>2, <1>7, <1>8 DEF Promised!Next, Promised!Run, Submit

LEMMA TurnKeeps ==
    ASSUME IInv, NEW d \in Delivery, current = d, TurnEnds(d) \/ Retry(d) \/ Shutdown(d)
    PROVE  [Promised!Next]_(Promised!vars)
<1>1. held[d] \in Nat
    BY Claimed DEF Handled
<1>2. made' = made /\ runs' = runs /\ trigger' = trigger
    BY DEF TurnEnds, Retry, Shutdown
<1>3. current' = NoDelivery
    BY DEF TurnEnds, Retry, Shutdown, HandlerFails, NextDelivery, GatewayDies
<1>4. /\ \A e \in Delivery : Over(e) => Over(e)'
      /\ \A e \in Delivery : e # d => (Over(e)' => Over(e))
    <2>1. CASE TurnEnds(d)
        BY <1>2, <2>1, CompletedOver, SameOver DEF TurnEnds, HandlerFails, files
    <2>2. CASE Retry(d) \/ Shutdown(d)
        BY <1>1, <1>2, <2>2, RetryOver DEF Retry, Shutdown, Retried, HalfRetried
    <2>. QED  BY <2>1, <2>2
<1>. QED  BY <1>2, <1>3, <1>4, TurnLeft

\* Outside a turn, the gateway only ends deliveries.
LEMMA BetweenKeeps ==
    ASSUME IInv, NEW d \in Delivery, current = NoDelivery, Recover(d) \/ Drop(d) \/ Retry(d)
    PROVE  Promised!Next
<1>1. made' = made /\ runs' = runs /\ trigger' = trigger
    BY DEF Recover, Drop, Retry
<1>2. current' = NoDelivery
    BY DEF Recover, Drop, Retry, HandlerFails, NextDelivery, GatewayDies
<1>3. \A e \in Delivery : Over(e) => Over(e)'
    <2>1. CASE Recover(d)
        <3>1. processing[d] \in Nat
            BY <2>1 DEF Recover, Oldest, In, IInv, TypeOK, Directory
        <3>. QED  BY <1>1, <2>1, <3>1, RetryOver DEF Recover, Retried, HalfRetried
    <2>2. CASE Drop(d)
        BY <1>1, <2>2, CompletedOver, SameOver DEF Drop, HandlerFails, files
    <2>3. CASE Retry(d)
        <3>1. Handled(d)
            BY <2>3 DEF Retry, Handled
        <3>2. held[d] \in Nat
            BY <3>1, Claimed
        <3>. QED  BY <1>1, <2>3, <3>2, RetryOver DEF Retry, Retried, HalfRetried
    <2>. QED  BY <2>1, <2>2, <2>3
<1>. QED  BY <1>1, <1>2, <1>3, StepsEnd

LEMMA StepKeeps == IInv /\ [Next]_vars => [Promised!Next]_(Promised!vars)
<1>. SUFFICES ASSUME IInv, [Next]_vars
              PROVE  [Promised!Next]_(Promised!vars)
    OBVIOUS
<1>1. CASE Enqueue
    BY <1>1, EnqueueKeeps
<1>2. CASE \E t \in Trigger : SetEnabled(t) \/ Delete(t)
    <2>1. PICK t \in Trigger : SetEnabled(t) \/ Delete(t)
        BY <1>2
    <2>2. \A e \in Delivery : Over(e) => Over(e)'
        BY <2>1, SwitchOver, DeleteOver
    <2>3. made' = made /\ runs' = runs /\ current' = current
        BY <2>1 DEF SetEnabled, Delete
    <2>. QED  BY <2>2, <2>3, StepsEnd
<1>3. CASE Start \/ Recovered \/ Claim \/ BatchDone
    <2>1. made' = made /\ runs' = runs /\ UNCHANGED <<trigger, failed, done>>
        BY <1>3 DEF Start, Recovered, Claim, BatchDone, files
    <2>2. current' = current
        BY <1>3 DEF Start, Recovered, Claim, BatchDone, GatewayDies, IInv, TypeOK
    <2>3. \A e \in Delivery : Over(e) => Over(e)'
        BY <2>1, SameOver
    <2>. QED  BY <2>1, <2>2, <2>3, StepsEnd
<1>4. ASSUME NEW d \in Delivery, Recover(d) \/ Drop(d) \/ Retry(d), current = NoDelivery
      PROVE  [Promised!Next]_(Promised!vars)
    BY <1>4, BetweenKeeps
<1>5. ASSUME NEW d \in Delivery, TurnEnds(d) \/ Retry(d) \/ Shutdown(d), current # NoDelivery
      PROVE  [Promised!Next]_(Promised!vars)
    <2>1. current = d
        BY <1>5 DEF TurnEnds, Retry, Shutdown, IInv, TypeOK
    <2>. QED  BY <1>5, <2>1, TurnKeeps
<1>6. ASSUME NEW d \in Delivery, Submit(d)
      PROVE  [Promised!Next]_(Promised!vars)
    BY <1>6, SubmitKeeps
<1>7. CASE Crash
    <2>1. /\ made' = made /\ runs' = runs /\ current' = NoDelivery
          /\ UNCHANGED <<trigger, failed, done>>
        BY <1>7 DEF Crash, GatewayDies, files
    <2>2. \A e \in Delivery : Over(e)' <=> Over(e)
        BY <2>1, SameOver
    <2>3. CASE current = NoDelivery
        BY <2>1, <2>2, <2>3, StepsEnd
    <2>4. CASE current # NoDelivery
        BY <2>1, <2>2, <2>4, TurnLeft DEF IInv, TypeOK
    <2>. QED  BY <2>3, <2>4
<1>8. CASE UNCHANGED vars
    <2>1. Standing' = Standing /\ runs' = runs
        BY <1>8 DEF vars, Standing, Deleted, In
    <2>. QED  BY <2>1 DEF Promised!vars
<1>9. ASSUME NEW d \in Delivery
      PROVE  /\ Recover(d) => current = NoDelivery
             /\ Drop(d) => current = NoDelivery
             /\ TurnEnds(d) => current # NoDelivery
             /\ Shutdown(d) => current # NoDelivery
    BY DEF Recover, Drop, TurnEnds, Shutdown, IInv, TypeOK, Delivery, NoDelivery
<1>. QED
    BY <1>1, <1>2, <1>3, <1>4, <1>5, <1>6, <1>7, <1>8, <1>9 DEF Next, Gateway

\* The queue implements its promise: what the directories, the batch in memory
\* and the loop do is, for each delivery, being put, run, returned or ended.
THEOREM Refinement == Spec => KeepsPromise
<1>1. Init => Promised!Init
    BY DEF Init, Promised!Init, Standing, Delivery
<1>. QED  BY <1>1, StepKeeps, Inductive, PTL DEF Spec, KeepsPromise, Promised!Spec
=============================================================================
