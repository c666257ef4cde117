------------------------- MODULE LocalTriggerQueue -------------------------
(***************************************************************************)
(* The durable queue of local triggers: scripts put deliveries into the    *)
(* inbox directory of the workspace, the gateway claims them in batches    *)
(* into the processing directory, submits each as an agent turn and waits  *)
(* for the answer, and retries, drops or gives up what fails.              *)
(*                                                                         *)
(* Deliveries are numbered in the order of their file names.  A directory  *)
(* maps a delivery to the attempts its file records.  Every operation of   *)
(* the store runs under one FileLock, so only the death of a process can   *)
(* cut it in two.                                                          *)
(***************************************************************************)
EXTENDS Naturals, FiniteSets

CONSTANTS
    Trigger,        \* triggers of the workspace
    MaxDeliveries,  \* deliveries enqueued in one behaviour
    TriggerOf,      \* the trigger of each
    MaxAttempts,    \* _MAX_DELIVERY_ATTEMPTS
    BatchSize,      \* deliveries claimed at once
    DiskFaults,     \* may reading or writing a file raise?
    NoFile

ASSUME QueueAssumption ==
    /\ MaxDeliveries \in Nat
    /\ TriggerOf \in [1 .. MaxDeliveries -> Trigger]
    /\ MaxAttempts \in Nat \ {0}
    /\ BatchSize \in Nat \ {0}
    /\ DiskFaults \in BOOLEAN
    /\ NoFile \notin Nat

Delivery == 1 .. MaxDeliveries
NoDelivery == 0

VARIABLES
    trigger,    \* state of each trigger in the store
    made,       \* deliveries enqueued so far
    inbox,      \* attempts recorded in inbox/
    processing, \* attempts recorded in processing/
    failed,     \* attempts recorded in failed/
    held,       \* attempts of the claimed deliveries in the gateway's memory
    stage,      \* where the gateway's loop is
    current,    \* the delivery whose turn runs
    runs,       \* turns submitted for a delivery
    done        \* deliveries the gateway completed or dropped

vars == <<trigger, made, inbox, processing, failed, held, stage, current, runs, done>>
files == <<inbox, processing, failed>>

TriggerState == {"enabled", "disabled", "deleted"}
Directory == [Delivery -> Nat \cup {NoFile}]

\* down: no gateway   recovering: run_local_trigger_queue starts
\* polling: asleep    working: between two deliveries   turn: awaits submit_turn
Stages == {"down", "recovering", "polling", "working", "turn"}

TypeOK ==
    /\ trigger \in [Trigger -> TriggerState]
    /\ made \in 0 .. MaxDeliveries
    /\ inbox \in Directory
    /\ processing \in Directory
    /\ failed \in Directory
    /\ held \in Directory
    /\ stage \in Stages
    /\ current \in Delivery \cup {NoDelivery}
    /\ stage = "turn" <=> current # NoDelivery
    /\ runs \in [Delivery -> Nat]
    /\ done \subseteq 1 .. made

Empty == [d \in Delivery |-> NoFile]

Init ==
    /\ trigger = [t \in Trigger |-> "enabled"]
    /\ made = 0
    /\ inbox = Empty
    /\ processing = Empty
    /\ failed = Empty
    /\ held = Empty
    /\ stage = "down"
    /\ current = NoDelivery
    /\ runs = [d \in Delivery |-> 0]
    /\ done = {}

In(directory) == {d \in Delivery : directory[d] # NoFile}
Oldest(d, S) == d \in S /\ \A e \in S : d <= e
EnabledFor(d) == trigger[TriggerOf[d]] = "enabled"

-----------------------------------------------------------------------------
(* Scripts and the web UI *)

\* `nanobot trigger': the file is written, then the trigger's own record; an
\* error there takes the file back.
Enqueue ==
    /\ made < MaxDeliveries
    /\ made' = made + 1
    /\ EnabledFor(made')
    /\ inbox' = [inbox EXCEPT ![made'] = 0]
    /\ UNCHANGED <<trigger, processing, failed, held, stage, current, runs, done>>

\* The web UI runs in the gateway's event loop: it acts while the loop awaits.
Awaiting == stage \in {"polling", "turn"}

SetEnabled(t) ==
    /\ Awaiting
    /\ trigger[t] # "deleted"
    /\ trigger' = [trigger EXCEPT ![t] = IF @ = "enabled" THEN "disabled" ELSE "enabled"]
    /\ UNCHANGED <<made, inbox, processing, failed, held, stage, current, runs, done>>

Removed(directory, S) == [d \in Delivery |-> IF d \in S THEN NoFile ELSE directory[d]]

\* The trigger goes first, its files after it; one that cannot be unlinked stays.
Delete(t) ==
    /\ Awaiting
    /\ trigger[t] # "deleted"
    /\ trigger' = [trigger EXCEPT ![t] = "deleted"]
    /\ \E S \in SUBSET {d \in Delivery : TriggerOf[d] = t} :
         /\ inbox' = Removed(inbox, S)
         /\ processing' = Removed(processing, S)
         /\ failed' = Removed(failed, S)
    /\ UNCHANGED <<made, held, stage, current, runs, done>>

-----------------------------------------------------------------------------
(* The gateway *)

GatewayDies ==
    /\ stage' = "down"
    /\ current' = NoDelivery
    /\ held' = Empty

\* Back to the batch without d.
NextDeliveryBug(d) ==
    /\ stage' = "working"
    /\ held' = [held EXCEPT ![d] = NoFile]
    /\ UNCHANGED current
NextDelivery(d) ==
    /\ stage' = "working"
    /\ current' = NoDelivery
    /\ held' = [held EXCEPT ![d] = NoFile]

Start ==
    /\ stage = "down"
    /\ stage' = "recovering"
    /\ UNCHANGED <<trigger, made, files, held, current, runs, done>>

Unlinked(d) == processing' = [processing EXCEPT ![d] = NoFile]

\* _retry_delivery_unlocked: the file moves on with one attempt more.
RetargetedBug(d, attempts) ==
    /\ failed' = failed
    /\ inbox' = [inbox EXCEPT ![d] = attempts]
Retargeted(d, attempts) ==
    IF attempts + 1 >= MaxAttempts
      THEN /\ failed' = [failed EXCEPT ![d] = attempts + 1]
           /\ UNCHANGED inbox
      ELSE /\ inbox' = [inbox EXCEPT ![d] = attempts + 1]
           /\ UNCHANGED failed

Retried(d, attempts) == Retargeted(d, attempts) /\ Unlinked(d)

\* The gateway dies between the two steps of a retry.
HalfRetriedBug(d, attempts) ==
    /\ Unlinked(d)
    /\ UNCHANGED <<inbox, failed>>
HalfRetried(d, attempts) ==
    /\ Retargeted(d, attempts)
    /\ UNCHANGED processing

\* recover_processing_deliveries, one file at a time.
Recover(d) ==
    /\ stage = "recovering"
    /\ Oldest(d, In(processing))
    /\ \/ Retried(d, processing[d]) /\ UNCHANGED <<stage, held, current>>
       \/ HalfRetried(d, processing[d]) /\ GatewayDies
    /\ UNCHANGED <<trigger, made, runs, done>>

Recovered ==
    /\ stage = "recovering"
    /\ In(processing) = {}
    /\ stage' = "polling"
    /\ UNCHANGED <<trigger, made, files, held, current, runs, done>>

\* The oldest of the inbox, no more than a batch.
Claimable(S) ==
    /\ S # {} /\ S \subseteq In(inbox)
    /\ Cardinality(S) <= BatchSize
    /\ \A d \in S, e \in In(inbox) \ S : d < e

\* claim_deliveries: what was moved is in memory, unless the gateway dies first.
Claim ==
    /\ stage = "polling"
    /\ \E S \in SUBSET In(inbox) :
         /\ Claimable(S)
         /\ inbox' = Removed(inbox, S)
         /\ processing' = [d \in Delivery |-> IF d \in S THEN inbox[d] ELSE processing[d]]
         /\ \/ /\ \A R \in SUBSET In(inbox) : Claimable(R) => R \subseteq S
               /\ stage' = "working"
               /\ held' = [d \in Delivery |-> IF d \in S THEN inbox[d] ELSE held[d]]
               /\ UNCHANGED current
            \/ GatewayDies
    /\ UNCHANGED <<trigger, made, failed, runs, done>>

BatchDone ==
    /\ stage = "working"
    /\ In(held) = {}
    /\ stage' = "polling"
    /\ UNCHANGED <<trigger, made, files, held, current, runs, done>>

\* The batch is handled in the order of the file names.
IsNext(d) == Oldest(d, In(held))

\* complete_delivery
CompletedBug(d) ==
    /\ done' = done \cup {d}
    /\ UNCHANGED <<inbox, processing, failed>>
Completed(d) ==
    /\ done' = done \cup {d}
    /\ Unlinked(d)
    /\ UNCHANGED <<inbox, failed>>

\* What the handler of an exception does when an operation of the store raises
\* there: the queue's task ends, and the gateway with it.
HandlerFails ==
    /\ DiskFaults
    /\ GatewayDies
    /\ UNCHANGED <<files, done>>

\* _TerminalDeliveryError: the trigger is gone or disabled.
Drop(d) ==
    /\ stage = "working"
    /\ IsNext(d)
    /\ ~EnabledFor(d)
    /\ \/ Completed(d) /\ NextDelivery(d)
       \/ HandlerFails
    /\ UNCHANGED <<trigger, made, runs>>

Submit(d) ==
    /\ stage = "working"
    /\ IsNext(d)
    /\ EnabledFor(d)
    /\ stage' = "turn"
    /\ current' = d
    /\ runs' = [runs EXCEPT ![d] = @ + 1]
    /\ UNCHANGED <<trigger, made, files, held, done>>

\* The turn is answered, or failed in the agent (AutomationTurnError).
TurnEnds(d) ==
    /\ current = d
    /\ \/ Completed(d) /\ NextDelivery(d)
       \/ HandlerFails
    /\ UNCHANGED <<trigger, made, runs>>

\* Any other exception: the store raised before the turn, or after it.
Retry(d) ==
    /\ DiskFaults
    /\ \/ stage = "working" /\ IsNext(d)
       \/ current = d
    /\ \/ Retried(d, held[d]) /\ (NextDelivery(d) \/ GatewayDies)
       \/ HalfRetried(d, held[d]) /\ GatewayDies
    /\ UNCHANGED <<trigger, made, runs, done>>

\* The gateway shuts down during a turn (CancelledError).
Shutdown(d) ==
    /\ current = d
    /\ \/ Retried(d, held[d])
       \/ HalfRetried(d, held[d])
    /\ GatewayDies
    /\ UNCHANGED <<trigger, made, runs, done>>

Crash ==
    /\ stage # "down"
    /\ GatewayDies
    /\ UNCHANGED <<trigger, made, files, runs, done>>

Gateway ==
    \/ Start \/ Recovered \/ Claim \/ BatchDone
    \/ \E d \in Delivery :
         Recover(d) \/ Drop(d) \/ Submit(d) \/ TurnEnds(d) \/ Retry(d)

Next ==
    \/ Enqueue
    \/ \E t \in Trigger : SetEnabled(t) \/ Delete(t)
    \/ Gateway
    \/ \E d \in Delivery : Shutdown(d)
    \/ Crash

Spec == Init /\ [][Next]_vars
\* The gateway keeps going while it is up, and the turns it submits end.
FairSpec == Spec /\ WF_vars(Gateway)
-----------------------------------------------------------------------------
(* Properties *)

Deleted(d) == trigger[TriggerOf[d]] = "deleted"

\* "The local trigger queue is at-least-once": from the moment its file is
\* written, a delivery is completed, its trigger is deleted, or a file of it
\* exists, whatever dies and whatever write fails.
DeliveryKept ==
    \A d \in 1 .. made :
        d \in done \/ Deleted(d) \/ d \in In(inbox) \cup In(processing) \cup In(failed)

\* "instead of retrying forever": no delivery is submitted more often than the
\* limit of attempts, crashes during its turn and half-done retries included.
RunsBounded == \A d \in Delivery : runs[d] <= MaxAttempts

\* While the queue runs, a delivery is in one place only: a retry that was cut
\* in two has been put right before anything is claimed.
OnePlace ==
    stage \notin {"down", "recovering"} =>
        /\ In(inbox) \cap In(processing) = {}
        /\ In(inbox) \cap In(failed) = {}
        /\ In(processing) \cap In(failed) = {}

\* What the queue shows of a delivery.
Standing ==
    [d \in Delivery |->
        IF d > made THEN "new"
        ELSE IF d \in done \cup In(failed) \/ Deleted(d) THEN "ended"
        ELSE IF d = current THEN "running" ELSE "waiting"]

Promised == INSTANCE DeliveryQueue WITH
    Item <- Delivery, MaxTries <- MaxAttempts, state <- Standing, tries <- runs

\* Directories, batches, recovery and half-done retries add up to a queue that
\* runs one delivery at a time, within the limit, and never runs again what was
\* completed, given up or removed.  run_local_trigger_queue, LocalTriggerStore
KeepsPromise == Promised!Spec

\* If the gateway stays up, whatever is in the queue ends: completed, given up,
\* or removed with its trigger.
QueueEmpties ==
    <>[](stage # "down") => []<>(In(inbox) \cup In(processing) = {})
=============================================================================
