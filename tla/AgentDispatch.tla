--------------------------- MODULE AgentDispatch ---------------------------
(***************************************************************************)
(* The dispatcher of the agent: the inbound bus, the run loop that routes  *)
(* each message, the one-turn-at-a-time lane of every session (a FIFO lock *)
(* shared with direct calls), the process-wide concurrency gate, the       *)
(* mid-turn injection queues, the deferred automation turns and the two    *)
(* commands that cancel work (/stop and /new).                             *)
(*                                                                         *)
(* A message is also the identity of the asyncio task made for it, so      *)
(* `stage' follows one id from the bus to the end of its turn.  Steps are  *)
(* the stretches of code between two awaits that can really suspend:       *)
(* putting on the unbounded bus does not, so it never ends a step.         *)
(***************************************************************************)
EXTENDS Naturals, Sequences, FiniteSets, SequencesExt

CONSTANTS
    Msg,          \* messages, calls and continuations of one run
    Session,      \* effective session keys
    NoMsg,        \* not a message
    SessionOf,    \* [Msg -> Session]
    Kind,         \* [Msg -> Kinds]
    NeedsSession, \* messages sent with require_existing_session, by channels only
    Coalesce,     \* is the debounce window of run() open (> 0)?
    GateSize,     \* NANOBOT_MAX_CONCURRENT_REQUESTS, 0 for no gate
    PendingMax,   \* capacity of a mid-turn queue (20)
    RunNowAllowed \* may a turn call the cron tool with action run_now?

(***************************************************************************)
(* user     a person's text             auto  a cron or local-trigger turn *)
(* system   a subagent result           cont  a goal continuation          *)
(* autocont a goal continuation of an automation turn, with its metadata   *)
(* stop     /stop                       new   /new                         *)
(* cmd      any other slash command     direct  a process_direct call      *)
(* discard  the session_discard runtime control                            *)
(***************************************************************************)
Kinds == {"user", "auto", "system", "cont", "autocont", "stop", "new", "cmd", "direct", "discard"}

\* The metadata of these names an automation turn (should_defer_turn).
Automated(m) == Kind[m] \in {"auto", "autocont"}

ASSUME DispatchAssumption ==
    /\ IsFiniteSet(Msg)
    /\ NoMsg \notin Msg
    /\ SessionOf \in [Msg -> Session]
    /\ Kind \in [Msg -> Kinds]
    /\ NeedsSession \subseteq {m \in Msg : ~Automated(m)}
    /\ Coalesce \in BOOLEAN
    /\ RunNowAllowed \in BOOLEAN
    /\ GateSize \in Nat
    /\ PendingMax \in Nat \ {0}

VARIABLES
    bus,       \* MessageBus.inbound
    ready,     \* tasks made by run() whose coroutine has not started, oldest first
    stage,     \* where each message is
    lockQ,     \* per session: holder of the session lock, then its waiters
    gateQ,     \* tasks waiting for the concurrency gate
    active,    \* keys of _pending_queues
    pending,   \* contents of the mid-turn queues
    deferred,  \* _deferred_automation_turns
    tracked,   \* tasks in _active_tasks
    doomed,    \* tasks whose cancel() has not reached them yet
    awaiting,  \* what a cancelling command or a run_now call waits for
    waiter,    \* the future of AutomationTurnCoordinator.submit
    home       \* the turn whose prompt took the text of a message

vars == <<bus, ready, stage, lockQ, gateQ, active, pending, deferred,
          tracked, doomed, awaiting, waiter, home>>

TurnStages == {"running", "resetting", "runnow", "yielding", "yielded"}
HoldStages == TurnStages \cup {"gatewait", "closing"}
Stages == HoldStages \cup
    {"new", "queued", "merging", "executing", "ready", "lockwait",
     "absorbed", "handled", "dropped", "ended"}
Waits == {"none", "waiting", "ok", "error", "abandoned"}

TypeOK ==
    /\ bus \in Seq(Msg)
    /\ ready \in Seq(Msg)
    /\ stage \in [Msg -> Stages]
    /\ lockQ \in [Session -> Seq(Msg)]
    /\ gateQ \in Seq(Msg)
    /\ active \subseteq Session
    /\ pending \in [Session -> Seq(Msg)]
    /\ deferred \in [Session -> Seq(Msg)]
    /\ tracked \subseteq Msg
    /\ doomed \subseteq Msg
    /\ awaiting \in [Msg -> SUBSET Msg]
    /\ waiter \in [Msg -> Waits]
    /\ home \in [Msg -> Msg \cup {NoMsg}]

Init ==
    /\ bus = <<>>
    /\ ready = <<>>
    /\ stage = [m \in Msg |-> "new"]
    /\ lockQ = [s \in Session |-> <<>>]
    /\ gateQ = <<>>
    /\ active = {}
    /\ pending = [s \in Session |-> <<>>]
    /\ deferred = [s \in Session |-> <<>>]
    /\ tracked = {}
    /\ doomed = {}
    /\ awaiting = [m \in Msg |-> {}]
    /\ waiter = [m \in Msg |-> "none"]
    /\ home = [m \in Msg |-> NoMsg]

-----------------------------------------------------------------------------
(* Producers *)

\* A channel, the cron service or another component publishes a message;
\* an automation turn registers its future first (submit).
Send(m) ==
    /\ stage[m] = "new"
    /\ Kind[m] \notin {"direct", "cont", "autocont"}
    /\ bus' = Append(bus, m)
    /\ stage' = [stage EXCEPT ![m] = "queued"]
    /\ waiter' = IF Kind[m] = "auto" THEN [waiter EXCEPT ![m] = "waiting"] ELSE waiter
    /\ UNCHANGED <<ready, lockQ, gateQ, active, pending, deferred, tracked,
                   doomed, awaiting, home>>

\* process_direct queues on the lock of the session: no gate, no mid-turn queue.
CallDirect(m) ==
    /\ stage[m] = "new"
    /\ Kind[m] = "direct"
    /\ stage' = [stage EXCEPT ![m] = "lockwait"]
    /\ lockQ' = [lockQ EXCEPT ![SessionOf[m]] = Append(@, m)]
    /\ UNCHANGED <<bus, ready, gateQ, active, pending, deferred, tracked,
                   doomed, awaiting, waiter, home>>

-----------------------------------------------------------------------------
(* The run loop: one message at a time, in bus order *)

LoopFree == \A m \in Msg : stage[m] \notin {"merging", "executing"}

Consume(m) ==
    /\ LoopFree
    /\ bus # <<>>
    /\ m = Head(bus)
    /\ bus' = Tail(bus)

IsCommand(m) == Kind[m] \in {"new", "cmd"}

\* require_existing_session and the session is not cached: message ignored.
DropUnknown(m) ==
    /\ Consume(m)
    /\ m \in NeedsSession
    /\ stage' = [stage EXCEPT ![m] = "dropped"]
    /\ UNCHANGED <<ready, lockQ, gateQ, active, pending, deferred, tracked,
                   doomed, awaiting, waiter, home>>

\* _cancel_active_tasks: forget the tasks of the session, cancel them all and
\* wait for each; a /new turn that cancels itself swallows its own cancel.
ActiveTasksBug(c) == {t \in tracked : SessionOf[t] = SessionOf[c] /\ stage[t] \in TurnStages}
ActiveTasks(c) == {t \in tracked : SessionOf[t] = SessionOf[c]}
CancelActive(c) ==
    /\ tracked' = tracked \ ActiveTasks(c)
    /\ doomed' = doomed \cup (ActiveTasks(c) \ {c})
    /\ awaiting' = [awaiting EXCEPT ![c] = ActiveTasks(c) \ {c}]

\* /stop, session_discard, and /new beside an active turn run inside run().
BeginCommand(c) ==
    /\ Consume(c)
    /\ \/ Kind[c] \in {"stop", "discard"}
       \/ Kind[c] = "new" /\ SessionOf[c] \in active
    /\ CancelActive(c)
    /\ stage' = [stage EXCEPT ![c] = "executing"]
    /\ UNCHANGED <<ready, lockQ, gateQ, active, pending, deferred, waiter, home>>

\* The mid-turn queue of the session is no longer found by run().
UnregisterBug(s) ==
    /\ UNCHANGED active
    /\ pending' = [pending EXCEPT ![s] = <<>>]
Unregister(s) ==
    /\ active' = active \ {s}
    /\ pending' = [pending EXCEPT ![s] = <<>>]

\* The cancelled tasks are done; cmd_stop then drops what is still queued.
EndCommand(c) ==
    LET s == SessionOf[c]
        drop == IF Kind[c] = "stop" THEN ToSet(pending[s]) ELSE {} IN
    /\ stage[c] = "executing"
    /\ \A t \in awaiting[c] : stage[t] = "ended"
    /\ awaiting' = [awaiting EXCEPT ![c] = {}]
    /\ stage' = [m \in Msg |-> IF m \in drop THEN "dropped"
                               ELSE IF m = c THEN "handled" ELSE stage[m]]
    /\ IF Kind[c] = "stop"
         THEN Unregister(s)
         ELSE UNCHANGED <<active, pending>>
    /\ UNCHANGED <<bus, ready, lockQ, gateQ, deferred, tracked, doomed, waiter, home>>

\* Any other command beside an active turn is answered at once.
AnswerCommand(m) ==
    /\ Consume(m)
    /\ Kind[m] = "cmd"
    /\ SessionOf[m] \in active
    /\ stage' = [stage EXCEPT ![m] = "handled"]
    /\ UNCHANGED <<ready, lockQ, gateQ, active, pending, deferred, tracked,
                   doomed, awaiting, waiter, home>>

\* An automation turn whose session is active waits in the deferred queue.
Defer(m) ==
    /\ Consume(m)
    /\ Automated(m)
    /\ SessionOf[m] \in active
    /\ deferred' = [deferred EXCEPT ![SessionOf[m]] = Append(@, m)]
    /\ UNCHANGED <<ready, stage, lockQ, gateQ, active, pending, tracked,
                   doomed, awaiting, waiter, home>>

Injectable(m) ==
    /\ Kind[m] \in {"user", "system", "cont"}
    /\ SessionOf[m] \in active

\* A follow-up of an active turn goes to its mid-turn queue.
RouteFollowUp(m) ==
    /\ Consume(m)
    /\ Injectable(m)
    /\ Len(pending[SessionOf[m]]) < PendingMax
    /\ pending' = [pending EXCEPT ![SessionOf[m]] = Append(@, m)]
    /\ UNCHANGED <<ready, stage, lockQ, gateQ, active, deferred, tracked,
                   doomed, awaiting, waiter, home>>

StartsTurn(m) ==
    \/ /\ SessionOf[m] \notin active
       /\ Kind[m] \notin {"stop", "discard"}
    \/ Injectable(m) /\ Len(pending[SessionOf[m]]) >= PendingMax

CreateTask(m) ==
    /\ ready' = Append(ready, m)
    /\ tracked' = tracked \cup {m}

\* No window, or a message that is not plain user input: a task at once.
OpenTurn(m) ==
    /\ Consume(m)
    /\ StartsTurn(m)
    /\ ~Coalesce \/ Kind[m] = "system" \/ IsCommand(m)
    /\ CreateTask(m)
    /\ stage' = [stage EXCEPT ![m] = "ready"]
    /\ UNCHANGED <<lockQ, gateQ, active, pending, deferred, doomed,
                   awaiting, waiter, home>>

\* _coalesce_same_session holds the first message for the debounce window.
OpenWindow(m) ==
    /\ Consume(m)
    /\ StartsTurn(m)
    /\ Coalesce /\ Kind[m] # "system" /\ ~IsCommand(m)
    /\ stage' = [stage EXCEPT ![m] = "merging"]
    /\ UNCHANGED <<ready, lockQ, gateQ, active, pending, deferred, tracked,
                   doomed, awaiting, waiter, home>>

\* User input of the session that is_dispatchable_command rejects: the
\* predicate is False for priority commands, and a control has no text.
Mergeable(first, nxt) ==
    /\ SessionOf[nxt] = SessionOf[first]
    /\ Kind[nxt] # "system"
    /\ ~IsCommand(nxt)

\* The next message joins the first one: its own metadata is dropped.
MergeNext(m) ==
    /\ stage[m] = "merging"
    /\ bus # <<>>
    /\ Mergeable(m, Head(bus))
    /\ bus' = Tail(bus)
    /\ stage' = [stage EXCEPT ![Head(bus)] = "absorbed"]
    /\ home' = [home EXCEPT ![Head(bus)] = m]
    /\ UNCHANGED <<ready, lockQ, gateQ, active, pending, deferred, tracked,
                   doomed, awaiting, waiter>>

\* The window ends: on its deadline, or on a message that cannot be merged,
\* which is published again behind everything that is waiting.
CloseWindow(m) ==
    /\ stage[m] = "merging"
    /\ \/ bus' = bus
       \/ /\ bus # <<>>
          /\ ~Mergeable(m, Head(bus))
          /\ bus' = Append(Tail(bus), Head(bus))
    /\ CreateTask(m)
    /\ stage' = [stage EXCEPT ![m] = "ready"]
    /\ UNCHANGED <<lockQ, gateQ, active, pending, deferred, doomed,
                   awaiting, waiter, home>>

-----------------------------------------------------------------------------
(* Turns: _dispatch and process_direct *)

Without(q, m) ==
    IF m \in ToSet(q) THEN RemoveAt(q, CHOOSE i \in DOMAIN q : q[i] = m) ELSE q

Live(m) == m \notin doomed
OwnerBug(m) == lockQ[SessionOf[m]] # <<>>
Owner(m) == lockQ[SessionOf[m]] # <<>> /\ Head(lockQ[SessionOf[m]]) = m

\* The coroutine of the oldest new task starts and queues on the lock.
StartTask(m) ==
    /\ ready # <<>>
    /\ m = Head(ready)
    /\ Live(m)
    /\ ready' = Tail(ready)
    /\ stage' = [stage EXCEPT ![m] = "lockwait"]
    /\ lockQ' = [lockQ EXCEPT ![SessionOf[m]] = Append(@, m)]
    /\ UNCHANGED <<bus, gateQ, active, pending, deferred, tracked, doomed,
                   awaiting, waiter, home>>

\* A task takes the lock and queues on the gate; a direct call starts its turn.
AcquireLock(m) ==
    /\ stage[m] = "lockwait"
    /\ Owner(m)
    /\ Live(m)
    /\ IF Kind[m] = "direct"
         THEN /\ stage' = [stage EXCEPT ![m] = "running"]
              /\ home' = [home EXCEPT ![m] = m]
              /\ UNCHANGED gateQ
         ELSE /\ stage' = [stage EXCEPT ![m] = "gatewait"]
              /\ gateQ' = Append(gateQ, m)
              /\ UNCHANGED home
    /\ UNCHANGED <<bus, ready, lockQ, active, pending, deferred, tracked,
                   doomed, awaiting, waiter>>

GateHoldersBug == {m \in Msg : Kind[m] # "direct" /\ stage[m] \in TurnStages \cup {"closing", "ended"}}
GateHolders == {m \in Msg : Kind[m] # "direct" /\ stage[m] \in TurnStages \cup {"closing"}}
GateOpen == GateSize = 0 \/ Cardinality(GateHolders) < GateSize

\* The owner of the lock passes the gate and registers its mid-turn queue.
BeginTurn(m) ==
    /\ gateQ # <<>>
    /\ m = Head(gateQ)
    /\ stage[m] = "gatewait"
    /\ Live(m)
    /\ GateOpen
    /\ gateQ' = Tail(gateQ)
    /\ stage' = [stage EXCEPT ![m] = "running"]
    /\ active' = active \cup {SessionOf[m]}
    /\ pending' = [pending EXCEPT ![SessionOf[m]] = <<>>]
    /\ home' = [home EXCEPT ![m] = m]
    /\ UNCHANGED <<bus, ready, lockQ, deferred, tracked, doomed, awaiting, waiter>>

Undrained(s) == Tail(pending[s])

\* _drain_pending: a follow-up enters the prompt of the running turn.
Inject(m) ==
    LET s == SessionOf[m] IN
    /\ stage[m] = "running"
    /\ Live(m)
    /\ Kind[m] # "direct" /\ ~IsCommand(m)
    /\ s \in active
    /\ pending[s] # <<>>
    /\ pending' = [pending EXCEPT ![s] = Undrained(s)]
    /\ stage' = [stage EXCEPT ![Head(pending[s])] = "absorbed"]
    /\ home' = [home EXCEPT ![Head(pending[s])] = m]
    /\ UNCHANGED <<bus, ready, lockQ, gateQ, active, deferred, tracked,
                   doomed, awaiting, waiter>>

\* The cron tool submits an automation turn and waits for its answer.
RunNow(m, a) ==
    /\ RunNowAllowed
    /\ stage[m] = "running"
    /\ Live(m)
    /\ ~IsCommand(m)
    /\ stage[a] = "new"
    /\ Kind[a] = "auto"
    /\ bus' = Append(bus, a)
    /\ stage' = [stage EXCEPT ![m] = "runnow", ![a] = "queued"]
    /\ waiter' = [waiter EXCEPT ![a] = "waiting"]
    /\ awaiting' = [awaiting EXCEPT ![m] = {a}]
    /\ UNCHANGED <<ready, lockQ, gateQ, active, pending, deferred, tracked, doomed, home>>

RunNowReturns(m) ==
    /\ stage[m] = "runnow"
    /\ Live(m)
    /\ \A a \in awaiting[m] : waiter[a] \in {"ok", "error"}
    /\ stage' = [stage EXCEPT ![m] = "running"]
    /\ awaiting' = [awaiting EXCEPT ![m] = {}]
    /\ UNCHANGED <<bus, ready, lockQ, gateQ, active, pending, deferred,
                   tracked, doomed, waiter, home>>

\* /new as a turn: it cancels the other tasks of its session, and itself.
BeginReset(m) ==
    /\ stage[m] = "running"
    /\ Live(m)
    /\ Kind[m] = "new"
    /\ CancelActive(m)
    /\ stage' = [stage EXCEPT ![m] = "resetting"]
    /\ UNCHANGED <<bus, ready, lockQ, gateQ, active, pending, deferred, waiter, home>>

\* A continuation is its turn's message with other text; only turns that are user
\* input have one.
Continuations(m) ==
    {c \in Msg :
        /\ stage[c] = "new" /\ SessionOf[c] = SessionOf[m]
        /\ \/ Kind[c] = "cont" /\ Kind[m] \in {"user", "cont"}
           \/ Kind[c] = "autocont" /\ Automated(m)}

\* maybe_continue_turn: the budget is spent and a goal is active.
BeginContinue(m) ==
    /\ stage[m] = "running"
    /\ Live(m)
    /\ Continuations(m) # {}
    /\ stage' = [stage EXCEPT ![m] = "yielding"]
    /\ UNCHANGED <<bus, ready, lockQ, gateQ, active, pending, deferred,
                   tracked, doomed, awaiting, waiter, home>>

\* ... the continuation is put on the turn's own queue, waiting for room.
PutContinuation(m) ==
    LET s == SessionOf[m] IN
    /\ stage[m] = "yielding"
    /\ Live(m)
    /\ Len(pending[s]) < PendingMax
    /\ \E c \in Continuations(m) :
         /\ pending' = [pending EXCEPT ![s] = Append(@, c)]
         /\ stage' = [stage EXCEPT ![m] = "yielded", ![c] = "queued"]
    /\ UNCHANGED <<bus, ready, lockQ, gateQ, active, deferred, tracked,
                   doomed, awaiting, waiter, home>>

\* The oldest deferred turn of the session, and what is left behind it.
DueBug(s) == Len(deferred[s]) > 1
Due(s) == deferred[s] # <<>>
NextDeferredBug(s) == IF Due(s) THEN <<Head(deferred[s])>> ELSE <<NoMsg>>
NextDeferred(s) == IF Due(s) THEN <<Head(deferred[s])>> ELSE <<>>
LaterDeferred(s) == IF Due(s) THEN Tail(deferred[s]) ELSE deferred[s]

\* The end of _dispatch: publish one deferred turn and let go of the lock.
Depart(m, left) ==
    LET s == SessionOf[m] IN
    /\ bus' = bus \o left \o NextDeferred(s)
    /\ deferred' = [deferred EXCEPT ![s] = LaterDeferred(s)]
    /\ lockQ' = [lockQ EXCEPT ![s] = Tail(@)]
    /\ stage' = [stage EXCEPT ![m] = "ended"]
    /\ tracked' = tracked \ {m}

\* The future of an automation turn is settled, unless nobody waits for it;
\* a turn cancelled inside run_now abandons the future it was waiting for.
SettleBug(m, verdict) ==
    waiter' = IF verdict = "ok" /\ waiter[m] = "waiting"
              THEN [waiter EXCEPT ![m] = "ok"] ELSE waiter
Settle(m, verdict) ==
    waiter' = [x \in Msg |->
        IF waiter[x] # "waiting" THEN waiter[x]
        ELSE IF x = m THEN verdict
        ELSE IF stage[m] = "runnow" /\ x \in awaiting[m] THEN "abandoned"
        ELSE waiter[x]]

LeftoversBug(s) == <<>>
Leftovers(s) == pending[s]

\* The finally block: unregister the queue and publish the leftovers again.  A
\* continuing turn goes on to Depart; any other first awaits idle() and the
\* release of its sandbox.
EndTurn(m, verdict) ==
    LET s == SessionOf[m] IN
    /\ Settle(m, verdict)
    /\ Unregister(s)
    /\ awaiting' = [awaiting EXCEPT ![m] = {}]
    /\ doomed' = doomed \ {m}
    /\ IF stage[m] \in {"yielding", "yielded"}
         THEN Depart(m, Leftovers(s))
         ELSE /\ bus' = bus \o Leftovers(s)
              /\ stage' = [stage EXCEPT ![m] = "closing"]
              /\ UNCHANGED <<deferred, lockQ, tracked>>
    /\ UNCHANGED <<ready, gateQ, home>>

\* The turn answers, or fails with an exception.
FinishTurn(m, verdict) ==
    /\ Kind[m] # "direct"
    /\ Live(m)
    /\ \/ stage[m] = "running" /\ Kind[m] # "new"
       \/ stage[m] = "yielded"
       \/ stage[m] = "resetting" /\ \A t \in awaiting[m] : stage[t] = "ended"
    /\ EndTurn(m, verdict)

CloseTurn(m) ==
    /\ stage[m] = "closing"
    /\ Live(m)
    /\ Depart(m, <<>>)
    /\ UNCHANGED <<ready, gateQ, active, pending, doomed, awaiting, waiter, home>>

ReturnDirect(m) ==
    /\ Kind[m] = "direct"
    /\ stage[m] = "running"
    /\ stage' = [stage EXCEPT ![m] = "ended"]
    /\ lockQ' = [lockQ EXCEPT ![SessionOf[m]] = Tail(@)]
    /\ UNCHANGED <<bus, ready, gateQ, active, pending, deferred, tracked,
                   doomed, awaiting, waiter, home>>

-----------------------------------------------------------------------------
(* Where a cancel() reaches a task *)

\* Before its first step: the body, and so its finally blocks, never run.
CancelUnstarted(m) ==
    /\ m \in doomed
    /\ ready # <<>>
    /\ m = Head(ready)
    /\ ready' = Tail(ready)
    /\ stage' = [stage EXCEPT ![m] = "ended"]
    /\ doomed' = doomed \ {m}
    /\ UNCHANGED <<bus, lockQ, gateQ, active, pending, deferred, tracked,
                   awaiting, waiter, home>>

\* While it waits for the lock or the gate: it publishes a deferred turn, but
\* completes no automation future.
CancelWaiting(m) ==
    LET s == SessionOf[m] IN
    /\ m \in doomed
    /\ stage[m] \in {"lockwait", "gatewait"}
    /\ bus' = bus \o NextDeferred(s)
    /\ deferred' = [deferred EXCEPT ![s] = LaterDeferred(s)]
    /\ lockQ' = [lockQ EXCEPT ![s] =
                   IF stage[m] = "gatewait" THEN Tail(@) ELSE Without(@, m)]
    /\ gateQ' = Without(gateQ, m)
    /\ stage' = [stage EXCEPT ![m] = "ended"]
    /\ doomed' = doomed \ {m}
    /\ UNCHANGED <<ready, active, pending, tracked, awaiting, waiter, home>>

\* Inside the turn, wherever it waits.
CancelTurnBug(m) ==
    /\ m \in doomed
    /\ stage[m] = "running"
    /\ EndTurn(m, "error")
CancelTurn(m) ==
    /\ m \in doomed
    /\ stage[m] \in TurnStages
    /\ EndTurn(m, "error")

\* In the awaits after the leftovers: no deferred turn is published.
CancelClosing(m) ==
    /\ m \in doomed
    /\ stage[m] = "closing"
    /\ lockQ' = [lockQ EXCEPT ![SessionOf[m]] = Tail(@)]
    /\ stage' = [stage EXCEPT ![m] = "ended"]
    /\ doomed' = doomed \ {m}
    /\ UNCHANGED <<bus, ready, gateQ, active, pending, deferred, tracked,
                   awaiting, waiter, home>>

-----------------------------------------------------------------------------

LoopStep ==
    \E m \in Msg :
        \/ DropUnknown(m) \/ BeginCommand(m) \/ EndCommand(m) \/ AnswerCommand(m)
        \/ Defer(m) \/ RouteFollowUp(m) \/ OpenTurn(m)
        \/ OpenWindow(m) \/ MergeNext(m) \/ CloseWindow(m)

\* The steps a task takes unless it is blocked.
TaskStep(m) ==
    \/ StartTask(m) \/ AcquireLock(m) \/ BeginTurn(m)
    \/ RunNowReturns(m) \/ BeginReset(m) \/ PutContinuation(m)
    \/ \E verdict \in {"ok", "error"} : FinishTurn(m, verdict)
    \/ CloseTurn(m) \/ ReturnDirect(m)
    \/ CancelUnstarted(m) \/ CancelWaiting(m) \/ CancelTurn(m) \/ CancelClosing(m)

\* What a turn may or may not do, as its model and its inputs decide.
TurnChoice(m) ==
    \/ Inject(m) \/ BeginContinue(m)
    \/ \E a \in Msg : RunNow(m, a)

Next ==
    \/ \E m \in Msg : Send(m) \/ CallDirect(m)
    \/ LoopStep
    \/ \E m \in Msg : TaskStep(m) \/ TurnChoice(m)

Spec == Init /\ [][Next]_vars

\* The event loop runs every task that can run, and a turn ends: its model
\* calls time out and its iterations are bounded.
Fairness == WF_vars(LoopStep) /\ \A m \in Msg : WF_vars(TaskStep(m))

FairSpec == Spec /\ Fairness
-----------------------------------------------------------------------------
(* Safety *)

Holding(m) == stage[m] \in HoldStages

\* Turns of one session never overlap, whether they come from the bus, from the
\* deferred queue or from process_direct: _dispatch is "per-session serial".
OneTurnPerSession ==
    \A m, n \in Msg :
        Holding(m) /\ Holding(n) /\ SessionOf[m] = SessionOf[n] => m = n

\* Whoever holds the lock of a session is the head of its queue: a hand-over, a
\* release or the cancel of a waiter never takes the lock from its holder.
HolderIsHead == \A m \in Msg : Holding(m) => Owner(m)

\* A registered mid-turn queue has a turn that will drain it or publish it
\* again, and an unregistered one holds nothing: no follow-up is stranded.
PendingHasReader ==
    \A s \in Session :
        IF s \in active
        THEN \E m \in Msg : /\ SessionOf[m] = s
                             /\ Kind[m] # "direct"
                             /\ stage[m] \in TurnStages
        ELSE pending[s] = <<>>

Occurrences(q, m) == Cardinality({i \in DOMAIN q : q[i] = m})

\* A message that was accepted and not yet taken is in exactly one of the bus,
\* its session's mid-turn queue and its deferred queue, exactly once: routing,
\* re-publication and cancellation neither lose nor duplicate it.
NothingLost ==
    \A m \in Msg :
        LET s == SessionOf[m] IN
        Occurrences(bus, m) + Occurrences(pending[s], m) + Occurrences(deferred[s], m)
            = IF stage[m] = "queued" THEN 1 ELSE 0

HasPublisher(s) ==
    deferred[s] # <<>> =>
        \E m \in Msg :
            /\ SessionOf[m] = s
            /\ Kind[m] # "direct"
            /\ \/ stage[m] \in HoldStages \cup {"ready", "lockwait", "merging"}
               \/ Automated(m) /\ m \in ToSet(bus)

\* A deferred automation turn has a successor to publish it: a task of its
\* session that will end, or an automation turn already on the way to be one.
DeferredHasPublisher == \A s \in Session : HasPublisher(s)

Settled(a) ==
    Kind[a] = "auto" /\ stage[a] \in {"closing", "ended"} => waiter[a] # "waiting"

\* An automation turn that is over has settled the future of its submitter.
EndedTurnSettled == \A a \in Msg : Settled(a)

\* What joins the prompt of another turn is text meant for it: a follow-up, a
\* subagent result or a continuation, never an automation turn, which has a
\* submitter of its own, nor a command or a runtime control.
OnlyTextIsShared ==
    \A m \in Msg : home[m] \notin {NoMsg, m} => Kind[m] \in {"user", "system", "cont"}

-----------------------------------------------------------------------------
(* What the dispatcher is for *)

\* A holder of the lock that waits for the gate is not served yet.
Lane ==
    [m \in Msg |->
        CASE stage[m] = "new" -> "new"
          [] stage[m] \in TurnStages \cup {"closing"} -> "served"
          [] stage[m] = "absorbed" -> "joined"
          [] stage[m] \in {"handled", "dropped", "ended"} -> "over"
          [] OTHER -> "waiting"]

Lanes == INSTANCE SessionLane WITH
    Item <- Msg, LaneOf <- SessionOf, Nowhere <- NoMsg, state <- Lane, host <- home

\* The dispatcher implements SessionLane: a message is served or joins another
\* turn of its session once at most, and what is over never runs again,
\* whatever is routed, published again, deferred, merged, stopped or cancelled.
ServesLanes == Lanes!Spec

-----------------------------------------------------------------------------
(* Action properties *)

\* While /stop runs, no turn of its session that came from the bus begins: the
\* tasks that wait for the lock or the gate were cancelled with the active one.
StopFreezesSession ==
    [][\A c, m \in Msg :
          /\ stage[c] = "executing"
          /\ SessionOf[m] = SessionOf[c]
          => ~(stage[m] = "gatewait" /\ stage'[m] = "running")]_vars

-----------------------------------------------------------------------------
(* Liveness, under Fairness *)

\* Every message that is accepted is taken into a turn, executed or ignored.
EveryMessageTaken == \A m \in Msg : stage[m] = "queued" ~> stage[m] # "queued"

\* Every task comes to its end: no turn keeps a session or the gate for ever.
EveryTaskEnds ==
    \A m \in Msg : stage[m] \in HoldStages \cup {"ready", "lockwait"} ~> stage[m] = "ended"

\* Whoever submits an automation turn gets its answer or its error.
SubmitAnswered ==
    \A a \in {m \in Msg : Kind[m] = "auto"} : waiter[a] = "waiting" ~> waiter[a] # "waiting"

\* /stop, /new and session_discard come back, whatever the turn is blocked on.
CommandReturns ==
    \A c \in {m \in Msg : Kind[m] \in {"stop", "new", "discard"}} :
        stage[c] = "executing" ~> stage[c] = "handled"
=============================================================================
