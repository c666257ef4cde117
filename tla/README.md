# A verification project for nanobot

`src/` holds nanobot, a personal agent: a gateway process (`src/nanobot`, Python, one asyncio event
loop) that takes messages from chat channels, schedulers and scripts, runs a language model with tools
for each, and sends the answers back; a web UI and a terminal client (`src/webui`, `src/tui`,
`src/atlas-web`, TypeScript); and deployment files (`src/supabase`, `src/scripts`).

The project models the parts where the difficulty is order, failure and concurrency rather than text.
It follows a message on its way through the program: how it becomes a turn, how the turn asks the model
and streams the answer to a screen, what stays of it in the history and in the long-term memory; and the
two schedulers that start turns on their own. Modules are written from the Python source; docs, comments
and tests of the repository are only used to say what the code promises.

* [Inventory](#inventory), [Plan](#plan)
* the way of a message: [AgentDispatch and SessionLane](#agentdispatch-and-sessionlane), [ProviderFallback](#providerfallback),
  [StreamDelivery](#streamdelivery), [TurnHistory](#turnhistory), [SessionMemory](#sessionmemory)
* the schedulers: [LocalTriggerQueue and DeliveryQueue](#localtriggerqueue-and-deliveryqueue),
  [CronService](#cronservice)
* [Runs](#runs), [Disagreements found](#disagreements-found), [Proofs](#proofs)
* [What is not modelled](#what-is-not-modelled)

How to run, in this directory:

    tlc -config dispatch_turns.cfg MCDispatch      # any .cfg of the table of runs, with its module
    tlapm AgentDispatchProofs.tla                  # and the other *Proofs modules

## Inventory

`PROJECT.json` lists every component with its files, and every hazard with its line. The components
with state worth a model:

| component | state it keeps | operations | what makes it correct |
|---|---|---|---|
| agent dispatch (`agent/loop.py` `run`, `_dispatch`, `process_direct`, `_coalesce_same_session`; `agent/automation_turns.py`; `bus/queue.py`) | inbound bus, one lock per session, the concurrency gate, a mid-turn queue per active session, deferred automation turns, the futures of their submitters, the set of active tasks | consume and route a message, debounce, open a turn, inject a follow-up, defer and publish automation turns, `/stop`, `/new`, `session_discard` | turns of a session do not overlap; no message is lost or read twice; a cancel leaves nothing behind; submitters are answered |
| turn history (`agent/loop.py` restore/build/persist; checkpoints of `agent/runner.py`; `session/turn_continuation.py`) | the transcript of the turn, the runtime checkpoint and the pending mark in the session's metadata | restore, persist the user row early, checkpoint, inject, conclude, persist | after any interruption the history is well formed, holds what a checkpoint held, and holds it once |
| session manager (`session/manager.py`) | cached sessions and their files | load, save (atomic replace), flush, rename, delete, archive | the file is a prefix of the cache, a failed save leaves the old file |
| local triggers (`triggers/`) | `inbox/`, `processing/`, `failed/` directories, the list of triggers, the batch in memory | enqueue, claim, complete, retry, recover, enable, delete | at least once, bounded attempts, order of arrival, ended stays ended |
| cron service (`cron/service.py`) | the job store, a dirty flag, an action journal written by other processes, the timer task, a count of active executions | tick, execute, add, update, enable, remove, run now, merge the journal | a due job runs once per due time, a removed job stays removed, edits of other processes survive |
| agent runner (`agent/runner.py`) | iteration, injection and retry counters | ask the model, run tools, drain injections, recover from length limits | bounded work, every tool call answered |
| subagents (`agent/subagent.py`) | running tasks by session | spawn, run inline, announce, cancel by session | a cancelled session has no subagent, each result is announced once |
| provider fallback (`providers/fallback_provider.py`, `providers/base.py`) | failure count, the time the breaker tripped, whether content was streamed | call the primary, retry, fail over | no second stream after content without a recovery, the breaker closes again |
| channel manager (`channels/manager.py`) | outbound queue, the look-ahead buffer, fingerprints of answers | coalesce deltas, send with retry, suppress duplicates | order within a chat, no delta lost |
| memory (`agent/memory.py`, `agent/autocompact.py`) | consolidation offsets, locks, the set of sessions being archived | consolidate, compact an idle session | no message consolidated twice or skipped, active sessions left alone |
| pairing (`pairing/store.py`) | pending codes, approved senders | generate, approve, deny, revoke | a code is used once and not after it expired |
| Atlas (`atlas/`) | proposals, approvals, steps | approve, execute, record an outcome | nothing runs without its approval |

How they interact. Channels, the web UI, the cron service and the trigger queue publish to the inbound
bus or await `submit`; the run loop turns messages into tasks; a task takes the session's lock and a
slot of the gate, then runs a turn, which reads and writes the session through the session manager,
calls the provider, spawns subagents (whose results come back over the bus) and may submit automation
turns of its own (`run_now`); answers go through the outbound queue to the channel manager. The web UI
calls the stores directly. Cron jobs and trigger deliveries wait for the future of their turn, so the
dispatcher's liveness is theirs.

What is hard: the event loop interleaves tasks at every await; a task can be cancelled at any of them,
also in its `finally` blocks; several components persist state in steps and the process can die between
two; other processes (`nanobot trigger`, `nanobot cron`) write the same directories; queues are bounded
and some are filled by the task that drains them; most waits have no timeout.

## Plan

Order: what the whole system rests on first. Done, each with its model, its runs and, where noted, its
proofs:

1. **AgentDispatch** - every safety property proved, and that it implements
2. **SessionLane**, the abstract lane of a session.
3. **TurnHistory** - it assumes what AgentDispatch proves, that turns of a session do not overlap; all
   seven properties proved.
4. **LocalTriggerQueue** - safety proved, and that it implements
5. **DeliveryQueue**, the abstract at-least-once queue.
6. **CronService** - it takes a turn as something that may stay unanswered for ever, which is what
   `dispatch_run_now` shows can happen; all five safety properties proved.
7. **SessionMemory**, the objects of a session under consolidation, compaction and `/new`; all three
   invariants proved.
8. **ProviderFallback**, the three retry loops around a streaming request; both invariants proved.
9. **StreamDelivery**, from a turn's deltas to the screen; all three invariants proved.

To come, in this order:

10. When the properties that fail do hold: `TextOnce` of StreamDelivery without failed attempts,
    `OneTimeRunsOnce` of CronService without edits, `FreshStart` of SessionMemory without an archive in
    flight. `OnlyTheWindowMixes` of AgentDispatch is such a theorem already.
11. **Subagents** against `/stop` and **TurnRunner** (bounds of the iteration), composed with the
    dispatcher by the messages they publish.
12. **Pairing**, **AtlasChain**, then caches with a limit (plan, task, exec sessions, file state).

Runs stay few, one per question. Bounds: two sessions, jobs or requests, two or three items, queue
capacities of one, so that full and empty, first and last and same and other all occur.

## AgentDispatch and SessionLane

Sources: `agent/loop.py` (`run` 1493-1594, `_dispatch` 1596-1714, `_coalesce_same_session` 991-1040,
`_cancel_active_tasks` 923-940, `process_direct` 2849-2900), `agent/automation_turns.py`,
`command/builtin.py` (`cmd_stop`, `cmd_new`), `session/turn_continuation.py`, `agent/tools/cron.py`
(`run_now`).

A message is also the name of the task made for it, and `stage` follows it:

    new -> queued -> (merging) -> ready -> lockwait -> gatewait -> running -> closing -> ended
                  -> absorbed (merged or injected)   handled (a command)   dropped

| variable | code |
|---|---|
| `bus` | `MessageBus.inbound` |
| `ready` | tasks created by `run()` that have not had their first step |
| `lockQ` | the holder and the waiters of `_session_locks[key]`; `asyncio.Lock` is fair |
| `gateQ` | waiters of `_concurrency_gate` |
| `active`, `pending` | `_pending_queues`: its keys and the bounded queues |
| `deferred`, `waiter` | `AutomationTurnCoordinator`: deferred turns and futures |
| `tracked`, `doomed` | `_active_tasks`, and tasks whose `cancel()` has been called but not delivered |
| `awaiting` | the `gather` of a cancelling command, the future of `run_now` |
| `home` | in which prompt the text of a message ended up; no counterpart, it is for the properties |

A step is the code between two awaits that can suspend. Putting on an unbounded queue and taking a free
lock do not suspend, so they end no step; the debounce window, the lock, the gate, the model and the
clean-up after a turn do. A cancel is therefore five actions, by where it lands: before the first step
(the body, and its `finally`, never runs), in the wait for the lock or the gate, in the turn, and in
the clean-up after the leftovers were republished.

Between `running` and the end, the model chooses freely among what a turn can do to the dispatcher:
take follow-ups, call `run_now`, continue a goal, fail, answer. A continuation is put on the turn's own
bounded queue; the queue may be full, because the runner stops draining after its limit of injection
cycles. Only turns that are user input are continued, so a subagent result is not. A continuation copies the
message of its turn: that of an automation turn (`autocont`) keeps its metadata, is deferred like one when the
session is busy, and has no submitter, who is answered when the turn it continues ends.

Abstractions. `/restart` and `/status` are answered like any other command although they are priority
commands; runtime controls other than `session_discard` are left out; so are the events of accepted user
input, `aclose`, and the shutdown of the loop. `require_existing_session` is a set of messages,
none of them an automation turn: only channels set it. Only the
identity of a message and its kind matter.

`SessionLane` says what all this is for, without a bus, a lock or a gate: a message that was accepted is
served in a turn of its own, or joins one other turn of its session, or ends without either; a session
serves one turn at a time; nothing that was decided is decided again. `Lanes == INSTANCE SessionLane WITH
state <- Lane, host <- home` is the mapping, `Lane` reads the state of a message off its stage: whoever
waits for the bus, the window, a queue, the lock or the gate is waiting. A step that moves a message from
one queue to another maps to nothing, `/stop` with what it drops to one end of several messages. The run
checks the mapping as `ServesLanes`, the proof holds for every cast.

Fairness: `WF(LoopStep)` and `WF(TaskStep(m))` for each task. asyncio runs every task that is ready, so
a step that stays enabled is taken. That `FinishTurn` is fair means that a turn ends: calls to the model
and tools time out and iterations are bounded (`agent/runner.py`). Injection, `run_now` and continuation
are choices and have no fairness, nor have producers. Locks and the gate are FIFO in asyncio and
sequences in the model, so weak fairness is enough.

## ProviderFallback

Sources: `providers/fallback_provider.py` (`_try_with_fallback`, the circuit breaker),
`providers/base.py` (`_run_with_retry`, `chat_stream_with_retry`, the persistent mode).

Three loops are nested around one streaming request, and each keeps a flag of its own whether text was
shown: the rounds of a persistent request (`round`), the chain of the primary and its fallbacks
(`chain`), the attempts of one candidate (`candidate`).

| variable | code |
|---|---|
| `call[c].pc`, `at`, `attempt` | where the request is, the candidate, the attempt of `_run_with_retry` |
| `sent` | which of `has_streamed_content` (caller), `has_streamed` (chain), `has_streamed_content` (candidate) are set |
| `muted` | the loops that replaced `on_content_delta` by None |
| `recovers` | whether the caller gave `on_stream_recover` |
| `last`, `same` | the error key and its count of `_PERSISTENT_IDENTICAL_ERROR_LIMIT` |
| `failures`, `circuit` | `_primary_failures`, `_primary_tripped_at` against the cooldown |
| `shown` | history: whose text the open segment on the screen shows |

An action ends where the code awaits the provider. An attempt ends in one of four errors that stand for
the classes the code tells apart: `timeout` (the only one a started stream is resumed after), `busy`
(transient), `auth` (worth another candidate, not another attempt), `refused` (neither); `skipped` is
the error of a chain that asked nobody. Fallback models whose provider cannot be built are passed over,
which is why a candidate is followed by any later one.

Abstractions: requests that do not stream, thinking and tool deltas, the retry without images, the
give-up rule of `rate_limit_aware`, the state of a partial answer, waiting times. `MaxFailures` cuts the
count of failures at the threshold, beyond which the code does not distinguish values.

Fairness: requests to a provider end (they have timeouts) and time passes (`Cool`). Deltas and the next
request of a turn are choices.

## StreamDelivery

Sources: `agent/turn_delivery.py`, `channels/manager.py` (`_dispatch_outbound`,
`_coalesce_stream_deltas`, `_send_with_retry`), `channels/telegram/runtime.py` (`send_delta`).

| variable | code |
|---|---|
| `turn` | the state of `TurnDelivery`: the number of the segment, whether it is open, whether text was streamed |
| `outbound` | `MessageBus.outbound` |
| `pending` | the local list of `_dispatch_outbound`: what coalescing took off the queue and did not merge |
| `sending` | the message and the attempt of `_send_with_retry` |
| `buf` | `_stream_bufs` of the Telegram channel: stream id, text, message id |
| `screen` | the messages Telegram shows; external, changed by `send_message` and `edit_message_text` only |
| `written`, `lost`, `ended` | history: pieces published, pieces of messages given up, streams whose end was sent |

A piece of text is the stream it belongs to and its number, so that order, loss and repetition can be
told apart. A step of the dispatcher ends at a send. `Begin` to `Cancel` are what a turn publishes, from
the notice that the task is active (`Notice`: every turn that streams on Telegram has `publish_lifecycle`),
`EndSegment` with and without a merge included (a tool call resumes the message or not); a turn of the
same session begins after the one before. A failing attempt changes the buffer the way `send_delta` does
before it raises, which is why it is an action and not a stutter. Whether a delta is shown now or left
in the buffer until a later edit (the throttle) is a choice.

Abstractions: the model is of `liveActivity: false`, although the default is true (with it, the first
delta of a stream joins the open activity message instead of opening one, and a reply or the end of the
stream closes that message); progress, reasoning and retry messages pass no filter
because none is sent; no suppression of duplicate replies; channels are not started, stopped or replaced
(a message for a channel that is being replaced is counted as delivered by the code, without a send); no
message is longer than Telegram's limit; a send is not retried below the manager's loop; buffers do not
grow old.

Fairness: `WF(Dispatch)`. The dispatcher is one task; each of its sends returns or raises, and attempts
are counted. `MaxFaults` bounds failures, so `QueueDrains` says that the dispatcher reaches the message
behind a failing one and the one it holds back; since publications are bounded too, it speaks of turns
that are quiet for a while.

## TurnHistory

Sources: `agent/loop.py` (`_restore_turn`, `_build_turn`, `_persist_user_message_early`, `_save_turn`,
`_persist_turn`, `_restore_runtime_checkpoint`, `_restore_pending_user_turn`), `agent/runner.py`
(`_run_core`, `_try_drain_injections`), `session/manager.py` (save, load, `flush_all`).

One session, whose turns come one at a time. `mem` is the cached `Session` (rows, pending mark,
checkpoint), `disk` its file, `body` the rows the runner added to the transcript. A row is its kind and
number, and the turn or follow-ups it speaks for: enough to ask whether it is there, there twice, in
the right place. All calls of a model response are one row, and so are their results.

`Restore`, `Build`, `Respond` and its variants, and `Persist` follow the turn; each of them that saves
may succeed or raise, and raising ends the turn. `Cancel`, `Fail` and `Crash` come at any stage;
`Crash` reloads `mem` from `disk`. `Flush` is any other component that saves the session, or
`flush_all` at shutdown.

`Overlap` is the code's search for the longest end of the history that is a beginning of the restored
rows; rows are compared whole, as the code compares its message keys.

Abstractions: the provider's conversation state, the record of a subagent result kept beside its
injection, the parts of an answer recovered after a length limit, the sustained-goal prompt behind an
answer and commands that write rows of their own are left out. No fairness: the questions are safety.

## SessionMemory

Sources: `agent/memory.py` (`Consolidator`: `maybe_consolidate_by_tokens`, `compact_idle_session`,
`archive`, `archive_messages`), `agent/autocompact.py`, `command/builtin.py` (`cmd_new`),
`session/manager.py` (cache, load and save), and the places of `agent/loop.py` where a turn reads, saves
and schedules consolidation.

One session. `store.obj` are its `Session` objects - there can be several, because the cache holds the
last one loaded or saved while a turn or a background task holds an older one - with their rows, cursor
(`last_consolidated`) and the rows its summary speaks of; `store.cache` and `store.disk` say which is
cached and what is in the file. `queue` is the consolidation lock of the session, `work` the three kinds
of consolidation (in a turn, behind a turn, of an idle session), `archiving` the set of
`AutoCompact`, `cleared` the chunks `/new` gave to a background task. `archived`, `raised`, `kept`,
`gone` and `raced` are history.

`BeginTurn` to `Persist` follow a turn, from the bus or from `process_direct`; `Command` is a turn that a
command answers; `Stop` cancels it; `New` and `NewInline` are the two ways of `/new`. `Deliver` appends
a row outside of any turn (a cron delivery). An archive is a call of the provider: it is awaited, so it
is an action of its own, and it succeeds or raises. `Die` loses everything but the file and the archive.

Abstractions: which boundary the token estimate picks (any row where a user speaks), the prompts and
files of the long-term memory, when a session has been idle for long enough (any time), whether a save
raises, ephemeral sessions, the cache of summaries, a new turn that waits for a worker scheduled behind
the last one. Rows written outside of turns from the bus may be overwritten by a compaction; the
property `TurnRowsKept` is stated for the others and the disagreements below say why.

Fairness: ready steps are taken, calls of the provider come back. Turns, `/new`, scans, deliveries and
deaths are choices.

## LocalTriggerQueue and DeliveryQueue

Sources: `triggers/local_store.py`, `triggers/local_runner.py`.

`inbox`, `processing` and `failed` map a delivery to the attempts its file records, or `NoFile`. `held`
is the batch `claim_deliveries` returned, `stage` and `current` the loop of `run_local_trigger_queue`.
Deliveries are numbered by file name, which is the order of arrival. `runs` and `done` are history
variables.

Every store operation takes the FileLock, so other processes see it whole, but a crash can cut it:
`HalfRetried` leaves the new file without unlinking the old, and a claim may have moved some files only.
`trigger` covers the record of the trigger and its channel, which can be off as well ("disabled").
The web UI shares the event loop with the queue and so acts at the loop's two awaits only: the sleep and
the turn. With `DiskFaults`, any store operation may raise; inside an exception handler that ends the
task, and with it the gateway, because `gateway_runtime` gathers its tasks.

Abstractions: audit records, status fields, creating and renaming triggers, unreadable delivery files.

`DeliveryQueue` says what all this is for, without a word about files: a delivery that was put is run,
one at a time and at most `MaxTries` times, comes back or ends, and what has ended stays so. `Promised
== INSTANCE DeliveryQueue WITH state <- Standing, tries <- runs` is the mapping: `Standing` reads the
state of a delivery off the directories, the batch and the list of triggers. A crash maps to a run that
came back, a half-done retry to nothing at all, a recovery that gives up a delivery to its end. The run
checks the mapping as the property `KeepsPromise`, the proof holds for every size.

Fairness: `WF(Gateway)`: while the process lives the loop goes on, and the turns it waits for end. The
second half is the dispatcher's `SubmitAnswered`, which AgentDispatch shows for runs without `/stop` and
`run_now` and refutes with them (see the disagreements); a `/stop` at the wrong moment stalls this queue.

## CronService

Source: `cron/service.py`.

| variable | code |
|---|---|
| `store.mem`, `store.disk` | `_store` and `jobs.json`; of a job, `enabled` and `next_run_at_ms` |
| `store.journal` | `action.jsonl`, of each job the last line (earlier lines are overwritten when merged) |
| `store.dirty`, `store.faults` | `_store_dirty`; bound on the saves that raise |
| `timer` | `_timer_task`: the task the next `_arm_timer` cancels |
| `task` | timer tasks and manual runs: asleep or in a job, cancelled and not yet told, what is left of `due_jobs` |
| `up` | whether a gateway runs the service |
| `begun`, `ended`, `kept`, `removed` | history: due times started and completed, jobs that must be there, jobs that must not |

Timer tasks are numbered because one may be cancelled in the middle of a job and unwind while its
successor sleeps already. The only awaits are the sleep and the job, so each action runs from one to the
next: `Fire` is the tick up to the first job, `Finish` the end of a job, the save, and the next job of
the list or the end of the tick with its re-arming; `Unwind` is the delivery of a cancel, with the
`finally` of the tick. `RunNow` is `run_job`. `Poll` is any call that lists the jobs and so merges the
journal. `Other...` actions are another process, which appends to the journal. A save raises, at most
`MaxFaults` times, between setting and clearing `_store_dirty`.

Abstractions: jobs of kind `cron` are like `every`; `update_job` when it changes the schedule, the
binding of sessions, corrupt stores, the history of runs, system jobs, `stop()`, and an owner started by
the command line beside the gateway. A start computes all due times anew
(`_recompute_next_runs`), so what fell due while no gateway ran is passed over. `Fire` waits for
cancelled tasks to be told: a job bound to a session awaits its turn on a bare future, so the cancel of its
task is delivered in the event loop's next rounds, before the timer that was armed after it wakes. Unbound
and system jobs (`gateway_runtime.py` 542, 618 and 675) run their turn inside the timer task and may take
longer to unwind; they are out of scope, and `NoReplay` and `NothingRunsAgain` say nothing of them.

Fairness: time passes, timers that are due fire, jobs and unwinding end. That a job ends is the
dispatcher's promise; see `SubmitAnswered` for where it fails.

## Runs

| run | instance | shows |
|---|---|---|
| `dispatch_turns` | fairness; a message, two automation turns, the continuation of one and a command of one session, gate 1, a mid-turn queue of 2; 28 thousand states | `DeferredHasPublisher`, `EndedTurnSettled`, `EveryTaskEnds`, `SubmitAnswered` |
| `dispatch_stop` | fairness; two sessions that share a gate of 1, the debounce window open, `/stop`, `/new`, a continuation, a direct call, an automation turn, `run_now`; 50 thousand states | `ServesLanes`, `PendingHasReader`, `NothingLost`, `StopFreezesSession`, `CommandReturns`, `TypeOK` |
| `history_turns` | two turns and a continuation, a follow-up, three model responses, every save may raise; 489 thousand states | `HistoryGrows`, `CallsArePaired`, `NoRowTwice`, `CutTurnIsClosed`, `NoFalseInterruption`, `CheckpointSurvives`, `TypeOK` |
| `triggers_queue` | fairness; three deliveries of two triggers, limit of three attempts, batches of two, disk errors; 188 thousand states | `DeliveryKept`, `RunsBounded`, `KeepsPromise`, `QueueEmpties`, `TypeOK` |
| `cron_jobs` | fairness; a recurring job and a one-time job, three timer tasks, a manual run, three requests, a save that fails, a death; 132 thousand states | `OneLiveTimer`, `RemovedForGood`, `AddedIsKept`, `NoReplay`, `DueJobRuns`, `TypeOK` |
| `memory_sessions` | fairness; two turns, a delivery, a compaction, two `/new`, an archive that raises, a death; 82 thousand states | `SkipsNothing`, `TurnRowsKept`, `CompactionEnds`, `ClearedIsArchived`, `TypeOK` |
| `provider_streams` | fairness; a standard and a persistent request, two fallbacks, two attempts, threshold 2; 86 thousand states | `OneVoice`, `PersistentStops`, `TypeOK` |
| `streams_chats` | fairness; any two of two turns of one session and one of another chat, two pieces of text, the notices and the replies, three messages on the bus, two attempts, two faults; 849 thousand states | `InOrder`, `StreamComplete`, `QueueDrains`, `TypeOK` |
| `dispatch_merge`, `dispatch_run_now`, `history_stop`, `memory_new` | one to four messages, or two turns | the disagreements below |

Bounds. `PendingMax` is 20 and the gate 3 in the program; 1 reaches the full queue and the full gate
with two messages. `dispatch_turns` has 2, room for its message and its continuation, so that no turn of
it blocks on its own full queue; nor does one of the other casts (see the disagreements). Two sessions suffice for the properties that compare sessions, which share nothing
but the bus and the gate. `MaxResponses = 3` allows two tool iterations and an answer, or one
interrupted turn and one that restores it. Three attempts of a delivery are the fewest where it is
neither at its first nor at its last. Three timer tasks are the live one, one that unwinds, and one that
was cancelled while the other did. Four objects of a session are the cached one, one of a turn, one of a
worker and a new one. Two fallbacks and two attempts are the fewest where each of the three loops goes
on after another one ended. `MaxTurns = 2` leaves out that three turns stream in one behaviour; which
two do, of one chat or of two, is free. `MaxQueue = 3` lets the dispatcher merge a run of deltas, hold back what
ends it and still leave something on the queue. No state constraint is used; counters stop at these
constants by guards, and every bound is named where it is declared.

Deadlock is not checked where the cast is finite and the instance really stops when all of it is over:
AgentDispatch, TurnHistory, SessionMemory, StreamDelivery. LocalTriggerQueue, CronService and
ProviderFallback always have a step, and TLC checks that they do.

## Disagreements found

Four are runs whose one property quotes the repository and which TLC violates.

* `dispatch_merge` (`OnlyTextIsShared`) - the debounce window merges automation turns and priority
  commands into a person's message: they come under the name of the chat's channel, and
  `is_dispatchable_command` is False for priority commands.
* `dispatch_run_now` (`SubmitAnswered`) - a turn that runs a job bound to its own session waits for a
  turn that is deferred until it ends. `/stop` is the only way out (`CommandReturns` in `dispatch_stop`).
* `history_stop` (`StopKeepsWork`) - a checkpoint holds the last iteration only, so `/stop` in the
  second iteration loses the first.
* `memory_new` (`FreshStart`) - an archive that awaits its provider while `/new` clears the session
  writes its cursor and its summary into the cleared object and saves it over the new session.

More came up while modelling and have no run of their own. These show when a passing run is changed as
said:

* a `/stop` that cancels an automation turn waiting for the lock or the gate leaves its submitter
  without an answer (`EndedTurnSettled` with `Msg = {u1, a1, p1}`);
* a `/stop` in the clean-up of a turn strands the deferred automation turn (`DeferredHasPublisher`, same
  cast);
* a continuation on a full mid-turn queue blocks its turn (`EveryTaskEnds` with `Msg = {u1, u2, c1}` and
  `PendingMax = 1`), until somebody sends `/stop` (`CommandReturns` holds in `dispatch_stop` with `Msg = {u1, u2, p1, n1, c1, d1}`);
* a follow-up injected after a model error is merged into the prompt, behind the boundary from which the
  turn is saved, and never reaches the history (`FollowUpsAreSaved` in `history_turns`);
* a one-time cron job is started twice when an edit cancels the tick that runs it
  (`OneTimeRunsOnce` in `cron_jobs`; `skills/cron/SKILL.md:16` says "runs once");
* Telegram keys its stream buffer by chat, so streams of two topics of a chat cut each other off
  (`StreamComplete` with `Topics = TRUE`, `Turn = {t1, t3}`, `MaxTries = 1`, `MaxPieces = 3`,
  `MaxEnds = 2`, `MaxFaults = 0`; the comment in `channels/base.py` asks to key by stream id);
* a delta whose send failed is in the buffer already when it is tried again, and is shown twice
  (`TextOnce` in `streams_chats`).

These were seen in the code while translating it and are not stated as formulas:

* recovery counts an attempt for every claimed delivery, so a gateway that exits ten times in a batch
  gives up deliveries it never submitted (`RunsBounded` is stated accordingly);
* cron: removing a job in the gateway while a line of another process about it is unmerged brings it
  back with the merge (hence the condition of `RemovedForGood`); the journal is truncated before the
  merged store is saved, so a failed save and a death lose it (hence the one of `AddedIsKept`); a line
  that updates a job gives it an old due time again; a tick with a stale list and a manual run may run a
  job twice; while a save keeps failing, ticks follow each other without a pause;
* provider: several requests probe the primary at once when the cooldown is over, where a comment says
  "Half-open: allow one probe attempt.";
* memory: idle compaction skips sessions "with in-flight agent tasks", which are those of turns from the
  bus; rows of a `process_direct` turn or of a delivery can be overwritten by it.

This is why `dispatch_turns` has no `/stop` and no open window, `triggers_queue` and `cron_jobs` take an
answered turn for granted, and `streams_chats` has no topics: what they show holds without those, and
the list above says what happens with them.

Some formulas of the modules are in no run and hold: `EveryMessageTaken`, `OneTurnPerSession` and
`HolderIsHead` (AgentDispatch; the last two are proved), `OnePlace` (LocalTriggerQueue; proved),
`StandardCallsEnd` (ProviderFallback).

## Proofs

All theorems are about `Spec`, for every value of the constants that meets the module's
assumption: sets and functions of the right type, positive limits, names that are not mistaken for one
another (`NoJob` is no job record, a follow-up no turn). Where a theorem needs more, its statement says
so: `NothingCancels` (no message is `/stop`, `/new` or `session_discard`), `~Coalesce` (the debounce window
is closed) and `OneSessionPerChat` (the sessions of a chat are one, no topics). The disagreements above show
what happens without each of them.

Every safety property of a passing run is proved; `DeferredHasPublisher`, `EndedTurnSettled` and
`StreamComplete` under such a condition, because they fail without it.

`AgentDispatchProofs`. `Exclusion` (turns of a session never overlap) is not inductive: it says nothing
of who waits. `HolderIsHead` is: whoever is past the lock is the head of its session's queue. Two holders
of one lock are both its head, hence equal. It needs types, and types need it, because a release takes
`Tail(lockQ[s])` and that is a sequence only if the queue is not empty. So `TypeOK /\ HolderIsHead` is
proved together. The cases that matter are the removal of a cancelled waiter (`WithoutQueue`: it leaves
the head alone) and the release (`Release`: the next in line is not past the lock yet).
Theorems: `TypeCorrect`, `LockDiscipline`, `Exclusion`.

`AgentDispatchQueueProofs` goes on from there, to the messages while they wait. Its `IInv` adds two
groups of parts. `Waiting` is `Once` (copies of a message in the queues: one if it is queued, none
otherwise; this is `NothingLost`), `AtHome` (a mid-turn or deferred queue holds messages of its own
session only) and `ReadyOnce` (a task that has not started is in `ready` once). `Once` alone is not
inductive: it counts a message in the queues of its own session, so a copy elsewhere would be missed
when that queue is poured back on the bus - hence `AtHome`. `Serving` is about tasks: `LoopOne` (the run
loop is in one place), `Outside` (a direct call never takes the bus path), `Tracked` (a task that is not
cancelled is in `_active_tasks`), `Registered` (and if it is in its turn, its mid-turn queue is
registered), `Frozen` (while a command waits, the tasks of its session are all cancelled) and
`PendingHasReader`. The last one alone could be broken by `/stop`, which unregisters the queue of a
session whose turn might be alive; `Tracked` and `Frozen` say that it is not. Counting is done on
`Occurrences`, with lemmas for append, tail and concatenation from the cardinality facts of the library;
each kind of move (consume, publish, route, pour, rotate, inject) has a lemma of its own.
Theorems: `Conservation`, `NoStrandedFollowUp`, `StopHolds`. On this invariant rest three more results.

* `AutomationIsServed`: in a session where nobody sends `/stop`, `/new` or `session_discard`, whatever is
  cancelled elsewhere, deferred automation turns have a publisher (`HasPublisher`) and one that is over has
  settled its future (`Settled`). The invariant is `Succession`: `Spared` (no cancel is on its way to such
  a task), `DeferredHome` (what is deferred are automation turns of that session), `Followed` and `Answered`.
  The publisher is a task at any stage from the window to the clean-up, or an automation turn on the bus;
  the argument is that each step that takes the last of them away publishes the next deferred turn.
  `DeferredTurnsFollow` and `TurnsAreAnswered` are the properties of the run, where nobody cancels at all.
* `OnlyTheWindowMixes`: with the window closed nothing but text joins another prompt, because only text is
  put where a turn still reads (`TextOnly`; the continuation of an automation turn is put on a queue whose
  turn has stopped reading). So the violation of `dispatch_merge` is the window's doing.
* `Refinement`: each step is a step of `SessionLane` or a stutter. Taking a new message is `Accept`,
  `EnterGate` into a turn is `Serve`, merging and injecting are `Join`, the end of a turn, an answered
  command and a cancel are `End`, everything between queues stutters. `Serve` needs `HolderIsHead` (no other
  turn of the session is served); `Join` needs `AtHome` and `Once` (what is injected is of the session
  and waits nowhere else); a task takes its first step once by `ReadyOnce`.

`LocalTriggerQueueProofs`. The invariant `IInv` adds to `TypeOK`, for each delivery: `Fresh` (nothing is
known of one that was not enqueued), `Place` (where its files can be), `Limit` (submissions against the
attempts recorded) and `Kept` (it is somewhere). `Place` carries the argument: after a retry cut in two a
delivery is in two directories, which is harmless because recovery will compute the same target again
and overwrite it - so the old copy's attempts decide which other directory may hold the new one. `Limit`
says that a submission is counted by the file it was claimed from, before it happens; that is what makes
the bound survive crashes. Theorems: `TypeCorrect`, `AtLeastOnce`, `BoundedRetries`, `Disjoint`, and
`Refinement`: initial states map to initial states of `DeliveryQueue`, and under `IInv` each action maps
to one of its actions (`Submit` to `Run`, a retry or a crash in the turn to `Return`, a completion or a
deletion to `End`) or to a stutter.

`CronServiceProofs`. `IInv` is `TypeOK`, `OneLiveTimer`, `Quiet` (no task without a gateway), `Unborn`
(no trace of a job that was never added), and the two halves of `RemovedForGood`: `Forgotten` (memory,
file and journal) and `NotWaiting` (the lists of due jobs). `OneLiveTimer` is what makes `NotWaiting`
inductive: `remove_job` re-arms, which cancels the live timer, so a list that was taken before the
removal belongs to a task that is cancelled and will start nothing of it. Theorems: `TypeCorrect`,
`SchedulerLives`, `RemovalIsFinal`.

`JobsAreKept` and `NothingRunsAgain` are about which table is read next. Memory wins while it is dirty or a
tick is busy, the file and the journal otherwise. `KeptInv` says that a job that was added is in the one
that will be read, with `Clean` (a dead process is never dirty: what it had not saved is gone from `kept`).
`ScheduleInv` says the same of due times: planned times in memory are past the last time that was run to
its end, those in the file too unless a tick runs or a save has failed (`Ahead`); the list of a tick holds
each job once, not yet run (`RestAhead`); and while a cancelled tick unwinds no other runs (`DoomAlone`).
The last is needed because a cancelled tick ends without a save: what it ran is in memory only, and
another tick would read the old file.

`ProviderFallbackProofs`. `OneVoice` alone says nothing of the flags. `IInv` adds, for a request that is
not over (`Voiced`): once text is shown the flag of the round is set, and the next candidate is either
silent or known to the chain to follow shown text; and while an attempt may write, nothing was shown or
what was shown is its own, with all three flags set. Between two candidates the request meets `Mid`, and
`Ready` is what a candidate may be started from; each operator on a request has a lemma that takes one of
these to another. Theorems: `TypeCorrect`, `Unmixed`.

`TurnHistoryProofs`. Memory and file meet one predicate, `Sound`, so that a reload after a crash is a step
from one sound session to the other. Of the history (`SoundLog`): calls and results are paired, rows are
known and distinct, a note follows the prompt it explains, notes and closings tell of turns that were cut,
and a prompt of a turn that owes an answer is not followed by another. Of the checkpoint
(`SoundCheckpoint`): its turn was cut or runs, and has no finished work in the history - so restoring it
never overlaps with what is there, and `NoRowTwice` follows. Of the mark of a prompt that was saved early
(`SoundMark`): a history that ends with a prompt is the one that the mark tells to close. `SoundBody` is the
same for the transcript of the turn, which grows by iterations. A crash may fall between any two saves,
therefore `Carries` (what the file's checkpoint preserves is in memory too, or later work is) and
`IsPrefix(disk.log, mem.log)`. Each operation on a session (restore, close, save, clear) has one lemma about
`Sound`, and each action cites those it calls. Theorems: `TypeCorrect`, `HistoryIsValid`, `RowsAreUnique`,
`InterruptedTurnsClose`, `InterruptionsAreTrue`, `AppendOnly`, `CheckpointsHold`.

`SessionMemoryProofs`. The cursor of the file is safe only if every object that somebody may save is: the
cached one, that of the turn, those of the workers that call the provider. `Good` says it of all of them
(`Fit`): rows that a turn from the bus saved are there, rows before the cursor are archived (unless an
archive raced with `/new`), and a worker that calls has all rows up to its end archived or in its chunk
(`Covers`). That no worker overwrites a turn comes from `Alone` - a turn from the bus is behind all the
work there was before it - which rests on `Line` (the lock of a session is FIFO and only its first calls)
and `Places` (who may be at work). Theorems: `TypeCorrect`, `NothingSkipped`, `TurnsAreKept`.

`StreamDeliveryProofs`. The message that is sent, the one held back and the queue are one sequence, `Pipe`;
merging, holding back and failing are what happens to it (`Fused`, `Leaves`, `Retries`), a turn only
appends (`Moves`). On it: `Messages` (each belongs to a stream that has begun), `Order` (of two messages of
a turn the later one is of the same segment or a later one, and of a stream has later pieces), `Single`
(only the message that is sent was merged). `Buffers` says the same between the buffer of a chat and the
pipe - `Fresh`: a delta is new to the buffer unless it was tried - and `Screen` between the screen and the
pipe. `Orderly` is weaker than rising: a delta that failed after it reached the buffer puts its pieces
there again, as repetitions of what is there. Theorems: `TypeCorrect`, `TextInOrder`. For `StreamsAreShown`
the invariant follows each piece (`Whereabouts`: given up, shown, in the pipe or in a buffer that has a
message), and `Alternate` says that a delta which takes the buffer from another stream finds that one
ended. `Alternate` is where one session per chat is needed.

TLC finds no violation of the inductive invariants either (`IInv`, `HInv`, `GInv`, `Succession`, `CInv`), on the
instance of the run of their component: extend the MC module and the proof module in one, and name them in a
copy of the `.cfg`. Only model-checked: liveness (`EveryTaskEnds`, `SubmitAnswered`, `CommandReturns`,
`QueueEmpties`, `DueJobRuns`, `CompactionEnds`, `ClearedIsArchived`, `PersistentStops`, `QueueDrains`), which
needs fairness and is out of the prover's reach, and the violations. Not proved either are properties that fail
in general and hold under a condition yet to be stated as a theorem: item 10 of the plan.

## What is not modelled

* Conversions and remote calls without a protocol of their own: provider back ends, the channels other
  than Telegram's stream, most tools, the web UI's handlers, security filters, configuration, utilities,
  trading (floating point), the TypeScript clients, deployment. Together they are most of the lines of
  the repository. `PROJECT.json` gives the reason for each.
* The components of the plan from item 11 on, not yet; subagents are the most important of them.
* Inside the modelled components, what each section above lists under abstractions.
* Time. Timeouts and back-off are choices that may happen; how long things take is not stated. Only
  CronService has a clock.
* The text of prompts and answers, anywhere.
