----------------------------- MODULE CronService -----------------------------
(***************************************************************************)
(* The cron service of the gateway: jobs.json and its copy in memory, the  *)
(* journal other processes write their changes to, the timer task that     *)
(* runs the due jobs one after the other, manual runs, edits from the web  *)
(* UI and from turns, saves that fail, and a gateway that dies.            *)
(*                                                                         *)
(* Everything between two awaits is one action: only a sleeping timer and  *)
(* a job that awaits its turn let others in.                               *)
(***************************************************************************)
EXTENDS Naturals, FiniteSets

CONSTANTS
    Job,
    OneTime,    \* jobs of kind "at" that are deleted after their run
    At,         \* when a one-time job is due
    Every,      \* the period of the others
    Stored,     \* jobs in jobs.json at first; the others are added later
    Timers,     \* bound: timer tasks at once
    Manual,     \* identities of manual runs
    MaxSleep,   \* max_sleep_ms
    MaxTime,    \* bound: the clock
    MaxRequests,\* bound: edits and manual runs, by anyone
    MaxFaults,  \* bound: saves that fail
    MaxDeaths,  \* bound: gateways that die
    NoJob, NoLine

ASSUME CronAssumption ==
    /\ OneTime \subseteq Job
    /\ At \in [Job -> Nat \ {0}]
    /\ Every \in Nat \ {0}
    /\ Stored \subseteq Job
    /\ MaxSleep \in Nat \ {0}
    /\ MaxTime \in Nat
    /\ MaxRequests \in Nat
    /\ MaxFaults \in Nat
    /\ MaxDeaths \in Nat
    /\ Timers \in Nat
    /\ Manual \cap Nat = {}
    /\ NoJob \notin [on : BOOLEAN, next : Nat]
    /\ NoLine \notin [on : BOOLEAN, next : Nat] \cup {NoJob}

Timer == 1 .. Timers
NoTimer == 0

VARIABLES
    now,    \* the clock
    up,     \* does a gateway run the service?
    store,  \* memory, file, journal, _store_dirty and the saves that failed
    timer,  \* _timer_task
    task,   \* timer tasks and manual runs
    born,   \* jobs that were ever added
    begun,  \* the last due time a timer started the job for
    ended,  \* the last due time a timer completed the job for
    kept,   \* jobs somebody was told are there, and nobody took away
    removed,\* jobs the service confirmed to have removed
    requests, deaths

ghosts == <<begun, ended, kept, removed>>
counters == <<requests, deaths>>
vars == <<now, up, store, timer, task, born, ghosts, counters>>

NoTime == 0
Record == [on : BOOLEAN, next : Nat]    \* enabled, state.next_run_at_ms
Table == [Job -> Record \cup {NoJob}]

\* The journal keeps, of each job, the last line about it: earlier ones are
\* overwritten when the lines are replayed.  NoJob is a line that deletes.
Store == [mem : Table, disk : Table,
          journal : [Job -> Record \cup {NoJob, NoLine}], dirty : BOOLEAN,
          faults : Nat]

Due == [job : Job, at : Nat]
NoDue == [job |-> NoJob, at |-> NoTime]

\* "idle": no such task.  doomed: cancelled, and not yet told.  rest: what is
\* left of due_jobs.
Idle == [pc |-> "idle", doomed |-> FALSE, wake |-> NoTime, run |-> NoDue, rest |-> {}]
Task == [pc : {"idle", "asleep", "running"}, doomed : BOOLEAN, wake : Nat,
         run : Due \cup {NoDue}, rest : SUBSET Due]

TypeOK ==
    /\ now \in Nat
    /\ up \in BOOLEAN
    /\ store \in Store
    /\ timer \in Timer \cup {NoTimer}
    /\ task \in [Timer \cup Manual -> Task]
    /\ born \subseteq Job
    /\ begun \in [Job -> Nat]
    /\ ended \in [Job -> Nat]
    /\ kept \subseteq born
    /\ removed \subseteq born
    /\ requests \in Nat
    /\ deaths \in Nat

Empty == [j \in Job |-> NoJob]
NoLines == [j \in Job |-> NoLine]

\* _compute_next_run
NextRunBug(j) == IF j \notin OneTime THEN now + Every ELSE At[j] - now
NextRun(j) == IF j \notin OneTime THEN now + Every
              ELSE IF At[j] > now THEN At[j] ELSE NoTime

Scheduled(s, j) == s.mem[j] # NoJob /\ s.mem[j].on /\ s.mem[j].next # NoTime
DueBy(s, time) == {j \in Job : Scheduled(s, j) /\ s.mem[j].next <= time}

Init ==
    /\ now = 1
    /\ up = FALSE
    /\ store = [mem |-> Empty,
                disk |-> [j \in Job |-> IF j \in Stored THEN [on |-> TRUE, next |-> NextRun(j)]
                                        ELSE NoJob],
                journal |-> NoLines, dirty |-> FALSE, faults |-> 0]
    /\ timer = NoTimer
    /\ task = [t \in Timer \cup Manual |-> Idle]
    /\ born = Stored
    /\ begun = [j \in Job |-> NoTime]
    /\ ended = [j \in Job |-> NoTime]
    /\ kept = Stored
    /\ removed = {}
    /\ requests = 0
    /\ deaths = 0

-----------------------------------------------------------------------------
(* Saving, loading, arming *)

\* _store_dirty is set before the file is written and cleared after it.
Saves(s) ==
    {[s EXCEPT !.disk = s.mem, !.dirty = FALSE]} \cup
    (IF s.faults < MaxFaults THEN {[s EXCEPT !.dirty = TRUE, !.faults = @ + 1]} ELSE {})

\* The table another process sees, and the owner's after its next merge.
Merged(s) == [j \in Job |-> IF s.journal[j] = NoLine THEN s.disk[j] ELSE s.journal[j]]

\* _active_executions > 0
Busy == \E t \in Timer \cup Manual : task[t].pc = "running"

\* The owner empties the journal before it saves what it read there.
MergeSavesBug(s) == Saves([s EXCEPT !.journal = NoLines])
MergeSaves(s) == Saves([s EXCEPT !.mem = Merged(s), !.journal = NoLines])
LoadsBug(s) ==
    IF s.dirty THEN {s}
    ELSE IF s.journal = NoLines THEN {[s EXCEPT !.mem = s.disk]}
    ELSE MergeSaves(s)
LoadsStaleBug(s) ==
    IF Busy THEN {s}
    ELSE IF s.journal = NoLines THEN {[s EXCEPT !.mem = s.disk]}
    ELSE MergeSaves(s)
Loads(s) ==
    IF s.dirty \/ Busy THEN {s}
    ELSE IF s.journal = NoLines THEN {[s EXCEPT !.mem = s.disk]}
    ELSE MergeSaves(s)

\* A load raises when the save after its merge does.
Raised(s, r) == r.dirty /\ ~s.dirty

\* A line that was merged gives its job a schedule of its own.
Renewed(ghost, s, r) ==
    [j \in Job |-> IF s.journal[j] # NoLine /\ r.journal[j] = NoLine THEN NoTime ELSE ghost[j]]
Renews(r) ==
    /\ begun' = Renewed(begun, store, r)
    /\ ended' = Renewed(ended, store, r)

\* How long a timer armed now sleeps.
Wakes(s) ==
    {w \in now .. now + MaxSleep :
        /\ w = now + MaxSleep \/ DueBy(s, w) # {}
        /\ \A v \in now .. w - 1 : DueBy(s, v) = {}}

\* A sleeping timer ends at once; one that runs a job is told at its await.
CancelledBug(tasks) == tasks
Cancelled(tasks) ==
    [t \in Timer \cup Manual |->
        IF t # timer THEN tasks[t]
        ELSE IF tasks[t].pc = "running" THEN [tasks[t] EXCEPT !.doomed = TRUE] ELSE Idle]

\* _arm_timer
Arm(tasks, s) ==
    \E n \in Timer, w \in Wakes(s) :
        /\ Cancelled(tasks)[n].pc = "idle"
        /\ \A m \in 1 .. n - 1 : Cancelled(tasks)[m].pc # "idle"
        /\ timer' = n
        /\ task' = [Cancelled(tasks) EXCEPT ![n] = [Idle EXCEPT !.pc = "asleep", !.wake = w]]

Leave(t) == Arm([task EXCEPT ![t] = Idle], store')
SameTimers == UNCHANGED <<timer, task>>

-----------------------------------------------------------------------------
(* The gateway starts and dies *)

\* What only the memory of a dead process held is lost with it.
Dead(s) == [s EXCEPT !.mem = Empty, !.dirty = FALSE]
Forgets(s) ==
    /\ store' = Dead(s)
    /\ kept' = {j \in kept : Merged(s)[j] # NoJob}

Recomputed(s) ==
    [s EXCEPT !.mem = [j \in Job |-> IF s.mem[j] # NoJob /\ s.mem[j].on
                                     THEN [s.mem[j] EXCEPT !.next = NextRun(j)] ELSE s.mem[j]]]

StartFails(s) ==
    /\ Forgets(s)
    /\ UNCHANGED <<up, timer, task>>

Started(s) ==
    /\ up' = TRUE
    /\ store' = s
    /\ kept' = kept
    /\ Arm(task, s)

Start ==
    /\ ~up
    /\ \E r \in Loads(store) :
         /\ Renews(r)
         /\ \/ Raised(store, r) /\ StartFails(r)
            \/ /\ ~Raised(store, r)
               /\ \E s \in Saves(Recomputed(r)) :
                    \/ s.dirty /\ StartFails(s)
                    \/ ~s.dirty /\ Started(s)
    /\ UNCHANGED <<now, born, removed, counters>>

Die ==
    /\ up
    /\ deaths < MaxDeaths
    /\ deaths' = deaths + 1
    /\ up' = FALSE
    /\ timer' = NoTimer
    /\ task' = [t \in Timer \cup Manual |-> Idle]
    /\ Forgets(store)
    /\ UNCHANGED <<now, born, begun, ended, removed, requests>>

-----------------------------------------------------------------------------
(* The timer *)

\* The bound of the clock stands for every later time.
Elapsed(t) == task[t].wake <= now \/ now = MaxTime

DueJobs(s) == {[job |-> j, at |-> s.mem[j].next] : j \in DueBy(s, now)}

\* The loop over due_jobs starts the next one.
Begin(t, S) ==
    \E d \in S :
        /\ task' = [task EXCEPT ![t] = [Idle EXCEPT !.pc = "running", !.run = d, !.rest = S \ {d}]]
        /\ begun' = [begun EXCEPT ![d.job] = d.at]
        /\ UNCHANGED timer

\* A store that could not be saved is saved before anything else is done.
SaveAgain(t) ==
    /\ store.dirty
    /\ store' \in Saves(store)
    /\ Leave(t)
    /\ UNCHANGED <<begun, ended>>

TickFailsBug(t) ==
    \E r \in Loads(store) :
        /\ Raised(store, r)
        /\ store' = r
        /\ task' = [task EXCEPT ![t] = Idle]
        /\ UNCHANGED timer
        /\ Renews(r)
TickFails(t) ==
    \E r \in Loads(store) :
        /\ Raised(store, r)
        /\ store' = r
        /\ Leave(t)
        /\ Renews(r)

TickFindsNothing(t) ==
    \E r \in Loads(store) :
        /\ ~Raised(store, r)
        /\ DueJobs(r) = {}
        /\ store' \in Saves(r)
        /\ Leave(t)
        /\ Renews(r)

TickRuns(t) ==
    \E r \in Loads(store) :
        /\ ~Raised(store, r)
        /\ store' = r
        /\ \E d \in DueJobs(r) :
             /\ task' = [task EXCEPT ![t] = [Idle EXCEPT !.pc = "running", !.run = d,
                                                         !.rest = DueJobs(r) \ {d}]]
             /\ begun' = [Renewed(begun, store, r) EXCEPT ![d.job] = d.at]
        /\ ended' = Renewed(ended, store, r)
        /\ UNCHANGED timer

\* A job bound to a session awaits its turn on a bare future, so a task that was
\* cancelled is told before the timer armed after it wakes.
Fire(t) ==
    /\ task[t].pc = "asleep"
    /\ Elapsed(t)
    /\ \A u \in Timer : ~task[u].doomed
    /\ \/ SaveAgain(t)
       \/ ~store.dirty /\ (TickFails(t) \/ TickFindsNothing(t) \/ TickRuns(t))
    /\ UNCHANGED <<now, up, born, kept, removed, counters>>

\* The end of _execute_job, whatever became of the turn.
Advanced(s, j) ==
    [s EXCEPT !.mem[j] = IF @ = NoJob \/ j \in OneTime THEN NoJob
                         ELSE [@ EXCEPT !.next = NextRun(j)]]

Finish(t) ==
    /\ task[t].pc = "running"
    /\ ~task[t].doomed
    /\ LET d == task[t].run
           s == Advanced(store, d.job)
       IN  /\ ended' = [ended EXCEPT ![d.job] = d.at]
           /\ kept' = kept \ ({d.job} \cap OneTime)
           /\ \/ /\ task[t].rest # {}
                 /\ store' = s
                 /\ Begin(t, task[t].rest)
              \/ /\ task[t].rest = {}
                 /\ store' \in Saves(s)
                 /\ Leave(t)
                 /\ UNCHANGED begun
    /\ UNCHANGED <<now, up, born, removed, counters>>

\* CancelledError passes through _execute_job: nothing is advanced or saved.
Unwind(t) ==
    /\ task[t].doomed
    /\ UNCHANGED store
    /\ Leave(t)
    /\ UNCHANGED <<now, up, born, ghosts, counters>>

-----------------------------------------------------------------------------
(* Requests: the web UI, and turns that call the cron tool *)

Request ==
    /\ requests < MaxRequests
    /\ requests' = requests + 1
    /\ UNCHANGED <<now, up, deaths>>

ArmsIfIdle(tasks) ==
    IF \E t \in Timer \cup Manual : tasks[t].pc = "running"
    THEN task' = tasks /\ UNCHANGED timer
    ELSE Arm(tasks, store')

\* run_job: what is not saved yet is saved first.  The web UI does not force the
\* run of a job that is switched off, the cron tool does.
Readied(s) == UNION {IF r.dirty THEN {r} ELSE Loads(r) : r \in IF s.dirty THEN Saves(s) ELSE {s}}

RunNow(m, j) ==
    /\ up
    /\ Request
    /\ task[m].pc = "idle"
    /\ \E r \in Readied(store) :
         /\ store' = r
         /\ Renews(r)
         /\ \/ /\ r.dirty \/ (r.mem[j] # NoJob => ~r.mem[j].on)
               /\ ArmsIfIdle(task)
            \/ /\ ~r.dirty /\ r.mem[j] # NoJob
               /\ task' = [task EXCEPT ![m] = [Idle EXCEPT !.pc = "running",
                                                           !.run = [job |-> j, at |-> r.mem[j].next]]]
               /\ UNCHANGED timer
    /\ UNCHANGED <<born, kept, removed>>

EndOfRun(m) == ArmsIfIdle([task EXCEPT ![m] = Idle])

FinishRun(m) ==
    /\ task[m].pc = "running"
    /\ store' \in Saves(Advanced(store, task[m].run.job))
    /\ EndOfRun(m)
    /\ kept' = kept \ ({task[m].run.job} \cap OneTime)
    /\ UNCHANGED <<now, up, born, begun, ended, removed, counters>>

\* /stop of the turn that asked for the run.
AbortRun(m) ==
    /\ task[m].pc = "running"
    /\ UNCHANGED store
    /\ EndOfRun(m)
    /\ UNCHANGED <<now, up, born, ghosts, counters>>

\* What every edit does: load, change, save, arm.  A raise ends it.
EditBug(r, j, rec) ==
    /\ ~Raised(store, r)
    /\ store' \in Saves([r EXCEPT !.mem[j] = rec])
    /\ IF store'.dirty \/ Busy THEN SameTimers ELSE Arm(task, store')
Edit(r, j, rec) ==
    /\ ~Raised(store, r)
    /\ store' \in Saves([r EXCEPT !.mem[j] = rec])
    /\ IF store'.dirty THEN SameTimers ELSE Arm(task, store')

EditFails(r) ==
    /\ Raised(store, r)
    /\ store' = r
    /\ SameTimers

Add(j) ==
    /\ up
    /\ Request
    /\ j \notin born
    /\ born' = born \cup {j}
    /\ \E r \in Loads(store) :
         /\ Renews(r)
         /\ EditFails(r) \/ Edit(r, j, [on |-> TRUE, next |-> NextRun(j)])
    /\ kept' = IF store'.dirty THEN kept ELSE kept \cup {j}
    /\ UNCHANGED removed

Remove(j) ==
    /\ up
    /\ Request
    /\ \E r \in Loads(store) :
         /\ Renews(r)
         /\ \/ EditFails(r) /\ UNCHANGED <<kept, removed>>
            \/ /\ r.mem[j] # NoJob
               /\ Edit(r, j, NoJob)
               /\ kept' = kept \ {j}
               /\ removed' = IF store'.dirty \/ store'.journal[j] # NoLine THEN removed
                             ELSE removed \cup {j}
    /\ UNCHANGED born

\* enable_job, and update_job that leaves the schedule as it is.
Switch(j, on) ==
    /\ up
    /\ Request
    /\ \E r \in Loads(store) :
         /\ Renews(r)
         /\ \/ EditFails(r)
            \/ /\ r.mem[j] # NoJob
               /\ Edit(r, j, [on |-> on, next |-> IF on THEN NextRun(j) ELSE NoTime])
    /\ UNCHANGED <<born, kept, removed>>

\* list_jobs, get_job, status
Poll ==
    /\ up
    /\ \E r \in Loads(store) : store' = r /\ Renews(r)
    /\ UNCHANGED <<now, up, timer, task, born, kept, removed, counters>>

-----------------------------------------------------------------------------
(* Another process, whose service was never started: `nanobot agent' *)

AppendAction(j, line) ==
    /\ Request
    /\ store' = [store EXCEPT !.journal[j] = line]
    /\ UNCHANGED <<timer, task, begun, ended, removed>>

OtherAdds(j) ==
    /\ j \notin born
    /\ AppendAction(j, [on |-> TRUE, next |-> NextRun(j)])
    /\ born' = born \cup {j}
    /\ kept' = kept \cup {j}

OtherRemoves(j) ==
    /\ Merged(store)[j] # NoJob
    /\ AppendAction(j, NoJob)
    /\ kept' = kept \ {j}
    /\ UNCHANGED born

OtherSwitches(j, on) ==
    /\ Merged(store)[j] # NoJob
    /\ AppendAction(j, [on |-> on, next |-> IF on THEN NextRun(j) ELSE NoTime])
    /\ UNCHANGED <<born, kept>>

-----------------------------------------------------------------------------
Clock ==
    /\ now < MaxTime
    /\ now' = now + 1
    /\ UNCHANGED <<up, store, timer, task, born, ghosts, counters>>

Next ==
    \/ Clock \/ Start \/ Die \/ Poll
    \/ \E t \in Timer : Fire(t) \/ Finish(t) \/ Unwind(t)
    \/ \E m \in Manual : FinishRun(m) \/ AbortRun(m) \/ \E j \in Job : RunNow(m, j)
    \/ \E j \in Job : Add(j) \/ Remove(j) \/ OtherAdds(j) \/ OtherRemoves(j)
    \/ \E j \in Job, on \in BOOLEAN : Switch(j, on) \/ OtherSwitches(j, on)

Spec == Init /\ [][Next]_vars

\* Time passes, the event loop runs what is ready, and turns end.
Fairness ==
    /\ WF_vars(Clock)
    /\ \A t \in Timer : WF_vars(Fire(t)) /\ WF_vars(Finish(t)) /\ WF_vars(Unwind(t))
    /\ \A m \in Manual : WF_vars(FinishRun(m))

FairSpec == Spec /\ Fairness

-----------------------------------------------------------------------------
(* Properties *)

Alive(t) == task[t].pc # "idle" /\ ~task[t].doomed

\* The scheduler never dies and never forks: whatever raises, is cancelled or
\* re-arms during a tick, a running gateway has one live timer task, and it is
\* the one the next cancellation will reach.  _arm_timer, _on_timer's finally
OneLiveTimer == {t \in Timer : Alive(t)} = IF up THEN {timer} ELSE {}

\* A job the service confirmed to have removed, while no process had a line
\* about it in the journal, never comes back: not from the file, not from the
\* journal, not from the list of due jobs a tick took before.  remove_job
RemovedForGood ==
    \A j \in removed :
        /\ store.mem[j] = NoJob /\ store.disk[j] = NoJob /\ store.journal[j] = NoLine
        /\ \A t \in Timer : Alive(t) => \A d \in task[t].rest : d.job # j

\* A job that was reported added is in the table the service will use next,
\* through merges that truncate the journal, saves that fail and gateways that
\* die, until somebody removes it, it has run its one time, or a process dies
\* with it in memory only.  _load_store, _merge_action, _save_store
Upcoming == IF up /\ (store.dirty \/ Busy) THEN [store EXCEPT !.disk = store.mem] ELSE store
AddedIsKept == \A j \in kept : Merged(Upcoming)[j] # NoJob

\* A due time that was run to its end is not run again: a poll during the run,
\* a save that failed, a cancelled tick or a restart bring no older schedule
\* back.  _store_dirty and the comment in _load_store
Launched(t) == task'[t].pc = "running" /\ task[t].run # task'[t].run
NoReplay ==
    [][\A t \in Timer : Launched(t) => task'[t].run.at > ended'[task'[t].run.job]]_vars

\* A one-time job is started once by the clock ("runs once at a specific time,
\* then auto-deletes").  cron skill
OneTimeRunsOnce ==
    [][\A t \in Timer : Launched(t) /\ task'[t].run.job \in OneTime
                            => begun[task'[t].run.job] = NoTime]_vars

\* A job that is due in a running gateway is run, or somebody changes or
\* removes it: the timer always comes back to it.
Waiting(j, time) == up /\ Scheduled(store, j) /\ store.mem[j].next = time
DueJobRuns == \A j \in Job, time \in 1 .. MaxTime : Waiting(j, time) ~> ~Waiting(j, time)
=============================================================================
