-------------------------- MODULE CronServiceProofs --------------------------
(* Theorems about CronService, for every value of its constants: first about  *)
(* its tasks and a job that is removed, then about what it does with its      *)
(* jobs, namely that none that was reported added gets lost, and that no due  *)
(* time that was run to its end is run again.                                 *)
EXTENDS CronService, TLAPS

Tasks == Timer \cup Manual
Gone(s, j) == s.mem[j] = NoJob /\ s.disk[j] = NoJob /\ s.journal[j] = NoLine

Quiet == ~up => task = [t \in Tasks |-> Idle]
Unborn == \A j \in Job \ born : Gone(store, j)
Forgotten == \A j \in removed : Gone(store, j)
NotWaiting == \A j \in removed, t \in Timer : Alive(t) => \A d \in task[t].rest : d.job # j

IInv == TypeOK /\ OneLiveTimer /\ Quiet /\ Unborn /\ Forgotten /\ NotWaiting

-----------------------------------------------------------------------------
(* The store *)

\* A save leaves the memory and the journal as they are.
LEMMA SavesFacts ==
    ASSUME NEW s \in Store, NEW w \in Saves(s)
    PROVE  /\ w \in Store
           /\ w.mem = s.mem
           /\ w.journal = s.journal
           /\ w.disk \in {s.disk, s.mem}
           /\ ~w.dirty => w.disk = s.mem
  <1>1. CASE w = [s EXCEPT !.disk = s.mem, !.dirty = FALSE]
    BY <1>1 DEF Store
  <1>2. CASE w = [s EXCEPT !.dirty = TRUE, !.faults = @ + 1]
    <2>1. s.faults + 1 \in Nat
      BY DEF Store
    <2>2. w = [mem |-> s.mem, disk |-> s.disk, journal |-> s.journal, dirty |-> TRUE,
               faults |-> s.faults + 1]
      BY <1>2 DEF Store
    <2> QED  BY <2>1, <2>2 DEF Store
  <1> QED  BY <1>1, <1>2 DEF Saves

LEMMA MergedType == ASSUME NEW s \in Store PROVE Merged(s) \in Table
  BY DEF Store, Table, Merged

\* A job that is nowhere is in no table that is loaded.
LEMMA LoadsFacts ==
    ASSUME NEW s \in Store, NEW r \in Loads(s)
    PROVE  /\ r \in Store
           /\ \A j \in Job : Gone(s, j) => Gone(r, j)
  <1>1. CASE s.dirty \/ Busy
    BY <1>1 DEF Loads
  <1>2. CASE ~(s.dirty \/ Busy) /\ s.journal = NoLines
    <2>1. r = [s EXCEPT !.mem = s.disk]
      BY <1>2 DEF Loads
    <2> QED  BY <2>1 DEF Store, Gone
  <1>3. CASE ~(s.dirty \/ Busy) /\ s.journal # NoLines
    <2> DEFINE m == [s EXCEPT !.mem = Merged(s), !.journal = NoLines]
    <2>1. r \in Saves(m)
      BY <1>3 DEF Loads, MergeSaves
    <2>2. m \in Store
      BY MergedType DEF Store, NoLines
    <2>3. /\ r \in Store /\ r.mem = m.mem /\ r.journal = m.journal
          /\ r.disk \in {m.disk, m.mem}
      BY <2>1, <2>2, SavesFacts
    <2>4. m.mem = Merged(s) /\ m.disk = s.disk /\ m.journal = NoLines
      BY DEF Store
    <2>5. ASSUME NEW j \in Job, Gone(s, j) PROVE Gone(r, j)
      BY <2>3, <2>4, <2>5 DEF Gone, Merged, NoLines
    <2> QED  BY <2>3, <2>5
  <1> QED  BY <1>1, <1>2, <1>3

LEMMA ReadiedFacts ==
    ASSUME NEW s \in Store, NEW r \in Readied(s)
    PROVE  /\ r \in Store
           /\ \A j \in Job : Gone(s, j) => Gone(r, j)
  <1>1. PICK w \in (IF s.dirty THEN Saves(s) ELSE {s}) : r \in (IF w.dirty THEN {w} ELSE Loads(w))
    BY DEF Readied
  <1>2. /\ w \in Store
        /\ \A j \in Job : Gone(s, j) => Gone(w, j)
    BY <1>1, SavesFacts DEF Gone
  <1> QED  BY <1>1, <1>2, LoadsFacts

LEMMA AdvancedFacts ==
    ASSUME NEW s \in Store, NEW i \in Job, now \in Nat, CronAssumption
    PROVE  /\ Advanced(s, i) \in Store
           /\ \A j \in Job : Gone(s, j) => Gone(Advanced(s, i), j)
  <1>1. NextRun(i) \in Nat
    BY DEF NextRun, NoTime, CronAssumption
  <1>2. \A x \in Record : [x EXCEPT !.next = NextRun(i)] \in Record
    BY <1>1 DEF Record
  <1> QED  BY <1>1, <1>2 DEF Advanced, Store, Table, Gone

LEMMA GoneAfterSave ==
    ASSUME NEW s \in Store, NEW w \in Saves(s), NEW j \in Job, Gone(s, j)
    PROVE  Gone(w, j)
  BY SavesFacts DEF Gone

-----------------------------------------------------------------------------
(* The timer *)

LEMMA IdleTask == Idle \in Task
  BY DEF Idle, Task, NoTime, NoDue

\* After _arm_timer the new task is the only live one and has nothing to run.
LEMMA ArmFacts ==
    ASSUME CronAssumption, NEW tasks \in [Tasks -> Task], NEW s, now \in Nat,
           \A t \in Timer : tasks[t].pc # "idle" /\ ~tasks[t].doomed => t = timer,
           Arm(tasks, s)
    PROVE  /\ timer' \in Timer
           /\ task' \in [Tasks -> Task]
           /\ {t \in Timer : Alive(t)'} = {timer'}
           /\ task'[timer'].rest = {}
  <1>1. PICK n \in Timer, w \in Wakes(s) :
          /\ Cancelled(tasks)[n].pc = "idle"
          /\ timer' = n
          /\ task' = [Cancelled(tasks) EXCEPT ![n] = [Idle EXCEPT !.pc = "asleep", !.wake = w]]
    BY DEF Arm
  <1>2. w \in Nat
    BY DEF Wakes, CronAssumption
  <1>3. [Idle EXCEPT !.pc = "asleep", !.wake = w] \in Task
    BY <1>2 DEF Idle, Task, NoTime, NoDue
  <1>4. Cancelled(tasks) \in [Tasks -> Task]
    <2>1. \A x \in Task : [x EXCEPT !.doomed = TRUE] \in Task
      BY DEF Task
    <2> QED  BY <2>1, IdleTask DEF Cancelled, Tasks
  <1>5. task' \in [Tasks -> Task]
    BY <1>1, <1>3, <1>4
  <1>6. \A t \in Timer : Cancelled(tasks)[t].pc = "idle" \/ Cancelled(tasks)[t].doomed
    <2> TAKE t \in Timer
    <2>1. CASE t # timer
      <3>1. Cancelled(tasks)[t] = tasks[t]
        BY <2>1 DEF Cancelled
      <3>2. tasks[t].doomed \in BOOLEAN
        BY DEF Tasks, Task
      <3> QED  BY <2>1, <3>1, <3>2
    <2>2. CASE t = timer /\ tasks[t].pc = "running"
      <3>1. Cancelled(tasks)[t] = [tasks[t] EXCEPT !.doomed = TRUE]
        BY <2>2 DEF Cancelled
      <3>2. tasks[t] \in Task
        BY DEF Tasks
      <3> QED  BY <3>1, <3>2 DEF Task
    <2>3. CASE t = timer /\ tasks[t].pc # "running"
      BY <2>3 DEF Cancelled, Idle
    <2> QED  BY <2>1, <2>2, <2>3
  <1>7. \A t \in Timer : t # n => task'[t] = Cancelled(tasks)[t]
    BY <1>1, <1>4 DEF Tasks
  <1>8. task'[n] = [Idle EXCEPT !.pc = "asleep", !.wake = w]
    BY <1>1, <1>4 DEF Tasks
  <1>9. task'[n].pc = "asleep" /\ ~task'[n].doomed /\ task'[n].rest = {}
    BY <1>8 DEF Idle
  <1>10. {t \in Timer : Alive(t)'} = {n}
    BY <1>6, <1>7, <1>9 DEF Alive
  <1> QED  BY <1>1, <1>5, <1>9, <1>10

\* An action that arms the timer keeps what IInv says of the tasks.
LEMMA Rearmed ==
    ASSUME IInv, up', NEW tasks \in [Tasks -> Task], NEW s,
           \A t \in Timer : tasks[t] \in {task[t], Idle},
           Arm(tasks, s)
    PROVE  /\ timer' \in Timer \cup {NoTimer}
           /\ task' \in [Tasks -> Task]
           /\ OneLiveTimer' /\ Quiet' /\ NotWaiting'
  <1>1. \A t \in Timer : tasks[t].pc # "idle" /\ ~tasks[t].doomed => t = timer
    <2> TAKE t \in Timer
    <2> HAVE tasks[t].pc # "idle" /\ ~tasks[t].doomed
    <2>1. tasks[t] = task[t]
      BY DEF Idle
    <2>2. t \in {u \in Timer : Alive(u)}
      BY <2>1 DEF Alive
    <2> QED  BY <2>2 DEF IInv, OneLiveTimer
  <1>2. now \in Nat
    BY DEF IInv, TypeOK
  <1>3. /\ timer' \in Timer
        /\ task' \in [Tasks -> Task]
        /\ {t \in Timer : Alive(t)'} = {timer'}
        /\ task'[timer'].rest = {}
    BY <1>1, <1>2, CronAssumption, ArmFacts
  <1>4. \A t \in Timer : Alive(t)' => t = timer'
    BY <1>3
  <1>5. NotWaiting'
    BY <1>3, <1>4 DEF NotWaiting
  <1>6. OneLiveTimer'
    BY <1>3 DEF OneLiveTimer
  <1> QED  BY <1>3, <1>5, <1>6 DEF Quiet

\* An action that leaves the timers alone keeps it too.
LEMMA TimersKept ==
    ASSUME IInv, UNCHANGED timer, up' = up, NotWaiting,
           task' \in [Tasks -> Task],
           \A t \in Timer : task'[t] = task[t],
           up
    PROVE  OneLiveTimer' /\ Quiet'
  <1>1. \A t \in Timer : Alive(t)' <=> Alive(t)
    BY DEF Alive
  <1> QED  BY <1>1 DEF IInv, OneLiveTimer, Quiet

LEMMA TaskTyped == ASSUME TypeOK PROVE task \in [Tasks -> Task]
  BY DEF TypeOK, Tasks

LEMMA IdledTyped ==
    ASSUME TypeOK, NEW t \in Tasks
    PROVE  /\ [task EXCEPT ![t] = Idle] \in [Tasks -> Task]
           /\ \A u \in Timer : [task EXCEPT ![t] = Idle][u] \in {task[u], Idle}
  BY IdleTask, TaskTyped DEF Tasks

\* The ghosts stay numbers.
LEMMA RenewsTyped ==
    ASSUME TypeOK, NEW r, Renews(r)
    PROVE  begun' \in [Job -> Nat] /\ ended' \in [Job -> Nat]
  BY DEF TypeOK, Renews, Renewed, NoTime

LEMMA RunningUp ==
    ASSUME IInv, NEW t \in Tasks, task[t] # Idle
    PROVE  up
  BY DEF IInv, Quiet

THEOREM InitInv == Init => IInv
  <1> SUFFICES ASSUME Init PROVE IInv
    OBVIOUS
  <1> USE CronAssumption
  <1>1. \A j \in Job : NextRun(j) \in Nat
    BY DEF Init, NextRun, NoTime
  <1>2. store \in Store
    BY <1>1 DEF Init, Store, Table, Record, Empty, NoLines
  <1>3. task \in [Tasks -> Task]
    BY IdleTask DEF Init, Tasks
  <1>4. TypeOK
    BY <1>2, <1>3 DEF Init, TypeOK, NoTimer, NoTime, Tasks
  <1>5. \A t \in Timer : ~Alive(t)
    BY DEF Init, Alive, Idle
  <1>6. OneLiveTimer
    BY <1>5 DEF Init, OneLiveTimer
  <1>7. Unborn
    BY DEF Init, Unborn, Gone, Empty, NoLines
  <1> QED  BY <1>4, <1>5, <1>6, <1>7 DEF IInv, Quiet, Forgotten, NotWaiting, Init, Tasks

-----------------------------------------------------------------------------
(* Every step *)

LEMMA ClockStep == IInv /\ Clock => IInv'
  BY DEF IInv, Clock, TypeOK, OneLiveTimer, Alive, Quiet, Unborn, Forgotten, NotWaiting, Gone,
         ghosts, counters, Tasks

LEMMA StutterStep == IInv /\ UNCHANGED vars => IInv'
  BY DEF IInv, vars, TypeOK, OneLiveTimer, Alive, Quiet, Unborn, Forgotten, NotWaiting, Gone,
         ghosts, counters, Tasks

\* The store of a gateway that is gone.
LEMMA ForgetsFacts ==
    ASSUME NEW s \in Store, Forgets(s), kept \subseteq born
    PROVE  /\ store' \in Store
           /\ \A j \in Job : Gone(s, j) => Gone(store', j)
           /\ kept' \subseteq born
  BY DEF Forgets, Dead, Store, Empty, Gone, Table

LEMMA RecomputedFacts ==
    ASSUME NEW s \in Store, now \in Nat
    PROVE  /\ Recomputed(s) \in Store
           /\ \A j \in Job : Gone(s, j) => Gone(Recomputed(s), j)
  <1>1. \A j \in Job : NextRun(j) \in Nat
    BY CronAssumption DEF NextRun, NoTime
  <1>2. \A j \in Job, x \in Record : [x EXCEPT !.next = NextRun(j)] \in Record
    BY <1>1 DEF Record
  <1>3. [j \in Job |-> IF s.mem[j] # NoJob /\ s.mem[j].on
                       THEN [s.mem[j] EXCEPT !.next = NextRun(j)] ELSE s.mem[j]] \in Table
    BY <1>2 DEF Store, Table
  <1> QED  BY <1>3 DEF Recomputed, Store, Gone

LEMMA StartStep == IInv /\ Start => IInv'
  <1> SUFFICES ASSUME IInv, Start PROVE IInv'
    OBVIOUS
  <1>1. PICK r \in Loads(store) :
          /\ Renews(r)
          /\ \/ Raised(store, r) /\ StartFails(r)
             \/ /\ ~Raised(store, r)
                /\ \E s \in Saves(Recomputed(r)) :
                     \/ s.dirty /\ StartFails(s)
                     \/ ~s.dirty /\ Started(s)
    BY DEF Start
  <1>2. store \in Store /\ TypeOK /\ now \in Nat /\ kept \subseteq born
    BY DEF IInv, TypeOK
  <1>3. begun' \in [Job -> Nat] /\ ended' \in [Job -> Nat]
    BY <1>1, <1>2, RenewsTyped
  <1>4. r \in Store /\ \A j \in Job : Gone(store, j) => Gone(r, j)
    BY <1>2, LoadsFacts
  <1>5. UNCHANGED <<now, born, removed, requests, deaths>> /\ ~up
    BY DEF Start, counters
  <1>6. CASE \E s \in Store : StartFails(s) /\ \A j \in Job : Gone(r, j) => Gone(s, j)
    <2>1. PICK s \in Store : StartFails(s) /\ \A j \in Job : Gone(r, j) => Gone(s, j)
      BY <1>6
    <2>2. store' \in Store /\ kept' \subseteq born /\ \A j \in Job : Gone(s, j) => Gone(store', j)
      BY <2>1, <1>2, ForgetsFacts DEF StartFails
    <2>3. \A j \in Job : Gone(store, j) => Gone(store', j)
      BY <2>1, <2>2, <1>4
    <2>4. UNCHANGED <<up, timer, task>>
      BY <2>1 DEF StartFails
    <2> QED
      BY <1>2, <1>3, <1>5, <2>2, <2>3, <2>4
      DEF IInv, TypeOK, OneLiveTimer, Alive, Quiet, Unborn, Forgotten, NotWaiting, Tasks
  <1>7. CASE \E s \in Store : Started(s) /\ \A j \in Job : Gone(r, j) => Gone(s, j)
    <2>1. PICK s \in Store : Started(s) /\ \A j \in Job : Gone(r, j) => Gone(s, j)
      BY <1>7
    <2>2. up' = TRUE /\ store' = s /\ kept' = kept /\ Arm(task, s)
      BY <2>1 DEF Started
    <2>3. \A j \in Job : Gone(store, j) => Gone(store', j)
      BY <2>1, <2>2, <1>4
    <2>4. /\ timer' \in Timer \cup {NoTimer}
          /\ task' \in [Tasks -> Task]
          /\ OneLiveTimer' /\ Quiet' /\ NotWaiting'
      BY <2>2, <1>2, TaskTyped, Rearmed
    <2>5. TypeOK'
      BY <1>2, <1>3, <1>5, <2>2, <2>4 DEF TypeOK, Tasks
    <2> QED
      BY <1>5, <2>3, <2>4, <2>5 DEF IInv, TypeOK, Unborn, Forgotten
  <1>8. ASSUME ~Raised(store, r), NEW s \in Saves(Recomputed(r))
        PROVE  s \in Store /\ \A j \in Job : Gone(r, j) => Gone(s, j)
    BY <1>2, <1>4, RecomputedFacts, SavesFacts, GoneAfterSave
  <1> QED  BY <1>1, <1>4, <1>6, <1>7, <1>8

LEMMA DieStep == IInv /\ Die => IInv'
  <1> SUFFICES ASSUME IInv, Die PROVE IInv'
    OBVIOUS
  <1>1. TypeOK /\ store \in Store /\ kept \subseteq born
    BY DEF IInv, TypeOK
  <1>2. /\ store' \in Store /\ kept' \subseteq born
        /\ \A j \in Job : Gone(store, j) => Gone(store', j)
    BY <1>1, ForgetsFacts DEF Die
  <1>3. task' = [t \in Tasks |-> Idle] /\ up' = FALSE /\ timer' = NoTimer
    BY DEF Die, Tasks
  <1>4. \A t \in Timer : ~Alive(t)'
    BY <1>3 DEF Alive, Idle, Tasks
  <1>5. task' \in [Tasks -> Task]
    BY <1>3, IdleTask
  <1>6. deaths' \in Nat
    BY <1>1 DEF Die, TypeOK
  <1>7. TypeOK'
    BY <1>1, <1>2, <1>3, <1>5, <1>6 DEF Die, TypeOK, Tasks
  <1> QED
    BY <1>2, <1>3, <1>4, <1>7
    DEF Die, IInv, TypeOK, OneLiveTimer, Quiet, Unborn, Forgotten, NotWaiting

\* What IInv asks of an action that keeps the gateway up, adds no job to the
\* removed ones and takes no job from nowhere.
LEMMA KeepsInv ==
    ASSUME IInv, TypeOK',
           \A j \in Job : Gone(store, j) => Gone(store', j),
           born' = born, removed' = removed,
           OneLiveTimer', Quiet', NotWaiting'
    PROVE  IInv'
  BY DEF IInv, TypeOK, Unborn, Forgotten

LEMMA DueType ==
    ASSUME NEW s \in Store
    PROVE  /\ DueJobs(s) \subseteq Due
           /\ \A d \in DueJobs(s) : s.mem[d.job] # NoJob
  <1>1. ASSUME NEW j \in Job, Scheduled(s, j) PROVE s.mem[j].next \in Nat
    <2>1. s.mem[j] \in Record
      BY <1>1 DEF Store, Table, Scheduled
    <2> QED  BY <2>1 DEF Record
  <1> QED  BY <1>1 DEF DueJobs, DueBy, Scheduled, Due

\* A live timer that goes on to a job stays the only live one.
LEMMA TimerRuns ==
    ASSUME IInv, NEW t \in Timer, Alive(t), UNCHANGED <<timer, up, removed>>,
           NEW d \in Due, NEW S \in SUBSET Due,
           task' = [task EXCEPT ![t] = [Idle EXCEPT !.pc = "running", !.run = d, !.rest = S]],
           \A e \in S : e.job \notin removed
    PROVE  /\ task' \in [Tasks -> Task]
           /\ OneLiveTimer' /\ Quiet' /\ NotWaiting'
  <1>1. task \in [Tasks -> Task]
    BY TaskTyped DEF IInv
  <1>2. /\ task' \in [Tasks -> Task]
        /\ task'[t].pc = "running" /\ ~task'[t].doomed /\ task'[t].rest = S
        /\ \A u \in Timer : u # t => task'[u] = task[u]
    <2>1. PICK x : x = [Idle EXCEPT !.pc = "running", !.run = d, !.rest = S]
      OBVIOUS
    <2>2. x \in Task /\ x.pc = "running" /\ x.doomed = FALSE /\ x.rest = S
      BY <2>1 DEF Idle, Task, NoTime
    <2>3. task' = [task EXCEPT ![t] = x]
      BY <2>1
    <2> QED  BY <1>1, <2>2, <2>3 DEF Tasks
  <1>3. \A u \in Timer : Alive(u)' <=> Alive(u)
    BY <1>2 DEF Alive
  <1>4. OneLiveTimer'
    BY <1>3 DEF IInv, OneLiveTimer
  <1>5. up
    BY DEF IInv, OneLiveTimer
  <1>6. NotWaiting'
    BY <1>2, <1>3 DEF IInv, NotWaiting
  <1> QED  BY <1>2, <1>4, <1>5, <1>6 DEF Quiet

LEMMA FireStep == ASSUME IInv, NEW t \in Timer, Fire(t) PROVE IInv'
  <1>1. /\ TypeOK /\ store \in Store /\ now \in Nat /\ t \in Tasks
        /\ begun \in [Job -> Nat] /\ ended \in [Job -> Nat]
    BY DEF IInv, TypeOK, Tasks
  <1>2. task[t].pc = "asleep" /\ ~task[t].doomed
    BY DEF Fire
  <1>3. Alive(t) /\ up
    BY <1>2 DEF Alive, IInv, OneLiveTimer
  <1>4. UNCHANGED <<now, up, born, kept, removed, requests, deaths>>
    BY DEF Fire, counters
  <1>5. ASSUME store' \in Store, \A j \in Job : Gone(store, j) => Gone(store', j), Leave(t),
               begun' \in [Job -> Nat], ended' \in [Job -> Nat]
        PROVE  IInv'
    <2>1. /\ timer' \in Timer \cup {NoTimer}
          /\ task' \in [Tasks -> Task]
          /\ OneLiveTimer' /\ Quiet' /\ NotWaiting'
      BY <1>1, <1>3, <1>4, <1>5, IdledTyped, Rearmed DEF Leave
    <2>2. TypeOK'
      BY <1>1, <1>4, <1>5, <2>1 DEF TypeOK, Tasks
    <2> QED  BY <1>4, <1>5, <2>1, <2>2, KeepsInv
  <1>6. CASE SaveAgain(t)
    BY <1>1, <1>5, <1>6, SavesFacts, GoneAfterSave DEF SaveAgain
  <1>7. CASE TickFails(t)
    BY <1>1, <1>5, <1>7, LoadsFacts, RenewsTyped DEF TickFails
  <1>8. CASE TickFindsNothing(t)
    <2>1. PICK r \in Loads(store) : store' \in Saves(r) /\ Leave(t) /\ Renews(r)
      BY <1>8 DEF TickFindsNothing
    <2>2. r \in Store /\ \A j \in Job : Gone(store, j) => Gone(r, j)
      BY <1>1, LoadsFacts
    <2>3. store' \in Store /\ \A j \in Job : Gone(store, j) => Gone(store', j)
      BY <2>1, <2>2, SavesFacts, GoneAfterSave
    <2> QED  BY <1>1, <1>5, <2>1, <2>3, RenewsTyped
  <1>9. CASE TickRuns(t)
    <2>0. PICK r \in Loads(store) : \E d \in DueJobs(r) :
            /\ store' = r
            /\ task' = [task EXCEPT ![t] = [Idle EXCEPT !.pc = "running", !.run = d,
                                                        !.rest = DueJobs(r) \ {d}]]
            /\ begun' = [Renewed(begun, store, r) EXCEPT ![d.job] = d.at]
            /\ ended' = Renewed(ended, store, r)
            /\ UNCHANGED timer
      BY <1>9 DEF TickRuns
    <2>1. PICK d \in DueJobs(r) :
            /\ store' = r
            /\ task' = [task EXCEPT ![t] = [Idle EXCEPT !.pc = "running", !.run = d,
                                                        !.rest = DueJobs(r) \ {d}]]
            /\ begun' = [Renewed(begun, store, r) EXCEPT ![d.job] = d.at]
            /\ ended' = Renewed(ended, store, r)
            /\ UNCHANGED timer
      BY <2>0
    <2>2. r \in Store /\ \A j \in Job : Gone(store, j) => Gone(r, j)
      BY <1>1, LoadsFacts
    <2>3. d \in Due /\ DueJobs(r) \ {d} \in SUBSET Due
      BY <2>2, DueType
    <2>4. \A e \in DueJobs(r) \ {d} : e.job \notin removed
      <3>1. \A j \in removed : j \in Job /\ r.mem[j] = NoJob
        BY <1>1, <2>2 DEF IInv, Forgotten, TypeOK, Gone
      <3> QED  BY <3>1, <2>2, DueType
    <2>5. /\ task' \in [Tasks -> Task]
          /\ OneLiveTimer' /\ Quiet' /\ NotWaiting'
      BY <1>3, <1>4, <2>1, <2>3, <2>4, TimerRuns
    <2>6. begun' \in [Job -> Nat] /\ ended' \in [Job -> Nat]
      BY <1>1, <2>1, <2>3 DEF Renewed, NoTime, Due
    <2>7. TypeOK'
      BY <1>1, <1>4, <2>1, <2>2, <2>5, <2>6 DEF TypeOK, Tasks
    <2> QED  BY <1>4, <2>1, <2>2, <2>5, <2>7, KeepsInv
  <1> QED  BY <1>6, <1>7, <1>8, <1>9 DEF Fire

LEMMA FinishStep == ASSUME IInv, NEW t \in Timer, Finish(t) PROVE IInv'
  <1> DEFINE d == task[t].run
             s == Advanced(store, d.job)
  <1>1. /\ TypeOK /\ store \in Store /\ now \in Nat /\ t \in Tasks /\ task[t] \in Task
        /\ begun \in [Job -> Nat] /\ ended \in [Job -> Nat] /\ kept \subseteq born
    BY TaskTyped DEF IInv, TypeOK, Tasks
  <1>2. Alive(t) /\ up
    BY DEF Finish, Alive, IInv, OneLiveTimer
  <1>3. UNCHANGED <<now, up, born, removed, requests, deaths>> /\ kept' \subseteq born
    BY <1>1 DEF Finish, counters
  <1>4. ended' = [ended EXCEPT ![d.job] = d.at]
    BY DEF Finish
  <1>5. d \in Due \cup {NoDue} /\ task[t].rest \in SUBSET Due
    BY <1>1 DEF Task
  <1>6. ended' \in [Job -> Nat]
    <2>1. d.at \in Nat
      BY <1>5 DEF Due, NoDue, NoTime
    <2> QED  BY <1>1, <1>4, <2>1
  <1>7. s \in Store /\ \A j \in Job : Gone(store, j) => Gone(s, j)
    <2>1. CASE d.job \in Job
      BY <1>1, <2>1, AdvancedFacts, CronAssumption
    <2>2. CASE d.job \notin Job
      BY <1>1, <2>2 DEF Advanced, Store, Table, Gone
    <2> QED  BY <2>1, <2>2
  <1>8. CASE task[t].rest # {} /\ store' = s /\ Begin(t, task[t].rest)
    <2>1. PICK e \in task[t].rest :
            /\ task' = [task EXCEPT ![t] = [Idle EXCEPT !.pc = "running", !.run = e,
                                                        !.rest = task[t].rest \ {e}]]
            /\ begun' = [begun EXCEPT ![e.job] = e.at]
            /\ UNCHANGED timer
      BY <1>8 DEF Begin
    <2>2. e \in Due /\ task[t].rest \ {e} \in SUBSET Due
      BY <1>5
    <2>3. \A x \in task[t].rest \ {e} : x.job \notin removed
      BY <1>2 DEF IInv, NotWaiting
    <2>4. /\ task' \in [Tasks -> Task]
          /\ OneLiveTimer' /\ Quiet' /\ NotWaiting'
      BY <1>2, <1>3, <2>1, <2>2, <2>3, TimerRuns
    <2>5. begun' \in [Job -> Nat]
      BY <1>1, <2>1, <2>2 DEF Due
    <2>6. TypeOK'
      BY <1>1, <1>3, <1>6, <1>7, <1>8, <2>1, <2>4, <2>5 DEF TypeOK, Tasks
    <2> QED  BY <1>3, <1>7, <1>8, <2>4, <2>6, KeepsInv
  <1>9. CASE store' \in Saves(s) /\ Leave(t) /\ UNCHANGED begun
    <2>1. store' \in Store /\ \A j \in Job : Gone(store, j) => Gone(store', j)
      BY <1>7, <1>9, SavesFacts, GoneAfterSave
    <2>2. /\ timer' \in Timer \cup {NoTimer}
          /\ task' \in [Tasks -> Task]
          /\ OneLiveTimer' /\ Quiet' /\ NotWaiting'
      BY <1>1, <1>2, <1>3, <1>9, IdledTyped, Rearmed DEF Leave
    <2>3. TypeOK'
      BY <1>1, <1>3, <1>6, <1>9, <2>1, <2>2 DEF TypeOK, Tasks
    <2> QED  BY <1>3, <2>1, <2>2, <2>3, KeepsInv
  <1> QED  BY <1>8, <1>9 DEF Finish

LEMMA UnwindStep == ASSUME IInv, NEW t \in Timer, Unwind(t) PROVE IInv'
  <1>1. TypeOK /\ t \in Tasks
    BY DEF IInv, TypeOK, Tasks
  <1>2. UNCHANGED <<now, up, store, born, begun, ended, kept, removed, requests, deaths>>
    BY DEF Unwind, ghosts, counters
  <1>3. up
    BY RunningUp, <1>1 DEF Unwind, Idle
  <1>4. /\ timer' \in Timer \cup {NoTimer}
        /\ task' \in [Tasks -> Task]
        /\ OneLiveTimer' /\ Quiet' /\ NotWaiting'
    BY <1>1, <1>2, <1>3, IdledTyped, Rearmed DEF Leave, Unwind
  <1>5. TypeOK'
    BY <1>1, <1>2, <1>4 DEF TypeOK, Tasks
  <1> QED  BY <1>2, <1>4, <1>5, KeepsInv

\* The end of a run that the timer does not own, and what follows a request.
LEMMA ArmsIfIdleKeeps ==
    ASSUME IInv, up, up' = up, NEW tasks \in [Tasks -> Task],
           \A t \in Timer : tasks[t] = task[t],
           ArmsIfIdle(tasks), removed' = removed
    PROVE  /\ timer' \in Timer \cup {NoTimer}
           /\ task' \in [Tasks -> Task]
           /\ OneLiveTimer' /\ Quiet' /\ NotWaiting'
  <1>1. CASE task' = tasks /\ UNCHANGED timer
    <2>1. OneLiveTimer' /\ Quiet'
      BY <1>1, TimersKept DEF IInv
    <2>2. NotWaiting'
      BY <1>1 DEF IInv, NotWaiting, Alive
    <2>3. timer' \in Timer \cup {NoTimer}
      BY <1>1 DEF IInv, TypeOK
    <2> QED  BY <1>1, <2>1, <2>2, <2>3
  <1>2. CASE Arm(tasks, store')
    BY <1>2, Rearmed
  <1> QED  BY <1>1, <1>2 DEF ArmsIfIdle

\* The timers of a request that leaves them alone.
LEMMA SameTimersKeep ==
    ASSUME IInv, up, up' = up, SameTimers, removed' = removed
    PROVE  /\ timer' \in Timer \cup {NoTimer}
           /\ task' \in [Tasks -> Task]
           /\ OneLiveTimer' /\ Quiet' /\ NotWaiting'
  <1>1. timer' = timer /\ task' = task
    BY DEF SameTimers
  <1> QED  BY <1>1, TaskTyped DEF IInv, TypeOK, OneLiveTimer, Quiet, NotWaiting, Alive

LEMMA ManualTask ==
    ASSUME NEW m \in Manual
    PROVE  m \in Tasks /\ m \notin Timer
  BY CronAssumption DEF Tasks, Timer

LEMMA RunNowStep == ASSUME IInv, NEW m \in Manual, NEW i \in Job, RunNow(m, i) PROVE IInv'
  <1>1. /\ TypeOK /\ store \in Store /\ m \in Tasks /\ m \notin Timer
        /\ task \in [Tasks -> Task] /\ requests \in Nat
    BY ManualTask, TaskTyped DEF IInv, TypeOK
  <1>2. UNCHANGED <<now, up, deaths, born, kept, removed>> /\ requests' = requests + 1 /\ up
    BY DEF RunNow, Request
  <1>3. PICK r \in Readied(store) :
         /\ store' = r
         /\ Renews(r)
         /\ \/ ArmsIfIdle(task)
            \/ /\ r.mem[i] # NoJob
               /\ task' = [task EXCEPT ![m] = [Idle EXCEPT !.pc = "running",
                                                           !.run = [job |-> i, at |-> r.mem[i].next]]]
               /\ UNCHANGED timer
    BY DEF RunNow
  <1>4. store' \in Store /\ r \in Store /\ \A j \in Job : Gone(store, j) => Gone(store', j)
    BY <1>1, <1>3, ReadiedFacts
  <1>5. begun' \in [Job -> Nat] /\ ended' \in [Job -> Nat]
    BY <1>1, <1>3, RenewsTyped
  <1>6. /\ timer' \in Timer \cup {NoTimer}
        /\ task' \in [Tasks -> Task]
        /\ OneLiveTimer' /\ Quiet' /\ NotWaiting'
    <2>1. CASE ArmsIfIdle(task)
      BY <1>1, <1>2, <2>1, ArmsIfIdleKeeps
    <2>2. CASE /\ r.mem[i] # NoJob
               /\ task' = [task EXCEPT ![m] = [Idle EXCEPT !.pc = "running",
                                                           !.run = [job |-> i, at |-> r.mem[i].next]]]
               /\ UNCHANGED timer
      <3>1. [job |-> i, at |-> r.mem[i].next] \in Due
        BY <1>4, <2>2 DEF Store, Table, Record, Due
      <3>2. PICK d \in Due : task' = [task EXCEPT ![m] = [Idle EXCEPT !.pc = "running", !.run = d]]
        BY <2>2, <3>1
      <3>3. [Idle EXCEPT !.pc = "running", !.run = d] \in Task
        BY DEF Idle, Task, NoTime
      <3>4. task' \in [Tasks -> Task] /\ \A t \in Timer : task'[t] = task[t]
        BY <1>1, <3>2, <3>3 DEF Tasks
      <3>5. OneLiveTimer' /\ Quiet'
        BY <1>2, <2>2, <3>4, TimersKept DEF IInv
      <3>6. NotWaiting'
        BY <1>2, <3>4 DEF IInv, NotWaiting, Alive
      <3> QED  BY <2>2, <3>4, <3>5, <3>6 DEF IInv, TypeOK
    <2> QED  BY <1>3, <2>1, <2>2
  <1>7. TypeOK'
    BY <1>1, <1>2, <1>4, <1>5, <1>6 DEF TypeOK, Tasks
  <1> QED  BY <1>2, <1>4, <1>6, <1>7, KeepsInv

LEMMA EndOfRunStep ==
    ASSUME IInv, NEW m \in Manual, FinishRun(m) \/ AbortRun(m)
    PROVE  IInv'
  <1>1. /\ TypeOK /\ store \in Store /\ m \in Tasks /\ m \notin Timer /\ now \in Nat
        /\ task \in [Tasks -> Task] /\ task[m] \in Task
    BY ManualTask, TaskTyped DEF IInv, TypeOK
  <1>2. UNCHANGED <<now, up, born, begun, ended, removed, requests, deaths>> /\ EndOfRun(m)
    BY DEF FinishRun, AbortRun, ghosts, counters
  <1>3. up
    BY <1>1, RunningUp DEF FinishRun, AbortRun, Idle
  <1>4. kept' \subseteq born
    BY <1>1 DEF FinishRun, AbortRun, ghosts, TypeOK
  <1>5. store' \in Store /\ \A j \in Job : Gone(store, j) => Gone(store', j)
    <2> DEFINE s == Advanced(store, task[m].run.job)
    <2>1. s \in Store /\ \A j \in Job : Gone(store, j) => Gone(s, j)
      <3>1. CASE task[m].run.job \in Job
        BY <1>1, <3>1, AdvancedFacts, CronAssumption
      <3>2. CASE task[m].run.job \notin Job
        BY <1>1, <3>2 DEF Advanced, Store, Table, Gone
      <3> QED  BY <3>1, <3>2
    <2>2. CASE store' \in Saves(s)
      BY <2>1, <2>2, SavesFacts, GoneAfterSave
    <2>3. CASE store' = store
      BY <1>1, <2>3
    <2> QED  BY <2>2, <2>3 DEF FinishRun, AbortRun
  <1>6. /\ timer' \in Timer \cup {NoTimer}
        /\ task' \in [Tasks -> Task]
        /\ OneLiveTimer' /\ Quiet' /\ NotWaiting'
    <2>1. /\ [task EXCEPT ![m] = Idle] \in [Tasks -> Task]
          /\ \A t \in Timer : [task EXCEPT ![m] = Idle][t] = task[t]
      BY <1>1, IdleTask DEF Tasks
    <2> QED  BY <1>2, <1>3, <2>1, ArmsIfIdleKeeps DEF EndOfRun
  <1>7. TypeOK'
    BY <1>1, <1>2, <1>4, <1>5, <1>6 DEF TypeOK, Tasks
  <1> QED  BY <1>2, <1>5, <1>6, <1>7, KeepsInv

\* An edit of job i.
LEMMA EditFacts ==
    ASSUME IInv, up, up' = up, now' = now, NEW r \in Loads(store), NEW i \in Job,
           NEW rec \in Record \cup {NoJob}, Edit(r, i, rec)
    PROVE  /\ store' \in Store
           /\ store'.mem[i] = rec
           /\ ~store'.dirty => store'.disk[i] = rec
           /\ \A j \in Job \ {i} : Gone(store, j) => Gone(store', j)
           /\ removed' = removed =>
                  /\ timer' \in Timer \cup {NoTimer}
                  /\ task' \in [Tasks -> Task]
                  /\ OneLiveTimer' /\ Quiet' /\ NotWaiting'
           /\ ~store'.dirty =>
                  /\ timer' \in Timer \cup {NoTimer}
                  /\ task' \in [Tasks -> Task]
                  /\ OneLiveTimer' /\ Quiet' /\ NotWaiting'
  <1> DEFINE s == [r EXCEPT !.mem[i] = rec]
  <1>1. store \in Store /\ TypeOK
    BY DEF IInv, TypeOK
  <1>2. r \in Store /\ \A j \in Job : Gone(store, j) => Gone(r, j)
    BY <1>1, LoadsFacts
  <1>3. s = [r EXCEPT !.mem = [r.mem EXCEPT ![i] = rec]]
    OBVIOUS
  <1>4. [r.mem EXCEPT ![i] = rec] \in Table
    BY <1>2 DEF Store, Table
  <1>5. s \in Store /\ s.mem = [r.mem EXCEPT ![i] = rec] /\ s.disk = r.disk /\ s.journal = r.journal
    BY <1>2, <1>3, <1>4 DEF Store
  <1>6. store' \in Saves(s)
    BY DEF Edit
  <1> HIDE DEF s
  <1>7. /\ store' \in Store /\ store'.mem = s.mem /\ store'.journal = s.journal
        /\ store'.disk \in {s.disk, s.mem}
        /\ ~store'.dirty => store'.disk = s.mem
    BY <1>5, <1>6, SavesFacts
  <1>8. \A j \in Job \ {i} : Gone(store, j) => Gone(store', j)
    BY <1>2, <1>5, <1>7 DEF Gone, Store, Table
  <1>9. s.mem[i] = rec
    BY <1>2, <1>5 DEF Store, Table
  <1>10. CASE store'.dirty
    <2>1. SameTimers
      BY <1>10 DEF Edit
    <2> QED  BY <1>7, <1>8, <1>9, <1>10, <2>1, SameTimersKeep
  <1>11. CASE ~store'.dirty
    <2>1. Arm(task, store')
      BY <1>11 DEF Edit
    <2>2. /\ timer' \in Timer \cup {NoTimer}
          /\ task' \in [Tasks -> Task]
          /\ OneLiveTimer' /\ Quiet' /\ NotWaiting'
      BY <1>1, <2>1, TaskTyped, Rearmed
    <2> QED  BY <1>7, <1>8, <1>9, <1>11, <2>2
  <1> QED  BY <1>10, <1>11

LEMMA NewRecord ==
    ASSUME TypeOK, NEW i \in Job, NEW on \in BOOLEAN
    PROVE  /\ [on |-> TRUE, next |-> NextRun(i)] \in Record
           /\ [on |-> on, next |-> IF on THEN NextRun(i) ELSE NoTime] \in Record
  <1>1. NextRun(i) \in Nat
    BY CronAssumption DEF NextRun, NoTime, TypeOK
  <1> QED  BY <1>1 DEF Record, NoTime

\* A request that could not even load the store.
LEMMA EditFailsFacts ==
    ASSUME IInv, up, up' = up, removed' = removed, NEW r \in Loads(store), EditFails(r)
    PROVE  /\ store' \in Store
           /\ \A j \in Job : Gone(store, j) => Gone(store', j)
           /\ timer' \in Timer \cup {NoTimer}
           /\ task' \in [Tasks -> Task]
           /\ OneLiveTimer' /\ Quiet' /\ NotWaiting'
  <1>1. store' = r /\ SameTimers /\ store \in Store
    BY DEF EditFails, IInv, TypeOK
  <1> QED  BY <1>1, LoadsFacts, SameTimersKeep

LEMMA AddStep == ASSUME IInv, NEW i \in Job, Add(i) PROVE IInv'
  <1>1. /\ TypeOK /\ requests \in Nat /\ i \notin born /\ up
        /\ UNCHANGED <<now, up, deaths, removed>> /\ requests' = requests + 1
        /\ born' = born \cup {i} /\ kept' \subseteq born'
    BY DEF IInv, TypeOK, Add, Request
  <1>2. PICK r \in Loads(store) :
          /\ Renews(r)
          /\ EditFails(r) \/ Edit(r, i, [on |-> TRUE, next |-> NextRun(i)])
    BY DEF Add
  <1>3. begun' \in [Job -> Nat] /\ ended' \in [Job -> Nat]
    BY <1>1, <1>2, RenewsTyped
  <1>4. [on |-> TRUE, next |-> NextRun(i)] \in Record \cup {NoJob}
    BY <1>1, NewRecord
  <1>5. /\ store' \in Store
        /\ \A j \in Job \ {i} : Gone(store, j) => Gone(store', j)
        /\ timer' \in Timer \cup {NoTimer}
        /\ task' \in [Tasks -> Task]
        /\ OneLiveTimer' /\ Quiet' /\ NotWaiting'
    <2>1. CASE EditFails(r)
      BY <1>1, <2>1, EditFailsFacts
    <2>2. CASE Edit(r, i, [on |-> TRUE, next |-> NextRun(i)])
      <3> DEFINE rec == [on |-> TRUE, next |-> NextRun(i)]
      <3>1. rec \in Record \cup {NoJob} /\ Edit(r, i, rec)
        BY <1>4, <2>2
      <3> HIDE DEF rec
      <3> QED  BY <1>1, <3>1, EditFacts
    <2> QED  BY <1>2, <2>1, <2>2
  <1>6. TypeOK'
    BY <1>1, <1>3, <1>5 DEF TypeOK, Tasks
  <1>7. i \notin removed
    BY <1>1 DEF TypeOK
  <1> QED  BY <1>1, <1>5, <1>6, <1>7 DEF IInv, TypeOK, Unborn, Forgotten

LEMMA RemoveStep == ASSUME IInv, NEW i \in Job, Remove(i) PROVE IInv'
  <1>1. /\ TypeOK /\ requests \in Nat /\ store \in Store /\ up
        /\ UNCHANGED <<now, up, deaths, born>> /\ requests' = requests + 1
    BY DEF IInv, TypeOK, Remove, Request
  <1>2. PICK r \in Loads(store) :
          /\ Renews(r)
          /\ \/ EditFails(r) /\ UNCHANGED <<kept, removed>>
             \/ /\ r.mem[i] # NoJob
                /\ Edit(r, i, NoJob)
                /\ kept' = kept \ {i}
                /\ removed' = IF store'.dirty \/ store'.journal[i] # NoLine THEN removed
                              ELSE removed \cup {i}
    BY DEF Remove
  <1>3. begun' \in [Job -> Nat] /\ ended' \in [Job -> Nat]
    BY <1>1, <1>2, RenewsTyped
  <1>4. CASE EditFails(r) /\ UNCHANGED <<kept, removed>>
    <2>1. /\ store' \in Store
          /\ \A j \in Job : Gone(store, j) => Gone(store', j)
          /\ timer' \in Timer \cup {NoTimer}
          /\ task' \in [Tasks -> Task]
          /\ OneLiveTimer' /\ Quiet' /\ NotWaiting'
      BY <1>1, <1>4, EditFailsFacts
    <2>2. TypeOK'
      BY <1>1, <1>3, <1>4, <2>1 DEF TypeOK, Tasks
    <2> QED  BY <1>1, <1>4, <2>1, <2>2, KeepsInv
  <1>5. CASE /\ r.mem[i] # NoJob
             /\ Edit(r, i, NoJob)
             /\ kept' = kept \ {i}
             /\ removed' = IF store'.dirty \/ store'.journal[i] # NoLine THEN removed
                           ELSE removed \cup {i}
    <2>1. /\ store' \in Store
          /\ store'.mem[i] = NoJob
          /\ ~store'.dirty => store'.disk[i] = NoJob
          /\ \A j \in Job \ {i} : Gone(store, j) => Gone(store', j)
          /\ removed' = removed \/ ~store'.dirty =>
                /\ timer' \in Timer \cup {NoTimer}
                /\ task' \in [Tasks -> Task]
                /\ OneLiveTimer' /\ Quiet' /\ NotWaiting'
      BY <1>1, <1>5, EditFacts
    <2>2. removed' = removed \/ (~store'.dirty /\ removed' = removed \cup {i} /\ store'.journal[i] = NoLine)
      BY <1>5
    <2>3. Gone(store, i) => FALSE
      BY <1>1, <1>5, LoadsFacts DEF Gone
    <2>4. i \in born
      BY <2>3 DEF IInv, Unborn
    <2>5. \A j \in removed' : Gone(store', j)
      BY <1>1, <2>1, <2>2, <2>3 DEF IInv, Forgotten, Gone, TypeOK
    <2>6. TypeOK'
      BY <1>1, <1>3, <1>5, <2>1, <2>2, <2>4 DEF TypeOK, Tasks
    <2> QED  BY <1>1, <2>1, <2>2, <2>4, <2>5, <2>6 DEF IInv, Unborn, Forgotten
  <1> QED  BY <1>2, <1>4, <1>5

LEMMA SwitchStep == ASSUME IInv, NEW i \in Job, NEW on \in BOOLEAN, Switch(i, on) PROVE IInv'
  <1> DEFINE rec == [on |-> on, next |-> IF on THEN NextRun(i) ELSE NoTime]
  <1>1. /\ TypeOK /\ requests \in Nat /\ store \in Store /\ up
        /\ UNCHANGED <<now, up, deaths, born, kept, removed>> /\ requests' = requests + 1
    BY DEF IInv, TypeOK, Switch, Request
  <1>2. PICK r \in Loads(store) :
          /\ Renews(r)
          /\ EditFails(r) \/ (r.mem[i] # NoJob /\ Edit(r, i, rec))
    BY DEF Switch
  <1>3. begun' \in [Job -> Nat] /\ ended' \in [Job -> Nat]
    BY <1>1, <1>2, RenewsTyped
  <1>4. rec \in Record \cup {NoJob}
    BY <1>1, NewRecord
  <1> HIDE DEF rec
  <1>5. CASE EditFails(r)
    <2>1. /\ store' \in Store
          /\ \A j \in Job : Gone(store, j) => Gone(store', j)
          /\ timer' \in Timer \cup {NoTimer}
          /\ task' \in [Tasks -> Task]
          /\ OneLiveTimer' /\ Quiet' /\ NotWaiting'
      BY <1>1, <1>5, EditFailsFacts
    <2>2. TypeOK'
      BY <1>1, <1>3, <2>1 DEF TypeOK, Tasks
    <2> QED  BY <1>1, <2>1, <2>2, KeepsInv
  <1>6. CASE r.mem[i] # NoJob /\ Edit(r, i, rec)
    <2>1. /\ store' \in Store
          /\ \A j \in Job \ {i} : Gone(store, j) => Gone(store', j)
          /\ timer' \in Timer \cup {NoTimer}
          /\ task' \in [Tasks -> Task]
          /\ OneLiveTimer' /\ Quiet' /\ NotWaiting'
      BY <1>1, <1>4, <1>6, EditFacts
    <2>2. ~Gone(store, i)
      BY <1>1, <1>6, LoadsFacts DEF Gone
    <2>3. TypeOK'
      BY <1>1, <1>3, <2>1 DEF TypeOK, Tasks
    <2> QED  BY <1>1, <2>1, <2>2, <2>3, KeepsInv
  <1> QED  BY <1>2, <1>5, <1>6

LEMMA PollStep == IInv /\ Poll => IInv'
  <1> SUFFICES ASSUME IInv, Poll PROVE IInv'
    OBVIOUS
  <1>1. TypeOK /\ store \in Store
    BY DEF IInv, TypeOK
  <1>2. UNCHANGED <<now, up, timer, task, born, kept, removed, requests, deaths>> /\ up
    BY DEF Poll, counters
  <1>3. PICK r \in Loads(store) : store' = r /\ Renews(r)
    BY DEF Poll
  <1>4. store' \in Store /\ \A j \in Job : Gone(store, j) => Gone(store', j)
    BY <1>1, <1>3, LoadsFacts
  <1>5. begun' \in [Job -> Nat] /\ ended' \in [Job -> Nat]
    BY <1>1, <1>3, RenewsTyped
  <1>6. OneLiveTimer' /\ Quiet' /\ NotWaiting'
    BY <1>2, SameTimersKeep DEF SameTimers
  <1>7. TypeOK'
    BY <1>1, <1>2, <1>4, <1>5 DEF TypeOK
  <1> QED  BY <1>2, <1>4, <1>6, <1>7, KeepsInv

\* A line in the journal about a job that is known, or is being added.
LEMMA AppendFacts ==
    ASSUME IInv, NEW i \in Job, NEW line \in Record \cup {NoJob}, AppendAction(i, line),
           born' \in {born, born \cup {i}}, kept' \subseteq born', born' = born => i \in born,
           i \notin removed
    PROVE  IInv'
  <1>1. /\ TypeOK /\ requests \in Nat /\ store \in Store
        /\ UNCHANGED <<now, up, deaths, timer, task, begun, ended, removed>>
        /\ requests' = requests + 1
    BY DEF IInv, TypeOK, AppendAction, Request
  <1>2. store' = [store EXCEPT !.journal = [store.journal EXCEPT ![i] = line]]
    BY DEF AppendAction
  <1>3. [store.journal EXCEPT ![i] = line] \in [Job -> Record \cup {NoJob, NoLine}]
    BY <1>1 DEF Store
  <1>4. /\ store' \in Store
        /\ \A j \in Job \ {i} : Gone(store, j) => Gone(store', j)
    BY <1>1, <1>2, <1>3 DEF Store, Gone
  <1>5. i \in born'
    OBVIOUS
  <1>6. TypeOK'
    BY <1>1, <1>4 DEF TypeOK
  <1>7. OneLiveTimer' /\ Quiet' /\ NotWaiting'
    BY <1>1 DEF IInv, OneLiveTimer, Quiet, NotWaiting, Alive
  <1>8. Unborn' /\ Forgotten'
    BY <1>1, <1>4, <1>5, <1>6 DEF IInv, Unborn, Forgotten, TypeOK
  <1> QED  BY <1>6, <1>7, <1>8 DEF IInv

\* What another process sees is a job that is somewhere.
LEMMA SeenIsKnown ==
    ASSUME IInv, NEW i \in Job, Merged(store)[i] # NoJob
    PROVE  i \in born /\ i \notin removed
  <1>1. ~Gone(store, i)
    BY DEF Gone, Merged
  <1> QED  BY <1>1 DEF IInv, Unborn, Forgotten

LEMMA OthersStep ==
    ASSUME IInv, NEW i \in Job,
           \/ OtherAdds(i) \/ OtherRemoves(i)
           \/ \E on \in BOOLEAN : OtherSwitches(i, on)
    PROVE  IInv'
  <1>1. TypeOK /\ kept \subseteq born /\ removed \subseteq born
    BY DEF IInv, TypeOK
  <1>2. CASE OtherAdds(i)
    BY <1>1, <1>2, NewRecord, AppendFacts DEF OtherAdds
  <1>3. CASE OtherRemoves(i)
    BY <1>1, <1>3, SeenIsKnown, AppendFacts DEF OtherRemoves
  <1>4. ASSUME NEW on \in BOOLEAN, OtherSwitches(i, on) PROVE IInv'
    BY <1>1, <1>4, SeenIsKnown, NewRecord, AppendFacts DEF OtherSwitches
  <1> QED  BY <1>2, <1>3, <1>4

THEOREM StepInv == IInv /\ [Next]_vars => IInv'
  BY ClockStep, StutterStep, StartStep, DieStep, PollStep, FireStep, FinishStep, UnwindStep,
     RunNowStep, EndOfRunStep, AddStep, RemoveStep, SwitchStep, OthersStep
  DEF Next

-----------------------------------------------------------------------------
(* Theorems *)

THEOREM Invariance == Spec => []IInv
  BY InitInv, StepInv, PTL DEF Spec

\* Every variable keeps its type.
THEOREM TypeCorrect == Spec => []TypeOK
  <1>1. IInv => TypeOK
    BY DEF IInv
  <1> QED  BY Invariance, <1>1, PTL

\* A running gateway always has exactly one live timer task, the one that
\* _timer_task holds, whatever was cancelled, raised or edited on the way.
THEOREM SchedulerLives == Spec => []OneLiveTimer
  <1>1. IInv => OneLiveTimer
    BY DEF IInv
  <1> QED  BY Invariance, <1>1, PTL

\* A confirmed removal is final: the job is in no table, no line and no list of
\* due jobs again.
THEOREM RemovalIsFinal == Spec => []RemovedForGood
  <1>1. IInv => RemovedForGood
    BY DEF IInv, RemovedForGood, Forgotten, NotWaiting, Gone
  <1> QED  BY Invariance, <1>1, PTL


-----------------------------------------------------------------------------
(* Jobs that are kept *)

\* The table, with the journal on top of it, has the job.
Has(s, table, j) == IF s.journal[j] = NoLine THEN table[j] # NoJob ELSE s.journal[j] # NoJob

\* So it has whichever table is looked at next.
Safe(s, j) == Has(s, s.mem, j) /\ (~s.dirty => Has(s, s.disk, j))

Clean == up \/ ~store.dirty
KeptInv ==
    \A j \in kept :
        /\ ~store.dirty => Has(store, store.disk, j)
        /\ up /\ (store.dirty \/ Busy) => Has(store, store.mem, j)

HInv == IInv /\ Clean /\ KeptInv

LEMMA SavesKeep ==
    ASSUME NEW s \in Store, NEW w \in Saves(s), NEW j \in Job, Has(s, s.mem, j)
    PROVE  Safe(w, j)
  BY SavesFacts DEF Has, Safe

LEMMA LoadsKeep ==
    ASSUME NEW s \in Store, NEW r \in Loads(s), NEW j \in Job,
           ~s.dirty => Has(s, s.disk, j),
           s.dirty \/ Busy => Has(s, s.mem, j)
    PROVE  Safe(r, j)
  <1>1. CASE s.dirty \/ Busy
    BY <1>1 DEF Loads, Safe
  <1>2. CASE ~(s.dirty \/ Busy) /\ s.journal = NoLines
    <2>1. r = [s EXCEPT !.mem = s.disk]
      BY <1>2 DEF Loads
    <2>2. r.mem = s.disk /\ r.disk = s.disk /\ r.journal = s.journal
      BY <2>1 DEF Store
    <2> QED  BY <1>2, <2>2 DEF Safe, Has
  <1>3. CASE ~(s.dirty \/ Busy) /\ s.journal # NoLines
    <2> DEFINE m == [s EXCEPT !.mem = Merged(s), !.journal = NoLines]
    <2>1. r \in Saves(m)
      BY <1>3 DEF Loads, MergeSaves
    <2>2. m \in Store
      BY MergedType DEF Store, NoLines
    <2>3. m.mem = Merged(s) /\ m.journal = NoLines
      BY DEF Store
    <2>4. Has(m, m.mem, j)
      BY <1>3, <2>3 DEF Has, Merged, NoLines
    <2> HIDE DEF m
    <2> QED  BY <2>1, <2>2, <2>4, SavesKeep
  <1> QED  BY <1>1, <1>2, <1>3

\* What is loaded has every kept job.
LEMMA LoadedKeep ==
    ASSUME HInv, NEW r \in Loads(store), NEW j \in kept
    PROVE  Safe(r, j)
  <1>1. store \in Store /\ j \in Job
    BY DEF HInv, IInv, TypeOK
  <1>2. store.dirty \/ Busy => up
    BY DEF HInv, IInv, Clean, Quiet, Busy, Idle, Tasks
  <1>3. ~store.dirty => Has(store, store.disk, j)
    BY DEF HInv, KeptInv
  <1>4. store.dirty \/ Busy => Has(store, store.mem, j)
    BY <1>2 DEF HInv, KeptInv
  <1> QED  BY <1>1, <1>3, <1>4, LoadsKeep

LEMMA ReadiedKeep ==
    ASSUME HInv, NEW r \in Readied(store), NEW j \in kept
    PROVE  Safe(r, j)
  <1>1. PICK w \in (IF store.dirty THEN Saves(store) ELSE {store}) :
          r \in (IF w.dirty THEN {w} ELSE Loads(w))
    BY DEF Readied
  <1>2. store \in Store /\ j \in Job
    BY DEF HInv, IInv, TypeOK
  <1>3. CASE store.dirty
    <2>1. w \in Saves(store) /\ Has(store, store.mem, j)
      BY <1>1, <1>3 DEF HInv, Clean, KeptInv
    <2>2. w \in Store /\ Safe(w, j)
      BY <1>2, <2>1, SavesFacts, SavesKeep
    <2> QED  BY <1>1, <1>2, <2>2, LoadsKeep DEF Safe
  <1>4. CASE ~store.dirty
    BY <1>1, <1>4, LoadedKeep
  <1> QED  BY <1>3, <1>4

LEMMA AdvancedKeep ==
    ASSUME NEW s \in Store, NEW i, NEW j \in Job, j \notin ({i} \cap OneTime), now \in Nat,
           Has(s, s.mem, j)
    PROVE  /\ Has(Advanced(s, i), Advanced(s, i).mem, j)
           /\ Advanced(s, i).disk = s.disk /\ Advanced(s, i).journal = s.journal
           /\ Advanced(s, i).dirty = s.dirty
  <1>1. /\ Advanced(s, i).journal = s.journal
        /\ Advanced(s, i).disk = s.disk
        /\ Advanced(s, i).dirty = s.dirty
        /\ Advanced(s, i).mem = [s.mem EXCEPT ![i] = IF @ = NoJob \/ i \in OneTime THEN NoJob
                                                     ELSE [@ EXCEPT !.next = NextRun(i)]]
    BY DEF Advanced, Store
  <1>2. ASSUME s.mem[j] # NoJob PROVE Advanced(s, i).mem[j] # NoJob
    <2>1. CASE i # j
      BY <1>1, <1>2, <2>1 DEF Store, Table
    <2>2. CASE i = j
      <3>1. NextRun(j) \in Nat
        BY CronAssumption DEF NextRun, NoTime
      <3>2. s.mem[j] \in Record
        BY <1>2 DEF Store, Table
      <3>3. [s.mem[j] EXCEPT !.next = NextRun(j)] \in Record
        BY <3>1, <3>2 DEF Record
      <3>4. [s.mem[j] EXCEPT !.next = NextRun(j)] # NoJob
        BY <3>3, CronAssumption DEF Record
      <3>5. Advanced(s, i).mem[j] = [s.mem[j] EXCEPT !.next = NextRun(j)]
        BY <1>1, <1>2, <2>2 DEF Store, Table
      <3> QED  BY <3>4, <3>5
    <2> QED  BY <2>1, <2>2
  <1> QED  BY <1>1, <1>2 DEF Has

LEMMA EditKeep ==
    ASSUME NEW r \in Store, NEW i \in Job, NEW rec \in Record \cup {NoJob}, Edit(r, i, rec),
           NEW j \in Job,
           j # i => Has(r, r.mem, j),
           j = i => rec # NoJob /\ (r.journal[j] = NoLine \/ Has(r, r.mem, j))
    PROVE  Safe(store', j)
  <1> DEFINE s == [r EXCEPT !.mem[i] = rec]
  <1>1. /\ s = [r EXCEPT !.mem = [r.mem EXCEPT ![i] = rec]]
        /\ [r.mem EXCEPT ![i] = rec] \in Table
    BY DEF Store, Table
  <1>2. s \in Store /\ s.mem = [r.mem EXCEPT ![i] = rec] /\ s.journal = r.journal
    BY <1>1 DEF Store
  <1>3. store' \in Saves(s)
    BY DEF Edit
  <1> HIDE DEF s
  <1>4. Has(s, s.mem, j)
    BY <1>2 DEF Has, Store, Table
  <1> QED  BY <1>2, <1>3, <1>4, SavesKeep

\* What remains to be shown of an action of a running gateway.
LEMMA KeepsAll ==
    ASSUME up', \A j \in kept' : Safe(store', j)
    PROVE  Clean' /\ KeptInv'
  BY DEF Clean, KeptInv, Safe

LEMMA ForgetsKeep ==
    ASSUME NEW s \in Store, Forgets(s), ~up', kept \subseteq Job
    PROVE  Clean' /\ KeptInv'
  <1>1. /\ store' = [s EXCEPT !.mem = Empty, !.dirty = FALSE]
        /\ kept' = {j \in kept : Merged(s)[j] # NoJob}
    BY DEF Forgets, Dead
  <1>2. store'.disk = s.disk /\ store'.journal = s.journal /\ store'.dirty = FALSE
    BY <1>1 DEF Store
  <1>3. \A j \in kept' : Has(store', store'.disk, j)
    BY <1>1, <1>2 DEF Has, Merged
  <1> QED  BY <1>2, <1>3 DEF Clean, KeptInv

LEMMA RecomputedKeep ==
    ASSUME NEW s \in Store, now \in Nat, NEW j \in Job, Has(s, s.mem, j)
    PROVE  Has(Recomputed(s), Recomputed(s).mem, j)
  <1>1. NextRun(j) \in Nat
    BY CronAssumption DEF NextRun, NoTime
  <1>2. \A x \in Record : [x EXCEPT !.next = NextRun(j)] # NoJob
    <2>1. \A x \in Record : [x EXCEPT !.next = NextRun(j)] \in Record
      BY <1>1 DEF Record
    <2> QED  BY <2>1, CronAssumption DEF Record
  <1>3. /\ Recomputed(s).journal = s.journal
        /\ Recomputed(s).mem[j] = IF s.mem[j] # NoJob /\ s.mem[j].on
                                  THEN [s.mem[j] EXCEPT !.next = NextRun(j)] ELSE s.mem[j]
    BY DEF Recomputed, Store
  <1>4. s.mem[j] # NoJob => s.mem[j] \in Record
    BY DEF Store, Table
  <1> QED  BY <1>2, <1>3, <1>4 DEF Has

\* No task starts to run by being cancelled or armed.
LEMMA ArmBusy ==
    ASSUME NEW tasks \in [Tasks -> Task], NEW s, Arm(tasks, s), Busy'
    PROVE  \E t \in Tasks : tasks[t].pc = "running"
  <1>1. PICK n \in Timer, w \in Wakes(s) :
          task' = [Cancelled(tasks) EXCEPT ![n] = [Idle EXCEPT !.pc = "asleep", !.wake = w]]
    BY DEF Arm
  <1>2. PICK t \in Tasks : task'[t].pc = "running"
    BY DEF Busy, Tasks
  <1>3. Cancelled(tasks)[t].pc = "running"
    <2>1. t # n
      <3>1. t = n => task'[t] = [Idle EXCEPT !.pc = "asleep", !.wake = w]
        BY <1>1, <1>2 DEF Cancelled, Tasks
      <3> QED  BY <1>2, <3>1 DEF Idle
    <2> QED  BY <1>1, <1>2, <2>1 DEF Cancelled, Tasks
  <1>4. tasks[t].pc = "running"
    BY <1>2, <1>3 DEF Cancelled, Idle, Tasks
  <1> QED  BY <1>4

LEMMA StartKeeps == HInv /\ Start => Clean' /\ KeptInv'
  <1> SUFFICES ASSUME HInv, Start PROVE Clean' /\ KeptInv'
    OBVIOUS
  <1>1. PICK r \in Loads(store) :
          \/ Raised(store, r) /\ StartFails(r)
          \/ \E s \in Saves(Recomputed(r)) : StartFails(s) \/ Started(s)
    BY DEF Start
  <1>2. store \in Store /\ now \in Nat /\ kept \subseteq Job /\ ~up
    BY DEF HInv, IInv, TypeOK, Start
  <1>3. r \in Store /\ \A j \in kept : Safe(r, j)
    BY <1>2, LoadsFacts, LoadedKeep
  <1>4. CASE StartFails(r)
    BY <1>2, <1>3, <1>4, ForgetsKeep DEF StartFails
  <1>5. ASSUME NEW s \in Saves(Recomputed(r)), StartFails(s) \/ Started(s)
        PROVE  Clean' /\ KeptInv'
    <2>1. s \in Store /\ \A j \in kept : Safe(s, j)
      BY <1>2, <1>3, RecomputedFacts, RecomputedKeep, SavesFacts, SavesKeep DEF Safe
    <2>2. CASE StartFails(s)
      BY <1>2, <2>1, <2>2, ForgetsKeep DEF StartFails
    <2>3. CASE Started(s)
      BY <2>1, <2>3, KeepsAll DEF Started
    <2> QED  BY <1>5, <2>2, <2>3
  <1> QED  BY <1>1, <1>4, <1>5

LEMMA DieKeeps == HInv /\ Die => Clean' /\ KeptInv'
  BY ForgetsKeep DEF HInv, IInv, TypeOK, Die

LEMMA FireKeeps == ASSUME HInv, NEW t \in Timer, Fire(t) PROVE Clean' /\ KeptInv'
  <1>1. store \in Store /\ t \in Tasks /\ kept \subseteq Job
    BY DEF HInv, IInv, TypeOK, Tasks
  <1>2. up /\ up' = up /\ kept' = kept
    BY <1>1, RunningUp DEF HInv, Fire, Idle
  <1>3. \A r \in Loads(store) : r \in Store /\ \A j \in kept : Safe(r, j)
    BY <1>1, LoadsFacts, LoadedKeep
  <1>4. CASE SaveAgain(t)
    <2>1. \A j \in kept : Has(store, store.mem, j)
      BY <1>2, <1>4 DEF SaveAgain, HInv, KeptInv
    <2> QED  BY <1>1, <1>2, <1>4, <2>1, SavesKeep, KeepsAll DEF SaveAgain
  <1>5. CASE TickFails(t) \/ TickRuns(t)
    <2>1. store' \in Loads(store)
      BY <1>5 DEF TickFails, TickRuns
    <2> QED  BY <1>2, <1>3, <2>1, KeepsAll
  <1>6. CASE TickFindsNothing(t)
    <2>1. PICK r \in Loads(store) : store' \in Saves(r)
      BY <1>6 DEF TickFindsNothing
    <2>2. \A j \in kept : Has(r, r.mem, j)
      BY <1>3, <2>1 DEF Safe
    <2> QED  BY <1>1, <1>2, <1>3, <2>1, <2>2, SavesKeep, KeepsAll
  <1> QED  BY <1>4, <1>5, <1>6 DEF Fire

\* The end of a run, by the timer or by hand.
LEMMA RunEndsKeeps ==
    ASSUME HInv, NEW t \in Tasks, task[t].pc = "running", up' = up,
           NEW s, s = Advanced(store, task[t].run.job),
           kept' = kept \ ({task[t].run.job} \cap OneTime),
           store' = s \/ store' \in Saves(s)
    PROVE  Clean' /\ KeptInv'
  <1>1. store \in Store /\ kept \subseteq Job /\ now \in Nat
    BY DEF HInv, IInv, TypeOK
  <1>2. up /\ Busy
    BY RunningUp DEF HInv, Idle, Busy, Tasks
  <1>3. \A j \in kept : Has(store, store.mem, j) /\ (~store.dirty => Has(store, store.disk, j))
    BY <1>2 DEF HInv, KeptInv
  <1>4. s \in Store
    <2>1. CASE task[t].run.job \in Job
      BY <1>1, <2>1, AdvancedFacts, CronAssumption
    <2>2. CASE task[t].run.job \notin Job
      BY <1>1, <2>2 DEF Advanced, Store, Table
    <2> QED  BY <2>1, <2>2
  <1>5. \A j \in kept' : Safe(s, j)
    <2>1. ASSUME NEW j \in kept' PROVE Safe(s, j)
      <3>1. j \in kept /\ j \in Job /\ j \notin ({task[t].run.job} \cap OneTime)
        BY <1>1
      <3>2. /\ Has(s, s.mem, j)
            /\ s.disk = store.disk /\ s.journal = store.journal /\ s.dirty = store.dirty
        BY <1>1, <1>3, <3>1, AdvancedKeep
      <3> QED  BY <1>3, <3>1, <3>2 DEF Safe, Has
    <2> QED  BY <2>1
  <1>6. \A j \in kept' : Safe(store', j)
    BY <1>1, <1>4, <1>5, SavesKeep DEF Safe
  <1> QED  BY <1>2, <1>6, KeepsAll

LEMMA FinishKeeps == ASSUME HInv, NEW t \in Timer, Finish(t) PROVE Clean' /\ KeptInv'
  BY RunEndsKeeps DEF Finish, Tasks

LEMMA FinishRunKeeps == ASSUME HInv, NEW m \in Manual, FinishRun(m) PROVE Clean' /\ KeptInv'
  BY RunEndsKeeps DEF FinishRun, Tasks

LEMMA AbandonKeeps ==
    ASSUME HInv, NEW t \in Tasks, Unwind(t) \/ AbortRun(t)
    PROVE  Clean' /\ KeptInv'
  <1>1. UNCHANGED <<store, up, kept>>
    BY DEF Unwind, AbortRun, ghosts
  <1>2. Busy' => Busy
    <2>1. [task EXCEPT ![t] = Idle] \in [Tasks -> Task]
      BY IdledTyped DEF HInv, IInv
    <2>2. (\E u \in Tasks : [task EXCEPT ![t] = Idle][u].pc = "running") => Busy
      <3>1. task \in [Tasks -> Task]
        BY TaskTyped DEF HInv, IInv
      <3> QED  BY <3>1 DEF Busy, Tasks, Idle
    <2>3. CASE \E s : Arm([task EXCEPT ![t] = Idle], s)
      BY <2>1, <2>2, <2>3, ArmBusy
    <2>4. CASE task' = [task EXCEPT ![t] = Idle]
      BY <2>2, <2>4 DEF Busy, Tasks
    <2> QED  BY <2>3, <2>4 DEF Unwind, Leave, AbortRun, EndOfRun, ArmsIfIdle
  <1> QED  BY <1>1, <1>2 DEF HInv, Clean, KeptInv, Has

LEMMA RunNowKeeps ==
    ASSUME HInv, NEW m \in Manual, NEW i \in Job, RunNow(m, i)
    PROVE  Clean' /\ KeptInv'
  <1>1. store' \in Readied(store) /\ up' /\ kept' = kept
    BY DEF RunNow, Request
  <1> QED  BY <1>1, ReadiedKeep, KeepsAll

LEMMA EditsKeep ==
    ASSUME HInv, NEW i \in Job, up', up,
           NEW r \in Loads(store), NEW rec \in Record \cup {NoJob},
           EditFails(r) \/ Edit(r, i, rec),
           EditFails(r) => kept' \subseteq kept,
           Edit(r, i, rec) => kept' \subseteq kept \cup {i},
           rec = NoJob => i \notin kept' \/ (EditFails(r) /\ ~Edit(r, i, rec)),
           i \in kept \/ i \notin born \/ i \notin kept'
    PROVE  Clean' /\ KeptInv'
  <1>1. store \in Store /\ kept \subseteq Job
    BY DEF HInv, IInv, TypeOK
  <1>2. r \in Store /\ \A j \in kept : Safe(r, j)
    BY <1>1, LoadsFacts, LoadedKeep
  <1>3. CASE EditFails(r) /\ ~Edit(r, i, rec)
    BY <1>2, <1>3, KeepsAll DEF EditFails
  <1>4. CASE Edit(r, i, rec)
    <2>1. ASSUME NEW j \in kept' PROVE Safe(store', j)
      <3>1. CASE j \in kept /\ j # i
        BY <1>1, <1>2, <1>4, <3>1, EditKeep DEF Safe
      <3>2. CASE j = i
        <4>1. rec # NoJob
          BY <1>4, <2>1, <3>2
        <4>2. r.journal[i] = NoLine \/ Has(r, r.mem, i)
          <5>1. CASE i \in kept
            BY <1>2, <5>1 DEF Safe
          <5>2. CASE i \notin born
            <6>1. Gone(store, i)
              BY <5>2 DEF HInv, IInv, Unborn
            <6> QED  BY <1>1, <6>1, LoadsFacts DEF Gone
          <5> QED  BY <2>1, <3>2, <5>1, <5>2
        <4> QED  BY <1>2, <1>4, <3>2, <4>1, <4>2, EditKeep
      <3> QED  BY <1>4, <2>1, <3>1, <3>2
    <2> QED  BY <2>1, KeepsAll
  <1> QED  BY <1>3, <1>4

LEMMA AddKeeps == ASSUME HInv, NEW i \in Job, Add(i) PROVE Clean' /\ KeptInv'
  <1> DEFINE rec == [on |-> TRUE, next |-> NextRun(i)]
  <1>1. rec \in Record /\ rec # NoJob
    BY NewRecord, CronAssumption DEF HInv, IInv, Record
  <1> HIDE DEF rec
  <1>2. PICK r \in Loads(store) : EditFails(r) \/ Edit(r, i, rec)
    BY DEF Add, rec
  <1>3. up /\ up' /\ i \notin born /\ kept' \subseteq kept \cup {i}
    BY DEF Add, Request
  <1>4. EditFails(r) => kept' \subseteq kept
    BY DEF Add, EditFails, Raised
  <1> QED  BY <1>1, <1>2, <1>3, <1>4, EditsKeep

LEMMA RemoveKeeps == ASSUME HInv, NEW i \in Job, Remove(i) PROVE Clean' /\ KeptInv'
  <1>1. PICK r \in Loads(store) :
           \/ EditFails(r) /\ UNCHANGED kept
           \/ Edit(r, i, NoJob) /\ kept' = kept \ {i}
    BY DEF Remove
  <1>2. up /\ up'
    BY DEF Remove, Request
  <1>3. CASE EditFails(r) /\ UNCHANGED kept
    <2>1. \A j \in kept : Safe(store', j)
      BY <1>3, LoadedKeep DEF EditFails
    <2> QED  BY <1>2, <1>3, <2>1, KeepsAll
  <1>4. CASE Edit(r, i, NoJob) /\ kept' = kept \ {i}
    BY <1>2, <1>4, EditsKeep
  <1> QED  BY <1>1, <1>3, <1>4

LEMMA SwitchKeeps ==
    ASSUME HInv, NEW i \in Job, NEW on \in BOOLEAN, Switch(i, on)
    PROVE  Clean' /\ KeptInv'
  <1> DEFINE rec == [on |-> on, next |-> IF on THEN NextRun(i) ELSE NoTime]
  <1>1. rec \in Record /\ rec # NoJob
    BY NewRecord, CronAssumption DEF HInv, IInv, Record
  <1> HIDE DEF rec
  <1>2. PICK r \in Loads(store) : EditFails(r) \/ Edit(r, i, rec)
    BY DEF Switch, rec
  <1>3. up /\ up' /\ kept' = kept
    BY DEF Switch, Request
  <1> QED  BY <1>1, <1>2, <1>3, EditsKeep

LEMMA PollKeeps == HInv /\ Poll => Clean' /\ KeptInv'
  BY LoadedKeep, KeepsAll DEF Poll

LEMMA AppendKeeps ==
    ASSUME HInv, NEW i \in Job, NEW line \in Record \cup {NoJob}, AppendAction(i, line),
           kept' \subseteq kept \cup {i}, line = NoJob => i \notin kept'
    PROVE  Clean' /\ KeptInv'
  <1>1. /\ store \in Store /\ kept \subseteq Job
        /\ UNCHANGED <<up, task>>
        /\ store' = [store EXCEPT !.journal = [store.journal EXCEPT ![i] = line]]
    BY DEF HInv, IInv, TypeOK, AppendAction, Request
  <1>2. /\ store'.mem = store.mem /\ store'.disk = store.disk /\ store'.dirty = store.dirty
        /\ store'.journal = [store.journal EXCEPT ![i] = line]
    BY <1>1 DEF Store
  <1>3. Busy' = Busy
    BY <1>1 DEF Busy
  <1>4. ASSUME NEW j \in kept', NEW table PROVE Has(store, table, j) \/ j = i => Has(store', table, j)
    <2>1. CASE j = i
      BY <1>1, <1>2, <1>4, <2>1, CronAssumption DEF Has, Store, Record
    <2>2. CASE j # i
      BY <1>1, <1>2, <1>4, <2>2 DEF Has, Store
    <2> QED  BY <2>1, <2>2
  <1>5. \A j \in kept' : j \in kept \/ j = i
    OBVIOUS
  <1> QED  BY <1>1, <1>2, <1>3, <1>4, <1>5 DEF HInv, Clean, KeptInv

LEMMA OthersKeep ==
    ASSUME HInv, NEW i \in Job,
           \/ OtherAdds(i) \/ OtherRemoves(i)
           \/ \E on \in BOOLEAN : OtherSwitches(i, on)
    PROVE  Clean' /\ KeptInv'
  <1>1. TypeOK /\ \A x \in Record : x # NoJob
    BY CronAssumption DEF HInv, IInv, Record
  <1>2. CASE OtherAdds(i)
    BY <1>1, <1>2, NewRecord, AppendKeeps DEF OtherAdds
  <1>3. CASE OtherRemoves(i)
    BY <1>1, <1>3, AppendKeeps DEF OtherRemoves
  <1>4. ASSUME NEW on \in BOOLEAN, OtherSwitches(i, on) PROVE Clean' /\ KeptInv'
    BY <1>1, <1>4, NewRecord, AppendKeeps DEF OtherSwitches
  <1> QED  BY <1>2, <1>3, <1>4

LEMMA HStep == HInv /\ [Next]_vars => HInv'
  <1>1. HInv /\ Clock => Clean' /\ KeptInv'
    BY DEF Clock, HInv, Clean, KeptInv, Busy, ghosts
  <1>2. HInv /\ UNCHANGED vars => Clean' /\ KeptInv'
    BY DEF vars, HInv, Clean, KeptInv, Busy, ghosts
  <1>3. HInv /\ Next => Clean' /\ KeptInv'
    BY <1>1, StartKeeps, DieKeeps, PollKeeps, FireKeeps, FinishKeeps, AbandonKeeps, RunNowKeeps,
       FinishRunKeeps, AddKeeps, RemoveKeeps, SwitchKeeps, OthersKeep
    DEF Next, Tasks
  <1> QED  BY <1>2, <1>3, StepInv DEF HInv

LEMMA HHolds == Spec => []HInv
  <1>1. Init => Clean /\ KeptInv
    <2> SUFFICES ASSUME Init PROVE Clean /\ KeptInv
      OBVIOUS
    <2>1. /\ up = FALSE /\ kept = Stored /\ store.dirty = FALSE /\ store.journal = NoLines
          /\ store.disk = [j \in Job |-> IF j \in Stored THEN [on |-> TRUE, next |-> NextRun(j)]
                                         ELSE NoJob]
      BY DEF Init
    <2>2. \A j \in Stored : j \in Job /\ [on |-> TRUE, next |-> NextRun(j)] # NoJob
      BY InitInv, NewRecord, CronAssumption DEF IInv, Record
    <2>3. \A j \in kept : Has(store, store.disk, j)
      BY <2>1, <2>2 DEF Has, NoLines
    <2> QED  BY <2>1, <2>3 DEF Clean, KeptInv
  <1> QED  BY <1>1, InitInv, HStep, PTL DEF Spec, HInv

\* A job that was reported added is in the table that is used next - memory,
\* file or journal - until somebody removes it, it has run its one time, or a
\* process dies that had it in memory only.
THEOREM JobsAreKept == Spec => []AddedIsKept
  <1>1. HInv => AddedIsKept
    <2> SUFFICES ASSUME HInv, NEW j \in kept PROVE Merged(Upcoming)[j] # NoJob
      BY DEF AddedIsKept
    <2>1. store \in Store /\ j \in Job
      BY DEF HInv, IInv, TypeOK
    <2>2. CASE up /\ (store.dirty \/ Busy)
      <3>1. Upcoming.disk = store.mem /\ Upcoming.journal = store.journal
        BY <2>1, <2>2 DEF Upcoming, Store
      <3>2. Has(store, store.mem, j)
        BY <2>2 DEF HInv, KeptInv
      <3> QED  BY <2>1, <3>1, <3>2 DEF Merged, Has
    <2>3. CASE ~(up /\ (store.dirty \/ Busy))
      <3>1. Upcoming = store
        BY <2>3 DEF Upcoming
      <3>2. Has(store, store.disk, j)
        BY <2>3 DEF HInv, Clean, KeptInv
      <3> QED  BY <2>1, <3>1, <3>2 DEF Merged, Has
    <2> QED  BY <2>2, <2>3
  <1> QED  BY <1>1, HHolds, PTL

-----------------------------------------------------------------------------
(* Due times that were run *)

\* No job of the table is due at a time that was run to its end.
Planned(table, j) == table[j] # NoJob /\ table[j].on /\ table[j].next # NoTime
Ahead(table, e) == \A j \in Job : Planned(table, j) => table[j].next > e[j]

Working == \E t \in Timer : Alive(t) /\ task[t].pc = "running"

EndedPast == \A j \in Job : ended[j] <= now

\* What a tick has before it: one due time of each job, none of them run yet.
RestAhead ==
    \A t \in Timer : Alive(t) /\ task[t].pc = "running" =>
        /\ task[t].run.at <= now
        /\ \A d \in task[t].rest :
             d.at <= now /\ d.at > ended[d.job] /\ d.job # task[t].run.job
        /\ \A d, f \in task[t].rest : d.job = f.job => d = f

\* As long as a cancelled task is there, the timer that replaced it sleeps.
DoomAlone == (\E u \in Timer : task[u].doomed) => ~Working

\* The file is behind the memory only while a tick runs or a save has failed.
ScheduleInv ==
    /\ EndedPast /\ RestAhead /\ DoomAlone
    /\ up => Ahead(store.mem, ended)
    /\ up /\ ~store.dirty /\ ~Working => Ahead(store.disk, ended)

GInv == IInv /\ ScheduleInv

\* What NoReplay says of a step
StartsAhead == \A t \in Timer : Launched(t) => task'[t].run.at > ended'[task'[t].run.job]

LEMMA NextRunAhead ==
    ASSUME TypeOK, NEW j \in Job
    PROVE  NextRun(j) \in Nat /\ (NextRun(j) # NoTime => NextRun(j) > now)
  BY CronAssumption DEF NextRun, NoTime, TypeOK

LEMMA SavesAhead ==
    ASSUME NEW s \in Store, NEW w \in Saves(s), NEW e, Ahead(s.mem, e)
    PROVE  Ahead(w.mem, e) /\ (~w.dirty => Ahead(w.disk, e))
  BY SavesFacts

LEMMA LoadsAhead ==
    ASSUME NEW s \in Store, NEW r \in Loads(s), NEW e \in [Job -> Nat],
           NEW C \in BOOLEAN, ~Busy => C,
           s.dirty \/ Busy => Ahead(s.mem, e),
           C /\ ~s.dirty => Ahead(s.disk, e)
    PROVE  /\ Ahead(r.mem, Renewed(e, s, r))
           /\ C /\ ~r.dirty => Ahead(r.disk, Renewed(e, s, r))
  <1>1. CASE s.dirty \/ Busy
    <2>1. r = s
      BY <1>1 DEF Loads
    <2>2. \A j \in Job : Renewed(e, s, r)[j] = e[j]
      BY <2>1 DEF Renewed
    <2> QED  BY <1>1, <2>1, <2>2 DEF Ahead
  <1>2. CASE ~(s.dirty \/ Busy) /\ s.journal = NoLines
    <2>1. r = [s EXCEPT !.mem = s.disk]
      BY <1>2 DEF Loads
    <2>2. r.mem = s.disk /\ r.disk = s.disk /\ r.journal = s.journal
      BY <2>1 DEF Store
    <2>3. \A j \in Job : Renewed(e, s, r)[j] = e[j]
      BY <2>2 DEF Renewed
    <2> QED  BY <1>2, <2>2, <2>3 DEF Ahead
  <1>3. CASE ~(s.dirty \/ Busy) /\ s.journal # NoLines
    <2> DEFINE m == [s EXCEPT !.mem = Merged(s), !.journal = NoLines]
    <2>1. r \in Saves(m)
      BY <1>3 DEF Loads, MergeSaves
    <2>2. m \in Store
      BY MergedType DEF Store, NoLines
    <2>3. m.mem = Merged(s) /\ m.journal = NoLines
      BY DEF Store
    <2> HIDE DEF m
    <2>4. r.journal = NoLines
      BY <2>1, <2>2, <2>3, SavesFacts
    <2>5. ASSUME NEW j \in Job, Planned(m.mem, j) PROVE m.mem[j].next > Renewed(e, s, r)[j]
      <3>1. CASE s.journal[j] = NoLine
        <4>1. m.mem[j] = s.disk[j] /\ Renewed(e, s, r)[j] = e[j]
          BY <2>3, <3>1 DEF Merged, Renewed
        <4> QED  BY <1>3, <2>5, <4>1 DEF Ahead, Planned
      <3>2. CASE s.journal[j] # NoLine
        <4>1. m.mem[j] = s.journal[j] /\ Renewed(e, s, r)[j] = 0
          BY <2>3, <2>4, <3>2 DEF Merged, Renewed, NoLines, NoTime
        <4>2. m.mem[j].next \in Nat /\ m.mem[j].next # 0
          <5>1. m.mem[j] \in Record
            BY <2>2, <2>5 DEF Planned, Store, Table
          <5> QED  BY <2>5, <5>1 DEF Planned, Record, NoTime
        <4> QED  BY <4>1, <4>2
      <3> QED  BY <3>1, <3>2
    <2>6. Ahead(m.mem, Renewed(e, s, r))
      BY <2>5 DEF Ahead
    <2> QED  BY <2>1, <2>2, <2>6, SavesAhead
  <1> QED  BY <1>1, <1>2, <1>3

\* A merge only takes due times back.
LEMMA RenewedLess ==
    ASSUME NEW e \in [Job -> Nat], NEW s, NEW r
    PROVE  /\ Renewed(e, s, r) \in [Job -> Nat]
           /\ \A j \in Job : Renewed(e, s, r)[j] <= e[j]
  BY DEF Renewed, NoTime

\* What the store is after a load in a running gateway.
LEMMA LoadedAhead ==
    ASSUME GInv, up, NEW r \in Loads(store)
    PROVE  /\ Ahead(r.mem, Renewed(ended, store, r))
           /\ ~Working /\ ~r.dirty => Ahead(r.disk, Renewed(ended, store, r))
  <1>1. store \in Store /\ ended \in [Job -> Nat]
    BY DEF GInv, IInv, TypeOK
  <1>2. ~Busy => ~Working
    BY DEF Busy, Working
  <1>3. PICK C \in BOOLEAN : C = ~Working
    OBVIOUS
  <1>4. ~Busy => C
    BY <1>2, <1>3
  <1>5. /\ store.dirty \/ Busy => Ahead(store.mem, ended)
        /\ C /\ ~store.dirty => Ahead(store.disk, ended)
    BY <1>3 DEF GInv, ScheduleInv
  <1>6. /\ Ahead(r.mem, Renewed(ended, store, r))
        /\ C /\ ~r.dirty => Ahead(r.disk, Renewed(ended, store, r))
    BY <1>1, <1>4, <1>5, LoadsAhead
  <1> QED  BY <1>3, <1>6

LEMMA ReadiedAhead ==
    ASSUME GInv, up, NEW r \in Readied(store)
    PROVE  /\ Ahead(r.mem, Renewed(ended, store, r))
           /\ ~Working /\ ~r.dirty => Ahead(r.disk, Renewed(ended, store, r))
  <1>1. PICK w \in (IF store.dirty THEN Saves(store) ELSE {store}) :
          r \in (IF w.dirty THEN {w} ELSE Loads(w))
    BY DEF Readied
  <1>2. store \in Store /\ ended \in [Job -> Nat]
    BY DEF GInv, IInv, TypeOK
  <1>3. CASE ~store.dirty
    BY <1>1, <1>3, LoadedAhead
  <1>4. CASE store.dirty
    <2>1. w \in Store /\ w.journal = store.journal /\ Ahead(w.mem, ended)
          /\ (~w.dirty => Ahead(w.disk, ended))
      BY <1>1, <1>2, <1>4, SavesFacts, SavesAhead DEF GInv, ScheduleInv
    <2>2. Renewed(ended, w, r) = Renewed(ended, store, r)
      BY <2>1 DEF Renewed
    <2>3. CASE ~w.dirty
      BY <1>1, <1>2, <2>1, <2>2, <2>3, LoadsAhead
    <2>4. CASE w.dirty
      <3>1. r = w
        BY <1>1, <2>4
      <3>2. \A j \in Job : Renewed(ended, w, r)[j] = ended[j]
        BY <3>1 DEF Renewed
      <3> QED  BY <2>1, <2>2, <2>4, <3>1, <3>2 DEF Ahead
    <2> QED  BY <2>3, <2>4
  <1> QED  BY <1>3, <1>4

-----------------------------------------------------------------------------
(* The tasks *)

\* A step that arms the timer: the new one sleeps, and nobody starts to run.
LEMMA Armed ==
    ASSUME GInv, NEW tasks \in [Tasks -> Task], NEW s,
           \A t \in Timer : tasks[t] \in {task[t], Idle},
           Arm(tasks, s),
           EndedPast', Ahead(store'.mem, ended'), ~store'.dirty => Ahead(store'.disk, ended')
    PROVE  ScheduleInv' /\ StartsAhead
  <1>1. PICK n \in Timer, w \in Wakes(s) :
          /\ timer' = n
          /\ task' = [Cancelled(tasks) EXCEPT ![n] = [Idle EXCEPT !.pc = "asleep", !.wake = w]]
    BY DEF Arm
  <1>2. task'[n].pc = "asleep"
    BY <1>1 DEF Cancelled, Idle
  <1>3. \A t \in Timer : t # n => task'[t] = Cancelled(tasks)[t]
    BY <1>1 DEF Cancelled, Tasks
  <1>4. \A t \in Timer : task'[t].pc = "running" =>
          /\ task'[t].run = task[t].run
          /\ task'[t].doomed \/ (task'[t] = tasks[t] /\ t # timer /\ tasks[t] = task[t])
    <2> SUFFICES ASSUME NEW t \in Timer, task'[t].pc = "running"
                 PROVE  /\ task'[t].run = task[t].run
                        /\ task'[t].doomed \/ (task'[t] = tasks[t] /\ t # timer /\ tasks[t] = task[t])
      OBVIOUS
    <2>1. task'[t] = Cancelled(tasks)[t]
      BY <1>2, <1>3
    <2>2. Cancelled(tasks)[t] = IF t # timer THEN tasks[t]
              ELSE IF tasks[t].pc = "running" THEN [tasks[t] EXCEPT !.doomed = TRUE] ELSE Idle
      BY DEF Cancelled, Tasks
    <2>3. tasks[t] = task[t] /\ tasks[t] \in Task
      BY <2>1, <2>2 DEF Idle, Tasks
    <2> QED  BY <2>1, <2>2, <2>3 DEF Idle, Task
  <1>5. \A t \in Timer : t # timer /\ task[t].pc = "running" => task[t].doomed
    BY DEF GInv, IInv, OneLiveTimer, Alive
  <1>6. \A t \in Timer : Alive(t)' => task'[t].pc # "running"
    BY <1>4, <1>5 DEF Alive
  <1>7. StartsAhead
    BY <1>4 DEF StartsAhead, Launched
  <1> QED  BY <1>6, <1>7 DEF ScheduleInv, RestAhead, DoomAlone, Working

\* A step that leaves the timers as they are.
LEMMA Undisturbed ==
    ASSUME GInv, \A t \in Timer : task'[t] = task[t],
           now' \in Nat, now' >= now, ended' \in [Job -> Nat], \A j \in Job : ended'[j] <= ended[j],
           up' => Ahead(store'.mem, ended'),
           up' /\ ~store'.dirty /\ ~Working => Ahead(store'.disk, ended')
    PROVE  ScheduleInv' /\ StartsAhead
  <1>1. Working' <=> Working
    BY DEF Working, Alive
  <1>2. now \in Nat /\ ended \in [Job -> Nat] /\ \A t \in Timer : task[t] \in Task
    BY TaskTyped DEF GInv, IInv, TypeOK, Tasks
  <1>3. EndedPast'
    BY <1>2 DEF GInv, ScheduleInv, EndedPast
  <1>4. RestAhead'
    <2> SUFFICES ASSUME NEW t \in Timer, Alive(t)', task'[t].pc = "running"
                 PROVE  /\ task'[t].run.at <= now'
                        /\ \A d \in task'[t].rest :
                             d.at <= now' /\ d.at > ended'[d.job] /\ d.job # task'[t].run.job
                        /\ \A d, f \in task'[t].rest : d.job = f.job => d = f
      BY DEF RestAhead
    <2>1. /\ task'[t] = task[t] /\ Alive(t) /\ task[t].rest \in SUBSET Due
          /\ task[t].run.at \in Nat
      BY <1>2 DEF Alive, Task, Due, NoDue, NoTime
    <2>2. /\ task[t].run.at <= now
          /\ \A d \in task[t].rest :
               d.at <= now /\ d.at > ended[d.job] /\ d.job # task[t].run.job
          /\ \A d, f \in task[t].rest : d.job = f.job => d = f
      BY <2>1 DEF GInv, ScheduleInv, RestAhead
    <2>3. \A d \in task[t].rest : d.job \in Job /\ d.at \in Nat
      BY <2>1 DEF Due
    <2>4. \A d \in task[t].rest : d.at <= now' /\ d.at > ended'[d.job]
      BY <1>2, <2>2, <2>3
    <2> QED  BY <1>2, <2>1, <2>2, <2>4
  <1>5. DoomAlone'
    BY <1>1 DEF GInv, ScheduleInv, DoomAlone
  <1>6. StartsAhead
    BY DEF StartsAhead, Launched
  <1> QED  BY <1>1, <1>3, <1>4, <1>5, <1>6 DEF ScheduleInv

LEMMA RenewedPast ==
    ASSUME GInv, UNCHANGED now, NEW s, NEW r, ended' = Renewed(ended, s, r)
    PROVE  /\ EndedPast' /\ ended' \in [Job -> Nat]
           /\ \A j \in Job : ended'[j] <= ended[j]
  <1>1. ended \in [Job -> Nat] /\ now \in Nat
    BY DEF GInv, IInv, TypeOK
  <1>2. ended' \in [Job -> Nat] /\ \A j \in Job : ended'[j] <= ended[j]
    BY <1>1, RenewedLess
  <1>3. \A j \in Job : ended[j] <= now
    BY DEF GInv, ScheduleInv, EndedPast
  <1>4. EndedPast'
    BY <1>1, <1>2, <1>3 DEF EndedPast
  <1> QED  BY <1>2, <1>4

-----------------------------------------------------------------------------
(* Every step *)

LEMMA RecomputedAhead ==
    ASSUME GInv, NEW s \in Store, NEW e \in [Job -> Nat], \A j \in Job : e[j] <= now
    PROVE  Ahead(Recomputed(s).mem, e)
  <1>1. TypeOK /\ now \in Nat
    BY DEF GInv, IInv, TypeOK
  <1> SUFFICES ASSUME NEW j \in Job, Planned(Recomputed(s).mem, j)
               PROVE  Recomputed(s).mem[j].next > e[j]
    BY DEF Ahead
  <1>2. Recomputed(s).mem[j] = IF s.mem[j] # NoJob /\ s.mem[j].on
                               THEN [s.mem[j] EXCEPT !.next = NextRun(j)] ELSE s.mem[j]
    BY DEF Recomputed, Store
  <1>3. s.mem[j] \in Record /\ s.mem[j].on
    BY <1>2 DEF Planned, Store, Table
  <1>4. Recomputed(s).mem[j].next = NextRun(j)
    BY <1>2, <1>3, CronAssumption DEF Record
  <1> QED  BY <1>1, <1>4, NextRunAhead DEF Planned

LEMMA StartAhead == GInv /\ Start => ScheduleInv' /\ StartsAhead
  <1> SUFFICES ASSUME GInv, Start PROVE ScheduleInv' /\ StartsAhead
    OBVIOUS
  <1>1. PICK r \in Loads(store) :
          /\ Renews(r)
          /\ \/ StartFails(r)
             \/ \E s \in Saves(Recomputed(r)) : StartFails(s) \/ Started(s)
    BY DEF Start
  <1>2. store \in Store /\ now \in Nat /\ now' = now /\ ~up /\ task \in [Tasks -> Task]
    BY TaskTyped DEF GInv, IInv, TypeOK, Start
  <1>3. ended' = Renewed(ended, store, r)
    BY <1>1 DEF Renews
  <1>4. EndedPast' /\ ended' \in [Job -> Nat] /\ \A j \in Job : ended'[j] <= ended[j]
    BY <1>2, <1>3, RenewedPast
  <1>5. r \in Store
    BY <1>2, LoadsFacts
  <1>6. CASE \E s : StartFails(s)
    <2>1. up' = up /\ task' = task
      BY <1>6 DEF StartFails
    <2> QED  BY <1>2, <1>4, <2>1, Undisturbed
  <1>7. ASSUME NEW s \in Saves(Recomputed(r)), Started(s)
        PROVE  ScheduleInv' /\ StartsAhead
    <2>1. Recomputed(r) \in Store
      BY <1>2, <1>5, RecomputedFacts
    <2>2. \A j \in Job : ended'[j] <= now
      BY <1>2, <1>4 DEF EndedPast
    <2>3. Ahead(Recomputed(r).mem, ended')
      BY <1>4, <1>5, <2>2, RecomputedAhead
    <2>4. Ahead(s.mem, ended') /\ (~s.dirty => Ahead(s.disk, ended'))
      BY <2>1, <2>3, SavesAhead
    <2>5. store' = s /\ Arm(task, s)
      BY <1>7 DEF Started
    <2> QED  BY <1>2, <1>4, <2>4, <2>5, Armed
  <1> QED  BY <1>1, <1>6, <1>7

LEMMA DieAhead == GInv /\ Die => ScheduleInv' /\ StartsAhead
  <1> SUFFICES ASSUME GInv, Die PROVE ScheduleInv' /\ StartsAhead
    OBVIOUS
  <1>1. task' = [t \in Tasks |-> Idle] /\ up' = FALSE /\ UNCHANGED <<ended, now>>
    BY DEF Die, Tasks
  <1>2. \A t \in Timer : task'[t] = Idle
    BY <1>1 DEF Tasks
  <1>3. \A t \in Timer : ~Alive(t)' /\ ~task'[t].doomed /\ task'[t].pc # "running"
    BY <1>2 DEF Alive, Idle
  <1> QED  BY <1>1, <1>3 DEF GInv, ScheduleInv, EndedPast, RestAhead, DoomAlone, Working,
                             StartsAhead, Launched

LEMMA ClockAhead == GInv /\ Clock => ScheduleInv' /\ StartsAhead
  <1> SUFFICES ASSUME GInv, Clock PROVE ScheduleInv' /\ StartsAhead
    OBVIOUS
  <1>1. /\ now \in Nat /\ ended \in [Job -> Nat] /\ now' = now + 1
        /\ UNCHANGED <<up, store, task, ended>>
    BY DEF Clock, ghosts, GInv, IInv, TypeOK
  <1>2. /\ up' => Ahead(store'.mem, ended')
        /\ up' /\ ~store'.dirty /\ ~Working => Ahead(store'.disk, ended')
    BY <1>1 DEF GInv, ScheduleInv, Ahead
  <1>3. now' \in Nat /\ now' >= now /\ \A j \in Job : ended'[j] <= ended[j]
    BY <1>1
  <1> QED  BY <1>1, <1>2, <1>3, Undisturbed

\* A timer that goes on to d, with S behind it.
LEMMA RunsAhead ==
    ASSUME GInv, NEW t \in Timer, Alive(t), NEW d \in Due, NEW S \in SUBSET Due,
           task' = [task EXCEPT ![t] = [Idle EXCEPT !.pc = "running", !.run = d, !.rest = S]],
           EndedPast', now' = now, d.at <= now, d.at > ended'[d.job],
           \A f \in S : f.at <= now /\ f.at > ended'[f.job] /\ f.job # d.job,
           \A f, g \in S : f.job = g.job => f = g,
           \A u \in Timer : ~task[u].doomed,
           Ahead(store'.mem, ended')
    PROVE  ScheduleInv' /\ StartsAhead
  <1>1. task \in [Tasks -> Task] /\ t \in Tasks
    BY TaskTyped DEF GInv, IInv, Tasks
  <1>2. PICK x : x = [Idle EXCEPT !.pc = "running", !.run = d, !.rest = S]
    OBVIOUS
  <1>3. x.pc = "running" /\ x.run = d /\ x.rest = S /\ x.doomed = FALSE
    BY <1>2 DEF Idle
  <1>4. task'[t] = x /\ \A u \in Timer : u # t => task'[u] = task[u]
    BY <1>1, <1>2 DEF Tasks
  <1>5. \A u \in Timer : Alive(u) => u = t
    BY DEF GInv, IInv, OneLiveTimer
  <1>6. \A u \in Timer : Alive(u)' => u = t
    BY <1>4, <1>5 DEF Alive
  <1>7. \A u \in Timer : ~task'[u].doomed
    BY <1>3, <1>4
  <1>8. Working'
    BY <1>3, <1>4 DEF Working, Alive
  <1>9. RestAhead'
    BY <1>3, <1>4, <1>6 DEF RestAhead
  <1>10. StartsAhead
    <2>1. \A u \in Timer : u # t => ~Launched(u)
      BY <1>4 DEF Launched
    <2> QED  BY <1>3, <1>4, <2>1 DEF StartsAhead
  <1> QED  BY <1>7, <1>8, <1>9, <1>10 DEF ScheduleInv, DoomAlone

LEMMA FireAhead == ASSUME GInv, NEW t \in Timer, Fire(t) PROVE ScheduleInv' /\ StartsAhead
  <1>1. /\ store \in Store /\ t \in Tasks /\ TypeOK /\ now \in Nat
        /\ task[t].pc = "asleep" /\ \A u \in Timer : ~task[u].doomed
        /\ UNCHANGED <<now, up>>
    BY DEF GInv, IInv, TypeOK, Tasks, Fire
  <1>2. Alive(t) /\ up
    BY <1>1 DEF Alive, GInv, IInv, OneLiveTimer
  <1>3. ~Working
    BY <1>1, <1>2 DEF Working, GInv, IInv, OneLiveTimer
  <1>4. ASSUME Leave(t), EndedPast', Ahead(store'.mem, ended'),
               ~store'.dirty => Ahead(store'.disk, ended')
        PROVE  ScheduleInv' /\ StartsAhead
    BY <1>1, <1>4, IdledTyped, Armed DEF Leave
  <1>5. CASE SaveAgain(t)
    <2>1. store' \in Saves(store) /\ Leave(t) /\ ended' = ended
      BY <1>5 DEF SaveAgain
    <2>2. EndedPast' /\ Ahead(store.mem, ended')
      BY <1>1, <1>2, <2>1 DEF GInv, ScheduleInv, EndedPast
    <2> QED  BY <1>1, <1>4, <2>1, <2>2, SavesAhead
  <1>6. CASE TickFails(t)
    <2>1. store' \in Loads(store) /\ Leave(t) /\ ended' = Renewed(ended, store, store')
      BY <1>6 DEF TickFails, Renews
    <2> QED  BY <1>1, <1>2, <1>3, <1>4, <2>1, LoadedAhead, RenewedPast
  <1>7. CASE TickFindsNothing(t)
    <2>1. PICK r \in Loads(store) :
            store' \in Saves(r) /\ Leave(t) /\ ended' = Renewed(ended, store, r)
      BY <1>7 DEF TickFindsNothing, Renews
    <2>2. r \in Store /\ Ahead(r.mem, ended') /\ EndedPast'
      BY <1>1, <1>2, <2>1, LoadsFacts, LoadedAhead, RenewedPast
    <2> QED  BY <1>4, <2>1, <2>2, SavesAhead
  <1>8. CASE TickRuns(t)
    <2>0. PICK r \in Loads(store) : \E d \in DueJobs(r) :
            /\ store' = r
            /\ task' = [task EXCEPT ![t] = [Idle EXCEPT !.pc = "running", !.run = d,
                                                        !.rest = DueJobs(r) \ {d}]]
            /\ ended' = Renewed(ended, store, r)
      BY <1>8 DEF TickRuns
    <2>1. PICK d \in DueJobs(r) :
            /\ store' = r
            /\ task' = [task EXCEPT ![t] = [Idle EXCEPT !.pc = "running", !.run = d,
                                                        !.rest = DueJobs(r) \ {d}]]
            /\ ended' = Renewed(ended, store, r)
      BY <2>0
    <2>2. r \in Store /\ Ahead(r.mem, ended') /\ EndedPast'
      BY <1>1, <1>2, <2>1, LoadsFacts, LoadedAhead, RenewedPast
    <2>3. DueJobs(r) \subseteq Due
      BY <2>2, DueType
    <2>4. \A f \in DueJobs(r) :
            /\ f.job \in Job /\ f.at = r.mem[f.job].next
            /\ Planned(r.mem, f.job) /\ f.at <= now
      BY DEF DueJobs, DueBy, Scheduled, Planned
    <2>5. \A f \in DueJobs(r) : f.at <= now /\ f.at > ended'[f.job]
      BY <2>2, <2>4 DEF Ahead
    <2>6. \A f, g \in DueJobs(r) : f.job = g.job => f = g
      BY DEF DueJobs
    <2>7. d \in Due /\ DueJobs(r) \ {d} \in SUBSET Due
      BY <2>3
    <2>8. d.at <= now /\ d.at > ended'[d.job]
      BY <2>5
    <2>9. /\ \A f \in DueJobs(r) \ {d} : f.at <= now /\ f.at > ended'[f.job] /\ f.job # d.job
          /\ \A f, g \in DueJobs(r) \ {d} : f.job = g.job => f = g
      BY <2>5, <2>6
    <2>10. Ahead(store'.mem, ended')
      BY <2>1, <2>2
    <2> QED  BY <1>1, <1>2, <2>1, <2>2, <2>7, <2>8, <2>9, <2>10, RunsAhead
  <1> QED  BY <1>5, <1>6, <1>7, <1>8 DEF Fire

LEMMA AdvancedAhead ==
    ASSUME GInv, NEW s \in Store, NEW i, NEW e, Ahead(s.mem, ended),
           e \in [Job -> Nat], \A j \in Job : e[j] <= now,
           \A j \in Job : j # i => e[j] = ended[j]
    PROVE  Ahead(Advanced(s, i).mem, e)
  <1>1. TypeOK /\ now \in Nat
    BY DEF GInv, IInv, TypeOK
  <1> SUFFICES ASSUME NEW j \in Job, Planned(Advanced(s, i).mem, j)
               PROVE  Advanced(s, i).mem[j].next > e[j]
    BY DEF Ahead
  <1>2. Advanced(s, i).mem = [s.mem EXCEPT ![i] = IF @ = NoJob \/ i \in OneTime THEN NoJob
                                                 ELSE [@ EXCEPT !.next = NextRun(i)]]
    BY DEF Advanced, Store
  <1>3. CASE i # j
    <2>1. Advanced(s, i).mem[j] = s.mem[j]
      BY <1>2, <1>3 DEF Store, Table
    <2> QED  BY <1>3, <2>1 DEF Planned, Ahead
  <1>4. CASE i = j
    <2>1. Advanced(s, i).mem[j] = IF s.mem[j] = NoJob \/ j \in OneTime THEN NoJob
                                  ELSE [s.mem[j] EXCEPT !.next = NextRun(j)]
      BY <1>2, <1>4 DEF Store, Table
    <2>2. s.mem[j] \in Record /\ Advanced(s, i).mem[j] = [s.mem[j] EXCEPT !.next = NextRun(j)]
      BY <2>1 DEF Planned, Store, Table
    <2>3. Advanced(s, i).mem[j].next = NextRun(j)
      BY <2>2 DEF Record
    <2> QED  BY <1>1, <2>3, NextRunAhead DEF Planned
  <1> QED  BY <1>3, <1>4

LEMMA AdvancedStore == ASSUME TypeOK, NEW s \in Store, NEW i PROVE Advanced(s, i) \in Store
  <1>1. CASE i \in Job
    BY <1>1, AdvancedFacts, CronAssumption DEF TypeOK
  <1>2. CASE i \notin Job
    BY <1>2 DEF Advanced, Store, Table
  <1> QED  BY <1>1, <1>2

LEMMA FinishAhead == ASSUME GInv, NEW t \in Timer, Finish(t) PROVE ScheduleInv' /\ StartsAhead
  <1> DEFINE d == task[t].run
             s == Advanced(store, d.job)
  <1>1. /\ store \in Store /\ t \in Tasks /\ TypeOK /\ now \in Nat /\ task[t] \in Task
        /\ ended \in [Job -> Nat]
    BY TaskTyped DEF GInv, IInv, TypeOK, Tasks
  <1>2. task[t].pc = "running" /\ Alive(t) /\ up /\ UNCHANGED <<now, up>> /\ Working
    BY DEF Finish, Alive, GInv, IInv, OneLiveTimer, Working
  <1>3. d \in Due \cup {NoDue} /\ d.at \in Nat /\ task[t].rest \in SUBSET Due
    BY <1>1 DEF Task, Due, NoDue, NoTime
  <1>4. /\ d.at <= now
        /\ \A f \in task[t].rest : f.at <= now /\ f.at > ended[f.job] /\ f.job # d.job
        /\ \A f, g \in task[t].rest : f.job = g.job => f = g
    BY <1>2 DEF GInv, ScheduleInv, RestAhead
  <1>5. /\ ended' = [ended EXCEPT ![d.job] = d.at]
        /\ \/ task[t].rest # {} /\ store' = s /\ Begin(t, task[t].rest)
           \/ store' \in Saves(s) /\ Leave(t)
    BY DEF Finish
  <1> HIDE DEF d
  <1>6. /\ ended' \in [Job -> Nat]
        /\ \A j \in Job : j # d.job => ended'[j] = ended[j]
        /\ \A j \in Job : ended'[j] <= now
    BY <1>1, <1>3, <1>4, <1>5 DEF GInv, ScheduleInv, EndedPast
  <1>7. EndedPast'
    BY <1>2, <1>6 DEF EndedPast
  <1>8. Ahead(store.mem, ended)
    BY <1>2 DEF GInv, ScheduleInv
  <1>9. s \in Store /\ Ahead(s.mem, ended')
    BY <1>1, <1>6, <1>8, AdvancedStore, AdvancedAhead
  <1>10. CASE store' \in Saves(s) /\ Leave(t)
    <2>1. Ahead(store'.mem, ended') /\ (~store'.dirty => Ahead(store'.disk, ended'))
      BY <1>9, <1>10, SavesAhead
    <2> QED  BY <1>1, <1>7, <1>10, <2>1, IdledTyped, Armed DEF Leave
  <1>11. CASE task[t].rest # {} /\ store' = s /\ Begin(t, task[t].rest)
    <2>1. PICK f \in task[t].rest :
            task' = [task EXCEPT ![t] = [Idle EXCEPT !.pc = "running", !.run = f,
                                                     !.rest = task[t].rest \ {f}]]
      BY <1>11 DEF Begin
    <2>2. f \in Due /\ task[t].rest \ {f} \in SUBSET Due
      BY <1>3
    <2>3. \A g \in task[t].rest : g.at <= now /\ g.at > ended'[g.job]
      BY <1>3, <1>4, <1>6 DEF Due
    <2>4. \A u \in Timer : ~task[u].doomed
      BY <1>1, <1>2 DEF GInv, ScheduleInv, DoomAlone
    <2>5. f.at <= now /\ f.at > ended'[f.job]
      BY <2>3
    <2>6. /\ \A g \in task[t].rest \ {f} : g.at <= now /\ g.at > ended'[g.job] /\ g.job # f.job
          /\ \A g, h \in task[t].rest \ {f} : g.job = h.job => g = h
      BY <1>4, <2>3
    <2>7. Ahead(store'.mem, ended')
      BY <1>9, <1>11
    <2> QED  BY <1>2, <1>7, <2>1, <2>2, <2>4, <2>5, <2>6, <2>7, RunsAhead
  <1> QED  BY <1>5, <1>10, <1>11

LEMMA UnwindAhead == ASSUME GInv, NEW t \in Timer, Unwind(t) PROVE ScheduleInv' /\ StartsAhead
  <1>1. /\ t \in Tasks /\ TypeOK /\ task[t].doomed /\ Leave(t)
        /\ UNCHANGED <<now, up, store, ended>>
    BY DEF GInv, IInv, TypeOK, Tasks, Unwind, ghosts
  <1>2. up
    BY <1>1, RunningUp DEF GInv, Idle
  <1>3. ~Working
    BY <1>1 DEF GInv, ScheduleInv, DoomAlone
  <1>4. /\ EndedPast' /\ Ahead(store'.mem, ended')
        /\ ~store'.dirty => Ahead(store'.disk, ended')
    BY <1>1, <1>2, <1>3 DEF GInv, ScheduleInv, EndedPast, Ahead
  <1> QED  BY <1>1, <1>4, IdledTyped, Armed DEF Leave

\* The timers after the end of a manual run, or a request that arms if idle.
LEMMA ArmsIfIdleAhead ==
    ASSUME GInv, NEW tasks \in [Tasks -> Task], \A t \in Timer : tasks[t] = task[t],
           ArmsIfIdle(tasks), UNCHANGED now, up,
           ended' \in [Job -> Nat], \A j \in Job : ended'[j] <= ended[j],
           Ahead(store'.mem, ended'),
           ~store'.dirty /\ ~Working => Ahead(store'.disk, ended')
    PROVE  ScheduleInv' /\ StartsAhead
  <1>1. now \in Nat /\ ended \in [Job -> Nat]
    BY DEF GInv, IInv, TypeOK
  <1>2. CASE task' = tasks
    BY <1>1, <1>2, Undisturbed
  <1>3. CASE Arm(tasks, store') /\ ~\E t \in Timer \cup Manual : tasks[t].pc = "running"
    <2>1. ~Working
      BY <1>3 DEF Working
    <2>2. EndedPast'
      BY <1>1 DEF GInv, ScheduleInv, EndedPast
    <2> QED  BY <1>3, <2>1, <2>2, Armed
  <1> QED  BY <1>2, <1>3 DEF ArmsIfIdle

LEMMA RunNowAhead ==
    ASSUME GInv, NEW m \in Manual, NEW i \in Job, RunNow(m, i)
    PROVE  ScheduleInv' /\ StartsAhead
  <1>1. /\ TypeOK /\ m \in Tasks /\ m \notin Timer /\ task \in [Tasks -> Task] /\ now \in Nat
        /\ ended \in [Job -> Nat]
    BY ManualTask, TaskTyped DEF GInv, IInv, TypeOK
  <1>2. up /\ UNCHANGED <<now, up>>
    BY DEF RunNow, Request
  <1>3. PICK r \in Readied(store) :
         /\ store' = r
         /\ ended' = Renewed(ended, store, r)
         /\ \/ ArmsIfIdle(task)
            \/ \E x : task' = [task EXCEPT ![m] = x]
    BY DEF RunNow, Renews
  <1>4. Ahead(r.mem, ended') /\ (~Working /\ ~r.dirty => Ahead(r.disk, ended'))
    BY <1>2, <1>3, ReadiedAhead
  <1>5. ended' \in [Job -> Nat] /\ \A j \in Job : ended'[j] <= ended[j]
    BY <1>1, <1>3, RenewedLess
  <1>6. CASE ArmsIfIdle(task)
    BY <1>1, <1>2, <1>3, <1>4, <1>5, <1>6, ArmsIfIdleAhead
  <1>7. CASE \E x : task' = [task EXCEPT ![m] = x]
    <2>1. \A t \in Timer : task'[t] = task[t]
      BY <1>1, <1>7 DEF Tasks
    <2> QED  BY <1>1, <1>2, <1>3, <1>4, <1>5, <2>1, Undisturbed
  <1> QED  BY <1>3, <1>6, <1>7

LEMMA EndOfRunAhead ==
    ASSUME GInv, NEW m \in Manual, FinishRun(m) \/ AbortRun(m)
    PROVE  ScheduleInv' /\ StartsAhead
  <1>1. /\ TypeOK /\ m \in Tasks /\ m \notin Timer /\ task \in [Tasks -> Task] /\ now \in Nat
        /\ store \in Store /\ ended \in [Job -> Nat]
    BY ManualTask, TaskTyped DEF GInv, IInv, TypeOK
  <1>2. UNCHANGED <<now, up, ended>> /\ EndOfRun(m) /\ task[m].pc = "running"
    BY DEF FinishRun, AbortRun, ghosts
  <1>3. up
    BY <1>1, <1>2, RunningUp DEF GInv, Idle
  <1>4. Ahead(store.mem, ended) /\ (~store.dirty /\ ~Working => Ahead(store.disk, ended))
    BY <1>3 DEF GInv, ScheduleInv
  <1>5. Ahead(store'.mem, ended) /\ (~store'.dirty /\ ~Working => Ahead(store'.disk, ended))
    <2>1. CASE store' = store
      BY <1>4, <2>1
    <2>2. CASE store' \in Saves(Advanced(store, task[m].run.job))
      <3> DEFINE s == Advanced(store, task[m].run.job)
      <3>1. \A j \in Job : ended[j] <= now
        BY DEF GInv, ScheduleInv, EndedPast
      <3>2. s \in Store /\ Ahead(s.mem, ended)
        BY <1>1, <1>4, <3>1, AdvancedStore, AdvancedAhead
      <3> HIDE DEF s
      <3>3. store' \in Saves(s)
        BY <2>2 DEF s
      <3> QED  BY <3>2, <3>3, SavesAhead
    <2> QED  BY <2>1, <2>2 DEF FinishRun, AbortRun
  <1>6. /\ [task EXCEPT ![m] = Idle] \in [Tasks -> Task]
        /\ \A t \in Timer : [task EXCEPT ![m] = Idle][t] = task[t]
    BY <1>1, IdleTask DEF Tasks
  <1>7. ended' \in [Job -> Nat] /\ \A j \in Job : ended'[j] <= ended[j]
    BY <1>1, <1>2
  <1>8. Ahead(store'.mem, ended') /\ (~store'.dirty /\ ~Working => Ahead(store'.disk, ended'))
    BY <1>2, <1>5
  <1> QED  BY <1>2, <1>3, <1>6, <1>7, <1>8, ArmsIfIdleAhead DEF EndOfRun

\* An edit gives job i a time to come, or none.
LEMMA EditsAhead ==
    ASSUME GInv, UNCHANGED <<now, up>>, up, NEW i \in Job, NEW r \in Loads(store), Renews(r),
           NEW rec \in Record \cup {NoJob},
           rec # NoJob /\ rec.next # NoTime => rec.next > now,
           EditFails(r) \/ Edit(r, i, rec)
    PROVE  ScheduleInv' /\ StartsAhead
  <1>1. /\ TypeOK /\ store \in Store /\ now \in Nat /\ ended \in [Job -> Nat]
        /\ task \in [Tasks -> Task]
    BY TaskTyped DEF GInv, IInv, TypeOK
  <1>2. ended' = Renewed(ended, store, r)
    BY DEF Renews
  <1>3. EndedPast' /\ ended' \in [Job -> Nat] /\ \A j \in Job : ended'[j] <= ended[j]
    BY <1>2, RenewedPast
  <1>4. r \in Store /\ Ahead(r.mem, ended') /\ (~Working /\ ~r.dirty => Ahead(r.disk, ended'))
    BY <1>1, <1>2, LoadsFacts, LoadedAhead
  <1>5. CASE EditFails(r)
    BY <1>1, <1>3, <1>4, <1>5, Undisturbed DEF EditFails, SameTimers, Raised
  <1>6. CASE Edit(r, i, rec)
    <2> DEFINE s == [r EXCEPT !.mem[i] = rec]
    <2>1. /\ s = [r EXCEPT !.mem = [r.mem EXCEPT ![i] = rec]]
          /\ [r.mem EXCEPT ![i] = rec] \in Table
      BY <1>4 DEF Store, Table
    <2>2. s \in Store /\ s.mem = [r.mem EXCEPT ![i] = rec]
      BY <1>4, <2>1 DEF Store
    <2>3. /\ store' \in Saves(s)
          /\ IF store'.dirty THEN SameTimers ELSE Arm(task, store')
      BY <1>6 DEF Edit
    <2> HIDE DEF s
    <2>4. Ahead(s.mem, ended')
      <3> SUFFICES ASSUME NEW j \in Job, Planned(s.mem, j) PROVE s.mem[j].next > ended'[j]
        BY DEF Ahead
      <3>1. CASE j # i
        <4>1. s.mem[j] = r.mem[j]
          BY <1>4, <2>2, <3>1 DEF Store, Table
        <4> QED  BY <1>4, <4>1 DEF Ahead, Planned
      <3>2. CASE j = i
        <4>1. s.mem[j] = rec
          BY <1>4, <2>2, <3>2 DEF Store, Table
        <4>2. rec \in Record /\ rec.next > now
          BY <4>1 DEF Planned
        <4>3. ended'[j] \in Nat /\ ended'[j] <= now /\ rec.next \in Nat
          BY <1>1, <1>3, <4>2 DEF EndedPast, Record
        <4> QED  BY <1>1, <4>1, <4>2, <4>3
      <3> QED  BY <3>1, <3>2
    <2>5. Ahead(store'.mem, ended') /\ (~store'.dirty => Ahead(store'.disk, ended'))
      BY <2>2, <2>3, <2>4, SavesAhead
    <2>6. CASE store'.dirty
      BY <1>1, <1>3, <2>3, <2>5, <2>6, Undisturbed DEF SameTimers
    <2>7. CASE ~store'.dirty
      BY <1>1, <1>3, <2>3, <2>5, <2>7, Armed
    <2> QED  BY <2>6, <2>7
  <1> QED  BY <1>5, <1>6

LEMMA RequestsAhead ==
    ASSUME GInv, NEW i \in Job,
           \/ Add(i) \/ Remove(i) \/ \E on \in BOOLEAN : Switch(i, on)
    PROVE  ScheduleInv' /\ StartsAhead
  <1>1. UNCHANGED <<now, up>> /\ up /\ TypeOK
    BY DEF Add, Remove, Switch, Request, GInv, IInv
  <1>2. NextRun(i) # NoTime => NextRun(i) > now
    BY <1>1, NextRunAhead
  <1>3. CASE Add(i)
    <2> DEFINE rec == [on |-> TRUE, next |-> NextRun(i)]
    <2>1. rec \in Record /\ rec.next = NextRun(i)
      BY <1>1, NewRecord
    <2>2. PICK r \in Loads(store) : Renews(r) /\ (EditFails(r) \/ Edit(r, i, rec))
      BY <1>3 DEF Add
    <2> HIDE DEF rec
    <2> QED  BY <1>1, <1>2, <2>1, <2>2, EditsAhead
  <1>4. CASE Remove(i)
    <2>1. PICK r \in Loads(store) : Renews(r) /\ (EditFails(r) \/ Edit(r, i, NoJob))
      BY <1>4 DEF Remove
    <2> QED  BY <1>1, <2>1, EditsAhead
  <1>5. ASSUME NEW on \in BOOLEAN, Switch(i, on) PROVE ScheduleInv' /\ StartsAhead
    <2> DEFINE rec == [on |-> on, next |-> IF on THEN NextRun(i) ELSE NoTime]
    <2>1. rec \in Record /\ (rec.next # NoTime => rec.next = NextRun(i))
      BY <1>1, NewRecord
    <2>2. PICK r \in Loads(store) : Renews(r) /\ (EditFails(r) \/ Edit(r, i, rec))
      BY <1>5 DEF Switch
    <2> HIDE DEF rec
    <2> QED  BY <1>1, <1>2, <2>1, <2>2, EditsAhead
  <1> QED  BY <1>3, <1>4, <1>5

LEMMA PollAhead == GInv /\ Poll => ScheduleInv' /\ StartsAhead
  <1> SUFFICES ASSUME GInv, Poll PROVE ScheduleInv' /\ StartsAhead
    OBVIOUS
  <1>1. PICK r \in Loads(store) : store' = r /\ Renews(r)
    BY DEF Poll
  <1>2. UNCHANGED <<now, up, task>> /\ up /\ now \in Nat /\ ended \in [Job -> Nat]
    BY DEF Poll, GInv, IInv, TypeOK
  <1>3. ended' = Renewed(ended, store, r)
    BY <1>1 DEF Renews
  <1>4. Ahead(r.mem, ended') /\ (~Working /\ ~r.dirty => Ahead(r.disk, ended'))
    BY <1>2, <1>3, LoadedAhead
  <1>5. ended' \in [Job -> Nat] /\ \A j \in Job : ended'[j] <= ended[j]
    BY <1>2, <1>3, RenewedLess
  <1> QED  BY <1>1, <1>2, <1>4, <1>5, Undisturbed

LEMMA OthersAhead ==
    ASSUME GInv, NEW i \in Job,
           \/ OtherAdds(i) \/ OtherRemoves(i)
           \/ \E on \in BOOLEAN : OtherSwitches(i, on)
    PROVE  ScheduleInv' /\ StartsAhead
  <1>1. PICK line : AppendAction(i, line)
    BY DEF OtherAdds, OtherRemoves, OtherSwitches
  <1>2. /\ UNCHANGED <<now, up, task, ended>> /\ now \in Nat /\ ended \in [Job -> Nat]
        /\ store \in Store
    BY <1>1 DEF AppendAction, Request, GInv, IInv, TypeOK
  <1>3. store'.mem = store.mem /\ store'.disk = store.disk /\ store'.dirty = store.dirty
    BY <1>1, <1>2 DEF AppendAction, Store
  <1>4. /\ up' => Ahead(store'.mem, ended')
        /\ up' /\ ~store'.dirty /\ ~Working => Ahead(store'.disk, ended')
    BY <1>2, <1>3 DEF GInv, ScheduleInv, Ahead
  <1> QED  BY <1>2, <1>4, Undisturbed

LEMMA GStep == GInv /\ Next => ScheduleInv' /\ StartsAhead
  BY ClockAhead, StartAhead, DieAhead, PollAhead, FireAhead, FinishAhead, UnwindAhead,
     RunNowAhead, EndOfRunAhead, RequestsAhead, OthersAhead
  DEF Next

\* A due time that was run to its end is not run again, whatever is polled,
\* saved late, cancelled, merged or restarted in between.
THEOREM NothingRunsAgain == Spec => NoReplay
  <1>1. Init => ScheduleInv
    <2> SUFFICES ASSUME Init PROVE ScheduleInv
      OBVIOUS
    <2>1. \A t \in Timer : ~Alive(t) /\ ~task[t].doomed
      BY DEF Init, Alive, Idle
    <2>2. \A j \in Job : ended[j] = 0
      BY DEF Init, NoTime
    <2>3. now = 1 /\ up = FALSE
      BY DEF Init
    <2> QED  BY <2>1, <2>2, <2>3 DEF ScheduleInv, EndedPast, RestAhead, DoomAlone
  <1>2. GInv /\ UNCHANGED vars => ScheduleInv'
    BY DEF vars, ghosts, GInv, ScheduleInv, EndedPast, RestAhead, DoomAlone, Working, Alive, Ahead
  <1>3. GInv /\ [Next]_vars => GInv'
    BY <1>2, GStep, StepInv DEF GInv
  <1>4. GInv /\ [Next]_vars =>
           [\A t \in Timer : Launched(t) => task'[t].run.at > ended'[task'[t].run.job]]_vars
    BY GStep DEF StartsAhead
  <1> QED  BY <1>1, <1>3, <1>4, InitInv, PTL DEF Spec, GInv, NoReplay
=============================================================================
