------------------------ MODULE SessionMemoryProofs ------------------------
(* The rows of a session are neither overwritten nor skipped by the work     *)
(* that moves them to the long-term memory, however many turns, deliveries,  *)
(* compactions, uses of /new, failures and deaths there are.                 *)
EXTENDS SessionMemory, SequenceTheorems, TLAPS

USE MemoryAssumption

-----------------------------------------------------------------------------
(* What is invariant *)

Store == [obj : [Object -> Session], cache : Object \cup {NoObject}, disk : Session]
Task == [pc : {"none", "scheduled", "waiting", "calling"}, at : Object \cup {NoObject},
         end : Nat, chunk : SUBSET Row, last : SUBSET Row]

InLine(w) == work[w].pc \in {"waiting", "calling"}

Turns ==
    /\ count["turns"] <= MaxTurns
    /\ turn.pc = "none" => turn = NoTurn
    /\ turn.pc # "none" => count["turns"] >= 1 /\ turn.at \in Object

\* The lock is held by the first in line, and only the holder calls.
Line ==
    /\ IsInjective(queue)
    /\ \A w \in Worker : InLine(w) <=> w \in ToSet(queue)
    /\ \A w \in Worker : work[w].pc = "calling" => Holds(w) /\ work[w].at \in Object
    /\ \A w \in Worker : work[w].pc # "calling" => work[w].at = NoObject

\* Who may be at work
Places ==
    /\ turn.pc = "consolidating" <=> InLine(TheTurn)
    /\ work[TheTurn].pc # "scheduled"
    /\ work[Idle].pc # "none" => archiving
    /\ \A w \in Behind :
         (w > count["turns"] \/ (w = count["turns"] /\ turn.pc # "none")) => work[w].pc = "none"

\* A turn from the bus is behind all the work there was before it.
Alone ==
    turn.bus =>
        /\ \A w \in Worker : work[w].pc # "scheduled"
        /\ turn.pc = "consolidating" => Last(queue) = TheTurn
        /\ turn.pc \in {"built", "running"} => queue = <<>>

\* Of a session, given the rows k that are kept, whether /new raced, and the
\* rows a that are archived
Fit(s, k, r, a) ==
    /\ k \subseteq Rows(s.rows)
    /\ ~r => /\ s.cursor <= Len(s.rows)
             /\ \A i \in 1 .. Len(s.rows) : i <= s.cursor => s.rows[i] \in a

\* Of a worker with the session it archives
Covers(task, s, a) ==
    /\ task.end <= Len(s.rows)
    /\ \A i \in 1 .. Len(s.rows) : i <= task.end => s.rows[i] \in a \cup task.chunk

\* The objects that somebody may save
Good(s, t, wk, k, r, a) ==
    /\ Fit(s.disk, k, r, a)
    /\ s.cache # NoObject => Fit(s.obj[s.cache], k, r, a)
    /\ t.at # NoObject => Fit(s.obj[t.at], k, r, a)
    /\ \A w \in Worker : wk[w].at # NoObject => Fit(s.obj[wk[w].at], k, r, a)
    /\ ~r => \A w \in Worker : wk[w].pc = "calling" => Covers(wk[w], s.obj[wk[w].at], a)

Sound(s) == s \in Store /\ Good(s, turn, work, kept, raced, archived)

IInv ==
    /\ TypeOK
    /\ Turns
    /\ Line
    /\ Places
    /\ Alone
    /\ Good(store, turn, work, kept, raced, archived)

-----------------------------------------------------------------------------
(* Queues and workers *)

LEMMA Workers ==
    /\ TheTurn \in Worker /\ Idle \in Worker /\ Behind \subseteq Worker
    /\ TheTurn # Idle /\ TheTurn \notin Behind /\ Idle \notin Behind
    /\ Worker \subseteq Nat /\ NoObject \notin Object /\ Object \subseteq Nat
  BY DEF TheTurn, Idle, Behind, Worker, Object

LEMMA Types ==
    ASSUME TypeOK
    PROVE  /\ store \in Store
           /\ turn \in [pc : Stages, bus : BOOLEAN, at : Object \cup {NoObject}]
           /\ queue \in Seq(Worker)
           /\ work \in [Worker -> Task]
           /\ count \in [{"turns", "notes", "scans", "resets", "deaths", "faults"} -> Nat]
  BY DEF TypeOK, Store, Task

LEMMA Rest == Resting \in Task /\ Resting.pc = "none" /\ Resting.at = NoObject
  BY DEF Resting, Task

\* Cutting a worker out of the line
LEMMA CutLine ==
    ASSUME NEW q \in Seq(Worker), IsInjective(q), NEW i \in 1 .. Len(q)
    PROVE  /\ RemoveAt(q, i) \in Seq(Worker)
           /\ Len(RemoveAt(q, i)) = Len(q) - 1
           /\ \A j \in 1 .. Len(q) - 1 : RemoveAt(q, i)[j] = IF j < i THEN q[j] ELSE q[j+1]
  <1> DEFINE a == SubSeq(q, 1, i - 1)
             b == SubSeq(q, i + 1, Len(q))
  <1>1. Len(q) \in Nat /\ i - 1 \in 0 .. Len(q)
    OBVIOUS
  <1>2. a \in Seq(Worker) /\ Len(a) = i - 1 /\ \A j \in 1 .. i - 1 : a[j] = q[j]
    BY <1>1
  <1>3. b \in Seq(Worker) /\ Len(b) = Len(q) - i /\ \A j \in 1 .. Len(q) - i : b[j] = q[i + j]
    BY <1>1
  <1>4. RemoveAt(q, i) = a \o b
    BY DEF RemoveAt
  <1> HIDE DEF a, b
  <1>5. /\ a \o b \in Seq(Worker) /\ Len(a \o b) = Len(q) - 1
        /\ \A j \in 1 .. Len(q) - 1 : (a \o b)[j] = IF j < i THEN a[j] ELSE b[j - (i - 1)]
    <2>1. /\ a \o b \in Seq(Worker) /\ Len(a \o b) = Len(a) + Len(b)
          /\ \A j \in 1 .. Len(a) + Len(b) :
               (a \o b)[j] = IF j <= Len(a) THEN a[j] ELSE b[j - Len(a)]
      BY <1>2, <1>3, ConcatProperties
    <2>2. Len(a) + Len(b) = Len(q) - 1
      BY <1>1, <1>2, <1>3
    <2>3. \A j \in 1 .. Len(q) - 1 : j <= Len(a) <=> j < i
      BY <1>1, <1>2
    <2> QED  BY <1>2, <2>1, <2>2, <2>3
  <1>6. ASSUME NEW j \in 1 .. Len(q) - 1
        PROVE  (a \o b)[j] = IF j < i THEN q[j] ELSE q[j+1]
    <2>1. CASE j < i
      BY <1>2, <1>5, <2>1
    <2>2. CASE ~(j < i)
      <3>1. j - (i - 1) \in 1 .. Len(q) - i /\ i + (j - (i - 1)) = j + 1
        BY <1>1, <2>2
      <3> QED  BY <1>1, <1>3, <1>5, <2>2, <3>1
    <2> QED  BY <2>1, <2>2
  <1> QED  BY <1>4, <1>5, <1>6

LEMMA WithoutLine ==
    ASSUME queue \in Seq(Worker), IsInjective(queue), NEW w \in Worker
    PROVE  /\ Without(w) \in Seq(Worker)
           /\ IsInjective(Without(w))
           /\ \A v \in Worker : v \in ToSet(Without(w)) <=> v \in ToSet(queue) /\ v # w
           /\ queue # <<>> /\ Head(queue) # w => Without(w) # <<>> /\ Head(Without(w)) = Head(queue)
           /\ queue # <<>> /\ Last(queue) # w => Without(w) # <<>> /\ Last(Without(w)) = Last(queue)
  <1>1. CASE w \notin ToSet(queue)
    BY <1>1 DEF Without
  <1>2. CASE w \in ToSet(queue)
    <2> DEFINE i == CHOOSE j \in DOMAIN queue : queue[j] = w
               n == Len(queue)
               q == RemoveAt(queue, i)
    <2>1. i \in 1 .. n /\ queue[i] = w /\ n \in Nat /\ n >= 1
      BY <1>2 DEF ToSet
    <2>2. Without(w) = q
      BY <1>2 DEF Without
    <2> HIDE DEF i
    <2>3. /\ q \in Seq(Worker) /\ Len(q) = n - 1
          /\ \A j \in 1 .. n - 1 : q[j] = IF j < i THEN queue[j] ELSE queue[j+1]
      BY <2>1, CutLine
    <2> HIDE DEF q
    <2>4. \A j, k \in 1 .. n : queue[j] = queue[k] => j = k
      BY DEF IsInjective
    <2>5. IsInjective(q)
      BY <2>1, <2>3, <2>4 DEF IsInjective
    <2>6. \A j \in 1 .. n - 1 : q[j] # w
      BY <2>1, <2>3, <2>4
    <2>7. \A j \in 1 .. n : queue[j] # w => \E k \in 1 .. n - 1 : q[k] = queue[j]
      <3> SUFFICES ASSUME NEW j \in 1 .. n, queue[j] # w
                   PROVE  \E k \in 1 .. n - 1 : q[k] = queue[j]
        OBVIOUS
      <3>1. CASE j < i
        <4>1. j \in 1 .. n - 1 /\ q[j] = queue[j]
          BY <2>1, <2>3, <3>1
        <4> QED  BY <4>1
      <3>2. CASE j > i
        <4>1. j - 1 \in 1 .. n - 1 /\ q[j-1] = queue[j]
          BY <2>1, <2>3, <3>2
        <4> QED  BY <4>1
      <3> QED  BY <2>1, <3>1, <3>2
    <2>8. \A v \in Worker : v \in ToSet(q) <=> v \in ToSet(queue) /\ v # w
      <3>1. DOMAIN q = 1 .. n - 1 /\ DOMAIN queue = 1 .. n
        BY <2>3
      <3>2. \A j \in 1 .. n - 1 : \E k \in 1 .. n : q[j] = queue[k]
        BY <2>1, <2>3
      <3>3. ASSUME NEW v \in ToSet(q)
            PROVE  v \in ToSet(queue) /\ v # w
        BY <2>6, <3>1, <3>2, <3>3 DEF ToSet
      <3>4. ASSUME NEW v \in ToSet(queue), v # w
            PROVE  v \in ToSet(q)
        BY <2>7, <3>1, <3>4 DEF ToSet
      <3> QED  BY <3>3, <3>4
    <2>9. Head(queue) # w => q # <<>> /\ Head(q) = Head(queue)
      <3> SUFFICES ASSUME Head(queue) # w
                   PROVE  q # <<>> /\ Head(q) = Head(queue)
        OBVIOUS
      <3>1. i # 1 /\ Head(queue) = queue[1]
        BY <2>1
      <3>2. 1 \in 1 .. n - 1 /\ q[1] = queue[1]
        BY <2>1, <2>3, <3>1
      <3> QED  BY <2>3, <3>1, <3>2
    <2>10. Last(queue) # w => q # <<>> /\ Last(q) = Last(queue)
      <3> SUFFICES ASSUME queue[n] # w
                   PROVE  q # <<>> /\ q[n-1] = queue[n]
        BY <2>3 DEF Last
      <3>1. i # n
        BY <2>1
      <3>2. n - 1 \in 1 .. n - 1 /\ q[n-1] = queue[n]
        BY <2>1, <2>3, <3>1
      <3> QED  BY <2>3, <3>2
    <2> QED  BY <2>2, <2>3, <2>5, <2>8, <2>9, <2>10
  <1> QED  BY <1>1, <1>2

LEMMA JoinedLine ==
    ASSUME queue \in Seq(Worker), IsInjective(queue), NEW w \in Worker, w \notin ToSet(queue)
    PROVE  /\ Append(queue, w) \in Seq(Worker)
           /\ IsInjective(Append(queue, w))
           /\ \A v \in Worker : v \in ToSet(Append(queue, w)) <=> v \in ToSet(queue) \/ v = w
           /\ queue # <<>> => Head(Append(queue, w)) = Head(queue)
           /\ Last(Append(queue, w)) = w
  <1> DEFINE n == Len(queue)
             q == Append(queue, w)
  <1>1. /\ n \in Nat /\ q \in Seq(Worker) /\ Len(q) = n + 1 /\ q[n+1] = w
        /\ \A j \in 1 .. n : q[j] = queue[j] /\ queue[j] # w
        /\ DOMAIN queue = 1 .. n /\ DOMAIN q = 1 .. n + 1
    BY DEF ToSet
  <1> HIDE DEF n, q
  <1>2. \A j \in 1 .. n + 1 : j \in 1 .. n \/ j = n + 1
    BY <1>1
  <1>3. IsInjective(q)
    BY <1>1, <1>2 DEF IsInjective
  <1>4. \A v \in Worker : v \in ToSet(q) <=> v \in ToSet(queue) \/ v = w
    BY <1>1, <1>2 DEF ToSet
  <1>5. queue # <<>> => Head(q) = Head(queue)
    BY <1>1 DEF n
  <1>6. Last(q) = w
    BY <1>1 DEF Last
  <1> QED  BY <1>1, <1>3, <1>4, <1>5, <1>6 DEF q

-----------------------------------------------------------------------------
(* Session objects *)

\* The cached object, that of the turn and that of the holder of the lock leave
\* one of the four free.
LEMMA FreshObject ==
    ASSUME TypeOK, Turns, Line
    PROVE  /\ NewObject \in Object
           /\ NewObject # store.cache
           /\ NewObject # turn.at
           /\ \A w \in Worker : work[w].at # NewObject
  <1>1. \E h \in Object \cup {NoObject} : \A w \in Worker : work[w].at \in {h, NoObject}
    <2>1. CASE \E w \in Worker : work[w].pc = "calling"
      <3>1. PICK v \in Worker : work[v].pc = "calling"
        BY <2>1
      <3>2. work[v].at \in Object
        BY <3>1 DEF Line
      <3>3. \A w \in Worker : work[w].pc = "calling" => w = v
        BY <3>1 DEF Line, Holds
      <3>4. \A w \in Worker : work[w].at \in {work[v].at, NoObject}
        BY <3>3 DEF Line
      <3> QED  BY <3>2, <3>4
    <2>2. CASE \A w \in Worker : work[w].pc # "calling"
      BY <2>2 DEF Line
    <2> QED  BY <2>1, <2>2
  <1>2. PICK h \in Object \cup {NoObject} : \A w \in Worker : work[w].at \in {h, NoObject}
    BY <1>1
  <1>3. \E o \in Object : o # store.cache /\ o # turn.at /\ o # h
    BY DEF Object
  <1>4. \E o \in Object : o \notin InUse
    BY <1>2, <1>3, Workers DEF InUse
  <1>5. NewObject \in Object /\ NewObject \notin InUse
    BY <1>4 DEF NewObject
  <1> QED  BY <1>5 DEF InUse

LEMMA LoadedFit ==
    ASSUME NEW file \in Session, NEW k, NEW r, NEW a, Fit(file, k, r, a)
    PROVE  Loaded(file) \in Session /\ Fit(Loaded(file), k, r, a)
  BY DEF Loaded, Fit, Session

\* Everybody else keeps the object they have.
LEMMA LoadSound ==
    ASSUME TypeOK, Turns, Line, NEW s, Sound(s)
    PROVE  /\ Sound(Load(s))
           /\ Load(s).cache = NewObject
           /\ Load(s).disk = s.disk
  <1> DEFINE q == Load(s)
             n == NewObject
  <1>1. n \in Object /\ n # turn.at /\ n # NoObject /\ \A w \in Worker : work[w].at # n
    BY FreshObject, Workers
  <1>2. s \in Store /\ s.disk \in Session /\ Fit(s.disk, kept, raced, archived)
    BY DEF Sound, Good, Store
  <1>3. Loaded(s.disk) \in Session /\ Fit(Loaded(s.disk), kept, raced, archived)
    BY <1>2, LoadedFit
  <1> HIDE DEF n
  <1>4. /\ q \in Store /\ q.cache = n /\ q.disk = s.disk /\ q.obj[n] = Loaded(s.disk)
        /\ \A o \in Object : o # n => q.obj[o] = s.obj[o]
    BY <1>1, <1>2, <1>3 DEF Load, Store, n
  <1> HIDE DEF q
  <1>5. /\ turn.at # NoObject => q.obj[turn.at] = s.obj[turn.at]
        /\ \A w \in Worker : work[w].at # NoObject => q.obj[work[w].at] = s.obj[work[w].at]
        /\ \A w \in Worker : work[w].pc = "calling" => work[w].at # NoObject
    BY <1>1, <1>4, Types, Workers DEF Task, Line
  <1>6. Good(q, turn, work, kept, raced, archived)
    BY <1>2, <1>3, <1>4, <1>5 DEF Sound, Good
  <1> QED  BY <1>4, <1>6 DEF Sound, q, n

LEMMA FetchSound ==
    ASSUME IInv
    PROVE  /\ Sound(store)
           /\ Sound(Fetched(store))
           /\ Fetched(store).cache \in Object
           /\ Fetched(store).disk = store.disk
  <1>1. Sound(store) /\ store.cache \in Object \cup {NoObject}
    BY Types DEF IInv, Sound, Store
  <1>2. CASE store.cache # NoObject
    BY <1>1, <1>2 DEF Fetched
  <1>3. CASE store.cache = NoObject
    BY <1>1, <1>3, LoadSound, FreshObject DEF Fetched, IInv
  <1> QED  BY <1>2, <1>3

LEMMA AppendFit ==
    ASSUME NEW x \in Session, NEW row \in Row
    PROVE  LET y == [x EXCEPT !.rows = Append(@, row)]
           IN  /\ y \in Session
               /\ y.cursor = x.cursor
               /\ Rows(y.rows) = Rows(x.rows) \cup {row}
               /\ \A k, r, a : Fit(x, k, r, a) => Fit(y, k, r, a)
               /\ \A task \in Task : \A a : Covers(task, x, a) => Covers(task, y, a)
  <1> DEFINE y == [x EXCEPT !.rows = Append(@, row)]
             n == Len(x.rows)
  <1>1. /\ y \in Session /\ y.cursor = x.cursor /\ y.rows \in Seq(Row) /\ n \in Nat
        /\ x.cursor \in Nat
        /\ Len(y.rows) = n + 1 /\ y.rows[n+1] = row
        /\ \A i \in 1 .. n : y.rows[i] = x.rows[i]
    <2>1. x.rows \in Seq(Row) /\ x.cursor \in Nat /\ x.summary \in SUBSET Row
      BY DEF Session
    <2>2. Append(x.rows, row) \in Seq(Row)
      BY <2>1
    <2>3. y.rows = Append(x.rows, row) /\ y.cursor = x.cursor
      BY DEF Session
    <2>4. \A rows \in Seq(Row) : [x EXCEPT !.rows = rows] \in Session
      BY DEF Session
    <2>5. y = [x EXCEPT !.rows = Append(x.rows, row)]
      OBVIOUS
    <2>6. y \in Session
      BY <2>2, <2>4, <2>5
    <2> QED  BY <2>1, <2>3, <2>6
  <1> HIDE DEF y
  <1>2. \A i \in 1 .. n + 1 : i \in 1 .. n \/ i = n + 1
    BY <1>1
  <1>3. Rows(y.rows) = Rows(x.rows) \cup {row}
    <2>1. \A i \in 1 .. n : i \in 1 .. n + 1
      BY <1>1
    <2>2. n + 1 \in 1 .. n + 1
      BY <1>1
    <2> QED  BY <1>1, <1>2, <2>1, <2>2 DEF Rows
  <1>4. ASSUME NEW k, NEW r, NEW a, Fit(x, k, r, a)
        PROVE  Fit(y, k, r, a)
    <2>1. k \subseteq Rows(y.rows)
      BY <1>3, <1>4 DEF Fit
    <2>2. ASSUME ~r
          PROVE  y.cursor <= Len(y.rows)
                 /\ \A i \in 1 .. Len(y.rows) : i <= y.cursor => y.rows[i] \in a
      <3>1. x.cursor <= n /\ \A i \in 1 .. n : i <= x.cursor => x.rows[i] \in a
        BY <1>4, <2>2 DEF Fit
      <3>2. y.cursor <= n + 1 /\ ~(n + 1 <= y.cursor)
        BY <1>1, <3>1
      <3> QED  BY <1>1, <1>2, <3>1, <3>2
    <2> QED  BY <2>1, <2>2 DEF Fit
  <1>5. ASSUME NEW task \in Task, NEW a, Covers(task, x, a)
        PROVE  Covers(task, y, a)
    <2>1. task.end <= n /\ \A i \in 1 .. n : i <= task.end => x.rows[i] \in a \cup task.chunk
      BY <1>5 DEF Covers
    <2>2. task.end \in Nat
      BY DEF Task
    <2>3. task.end <= n + 1 /\ ~(n + 1 <= task.end)
      BY <1>1, <2>1, <2>2
    <2> QED  BY <1>1, <1>2, <2>1, <2>3 DEF Covers
  <1> QED  BY <1>1, <1>3, <1>4, <1>5 DEF y

LEMMA AppendSound ==
    ASSUME IInv, NEW s, Sound(s), NEW o \in Object, NEW row \in Row
    PROVE  /\ Sound(Appended(s, o, row))
           /\ Appended(s, o, row).cache = s.cache
           /\ Appended(s, o, row).disk = s.disk
           /\ Rows(Appended(s, o, row).obj[o].rows) = Rows(s.obj[o].rows) \cup {row}
           /\ Fit(s.obj[o], kept, raced, archived) =>
                Fit(Appended(s, o, row).obj[o], kept, raced, archived)
  <1> DEFINE q == Appended(s, o, row)
             x == s.obj[o]
             y == [x EXCEPT !.rows = Append(@, row)]
  <1>1. s \in Store /\ x \in Session
    BY DEF Sound, Store
  <1>2. /\ y \in Session
        /\ Rows(y.rows) = Rows(x.rows) \cup {row}
        /\ Fit(x, kept, raced, archived) => Fit(y, kept, raced, archived)
        /\ \A w \in Worker : Covers(work[w], x, archived) => Covers(work[w], y, archived)
    BY <1>1, AppendFit, Types DEF IInv
  <1> HIDE DEF y
  <1>3. /\ q \in Store /\ q.cache = s.cache /\ q.disk = s.disk /\ q.obj[o] = y
        /\ \A p \in Object : p # o => q.obj[p] = s.obj[p]
    BY <1>1, <1>2 DEF Appended, Store, y
  <1> HIDE DEF q
  <1>4. \A p \in Object : Fit(s.obj[p], kept, raced, archived) => Fit(q.obj[p], kept, raced, archived)
    BY <1>2, <1>3
  <1>5. \A p \in Object, w \in Worker :
          Covers(work[w], s.obj[p], archived) => Covers(work[w], q.obj[p], archived)
    BY <1>2, <1>3
  <1>6. /\ s.cache \in Object \cup {NoObject} /\ turn.at \in Object \cup {NoObject}
        /\ \A w \in Worker : work[w].at \in Object \cup {NoObject}
        /\ \A w \in Worker : work[w].pc = "calling" => work[w].at \in Object
    BY <1>1, Types DEF IInv, Line, Store, Task
  <1>7. Good(q, turn, work, kept, raced, archived)
    BY <1>3, <1>4, <1>5, <1>6 DEF Sound, Good
  <1> QED  BY <1>2, <1>3, <1>7 DEF Sound, q

LEMMA SaveSound ==
    ASSUME NEW s, Sound(s), NEW o \in Object, Fit(s.obj[o], kept, raced, archived)
    PROVE  /\ Sound(Saved(s, o))
           /\ Saved(s, o).cache = o
           /\ Saved(s, o).disk = s.obj[o]
           /\ Saved(s, o).obj = s.obj
  BY Workers DEF Saved, Sound, Good, Store

-----------------------------------------------------------------------------
(* Turns, line and workers in a step *)

Flow ==
    /\ turn \in [pc : Stages, bus : BOOLEAN, at : Object \cup {NoObject}]
    /\ queue \in Seq(Worker)
    /\ work \in [Worker -> Task]
    /\ archiving \in BOOLEAN
    /\ count \in [{"turns", "notes", "scans", "resets", "deaths", "faults"} -> Nat]
    /\ Turns
    /\ Line
    /\ Places
    /\ Alone

Ghosts ==
    /\ cleared \subseteq SUBSET Row
    /\ archived \subseteq Row
    /\ raised \subseteq Row
    /\ kept \subseteq Row
    /\ gone \subseteq Row
    /\ raced \in BOOLEAN

LEMMA Unpacked ==
    ASSUME IInv
    PROVE  store \in Store /\ Flow /\ Ghosts /\ Good(store, turn, work, kept, raced, archived)
  BY DEF IInv, TypeOK, Flow, Ghosts, Store, Task

LEMMA Packed ==
    ASSUME store' \in Store, Flow', Ghosts', Good(store, turn, work, kept, raced, archived)'
    PROVE  IInv'
  BY DEF IInv, TypeOK, Flow, Ghosts, Store, Task

SameTurns == count'["turns"] = count["turns"]

\* A turn that is cut leaves the line, wherever it stands.
LEMMA EndOfTurnFlow ==
    ASSUME IInv, EndOfTurn, archiving' = archiving, SameTurns,
           count' \in [{"turns", "notes", "scans", "resets", "deaths", "faults"} -> Nat]
    PROVE  Flow'
  <1> USE Unpacked, Workers, Rest
  <1>1. /\ turn' = NoTurn
        /\ work' \in [Worker -> Task]
        /\ work'[TheTurn] = Resting
        /\ \A w \in Worker : w # TheTurn => work'[w] = work[w]
    BY DEF EndOfTurn, Flow
  <1>2. /\ queue' \in Seq(Worker)
        /\ IsInjective(queue')
        /\ \A v \in Worker : v \in ToSet(queue') <=> v \in ToSet(queue) /\ v # TheTurn
        /\ queue # <<>> /\ Head(queue) # TheTurn => queue' # <<>> /\ Head(queue') = Head(queue)
    BY WithoutLine DEF EndOfTurn, Flow, Line
  <1>3. Turns'
    BY <1>1 DEF Turns, NoTurn, SameTurns, Flow
  <1>4. Line'
    <2>1. \A w \in Worker : InLine(w)' <=> w \in ToSet(queue')
      BY <1>1, <1>2 DEF InLine, Flow, Line
    <2>2. \A w \in Worker : work'[w].pc = "calling" => Holds(w)' /\ work'[w].at \in Object
      BY <1>1, <1>2 DEF Holds, Flow, Line
    <2>3. \A w \in Worker : work'[w].pc # "calling" => work'[w].at = NoObject
      BY <1>1 DEF Flow, Line
    <2> QED  BY <1>2, <2>1, <2>2, <2>3 DEF Line
  <1>5. Places'
    BY SMTT(40), <1>1 DEF Places, Flow, InLine, NoTurn, SameTurns
  <1>6. Alone'
    BY <1>1 DEF Alone, NoTurn
  <1>7. turn' \in [pc : Stages, bus : BOOLEAN, at : Object \cup {NoObject}] /\ archiving' \in BOOLEAN
    BY <1>1 DEF NoTurn, Stages, Flow
  <1> QED  BY <1>1, <1>2, <1>3, <1>4, <1>5, <1>6, <1>7 DEF Flow

\* The holder of the lock leaves it.
LEMMA LeaveFlow ==
    ASSUME IInv, NEW w \in Worker, InLine(w), Holds(w), Leave(w), SameTurns,
           count' \in [{"turns", "notes", "scans", "resets", "deaths", "faults"} -> Nat]
    PROVE  Flow'
  <1> USE Unpacked, Workers, Rest
  <1>1. /\ work' \in [Worker -> Task]
        /\ work'[w] = Resting
        /\ \A v \in Worker : v # w => work'[v] = work[v]
    BY DEF Leave, Flow
  <1>2. /\ queue' \in Seq(Worker)
        /\ IsInjective(queue')
        /\ \A v \in Worker : v \in ToSet(queue') <=> v \in ToSet(queue) /\ v # w
        /\ Last(queue) # w => Last(queue') = Last(queue)
    BY WithoutLine DEF Leave, Flow, Line, Holds
  <1>3. /\ w = TheTurn => turn.pc = "consolidating" /\ turn' = [turn EXCEPT !.pc = "built"]
        /\ w # TheTurn => turn' = turn
    BY DEF Leave, Flow, Places
  <1>4. /\ turn' \in [pc : Stages, bus : BOOLEAN, at : Object \cup {NoObject}]
        /\ turn'.bus = turn.bus /\ turn'.at = turn.at
        /\ turn'.pc = IF w = TheTurn THEN "built" ELSE turn.pc
    BY <1>3 DEF Flow, Stages
  <1>5. \A v \in Worker : work[v].pc = "calling" => v = w
    BY DEF Flow, Line, Holds
  <1>6. Turns'
    BY <1>3, <1>4 DEF Turns, SameTurns, Flow
  <1>7. Line'
    <2>1. \A v \in Worker : InLine(v)' <=> v \in ToSet(queue')
      BY <1>1, <1>2 DEF InLine, Flow, Line
    <2>2. \A v \in Worker : work'[v].pc = "calling" => Holds(v)' /\ work'[v].at \in Object
      BY <1>1, <1>5
    <2>3. \A v \in Worker : work'[v].pc # "calling" => work'[v].at = NoObject
      BY <1>1 DEF Flow, Line
    <2> QED  BY <1>2, <2>1, <2>2, <2>3 DEF Line
  <1>8. Places'
    <2>1. turn'.pc = "consolidating" <=> InLine(TheTurn)'
      BY <1>1, <1>3, <1>4 DEF Flow, Places, InLine
    <2>2. work'[TheTurn].pc # "scheduled"
      BY <1>1 DEF Flow, Places
    <2>3. work'[Idle].pc # "none" => archiving'
      BY <1>1 DEF Flow, Places, Leave
    <2>4. ASSUME NEW v \in Behind,
                 v > count'["turns"] \/ (v = count'["turns"] /\ turn'.pc # "none")
          PROVE  work'[v].pc = "none"
      BY SMTT(40), <1>1, <1>3, <1>4, <2>4 DEF Flow, Places, SameTurns
    <2> QED  BY <2>1, <2>2, <2>3, <2>4 DEF Places
  <1>9. Alone'
    <2> SUFFICES ASSUME turn.bus
                 PROVE  /\ \A v \in Worker : work'[v].pc # "scheduled"
                        /\ turn'.pc = "consolidating" => Last(queue') = TheTurn
                        /\ turn'.pc \in {"built", "running"} => queue' = <<>>
      BY <1>4 DEF Alone
    <2>1. \A v \in Worker : work'[v].pc # "scheduled"
      BY <1>1 DEF Flow, Alone
    <2>2. turn'.pc = "consolidating" => Last(queue') = TheTurn
      BY <1>2, <1>4 DEF Flow, Alone
    <2>3. ASSUME turn'.pc \in {"built", "running"}, queue' # <<>>
          PROVE  FALSE
      <3>1. PICK v \in Worker : v \in ToSet(queue')
        <4>1. queue'[1] \in Worker /\ queue'[1] \in ToSet(queue')
          BY <1>2, <2>3 DEF ToSet
        <4> QED  BY <4>1
      <3>2. v \in ToSet(queue) /\ v # w /\ queue # <<>>
        BY <1>2, <3>1 DEF ToSet
      <3>3. w = TheTurn
        BY <1>4, <2>3, <3>2 DEF Flow, Alone
      <3>4. Last(queue) = w /\ Head(queue) = w
        BY <1>3, <3>3 DEF Flow, Alone, Holds
      <3>5. Len(queue) = 1
        <4>1. 1 \in DOMAIN queue /\ Len(queue) \in DOMAIN queue /\ queue[1] = queue[Len(queue)]
          BY SMTT(40), <3>2, <3>4 DEF Flow, Last
        <4> QED  BY <4>1 DEF Flow, Line, IsInjective
      <3>6. \A i \in DOMAIN queue : queue[i] = w
        BY <3>4, <3>5 DEF Flow
      <3> QED  BY <3>2, <3>6 DEF ToSet
    <2> QED  BY <2>1, <2>2, <2>3
  <1>10. archiving' \in BOOLEAN
    BY DEF Leave, Flow
  <1> QED  BY <1>1, <1>2, <1>4, <1>6, <1>7, <1>8, <1>9, <1>10 DEF Flow

\* The holder of the lock calls the provider.
LEMMA CallsFlow ==
    ASSUME IInv, NEW w \in Worker, InLine(w), Holds(w),
           NEW s \in Store, NEW o \in Object, NEW end \in Nat, NEW last \in SUBSET Row,
           end <= Len(s.obj[o].rows),
           Calls(w, s, o, end, last), count' = count
    PROVE  /\ Flow'
           /\ work'[w].pc = "calling" /\ work'[w].at = o /\ work'[w].end = end
           /\ work'[w].chunk = Chunk(s.obj[o], end)
           /\ \A v \in Worker : v # w => work'[v] = work[v] /\ work[v].pc # "calling"
  <1> USE Unpacked, Workers
  <1>1. Chunk(s.obj[o], end) \subseteq Row
    <2>1. s.obj[o].rows \in Seq(Row) /\ s.obj[o].cursor \in Nat
      BY DEF Store, Session
    <2>2. \A i \in s.obj[o].cursor + 1 .. end : s.obj[o].rows[i] \in Row
      BY SMTT(40), <2>1
    <2> QED  BY <2>2 DEF Chunk
  <1> DEFINE task == [pc |-> "calling", at |-> o, end |-> end, last |-> last,
                      chunk |-> Chunk(s.obj[o], end)]
  <1>2. task \in Task /\ task.pc = "calling" /\ task.at = o /\ task.end = end
        /\ task.chunk = Chunk(s.obj[o], end)
    BY <1>1 DEF Task
  <1>3. work' = [work EXCEPT ![w] = task] /\ turn' = turn /\ queue' = queue /\ archiving' = archiving
    BY DEF Calls
  <1> HIDE DEF task
  <1>4. /\ work' \in [Worker -> Task]
        /\ work'[w] = task
        /\ \A v \in Worker : v # w => work'[v] = work[v]
    BY <1>2, <1>3 DEF Flow
  <1>5. \A v \in Worker : v # w => work[v].pc # "calling"
    BY DEF Flow, Line, Holds
  <1>6. \A v \in Worker : InLine(v)' <=> InLine(v)
    BY <1>2, <1>4 DEF InLine
  <1>7. Turns'
    BY <1>3 DEF Turns, Flow
  <1>8. Line'
    <2>1. \A v \in Worker : work'[v].pc = "calling" => Holds(v)' /\ work'[v].at \in Object
      BY <1>2, <1>3, <1>4, <1>5 DEF Holds
    <2>2. \A v \in Worker : work'[v].pc # "calling" => work'[v].at = NoObject
      BY <1>2, <1>4 DEF Flow, Line
    <2> QED  BY <1>3, <1>6, <2>1, <2>2 DEF Line, Flow
  <1>9. Places'
    <2>1. work[w].pc # "none"
      BY DEF InLine
    <2> QED  BY <1>2, <1>3, <1>4, <1>6, <2>1 DEF Places, Flow
  <1>10. Alone'
    BY <1>2, <1>3, <1>4 DEF Alone, Flow
  <1> QED  BY <1>2, <1>3, <1>4, <1>5, <1>7, <1>8, <1>9, <1>10 DEF Flow

-----------------------------------------------------------------------------
(* What sessions are left with in a step *)

SameGhosts ==
    /\ archived' = archived
    /\ kept' = kept
    /\ raced' = raced

\* Turns and workers that let go of an object, or take the cached one
LEMMA Shifted ==
    ASSUME IInv, Sound(store'), SameGhosts,
           turn'.at \in {NoObject, turn.at, store'.cache},
           \A w \in Worker : work'[w].at \in {NoObject, work[w].at},
           \A w \in Worker : work'[w].pc = "calling" => work'[w] = work[w]
    PROVE  Good(store, turn, work, kept, raced, archived)'
  BY DEF Sound, Good, SameGhosts

\* Rows of the chunk are covered by the call, those before it by the cursor.
LEMMA ChunkCovers ==
    ASSUME NEW x \in Session, NEW k, NEW a, Fit(x, k, FALSE, a), NEW task \in Task,
           task.end <= Len(x.rows), task.chunk = Chunk(x, task.end)
    PROVE  Covers(task, x, a)
  <1>1. x.cursor \in Nat /\ task.end \in Nat /\ x.rows \in Seq(Row)
    BY DEF Session, Task
  <1>2. ASSUME NEW i \in 1 .. Len(x.rows), i <= task.end
        PROVE  x.rows[i] \in a \cup task.chunk
    <2>1. CASE i <= x.cursor
      BY <2>1 DEF Fit
    <2>2. CASE i > x.cursor
      <3>1. i \in x.cursor + 1 .. task.end
        BY <1>1, <1>2, <2>2
      <3> QED  BY <3>1 DEF Chunk
    <2> QED  BY <1>1, <2>1, <2>2
  <1> QED  BY <1>2 DEF Covers

LEMMA CallsGood ==
    ASSUME IInv, NEW w \in Worker, InLine(w), Holds(w), store' \in Store,
           NEW o \in Object, NEW end \in Nat, NEW last \in SUBSET Row,
           end <= Len(store'.obj[o].rows),
           Calls(w, store', o, end, last), count' = count,
           Fit(store'.disk, kept, raced, archived'),
           store'.cache # NoObject => Fit(store'.obj[store'.cache], kept, raced, archived'),
           turn.at # NoObject => Fit(store'.obj[turn.at], kept, raced, archived'),
           Fit(store'.obj[o], kept, raced, archived'),
           kept' = kept, raced' = raced
    PROVE  Flow' /\ Good(store, turn, work, kept, raced, archived)'
  <1>1. /\ Flow'
        /\ work'[w].pc = "calling" /\ work'[w].at = o /\ work'[w].end = end
        /\ work'[w].chunk = Chunk(store'.obj[o], end)
        /\ \A v \in Worker : v # w => work'[v] = work[v] /\ work[v].pc # "calling"
    BY CallsFlow
  <1>2. \A v \in Worker : v # w => work'[v].pc # "calling" /\ work'[v].at = NoObject
    BY <1>1 DEF IInv, Line
  <1>3. work'[w] \in Task /\ store'.obj[o] \in Session
    BY <1>1 DEF Flow, Store
  <1>4. ~raced => Covers(work'[w], store'.obj[o], archived')
    <2> SUFFICES ASSUME raced = FALSE
                 PROVE  Covers(work'[w], store'.obj[o], archived')
      BY DEF IInv, TypeOK
    <2> QED  BY <1>1, <1>3, ChunkCovers
  <1>5. turn' = turn
    BY DEF Calls
  <1> QED  BY <1>1, <1>2, <1>4, <1>5 DEF Good

\* The cursor and the summary move over rows that were just archived.
LEMMA MovedGood ==
    ASSUME IInv, NEW w \in Worker, work[w].pc = "calling", NEW summary \in SUBSET Row,
           store' = Moved(w, summary), archived' = archived \cup work[w].chunk
    PROVE  /\ store' \in Store
           /\ store'.cache = work[w].at
           /\ Fit(store'.disk, kept, raced, archived')
           /\ Fit(store'.obj[work[w].at], kept, raced, archived')
           /\ turn.at # NoObject => Fit(store'.obj[turn.at], kept, raced, archived')
  <1> DEFINE o == work[w].at
             x == store.obj[o]
             y == [x EXCEPT !.cursor = work[w].end,
                            !.summary = IF summary = {} THEN @ ELSE summary]
  <1>1. /\ store \in Store /\ o \in Object /\ work[w].end \in Nat /\ x \in Session
        /\ turn.at \in Object \cup {NoObject}
    BY Types DEF IInv, Line, Store, Task
  <1>2. y \in Session /\ y.cursor = work[w].end /\ y.rows = x.rows
    BY <1>1 DEF Session
  <1>3. /\ store' \in Store /\ store'.cache = o /\ store'.disk = y /\ store'.obj[o] = y
        /\ \A p \in Object : p # o => store'.obj[p] = store.obj[p]
    <2> DEFINE z == [store EXCEPT !.obj[o].cursor = work[w].end,
                                  !.obj[o].summary = IF summary = {} THEN @ ELSE summary]
    <2>1. z.obj = [store.obj EXCEPT ![o] = y]
      BY <1>1 DEF Store
    <2>2. z = [store EXCEPT !.obj = z.obj]
      BY <1>1 DEF Store
    <2>3. store' = Saved(z, o)
      BY DEF Moved
    <2> HIDE DEF z, y
    <2>4. \A f \in [Object -> Session] : [store EXCEPT !.obj = f] \in Store
      BY <1>1 DEF Store
    <2>5. z \in Store /\ z.obj[o] = y /\ \A p \in Object : p # o => z.obj[p] = store.obj[p]
      <3>1. z.obj \in [Object -> Session]
        BY <1>1, <1>2, <2>1 DEF Store
      <3> QED  BY <1>1, <2>1, <2>2, <2>4, <3>1 DEF Store
    <2> QED  BY ZenonT(40), <1>1, <2>3, <2>5 DEF Saved, Store
  <1> HIDE DEF y
  <1>4. Fit(x, kept, raced, archived) /\ (~raced => Covers(work[w], x, archived))
    BY <1>1, Workers DEF IInv, Good
  <1>5. Fit(y, kept, raced, archived')
    BY <1>2, <1>4 DEF Fit, Covers
  <1>6. turn.at # NoObject => Fit(store'.obj[turn.at], kept, raced, archived')
    <2>1. turn.at # NoObject => Fit(store.obj[turn.at], kept, raced, archived')
      BY DEF IInv, Good, Fit
    <2> QED  BY <1>1, <1>3, <1>5, <2>1
  <1> QED  BY <1>3, <1>5, <1>6

\* More is archived.
LEMMA Grown ==
    ASSUME IInv, NEW a, archived \subseteq a
    PROVE  Good(store, turn, work, kept, raced, a)
  <1>1. \A x : Fit(x, kept, raced, archived) => Fit(x, kept, raced, a)
    BY DEF Fit
  <1>2. \A x, task : Covers(task, x, archived) => Covers(task, x, a)
    BY DEF Covers
  <1> QED  BY <1>1, <1>2 DEF IInv, Good

LEMMA SaidRow ==
    ASSUME IInv, turn.pc # "none", NEW kind \in Kind
    PROVE  Said(kind) \in Row
  <1>1. count["turns"] \in 1 .. MaxTurns
    BY Types DEF IInv, Turns
  <1> QED  BY <1>1 DEF Said, Row

\* The row that a turn leaves where it speaks is saved with its object.
LEMMA SpokenSound ==
    ASSUME IInv, turn.pc # "none", NEW kind \in Kind
    PROVE  LET q == Saved(Appended(store, turn.at, Said(kind)), turn.at)
           IN  /\ Sound(q)
               /\ q.cache = turn.at
               /\ q.disk = q.obj[turn.at]
               /\ Rows(q.disk.rows) = Rows(store.obj[turn.at].rows) \cup {Said(kind)}
  <1>1. turn.at \in Object /\ turn.at # NoObject
    BY Workers DEF IInv, Turns
  <1>2. Sound(store) /\ Fit(store.obj[turn.at], kept, raced, archived)
    BY <1>1, FetchSound DEF IInv, Good
  <1>3. Said(kind) \in Row
    BY SaidRow
  <1> DEFINE f == Appended(store, turn.at, Said(kind))
  <1>4. /\ Sound(f)
        /\ Rows(f.obj[turn.at].rows) = Rows(store.obj[turn.at].rows) \cup {Said(kind)}
        /\ Fit(f.obj[turn.at], kept, raced, archived)
    <2>1. PICK o \in Object, row \in Row : o = turn.at /\ row = Said(kind)
      BY <1>1, <1>3
    <2>2. Fit(store.obj[o], kept, raced, archived)
      BY <1>2, <2>1
    <2>3. /\ Sound(Appended(store, o, row))
          /\ Rows(Appended(store, o, row).obj[o].rows) = Rows(store.obj[o].rows) \cup {row}
          /\ Fit(Appended(store, o, row).obj[o], kept, raced, archived)
      BY <1>2, <2>2, AppendSound
    <2> QED  BY <2>1, <2>3
  <1> HIDE DEF f
  <1>5. /\ Sound(Saved(f, turn.at)) /\ Saved(f, turn.at).cache = turn.at
        /\ Saved(f, turn.at).disk = f.obj[turn.at] /\ Saved(f, turn.at).obj = f.obj
    BY <1>1, <1>4, SaveSound
  <1> QED  BY <1>4, <1>5 DEF f

\* The cached session, with what a cut turn had written
LEMMA StoppedSound ==
    ASSUME IInv, NEW s \in Stopped(store)
    PROVE  /\ Sound(s)
           /\ Sound(Fetched(s))
           /\ Fetched(s).cache \in Object
  <1> DEFINE f == Fetched(store)
             q == Saved(Appended(f, f.cache, Said("cut")), f.cache)
  <1>1. CASE s = store
    BY <1>1, FetchSound
  <1>2. CASE turn.pc = "running" /\ s = q
    <2>1. Sound(f) /\ f.cache \in Object
      BY FetchSound
    <2>2. Said("cut") \in Row
      BY <1>2, SaidRow DEF Kind
    <2>3. Fit(f.obj[f.cache], kept, raced, archived)
      BY <2>1, Workers DEF Sound, Good
    <2> HIDE DEF f
    <2>4. Sound(q) /\ q.cache = f.cache
      BY <2>1, <2>2, <2>3, AppendSound, SaveSound
    <2> HIDE DEF q
    <2> QED  BY <1>2, <2>1, <2>4, Workers DEF Fetched
  <1> QED  BY <1>1, <1>2 DEF Stopped

-----------------------------------------------------------------------------
(* The steps of a turn *)

SameStores == UNCHANGED <<cleared, archived, raised, kept, gone, raced>>

LEMMA GhostsStay ==
    ASSUME IInv, SameStores
    PROVE  Ghosts' /\ SameGhosts
  BY Unpacked DEF Ghosts, SameGhosts, SameStores

LEMMA BeginTurnStep ==
    ASSUME IInv, NEW bus \in BOOLEAN, BeginTurn(bus)
    PROVE  IInv'
  <1> USE Unpacked, Workers
  <1>1. Sound(store') /\ store'.cache \in Object
    BY FetchSound DEF BeginTurn
  <1>2. /\ count' \in [{"turns", "notes", "scans", "resets", "deaths", "faults"} -> Nat]
        /\ count'["turns"] = count["turns"] + 1 /\ count["turns"] < MaxTurns
    <2>1. Counted("turns", MaxTurns)
      BY DEF BeginTurn
    <2> QED  BY <2>1 DEF Counted, Flow
  <1>3. /\ turn.pc = "none" /\ turn'.pc = "loaded" /\ turn'.bus = bus /\ turn'.at = store'.cache
        /\ turn' \in [pc : Stages, bus : BOOLEAN, at : Object \cup {NoObject}]
        /\ work' = work /\ queue' = queue /\ archiving' = archiving
        /\ \A w \in Worker : work[w].pc # "scheduled"
    BY <1>1 DEF BeginTurn, Stages
  <1>4. Turns'
    BY SMTT(40), <1>1, <1>2, <1>3 DEF Turns, Flow
  <1>5. Line'
    BY <1>3 DEF Line, Flow, InLine, Holds
  <1>6. Places'
    BY SMTT(40), <1>2, <1>3 DEF Places, Flow, InLine, Behind
  <1>7. Alone'
    BY <1>3 DEF Alone
  <1>8. Ghosts' /\ SameGhosts
    BY GhostsStay DEF BeginTurn, ghosts, SameStores
  <1>9. Good(store, turn, work, kept, raced, archived)'
    BY <1>1, <1>3, <1>8, Shifted
  <1>10. Flow'
    BY <1>2, <1>3, <1>4, <1>5, <1>6, <1>7 DEF Flow
  <1> QED  BY <1>1, <1>8, <1>9, <1>10, Packed DEF Sound

LEMMA PrepareStep ==
    ASSUME IInv, Prepare
    PROVE  IInv'
  <1> USE Unpacked, Workers
  <1>1. Sound(store') /\ turn'.at \in {turn.at, store'.cache} /\ turn'.at \in Object
    <2>1. turn.pc = "loaded" /\ turn.at \in Object
      BY DEF Prepare, Flow, Turns
    <2>2. CASE store' = Fetched(store) /\ turn' = [turn EXCEPT !.pc = "ready", !.at = store'.cache]
      BY <2>2, FetchSound DEF Flow
    <2>3. CASE store' = store /\ turn' = [turn EXCEPT !.pc = "ready"]
      BY <2>1, <2>3, FetchSound DEF Flow
    <2> QED  BY <2>2, <2>3 DEF Prepare
  <1>2. /\ turn.pc = "loaded" /\ turn'.pc = "ready" /\ turn'.bus = turn.bus
        /\ turn' \in [pc : Stages, bus : BOOLEAN, at : Object \cup {NoObject}]
        /\ work' = work /\ queue' = queue /\ archiving' = archiving /\ count' = count
    BY <1>1, FetchSound DEF Prepare, Stages, Flow
  <1>3. Turns'
    BY <1>1, <1>2 DEF Turns, Flow
  <1>4. Line'
    BY <1>2 DEF Line, Flow, InLine, Holds
  <1>5. Places'
    BY <1>2 DEF Places, Flow, InLine
  <1>6. Alone'
    BY <1>2 DEF Alone, Flow
  <1>7. Ghosts' /\ SameGhosts
    BY GhostsStay DEF Prepare, ghosts, SameStores
  <1>8. Good(store, turn, work, kept, raced, archived)'
    BY <1>1, <1>2, <1>7, Shifted
  <1>9. Flow'
    BY <1>2, <1>3, <1>4, <1>5, <1>6 DEF Flow
  <1> QED  BY <1>1, <1>7, <1>8, <1>9, Packed DEF Sound

\* A turn that ends without more
LEMMA DoneFlow ==
    ASSUME IInv, turn.pc \notin {"none", "consolidating"}, turn' = NoTurn,
           UNCHANGED <<queue, work, archiving>>, SameTurns,
           count' \in [{"turns", "notes", "scans", "resets", "deaths", "faults"} -> Nat]
    PROVE  Flow'
  <1> USE Unpacked, Workers
  <1>1. turn' \in [pc : Stages, bus : BOOLEAN, at : Object \cup {NoObject}]
        /\ turn'.pc = "none" /\ turn'.bus = FALSE
    BY DEF NoTurn, Stages
  <1>2. Turns'
    BY <1>1 DEF Turns, Flow, SameTurns
  <1>3. Line'
    BY DEF Line, Flow, InLine, Holds
  <1>4. Places'
    BY <1>1 DEF Places, Flow, InLine, SameTurns
  <1>5. Alone'
    BY <1>1 DEF Alone
  <1> QED  BY <1>1, <1>2, <1>3, <1>4, <1>5 DEF Flow

LEMMA CommandStep ==
    ASSUME IInv, Command
    PROVE  IInv'
  <1> USE Unpacked, Workers
  <1>1. turn.pc = "ready" /\ turn' = NoTurn /\ UNCHANGED <<queue, work, archiving, count>>
        /\ store' = Saved(Appended(store, turn.at, Said("command")), turn.at)
    BY DEF Command
  <1>2. Sound(store')
    <2>1. PICK kind \in Kind : kind = "command"
      BY DEF Kind
    <2> QED  BY <1>1, <2>1, SpokenSound
  <1>3. Ghosts' /\ SameGhosts
    BY GhostsStay DEF Command, ghosts, SameStores
  <1>4. Flow'
    BY <1>1, DoneFlow DEF SameTurns, Flow
  <1>5. Good(store, turn, work, kept, raced, archived)'
    BY <1>1, <1>2, <1>3, Shifted DEF NoTurn
  <1> QED  BY <1>2, <1>3, <1>4, <1>5, Packed DEF Sound

LEMMA BuildStep ==
    ASSUME IInv, Build
    PROVE  IInv'
  <1> USE Unpacked, Workers
  <1> DEFINE task == [work[TheTurn] EXCEPT !.pc = "waiting"]
  <1>1. /\ turn.pc = "ready" /\ turn'.pc = "consolidating"
        /\ turn'.bus = turn.bus /\ turn'.at = turn.at
        /\ turn' \in [pc : Stages, bus : BOOLEAN, at : Object \cup {NoObject}]
        /\ queue' = Append(queue, TheTurn)
        /\ UNCHANGED <<store, archiving, count>>
    BY DEF Build, Flow, Stages
  <1>2. ~InLine(TheTurn) /\ work[TheTurn].pc = "none" /\ work[TheTurn] \in Task
    BY <1>1 DEF Flow, Places, InLine, Task
  <1>3. task \in Task /\ task.pc = "waiting" /\ task.at = work[TheTurn].at
    BY <1>2 DEF Task
  <1>4. work' = [work EXCEPT ![TheTurn] = task]
    BY DEF Build, Flow
  <1> HIDE DEF task
  <1>5. /\ work' \in [Worker -> Task] /\ work'[TheTurn] = task
        /\ \A w \in Worker : w # TheTurn => work'[w] = work[w]
    BY <1>3, <1>4 DEF Flow
  <1>6. TheTurn \notin ToSet(queue)
    BY <1>2 DEF Flow, Line
  <1>7. /\ queue' \in Seq(Worker)
        /\ IsInjective(queue')
        /\ \A v \in Worker : v \in ToSet(queue') <=> v \in ToSet(queue) \/ v = TheTurn
        /\ queue # <<>> => Head(queue') = Head(queue)
        /\ queue' # <<>>
        /\ Last(queue') = TheTurn
    BY SMTT(40), <1>1, <1>6, JoinedLine DEF Flow, Line
  <1>8. Turns'
    BY <1>1 DEF Turns, Flow
  <1>9. Line'
    <2>1. \A w \in Worker : InLine(w)' <=> w \in ToSet(queue')
      BY <1>3, <1>5, <1>7 DEF InLine, Flow, Line
    <2>2. \A w \in Worker : work'[w].pc = "calling" => Holds(w)' /\ work'[w].at \in Object
      BY <1>3, <1>5, <1>7 DEF Holds, Flow, Line
    <2>3. \A w \in Worker : work'[w].pc # "calling" => work'[w].at = NoObject
      BY <1>2, <1>3, <1>5 DEF Flow, Line
    <2> QED  BY <1>7, <2>1, <2>2, <2>3 DEF Line
  <1>10. Places'
    <2>1. turn'.pc = "consolidating" /\ InLine(TheTurn)' /\ work'[TheTurn].pc # "scheduled"
      BY <1>1, <1>3, <1>5 DEF InLine
    <2>2. work'[Idle] = work[Idle] /\ \A w \in Behind : work'[w] = work[w]
      BY <1>5
    <2> QED  BY <1>1, <2>1, <2>2 DEF Places, Flow
  <1>11. Alone'
    BY <1>1, <1>3, <1>5, <1>7 DEF Alone, Flow
  <1>12. Ghosts' /\ SameGhosts
    BY GhostsStay DEF Build, ghosts, SameStores
  <1>13. Good(store, turn, work, kept, raced, archived)'
    <2>1. Sound(store')
      BY <1>1, FetchSound
    <2> QED  BY <1>1, <1>3, <1>5, <1>12, <2>1, Shifted
  <1>14. Flow'
    BY <1>1, <1>5, <1>7, <1>8, <1>9, <1>10, <1>11 DEF Flow
  <1> QED  BY <1>1, <1>12, <1>13, <1>14, Packed

\* What a turn from the bus saves is kept: by then nobody else has an object.
LEMMA KeptGood ==
    ASSUME IInv, turn.pc \in {"built", "running"}, NEW row, Sound(store'),
           store'.cache = turn.at, store'.disk = store'.obj[turn.at],
           Rows(store'.disk.rows) = Rows(store.obj[turn.at].rows) \cup {row},
           kept' = IF turn.bus THEN kept \cup {row} ELSE kept,
           archived' = archived, raced' = raced,
           turn'.at \in {NoObject, turn.at},
           \A w \in Worker : work'[w].at = work[w].at,
           \A w \in Worker : work'[w].pc = "calling" => work'[w] = work[w]
    PROVE  Good(store, turn, work, kept, raced, archived)'
  <1> USE Unpacked, Workers
  <1>1. CASE ~turn.bus
    BY <1>1, Shifted DEF SameGhosts
  <1>2. CASE turn.bus
    <2>1. \A w \in Worker : work[w].pc = "none" /\ work[w].at = NoObject
      BY <1>2 DEF Flow, Alone, Line, InLine, ToSet, Task
    <2>2. turn.at \in Object
      BY DEF Flow, Turns
    <2>3. Fit(store'.disk, kept', raced, archived)
      <3>1. kept \subseteq Rows(store'.disk.rows)
        BY DEF Sound, Good, Fit
      <3>2. kept' = kept \cup {row}
        BY <1>2
      <3> QED  BY <3>1, <3>2 DEF Sound, Good, Fit
    <2>4. \A w \in Worker : work'[w].pc # "calling" /\ work'[w].at = NoObject
      BY <2>1
    <2> QED  BY <2>2, <2>3, <2>4 DEF Good
  <1> QED  BY <1>1, <1>2 DEF Flow

LEMMA PersistUserStep ==
    ASSUME IInv, PersistUser
    PROVE  IInv'
  <1> USE Unpacked, Workers
  <1>1. PICK kind \in Kind : kind = "user"
    BY DEF Kind
  <1>2. /\ turn.pc = "built" /\ turn'.pc = "running"
        /\ turn'.bus = turn.bus /\ turn'.at = turn.at
        /\ turn' \in [pc : Stages, bus : BOOLEAN, at : Object \cup {NoObject}]
        /\ store' = Saved(Appended(store, turn.at, Said(kind)), turn.at)
        /\ kept' = IF turn.bus THEN kept \cup {Said(kind)} ELSE kept
        /\ UNCHANGED <<queue, work, archiving, cleared, archived, raised, gone, raced, count>>
    BY <1>1 DEF PersistUser, Flow, Stages
  <1>3. /\ Sound(store') /\ store'.cache = turn.at /\ store'.disk = store'.obj[turn.at]
        /\ Rows(store'.disk.rows) = Rows(store.obj[turn.at].rows) \cup {Said(kind)}
    BY <1>2, SpokenSound
  <1>4. Good(store, turn, work, kept, raced, archived)'
    BY <1>2, <1>3, KeptGood
  <1>5. Ghosts'
    <2>1. Said(kind) \in Row
      BY <1>2, SaidRow
    <2> QED  BY <1>2, <2>1 DEF Ghosts
  <1>6. Turns'
    BY <1>2 DEF Turns, Flow
  <1>7. Line'
    BY <1>2 DEF Line, Flow, InLine, Holds
  <1>8. Places'
    BY <1>2 DEF Places, Flow, InLine
  <1>9. Alone'
    BY <1>2 DEF Alone, Flow
  <1>10. Flow'
    BY <1>2, <1>6, <1>7, <1>8, <1>9 DEF Flow
  <1> QED  BY <1>3, <1>4, <1>5, <1>10, Packed DEF Sound

LEMMA CheckpointStep ==
    ASSUME IInv, Checkpoint
    PROVE  IInv'
  <1> USE Unpacked, Workers
  <1>1. turn.pc = "running" /\ store' = Saved(store, turn.at)
        /\ UNCHANGED <<turn, queue, work, archiving, count>>
    BY DEF Checkpoint
  <1>2. turn.at \in Object /\ Sound(store) /\ Fit(store.obj[turn.at], kept, raced, archived)
    BY <1>1, FetchSound DEF Flow, Turns, Good
  <1>3. Sound(store')
    BY <1>1, <1>2, SaveSound
  <1>4. Ghosts' /\ SameGhosts
    BY GhostsStay DEF Checkpoint, ghosts, SameStores
  <1>5. Good(store, turn, work, kept, raced, archived)'
    BY <1>1, <1>3, <1>4, Shifted
  <1>6. Flow'
    BY <1>1 DEF Flow, Turns, Line, Places, Alone, InLine, Holds
  <1> QED  BY <1>3, <1>4, <1>5, <1>6, Packed DEF Sound

LEMMA PersistStep ==
    ASSUME IInv, Persist
    PROVE  IInv'
  <1> USE Unpacked, Workers
  <1>1. PICK kind \in Kind : kind = "answer"
    BY DEF Kind
  <1>2. /\ turn.pc = "running" /\ turn' = NoTurn
        /\ turn' \in [pc : Stages, bus : BOOLEAN, at : Object \cup {NoObject}]
        /\ turn'.pc = "none" /\ turn'.bus = FALSE /\ turn'.at = NoObject
        /\ store' = Saved(Appended(store, turn.at, Said(kind)), turn.at)
        /\ kept' = IF turn.bus THEN kept \cup {Said(kind)} ELSE kept
        /\ UNCHANGED <<queue, archiving, cleared, archived, raised, gone, raced, count>>
    BY <1>1 DEF Persist, NoTurn, Stages
  <1>3. PICK b \in Behind : b = count["turns"]
    BY <1>2 DEF Flow, Turns, Behind
  <1> DEFINE task == [work[b] EXCEPT !.pc = "scheduled"]
  <1>4. work[b].pc = "none" /\ work[b].at = NoObject /\ work[b] \in Task /\ b \in Worker
    BY <1>2, <1>3 DEF Flow, Places, Line
  <1>5. task \in Task /\ task.pc = "scheduled" /\ task.at = NoObject
    BY <1>4 DEF Task
  <1>6. work' = [work EXCEPT ![b] = task]
    BY <1>3 DEF Persist
  <1> HIDE DEF task
  <1>7. /\ work' \in [Worker -> Task] /\ work'[b] = task
        /\ \A w \in Worker : w # b => work'[w] = work[w]
    BY <1>4, <1>5, <1>6 DEF Flow
  <1>8. /\ Sound(store') /\ store'.cache = turn.at /\ store'.disk = store'.obj[turn.at]
        /\ Rows(store'.disk.rows) = Rows(store.obj[turn.at].rows) \cup {Said(kind)}
    BY <1>2, SpokenSound
  <1>9. Good(store, turn, work, kept, raced, archived)'
    <2>1. \A w \in Worker : work'[w].at = work[w].at
      BY <1>4, <1>5, <1>7
    <2>2. \A w \in Worker : work'[w].pc = "calling" => work'[w] = work[w]
      BY <1>5, <1>7
    <2> QED  BY <1>2, <1>8, <2>1, <2>2, KeptGood
  <1>10. Ghosts'
    <2>1. Said(kind) \in Row
      BY <1>2, SaidRow
    <2> QED  BY <1>2, <2>1 DEF Ghosts
  <1>11. Turns'
    BY <1>2 DEF Turns, Flow
  <1>12. Line'
    BY SMTT(40), <1>2, <1>4, <1>5, <1>7 DEF Line, Flow, InLine, Holds
  <1>13. Places'
    <2>1. TheTurn # b /\ Idle # b
      OBVIOUS
    <2> QED  BY <1>2, <1>3, <1>5, <1>7, <2>1 DEF Places, Flow, InLine
  <1>14. Alone'
    BY <1>2 DEF Alone
  <1>15. Flow'
    BY <1>2, <1>7, <1>11, <1>12, <1>13, <1>14 DEF Flow
  <1> QED  BY <1>8, <1>9, <1>10, <1>15, Packed DEF Sound

LEMMA StopStep ==
    ASSUME IInv, Stop
    PROVE  IInv'
  <1> USE Unpacked, Workers
  <1>1. Sound(store')
    BY StoppedSound DEF Stop
  <1>2. Flow'
    BY EndOfTurnFlow DEF Stop, SameTurns, Flow
  <1>3. Ghosts' /\ SameGhosts
    BY GhostsStay DEF Stop, ghosts, SameStores
  <1>4. Good(store, turn, work, kept, raced, archived)'
    <2>1. turn' = NoTurn /\ work' = [work EXCEPT ![TheTurn] = Resting]
      BY DEF Stop, EndOfTurn
    <2> QED  BY <1>1, <1>3, <2>1, Rest, Shifted DEF NoTurn, Flow
  <1> QED  BY <1>1, <1>2, <1>3, <1>4, Packed DEF Sound

-----------------------------------------------------------------------------
(* Deliveries, workers, /new and deaths *)

LEMMA SameFlow ==
    ASSUME IInv, UNCHANGED <<turn, queue, work, archiving>>, SameTurns,
           count' \in [{"turns", "notes", "scans", "resets", "deaths", "faults"} -> Nat]
    PROVE  Flow'
  BY Unpacked DEF Flow, Turns, Line, Places, Alone, InLine, Holds, SameTurns

LEMMA DeliverStep ==
    ASSUME IInv, Deliver
    PROVE  IInv'
  <1> USE Unpacked, Workers
  <1> DEFINE s == Fetched(store)
  <1>1. Sound(s) /\ s.cache \in Object
    BY FetchSound
  <1>2. /\ count' \in [{"turns", "notes", "scans", "resets", "deaths", "faults"} -> Nat]
        /\ SameTurns /\ count'["notes"] \in 1 .. MaxNotes
    <2>1. Counted("notes", MaxNotes)
      BY DEF Deliver
    <2>2. count' \in [{"turns", "notes", "scans", "resets", "deaths", "faults"} -> Nat]
      BY <2>1 DEF Counted, Flow
    <2>3. SameTurns
      BY <2>1 DEF Counted, Flow, SameTurns
    <2>4. count'["notes"] = count["notes"] + 1 /\ count["notes"] \in Nat /\ count["notes"] < MaxNotes
      BY <2>1 DEF Counted, Flow
    <2>5. MaxNotes \in Nat
      BY <2>4
    <2> QED  BY <2>2, <2>3, <2>4, <2>5
  <1>3. PICK row \in Row : store' = Saved(Appended(s, s.cache, row), s.cache)
    <2>1. <<count'["notes"], "note">> \in Row
      BY <1>2 DEF Row
    <2> QED  BY <2>1 DEF Deliver
  <1> HIDE DEF s
  <1>4. Fit(s.obj[s.cache], kept, raced, archived)
    BY <1>1 DEF Sound, Good
  <1>5. Sound(Appended(s, s.cache, row))
        /\ Fit(Appended(s, s.cache, row).obj[s.cache], kept, raced, archived)
    BY <1>1, <1>4, AppendSound
  <1>6. Sound(store')
    BY <1>1, <1>3, <1>5, SaveSound
  <1>7. UNCHANGED <<turn, queue, work, archiving>>
    BY DEF Deliver
  <1>8. Ghosts' /\ SameGhosts
    BY GhostsStay DEF Deliver, ghosts, SameStores
  <1>9. Flow'
    BY <1>2, <1>7, SameFlow
  <1>10. Good(store, turn, work, kept, raced, archived)'
    BY <1>6, <1>7, <1>8, Shifted
  <1> QED  BY <1>6, <1>8, <1>9, <1>10, Packed DEF Sound

LEMMA JoinStep ==
    ASSUME IInv, NEW w \in Worker, Join(w)
    PROVE  IInv'
  <1> USE Unpacked, Workers
  <1> DEFINE task == [work[w] EXCEPT !.pc = "waiting"]
  <1>1. /\ work[w].pc = "scheduled"
        /\ queue' = Append(queue, w)
        /\ UNCHANGED <<store, turn, archiving, count>>
    BY DEF Join
  <1>2. ~InLine(w) /\ work[w] \in Task /\ w # TheTurn
    BY <1>1 DEF Flow, Places, InLine
  <1>3. task \in Task /\ task.pc = "waiting" /\ task.at = work[w].at
    BY <1>2 DEF Task
  <1>4. work' = [work EXCEPT ![w] = task]
    BY DEF Join, Flow
  <1> HIDE DEF task
  <1>5. /\ work' \in [Worker -> Task] /\ work'[w] = task
        /\ \A v \in Worker : v # w => work'[v] = work[v]
    BY <1>3, <1>4 DEF Flow
  <1>6. w \notin ToSet(queue)
    BY <1>2 DEF Flow, Line
  <1>7. /\ queue' \in Seq(Worker)
        /\ IsInjective(queue')
        /\ \A v \in Worker : v \in ToSet(queue') <=> v \in ToSet(queue) \/ v = w
        /\ queue # <<>> => Head(queue') = Head(queue)
        /\ queue' # <<>>
    BY <1>1, <1>6, JoinedLine DEF Flow, Line
  <1>8. Turns'
    BY <1>1 DEF Turns, Flow
  <1>9. Line'
    <2>1. \A v \in Worker : InLine(v)' <=> v \in ToSet(queue')
      BY <1>3, <1>5, <1>7 DEF InLine, Flow, Line
    <2>2. \A v \in Worker : work'[v].pc = "calling" => Holds(v)' /\ work'[v].at \in Object
      BY <1>3, <1>5, <1>7 DEF Holds, Flow, Line
    <2>3. \A v \in Worker : work'[v].pc # "calling" => work'[v].at = NoObject
      BY <1>1, <1>3, <1>5 DEF Flow, Line
    <2> QED  BY <1>7, <2>1, <2>2, <2>3 DEF Line
  <1>10. Places'
    <2>1. work'[TheTurn] = work[TheTurn]
      BY <1>2, <1>5
    <2>2. \A v \in Worker : work'[v].pc # "none" => work[v].pc # "none"
      BY <1>1, <1>5
    <2> QED  BY <1>1, <2>1, <2>2 DEF Places, Flow, InLine
  <1>11. Alone'
    BY <1>1 DEF Alone, Flow
  <1>12. Ghosts' /\ SameGhosts
    BY GhostsStay DEF Join, ghosts, SameStores
  <1>13. Good(store, turn, work, kept, raced, archived)'
    <2>1. Sound(store')
      BY <1>1, FetchSound
    <2> QED  BY <1>1, <1>3, <1>5, <1>12, <2>1, Shifted
  <1>14. Flow'
    BY <1>1, <1>5, <1>7, <1>8, <1>9, <1>10, <1>11 DEF Flow
  <1> QED  BY <1>1, <1>12, <1>13, <1>14, Packed

\* A worker that leaves lets go of its object.
LEMMA LeaveGood ==
    ASSUME IInv, NEW w \in Worker, Leave(w), Sound(store'), SameGhosts
    PROVE  Good(store, turn, work, kept, raced, archived)'
  <1> USE Unpacked, Workers, Rest
  <1>1. work' = [work EXCEPT ![w] = Resting] /\ turn'.at = turn.at
    BY DEF Leave, Flow
  <1> QED  BY <1>1, Shifted DEF Flow

\* A boundary lies in the session.
LEMMA BoundariesInside ==
    ASSUME NEW x \in Session, NEW end \in Boundaries(x)
    PROVE  end \in Nat /\ end <= Len(x.rows)
  BY DEF Boundaries, Session

LEMMA ConsolidateStep ==
    ASSUME IInv, NEW w \in Worker, Consolidate(w)
    PROVE  IInv'
  <1> USE Unpacked, Workers
  <1>1. /\ InLine(w) /\ Holds(w) /\ store' = Fetched(store) /\ count' = count
        /\ SameTurns /\ count' \in [{"turns", "notes", "scans", "resets", "deaths", "faults"} -> Nat]
    BY DEF Consolidate, InLine, SameTurns, Flow
  <1>2. Sound(store') /\ store'.cache \in Object
    BY <1>1, FetchSound
  <1>3. Ghosts' /\ SameGhosts
    BY GhostsStay DEF Consolidate, ghosts, SameStores
  <1>4. CASE Leave(w)
    <2>1. Flow'
      BY <1>1, <1>4, LeaveFlow
    <2>2. Good(store, turn, work, kept, raced, archived)'
      BY <1>2, <1>3, <1>4, LeaveGood
    <2> QED  BY <1>2, <1>3, <2>1, <2>2, Packed DEF Sound
  <1>5. CASE \E end \in Boundaries(store'.obj[store'.cache]) : Calls(w, store', store'.cache, end, {})
    <2>1. PICK end \in Boundaries(store'.obj[store'.cache]) :
             Calls(w, store', store'.cache, end, {})
      BY <1>5
    <2>2. end \in Nat /\ end <= Len(store'.obj[store'.cache].rows) /\ store' \in Store
      <3>1. store'.obj[store'.cache] \in Session
        BY <1>2 DEF Sound, Store
      <3> QED  BY <1>2, <3>1, BoundariesInside DEF Sound
    <2>3. /\ Fit(store'.disk, kept, raced, archived)
          /\ Fit(store'.obj[store'.cache], kept, raced, archived)
          /\ turn.at # NoObject => Fit(store'.obj[turn.at], kept, raced, archived)
      BY <1>2 DEF Sound, Good
    <2>4. Flow' /\ Good(store, turn, work, kept, raced, archived)'
      <3>1. PICK last \in SUBSET Row : last = {}
        OBVIOUS
      <3> QED  BY <1>1, <1>2, <1>3, <2>1, <2>2, <2>3, <3>1, CallsGood DEF SameGhosts
    <2> QED  BY <1>3, <2>2, <2>4, Packed
  <1> QED  BY <1>4, <1>5 DEF Consolidate

LEMMA CompactStep ==
    ASSUME IInv, Compact
    PROVE  IInv'
  <1> USE Unpacked, Workers
  <1> DEFINE x == store'.obj[store'.cache]
  <1>1. /\ InLine(Idle) /\ Holds(Idle) /\ count' = count
        /\ SameTurns /\ count' \in [{"turns", "notes", "scans", "resets", "deaths", "faults"} -> Nat]
    BY DEF Compact, InLine, SameTurns, Flow
  <1>2. Sound(store') /\ store'.cache \in Object
    <2>1. Sound([store EXCEPT !.cache = NoObject])
      BY DEF Sound, Good, Store
    <2>2. store' = Load([store EXCEPT !.cache = NoObject])
      BY DEF Compact
    <2>3. TypeOK /\ Turns /\ Line
      BY DEF IInv
    <2> QED  BY <2>1, <2>2, <2>3, LoadSound, FreshObject
  <1>3. Ghosts' /\ SameGhosts
    BY GhostsStay DEF Compact, ghosts, SameStores
  <1>4. CASE Leave(Idle)
    <2>1. Flow'
      BY <1>1, <1>4, LeaveFlow
    <2>2. Good(store, turn, work, kept, raced, archived)'
      BY <1>2, <1>3, <1>4, LeaveGood
    <2> QED  BY <1>2, <1>3, <2>1, <2>2, Packed DEF Sound
  <1>5. CASE Calls(Idle, store', store'.cache, Len(x.rows), {})
    <2>1. PICK end \in Nat : end = Len(x.rows)
      <3>1. x \in Session
        BY <1>2 DEF Sound, Store
      <3>2. x.rows \in Seq(Row)
        BY <3>1 DEF Session
      <3>3. Len(x.rows) \in Nat
        BY <3>2
      <3> QED  BY <3>3
    <2>2. PICK last \in SUBSET Row : last = {}
      OBVIOUS
    <2>3. /\ store' \in Store
          /\ Fit(store'.disk, kept, raced, archived)
          /\ Fit(store'.obj[store'.cache], kept, raced, archived)
          /\ turn.at # NoObject => Fit(store'.obj[turn.at], kept, raced, archived)
      BY <1>2 DEF Sound, Good
    <2>4. Flow' /\ Good(store, turn, work, kept, raced, archived)'
      <3>1. end <= Len(store'.obj[store'.cache].rows)
        BY <2>1
      <3> QED  BY <1>1, <1>2, <1>3, <1>5, <2>1, <2>2, <2>3, <3>1, CallsGood DEF SameGhosts
    <2> QED  BY <1>3, <2>3, <2>4, Packed
  <1> QED  BY <1>4, <1>5 DEF Compact

LEMMA ArchiveStep ==
    ASSUME IInv, NEW w \in Worker, Archive(w)
    PROVE  IInv'
  <1> USE Unpacked, Workers
  <1> DEFINE o == work[w].at
  <1>1. /\ work[w].pc = "calling" /\ archived' = archived \cup work[w].chunk
        /\ UNCHANGED <<cleared, raised, kept, gone, raced, count>>
        /\ SameTurns /\ count' \in [{"turns", "notes", "scans", "resets", "deaths", "faults"} -> Nat]
    BY DEF Archive, SameTurns, Flow
  <1>2. /\ InLine(w) /\ Holds(w) /\ o \in Object /\ work[w].chunk \subseteq Row /\ work[w].last \subseteq Row
        /\ \A v \in Worker : v # w => work[v].pc # "calling" /\ work[v].at = NoObject
    BY <1>1 DEF InLine, Flow, Line, Task, Holds
  <1>3. Ghosts'
    BY <1>1, <1>2 DEF Ghosts
  <1>4. PICK summary \in {{}, work[w].chunk} : NextRound(w, summary) \/ LastRound(w, summary)
    BY DEF Archive
  <1>5. \A sm \in SUBSET Row : store' = Moved(w, sm) =>
          /\ store' \in Store
          /\ store'.cache = o
          /\ Fit(store'.disk, kept, raced, archived')
          /\ Fit(store'.obj[o], kept, raced, archived')
          /\ turn.at # NoObject => Fit(store'.obj[turn.at], kept, raced, archived')
    BY <1>1, MovedGood
  <1>6. CASE NextRound(w, summary)
    <2>1. PICK end \in Boundaries(store'.obj[o]) : Calls(w, store', o, end, summary)
      BY <1>6 DEF NextRound
    <2>2. /\ store' \in Store
          /\ store'.cache = o
          /\ Fit(store'.disk, kept, raced, archived')
          /\ Fit(store'.obj[o], kept, raced, archived')
          /\ turn.at # NoObject => Fit(store'.obj[turn.at], kept, raced, archived')
      <3>1. PICK sm \in SUBSET Row : sm = {}
        OBVIOUS
      <3> QED  BY <1>5, <1>6, <3>1 DEF NextRound
    <2>3. end \in Nat /\ end <= Len(store'.obj[o].rows)
      <3>1. store'.obj[o] \in Session
        BY <1>2, <2>2 DEF Store
      <3> QED  BY <3>1, BoundariesInside
    <2>4. summary \in SUBSET Row
      BY <1>2
    <2> HIDE DEF o
    <2>5. Flow' /\ Good(store, turn, work, kept, raced, archived)'
      BY <1>1, <1>2, <2>1, <2>2, <2>3, <2>4, CallsGood
    <2> QED  BY <1>3, <2>2, <2>5, Packed
  <1>7. CASE LastRound(w, summary)
    <2>1. PICK sm \in SUBSET Row : sm = IF summary = {} THEN work[w].last ELSE summary
      BY <1>2
    <2>2. store' = Moved(w, sm) /\ Leave(w)
      BY <1>7, <2>1 DEF LastRound
    <2>3. /\ store' \in Store
          /\ store'.cache = o
          /\ Fit(store'.disk, kept, raced, archived')
          /\ Fit(store'.obj[o], kept, raced, archived')
          /\ turn.at # NoObject => Fit(store'.obj[turn.at], kept, raced, archived')
      BY <1>5, <2>2
    <2>4. Flow'
      BY <1>1, <1>2, <2>2, LeaveFlow
    <2>5. Good(store, turn, work, kept, raced, archived)'
      <3>1. work' = [work EXCEPT ![w] = Resting] /\ turn'.at = turn.at
        BY <2>2 DEF Leave, Flow
      <3>2. \A v \in Worker : work'[v].pc # "calling" /\ work'[v].at = NoObject
        BY <1>2, <3>1, Rest DEF Flow
      <3> QED  BY <1>1, <2>3, <3>1, <3>2 DEF Good
    <2> QED  BY <1>3, <2>3, <2>4, <2>5, Packed
  <1> QED  BY <1>4, <1>6, <1>7

LEMMA ArchiveRaisesStep ==
    ASSUME IInv, NEW w \in Worker, ArchiveRaises(w)
    PROVE  IInv'
  <1> USE Unpacked, Workers, Rest
  <1>1. /\ work[w].pc = "calling" /\ store' = store
        /\ InLine(w) /\ Holds(w)
    BY DEF ArchiveRaises, InLine, Flow, Line
  <1>2. /\ SameTurns
        /\ count' \in [{"turns", "notes", "scans", "resets", "deaths", "faults"} -> Nat]
    <2>1. Counted("faults", MaxFaults)
      BY DEF ArchiveRaises
    <2> QED  BY <2>1 DEF Counted, Flow, SameTurns
  <1>3. Ghosts' /\ SameGhosts
    BY GhostsStay DEF ArchiveRaises, ghosts, SameStores
  <1>4. Sound(store')
    BY <1>1, FetchSound
  <1>5. CASE w = TheTurn
    <2>1. EndOfTurn /\ archiving' = archiving
      BY <1>5 DEF ArchiveRaises
    <2>2. Flow'
      BY <1>2, <2>1, EndOfTurnFlow
    <2>3. turn' = NoTurn /\ work' = [work EXCEPT ![TheTurn] = Resting]
      BY <2>1 DEF EndOfTurn
    <2>4. Good(store, turn, work, kept, raced, archived)'
      BY <1>3, <1>4, <2>3, Shifted DEF NoTurn, Flow
    <2> QED  BY <1>3, <1>4, <2>2, <2>4, Packed DEF Sound
  <1>6. CASE w # TheTurn
    <2>1. Leave(w)
      BY <1>6 DEF ArchiveRaises
    <2>2. Flow'
      BY <1>1, <1>2, <2>1, LeaveFlow
    <2>3. Good(store, turn, work, kept, raced, archived)'
      BY <1>3, <1>4, <2>1, LeaveGood
    <2> QED  BY <1>3, <1>4, <2>2, <2>3, Packed DEF Sound
  <1> QED  BY <1>5, <1>6

LEMMA ScanStep ==
    ASSUME IInv, Scan
    PROVE  IInv'
  <1> USE Unpacked, Workers
  <1> DEFINE task == [work[Idle] EXCEPT !.pc = "scheduled"]
  <1>1. /\ ~archiving /\ ~turn.bus /\ archiving' = TRUE
        /\ store' = Fetched(store)
        /\ UNCHANGED <<turn, queue>>
    BY DEF Scan
  <1>2. /\ SameTurns
        /\ count' \in [{"turns", "notes", "scans", "resets", "deaths", "faults"} -> Nat]
    <2>1. Counted("scans", MaxScans)
      BY DEF Scan
    <2> QED  BY <2>1 DEF Counted, Flow, SameTurns
  <1>3. work[Idle].pc = "none" /\ work[Idle] \in Task /\ work[Idle].at = NoObject
    BY <1>1 DEF Flow, Places, Line
  <1>4. task \in Task /\ task.pc = "scheduled" /\ task.at = NoObject
    BY <1>3 DEF Task
  <1>5. work' = [work EXCEPT ![Idle] = task]
    BY DEF Scan, Flow
  <1> HIDE DEF task
  <1>6. /\ work' \in [Worker -> Task] /\ work'[Idle] = task
        /\ \A v \in Worker : v # Idle => work'[v] = work[v]
    BY <1>4, <1>5 DEF Flow
  <1>7. Turns'
    BY <1>1, <1>2 DEF Turns, Flow, SameTurns
  <1>8. Line'
    BY SMTT(40), <1>1, <1>3, <1>4, <1>6 DEF Line, Flow, InLine, Holds
  <1>9. Places'
    BY SMTT(40), <1>1, <1>2, <1>4, <1>6 DEF Places, Flow, InLine, SameTurns
  <1>10. Alone'
    BY <1>1 DEF Alone
  <1>11. Ghosts' /\ SameGhosts
    BY GhostsStay DEF Scan, ghosts, SameStores
  <1>12. Sound(store')
    BY <1>1, FetchSound
  <1>13. Good(store, turn, work, kept, raced, archived)'
    BY <1>1, <1>3, <1>4, <1>6, <1>11, <1>12, Shifted
  <1>14. Flow'
    BY <1>1, <1>2, <1>6, <1>7, <1>8, <1>9, <1>10 DEF Flow
  <1> QED  BY <1>11, <1>12, <1>13, <1>14, Packed DEF Sound

\* What /new leaves: an empty object and file, and nothing that is kept.  An
\* archive in flight on that object is what `raced' tells of.
LEMMA ResetGood ==
    ASSUME IInv, NEW s, Sound(s), NEW o \in Object, Reset(s, o), turn' = NoTurn,
           \A w \in Worker : work'[w] \in {work[w], Resting}
    PROVE  /\ store' \in Store
           /\ Ghosts'
           /\ Good(store, turn, work, kept, raced, archived)'
           /\ SameTurns
           /\ count' \in [{"turns", "notes", "scans", "resets", "deaths", "faults"} -> Nat]
           /\ archiving' = archiving
  <1> USE Unpacked, Workers, Rest
  <1>1. s \in Store /\ s.obj[o] \in Session /\ s.obj[o].rows \in Seq(Row) /\ s.obj[o].cursor \in Nat
    BY DEF Sound, Store, Session
  <1>2. Blank \in Session /\ Blank.rows = <<>> /\ Blank.cursor = 0
    BY DEF Blank, Session
  <1>3. /\ store' = [s EXCEPT !.obj[o] = Blank, !.disk = Blank, !.cache = NoObject]
        /\ kept' = {} /\ archived' = archived /\ raised' = raised /\ archiving' = archiving
        /\ gone' = gone \cup Rows(s.obj[o].rows)
        /\ raced' = (raced \/ InFlight(o))
    BY DEF Reset
  <1>4. /\ store' \in Store /\ store'.disk = Blank /\ store'.cache = NoObject
        /\ store'.obj[o] = Blank
        /\ \A p \in Object : p # o => store'.obj[p] = s.obj[p]
    BY <1>1, <1>2, <1>3 DEF Store
  <1>5. Rows(s.obj[o].rows) \subseteq Row
    BY <1>1 DEF Rows
  <1>6. Rows(Unarchived(s.obj[o])) \subseteq Row
    <2>1. Unarchived(s.obj[o]) \in Seq(Row)
      <3> DEFINE rows == s.obj[o].rows
                 m == s.obj[o].cursor + 1
      <3>1. rows \in Seq(Row) /\ m \in Nat /\ m >= 1
        BY <1>1
      <3> HIDE DEF rows, m
      <3>2. SubSeq(rows, m, Len(rows)) \in Seq(Row)
        BY <3>1
      <3> QED  BY <3>2 DEF Unarchived, rows, m
    <2> QED  BY <2>1 DEF Rows
  <1>7. Ghosts'
    BY <1>3, <1>5, <1>6 DEF Ghosts, Reset, InFlight
  <1>8. /\ SameTurns
        /\ count' \in [{"turns", "notes", "scans", "resets", "deaths", "faults"} -> Nat]
    <2>1. Counted("resets", MaxResets)
      BY DEF Reset
    <2> QED  BY <2>1 DEF Counted, Flow, SameTurns
  <1>9. Good(store, turn, work, kept, raced, archived)'
    <2>1. \A r, a : Fit(Blank, {}, r, a)
      BY <1>2 DEF Fit
    <2>2. turn'.at = NoObject
      BY DEF NoTurn
    <2>3. raced' = FALSE => raced = FALSE
          /\ \A w \in Worker : work'[w].pc = "calling" => work'[w].at # o
      BY <1>3 DEF InFlight, Ghosts
    <2>4. ASSUME NEW w \in Worker, work'[w].at # NoObject
          PROVE  /\ work'[w] = work[w] /\ work[w].at \in Object
                 /\ Fit(store'.obj[work'[w].at], kept', raced', archived')
      <3>1. work'[w] = work[w] /\ work[w].at \in Object
        BY <2>4 DEF Flow, Task
      <3>2. CASE work[w].at = o
        BY <1>3, <1>4, <2>1, <3>1, <3>2
      <3>3. CASE work[w].at # o
        <4>1. Fit(s.obj[work[w].at], kept, raced, archived)
          BY <3>1 DEF Sound, Good
        <4>2. ~raced' => ~raced
          BY <1>3
        <4>3. Fit(s.obj[work[w].at], {}, raced', archived)
          BY <4>1, <4>2 DEF Fit
        <4> QED  BY <1>3, <1>4, <3>1, <3>3, <4>3
      <3> QED  BY <3>1, <3>2, <3>3
    <2>5. ASSUME ~raced', NEW w \in Worker, work'[w].pc = "calling"
          PROVE  Covers(work'[w], store'.obj[work'[w].at], archived')
      <3>1. work'[w] = work[w] /\ work[w].pc = "calling" /\ work[w].at \in Object /\ work[w].at # o
        BY <1>7, <2>3, <2>5 DEF Ghosts, Flow, Line
      <3>2. Covers(work[w], s.obj[work[w].at], archived)
        BY <1>3, <2>5, <3>1 DEF Sound, Good
      <3> QED  BY <1>3, <1>4, <3>1, <3>2
    <2> QED  BY <1>3, <1>4, <2>1, <2>2, <2>4, <2>5 DEF Good
  <1> QED  BY <1>3, <1>4, <1>7, <1>8, <1>9

LEMMA NewStep ==
    ASSUME IInv, New
    PROVE  IInv'
  <1> USE Unpacked, Workers
  <1>1. turn.pc = "ready" /\ turn' = NoTurn /\ UNCHANGED <<queue, work>> /\ Reset(store, turn.at)
    BY DEF New
  <1>2. Sound(store) /\ turn.at \in Object
    BY <1>1, FetchSound DEF Flow, Turns
  <1>3. /\ store' \in Store
        /\ Ghosts'
        /\ Good(store, turn, work, kept, raced, archived)'
        /\ SameTurns
        /\ count' \in [{"turns", "notes", "scans", "resets", "deaths", "faults"} -> Nat]
        /\ archiving' = archiving
    BY <1>1, <1>2, ResetGood
  <1>4. Flow'
    BY <1>1, <1>3, DoneFlow
  <1> QED  BY <1>3, <1>4, Packed

LEMMA NewInlineStep ==
    ASSUME IInv, NewInline
    PROVE  IInv'
  <1> USE Unpacked, Workers
  <1>1. PICK s \in Stopped(store) : Reset(Fetched(s), Fetched(s).cache)
    BY DEF NewInline
  <1>2. Sound(Fetched(s)) /\ Fetched(s).cache \in Object
    BY StoppedSound
  <1>3. EndOfTurn /\ turn' = NoTurn /\ work' = [work EXCEPT ![TheTurn] = Resting]
    BY DEF NewInline, EndOfTurn
  <1>4. \A w \in Worker : work'[w] \in {work[w], Resting}
    BY <1>3 DEF Flow
  <1>5. /\ store' \in Store
        /\ Ghosts'
        /\ Good(store, turn, work, kept, raced, archived)'
        /\ SameTurns
        /\ count' \in [{"turns", "notes", "scans", "resets", "deaths", "faults"} -> Nat]
        /\ archiving' = archiving
    BY <1>1, <1>2, <1>3, <1>4, ResetGood
  <1>6. Flow'
    BY <1>3, <1>5, EndOfTurnFlow
  <1> QED  BY <1>5, <1>6, Packed

LEMMA ArchiveClearedStep ==
    ASSUME IInv, NEW chunk \in cleared, ArchiveCleared(chunk)
    PROVE  IInv'
  <1> USE Unpacked, Workers
  <1>1. UNCHANGED <<store, turn, queue, work, archiving, kept, gone, raced>>
    BY DEF ArchiveCleared
  <1>2. chunk \subseteq Row /\ Ghosts'
    BY DEF ArchiveCleared, Ghosts
  <1>3. /\ SameTurns
        /\ count' \in [{"turns", "notes", "scans", "resets", "deaths", "faults"} -> Nat]
    <2>1. count' = count \/ Counted("faults", MaxFaults)
      BY DEF ArchiveCleared
    <2> QED  BY <2>1 DEF Counted, Flow, SameTurns
  <1>4. archived \subseteq archived'
    BY DEF ArchiveCleared
  <1>5. Good(store, turn, work, kept, raced, archived)'
    BY <1>1, <1>4, Grown
  <1>6. Flow'
    BY <1>1, <1>3, SameFlow
  <1> QED  BY <1>1, <1>2, <1>5, <1>6, Packed

\* Only the file is left.
LEMMA DieStep ==
    ASSUME IInv, Die
    PROVE  IInv'
  <1> USE Unpacked, Workers, Rest
  <1>1. /\ store' = [store EXCEPT !.obj = [o \in Object |-> Blank], !.cache = NoObject]
        /\ turn' = NoTurn /\ queue' = <<>> /\ work' = [w \in Worker |-> Resting]
        /\ archiving' = FALSE
        /\ cleared' = {} /\ raised' = raised \cup UNION cleared
        /\ UNCHANGED <<archived, kept, gone, raced>>
    BY DEF Die
  <1>2. /\ SameTurns
        /\ count' \in [{"turns", "notes", "scans", "resets", "deaths", "faults"} -> Nat]
    <2>1. Counted("deaths", MaxDeaths)
      BY DEF Die
    <2> QED  BY <2>1 DEF Counted, Flow, SameTurns
  <1>3. store' \in Store /\ store'.disk = store.disk /\ store'.cache = NoObject
    <2>1. PICK f \in [Object -> Session] : f = [o \in Object |-> Blank]
      <3>1. Blank \in Session
        BY DEF Blank, Session
      <3> QED  BY <3>1
    <2>2. store' = [store EXCEPT !.obj = f, !.cache = NoObject]
      BY <1>1, <2>1
    <2> QED  BY <2>2 DEF Store
  <1>4. Ghosts'
    BY <1>1 DEF Ghosts
  <1>5. /\ turn' \in [pc : Stages, bus : BOOLEAN, at : Object \cup {NoObject}]
        /\ turn'.pc = "none" /\ turn'.bus = FALSE /\ turn'.at = NoObject
        /\ work' \in [Worker -> Task] /\ \A w \in Worker : work'[w] = Resting
        /\ queue' \in Seq(Worker) /\ IsInjective(queue') /\ ToSet(queue') = {}
    BY <1>1 DEF NoTurn, Stages, IsInjective, ToSet
  <1>6. Good(store, turn, work, kept, raced, archived)'
    BY <1>1, <1>3, <1>5 DEF Good
  <1>7. Turns' /\ Places' /\ Alone'
    BY <1>1, <1>2, <1>5 DEF Turns, Places, Alone, InLine, SameTurns, Flow
  <1>8. Line'
    BY <1>5 DEF Line, InLine
  <1>9. Flow'
    BY <1>1, <1>2, <1>5, <1>7, <1>8 DEF Flow
  <1> QED  BY <1>3, <1>4, <1>6, <1>9, Packed

LEMMA StutterStep ==
    ASSUME IInv, UNCHANGED vars
    PROVE  IInv'
  <1>1. Ghosts' /\ SameGhosts
    BY GhostsStay DEF vars, ghosts, SameStores
  <1>2. Flow'
    BY Unpacked, SameFlow DEF vars, SameTurns, Flow
  <1>3. store' = store /\ Sound(store')
    BY FetchSound DEF vars
  <1>4. Good(store, turn, work, kept, raced, archived)'
    BY <1>1, <1>3, Shifted DEF vars
  <1> QED  BY <1>1, <1>2, <1>3, <1>4, Packed DEF Sound

-----------------------------------------------------------------------------
(* The theorems *)

LEMMA InitInv == Init => IInv
  <1> SUFFICES ASSUME Init
               PROVE  IInv
    OBVIOUS
  <1> USE Workers, Rest
  <1>1. Blank \in Session /\ Blank.rows = <<>> /\ Blank.cursor = 0
    BY DEF Blank, Session
  <1>2. /\ store \in Store /\ store.disk = Blank /\ store.cache = NoObject
        /\ turn \in [pc : Stages, bus : BOOLEAN, at : Object \cup {NoObject}]
        /\ turn.pc = "none" /\ turn.bus = FALSE /\ turn.at = NoObject
        /\ work \in [Worker -> Task] /\ \A w \in Worker : work[w] = Resting
        /\ queue = <<>> /\ queue \in Seq(Worker) /\ IsInjective(queue) /\ ToSet(queue) = {}
        /\ archiving = FALSE
        /\ count \in [{"turns", "notes", "scans", "resets", "deaths", "faults"} -> Nat]
        /\ count["turns"] = 0
    BY <1>1 DEF Init, Store, NoTurn, Stages, IsInjective, ToSet
  <1>3. TypeOK
    BY <1>2 DEF Init, TypeOK, Store, Task
  <1>4. Turns /\ Places /\ Alone
    BY <1>2 DEF Turns, Places, Alone, InLine, Init
  <1>5. Line
    BY <1>2 DEF Line, InLine
  <1>6. Good(store, turn, work, kept, raced, archived)
    BY <1>1, <1>2 DEF Init, Good, Fit
  <1> QED  BY <1>3, <1>4, <1>5, <1>6 DEF IInv

LEMMA Step == IInv /\ [Next]_vars => IInv'
  <1> SUFFICES ASSUME IInv, [Next]_vars
               PROVE  IInv'
    OBVIOUS
  <1>1. CASE TurnStep
    BY <1>1, BeginTurnStep, PrepareStep, CommandStep, BuildStep, PersistUserStep, CheckpointStep,
       PersistStep, StopStep, NewStep, NewInlineStep DEF TurnStep
  <1>2. ASSUME NEW w \in Worker, WorkerStep(w)
        PROVE  IInv'
    BY <1>2, JoinStep, ConsolidateStep, ArchiveStep, ArchiveRaisesStep DEF WorkerStep
  <1>3. CASE Compact \/ Scan \/ Deliver \/ Die
    BY <1>3, CompactStep, ScanStep, DeliverStep, DieStep
  <1>4. ASSUME NEW chunk \in cleared, ArchiveCleared(chunk)
        PROVE  IInv'
    BY <1>4, ArchiveClearedStep
  <1>5. CASE UNCHANGED vars
    BY <1>5, StutterStep
  <1> QED  BY <1>1, <1>2, <1>3, <1>4, <1>5 DEF Next

LEMMA Invariance == Spec => []IInv
  BY InitInv, Step, PTL DEF Spec

\* Every variable keeps its type; in particular there is always a free object
\* for a session that is loaded.
THEOREM TypeCorrect == Spec => []TypeOK
  <1>1. IInv => TypeOK
    BY DEF IInv
  <1> QED  BY Invariance, <1>1, PTL

\* The cursor of the file never passes a row that was not archived.
THEOREM NothingSkipped == Spec => []SkipsNothing
  <1>1. IInv => SkipsNothing
    BY DEF IInv, Good, Fit, SkipsNothing
  <1> QED  BY Invariance, <1>1, PTL

\* No worker overwrites what a turn from the bus has saved.
THEOREM TurnsAreKept == Spec => []TurnRowsKept
  <1>1. IInv => TurnRowsKept
    BY DEF IInv, Good, Fit, TurnRowsKept
  <1> QED  BY Invariance, <1>1, PTL
=============================================================================
