---------------------------- MODULE SessionMemory ----------------------------
(***************************************************************************)
(* What becomes of the rows of one session: turns append them to a session *)
(* object, the object is written to the file of the session, and three     *)
(* kinds of work move rows into the long-term memory while turns go on:    *)
(* token consolidation (in a turn and behind it), compaction of an idle    *)
(* session, and the archive of what /new clears.                           *)
(*                                                                         *)
(* There may be several objects of the session: the cache holds the latest *)
(* that was loaded or saved, a turn and a worker hold the one they began   *)
(* with.  Everything between two awaits is one action.                     *)
(***************************************************************************)
EXTENDS Naturals, Sequences, SequencesExt

CONSTANTS
    MaxTurns,   \* bound: turns of the session
    MaxNotes,   \* bound: messages delivered outside of a turn
    MaxScans,   \* bound: compactions
    MaxResets,  \* bound: uses of /new
    MaxDeaths,  \* bound: processes that die
    MaxFaults,  \* bound: archives that raise
    NoObject

ASSUME MemoryAssumption ==
    /\ MaxTurns \in Nat
    /\ MaxNotes \in Nat
    /\ NoObject \notin Nat

\* At most: the cached one, one of the turn, one of a worker, and a new one.
Object == 1 .. 4

\* The turn's consolidation, idle compaction, and the one behind each turn.
TheTurn == 0
Idle == MaxTurns + 1
Behind == 1 .. MaxTurns
Worker == {TheTurn, Idle} \cup Behind

Kind == {"user", "answer", "cut", "command"}
Row == ((1 .. MaxTurns) \X Kind) \cup ((1 .. MaxNotes) \X {"note"})
IsUser(row) == row[2] = "user"

VARIABLES
    store,      \* the objects, the cache and the file
    turn,       \* the turn that holds the lock of the session
    queue,      \* the consolidation lock: its holder, then those that wait
    work,       \* consolidations and the compaction
    archiving,  \* AutoCompact._archiving
    cleared,    \* chunks that /new left to a background task
    archived,   \* rows whose archive ended
    raised,     \* rows whose archive after /new raised or died
    kept,       \* rows saved by agent turns, and not cleared
    gone,       \* rows cleared by /new
    raced,      \* did /new ever clear a session while its rows were archived?
    count

ghosts == <<archived, raised, kept, gone, raced>>
vars == <<store, turn, queue, work, archiving, cleared, ghosts, count>>

Rows(seq) == {seq[i] : i \in 1 .. Len(seq)}

\* messages, last_consolidated, and the rows "_last_summary" speaks of
Session == [rows : Seq(Row), cursor : Nat, summary : SUBSET Row]
Blank == [rows |-> <<>>, cursor |-> 0, summary |-> {}]

Stages == {"none", "loaded", "ready", "consolidating", "built", "running"}
NoTurn == [pc |-> "none", bus |-> FALSE, at |-> NoObject]
Resting == [pc |-> "none", at |-> NoObject, end |-> 0, chunk |-> {}, last |-> {}]

TypeOK ==
    /\ store \in [obj : [Object -> Session], cache : Object \cup {NoObject}, disk : Session]
    /\ turn \in [pc : Stages, bus : BOOLEAN, at : Object \cup {NoObject}]
    /\ queue \in Seq(Worker)
    /\ work \in [Worker -> [pc : {"none", "scheduled", "waiting", "calling"},
                            at : Object \cup {NoObject}, end : Nat,
                            chunk : SUBSET Row, last : SUBSET Row]]
    /\ archiving \in BOOLEAN
    /\ cleared \subseteq SUBSET Row
    /\ archived \subseteq Row
    /\ raised \subseteq Row
    /\ kept \subseteq Row
    /\ gone \subseteq Row
    /\ raced \in BOOLEAN
    /\ count \in [{"turns", "notes", "scans", "resets", "deaths", "faults"} -> Nat]

Init ==
    /\ store = [obj |-> [o \in Object |-> Blank], cache |-> NoObject, disk |-> Blank]
    /\ turn = NoTurn
    /\ queue = <<>>
    /\ work = [w \in Worker |-> Resting]
    /\ archiving = FALSE
    /\ cleared = {}
    /\ archived = {}
    /\ raised = {}
    /\ kept = {}
    /\ gone = {}
    /\ raced = FALSE
    /\ count = [c \in {"turns", "notes", "scans", "resets", "deaths", "faults"} |-> 0]

Counted(c, max) == count[c] < max /\ count' = [count EXCEPT ![c] = @ + 1]

-----------------------------------------------------------------------------
(* The session manager *)

InUse == {store.cache, turn.at} \cup {work[w].at : w \in Worker}
NewObject == CHOOSE o \in Object : o \notin InUse

\* A file whose last_consolidated is out of range is read with 0.
Loaded(file) == IF file.cursor <= Len(file.rows) THEN file ELSE [file EXCEPT !.cursor = 0]

\* get_or_create: the object is then s.cache.
Load(s) == [s EXCEPT !.obj[NewObject] = Loaded(s.disk), !.cache = NewObject]
Fetched(s) == IF s.cache # NoObject THEN s ELSE Load(s)

Appended(s, o, row) == [s EXCEPT !.obj[o].rows = Append(@, row)]

\* save: the file and the cache get the object of the caller.
Saved(s, o) == [s EXCEPT !.disk = s.obj[o], !.cache = o]

Unarchived(session) == SubSeq(session.rows, session.cursor + 1, Len(session.rows))

-----------------------------------------------------------------------------
(* A turn *)

Said(kind) == <<count["turns"], kind>>

\* A worker that was scheduled before the turn starts before it: it is a task
\* of the loop that is ready, and a turn begins with awaits of its own.
BeginTurn(bus) ==
    /\ turn.pc = "none"
    /\ \A w \in Worker : work[w].pc # "scheduled"
    /\ Counted("turns", MaxTurns)
    /\ store' = Fetched(store)
    /\ turn' = [pc |-> "loaded", bus |-> bus, at |-> store'.cache]
    /\ UNCHANGED <<queue, work, archiving, cleared, ghosts>>

\* prepare_session reads the session again when it is being compacted, or is
\* idle for long enough to be.
Prepare ==
    /\ turn.pc = "loaded"
    /\ \/ /\ store' = Fetched(store)
          /\ turn' = [turn EXCEPT !.pc = "ready", !.at = store'.cache]
       \/ /\ ~archiving
          /\ turn' = [turn EXCEPT !.pc = "ready"]
          /\ UNCHANGED store
    /\ UNCHANGED <<queue, work, archiving, cleared, ghosts, count>>

\* A command answers at once, and its rows are saved.
Command ==
    /\ turn.pc = "ready"
    /\ store' = Saved(Appended(store, turn.at, Said("command")), turn.at)
    /\ turn' = NoTurn
    /\ UNCHANGED <<queue, work, archiving, cleared, ghosts, count>>

\* The turn waits for the consolidation of its session.
Build ==
    /\ turn.pc = "ready"
    /\ turn' = [turn EXCEPT !.pc = "consolidating"]
    /\ work' = [work EXCEPT ![TheTurn].pc = "waiting"]
    /\ queue' = Append(queue, TheTurn)
    /\ UNCHANGED <<store, archiving, cleared, ghosts, count>>

\* It goes on with the object it began with.
PersistUser ==
    /\ turn.pc = "built"
    /\ store' = Saved(Appended(store, turn.at, Said("user")), turn.at)
    /\ turn' = [turn EXCEPT !.pc = "running"]
    /\ kept' = IF turn.bus THEN kept \cup {Said("user")} ELSE kept
    /\ UNCHANGED <<queue, work, archiving, cleared, archived, raised, gone, raced, count>>

\* A checkpoint
Checkpoint ==
    /\ turn.pc = "running"
    /\ store' = Saved(store, turn.at)
    /\ UNCHANGED <<turn, queue, work, archiving, cleared, ghosts, count>>

Persist ==
    /\ turn.pc = "running"
    /\ store' = Saved(Appended(store, turn.at, Said("answer")), turn.at)
    /\ kept' = IF turn.bus THEN kept \cup {Said("answer")} ELSE kept
    /\ work' = [work EXCEPT ![count["turns"]].pc = "scheduled"]
    /\ turn' = NoTurn
    /\ UNCHANGED <<queue, archiving, cleared, archived, raised, gone, raced, count>>

\* Leaving the consolidation lock, or the line in front of it
Without(w) ==
    IF w \in ToSet(queue) THEN RemoveAt(queue, CHOOSE i \in DOMAIN queue : queue[i] = w) ELSE queue

\* /stop reaches turns from the bus.  What the checkpoint holds becomes rows of
\* the session as the cache has it.
Stopped(s) ==
    {s} \cup IF turn.pc # "running" THEN {}
             ELSE LET f == Fetched(s) IN {Saved(Appended(f, f.cache, Said("cut")), f.cache)}

EndOfTurn ==
    /\ turn' = NoTurn
    /\ work' = [work EXCEPT ![TheTurn] = Resting]
    /\ queue' = Without(TheTurn)

Stop ==
    /\ turn.bus
    /\ store' \in Stopped(store)
    /\ EndOfTurn
    /\ UNCHANGED <<archiving, cleared, ghosts, count>>

\* cron and the message tool deliver to a session outside of its turn.
Deliver ==
    /\ Counted("notes", MaxNotes)
    /\ LET s == Fetched(store)
       IN  store' = Saved(Appended(s, s.cache, <<count'["notes"], "note">>), s.cache)
    /\ UNCHANGED <<turn, queue, work, archiving, cleared, ghosts>>

-----------------------------------------------------------------------------
(* The archive: one worker at a time *)

Chunk(session, end) == {session.rows[i] : i \in session.cursor + 1 .. end}

LeaveBug(w) ==
    /\ work' = [work EXCEPT ![w] = Resting]
    /\ queue' = Without(w)
    /\ turn' = IF w = TheTurn THEN [turn EXCEPT !.pc = "built"] ELSE turn
    /\ UNCHANGED archiving
Leave(w) ==
    /\ work' = [work EXCEPT ![w] = Resting]
    /\ queue' = Without(w)
    /\ turn' = IF w = TheTurn THEN [turn EXCEPT !.pc = "built"] ELSE turn
    /\ archiving' = (archiving /\ w # Idle)

Join(w) ==
    /\ work[w].pc = "scheduled"
    /\ work' = [work EXCEPT ![w].pc = "waiting"]
    /\ queue' = Append(queue, w)
    /\ UNCHANGED <<store, turn, archiving, cleared, ghosts, count>>

Holds(w) == queue # <<>> /\ Head(queue) = w

\* A boundary is a user row after the first one that is not archived.
Boundaries(session) ==
    {i - 1 : i \in {k \in session.cursor + 2 .. Len(session.rows) : IsUser(session.rows[k])}}

\* The request holds the rows of the chunk; the worker keeps the object.
Calls(w, s, o, end, last) ==
    /\ work' = [work EXCEPT ![w] = [pc |-> "calling", at |-> o, end |-> end, last |-> last,
                                    chunk |-> Chunk(s.obj[o], end)]]
    /\ UNCHANGED <<turn, queue, archiving>>

\* maybe_consolidate_by_tokens, from the lock to the first call
Consolidate(w) ==
    /\ w # Idle
    /\ work[w].pc = "waiting"
    /\ Holds(w)
    /\ store' = Fetched(store)
    /\ \/ Leave(w)
       \/ \E end \in Boundaries(store'.obj[store'.cache]) : Calls(w, store', store'.cache, end, {})
    /\ UNCHANGED <<cleared, ghosts, count>>

\* compact_idle_session, from the lock to the call
Compact ==
    /\ work[Idle].pc = "waiting"
    /\ Holds(Idle)
    /\ store' = Load([store EXCEPT !.cache = NoObject])
    /\ LET session == store'.obj[store'.cache]
       IN  IF Unarchived(session) = <<>> THEN Leave(Idle)
           ELSE Calls(Idle, store', store'.cache, Len(session.rows), {})
    /\ UNCHANGED <<cleared, ghosts, count>>

\* The call is over; the worker moves the cursor of its object and saves it.
MovedBug(w, summary) ==
    LET o == work[w].at
    IN  Saved([store EXCEPT !.obj[o].cursor = work[w].end - Len(store.obj[o].rows)], o)
MovedToEndBug(w, summary) ==
    LET o == work[w].at
    IN  Saved([store EXCEPT !.obj[o].cursor = Len(store.obj[o].rows)], o)
Moved(w, summary) ==
    LET o == work[w].at
    IN  Saved([store EXCEPT !.obj[o].cursor = work[w].end,
                            !.obj[o].summary = IF summary = {} THEN @ ELSE summary], o)

\* No summary: the chunk was dumped as it is.
NextRound(w, summary) ==
    /\ w # Idle
    /\ summary # {}
    /\ store' = Moved(w, {})
    /\ \E end \in Boundaries(store'.obj[work[w].at]) : Calls(w, store', work[w].at, end, summary)

LastRound(w, summary) ==
    /\ store' = Moved(w, IF summary = {} THEN work[w].last ELSE summary)
    /\ Leave(w)

Archive(w) ==
    /\ work[w].pc = "calling"
    /\ archived' = archived \cup work[w].chunk
    /\ \E summary \in {{}, work[w].chunk} : NextRound(w, summary) \/ LastRound(w, summary)
    /\ UNCHANGED <<cleared, raised, kept, gone, raced, count>>

\* An archive that raises ends its worker, and its turn.
ArchiveRaises(w) ==
    /\ work[w].pc = "calling"
    /\ Counted("faults", MaxFaults)
    /\ IF w = TheTurn THEN EndOfTurn /\ UNCHANGED archiving ELSE Leave(w)
    /\ UNCHANGED <<store, cleared, ghosts>>

\* check_expired passes over sessions with a turn from the bus.
ScanBug ==
    /\ ~archiving
    /\ Counted("scans", MaxScans)
    /\ store' = Fetched(store)
    /\ Unarchived(store'.obj[store'.cache]) # <<>>
    /\ archiving' = TRUE
    /\ work' = [work EXCEPT ![Idle].pc = "scheduled"]
    /\ UNCHANGED <<turn, queue, cleared, ghosts>>
Scan ==
    /\ ~archiving
    /\ ~turn.bus
    /\ Counted("scans", MaxScans)
    /\ store' = Fetched(store)
    /\ Unarchived(store'.obj[store'.cache]) # <<>>
    /\ archiving' = TRUE
    /\ work' = [work EXCEPT ![Idle].pc = "scheduled"]
    /\ UNCHANGED <<turn, queue, cleared, ghosts>>

-----------------------------------------------------------------------------
(* /new *)

InFlight(o) == \E w \in Worker : work'[w].pc = "calling" /\ work'[w].at = o

\* The snapshot of what is not archived is taken, the session cleared and its
\* file written, and the snapshot left to a background task.
ResetBug(s, o) ==
    /\ Counted("resets", MaxResets)
    /\ store' = [s EXCEPT !.obj[o] = Blank, !.disk = Blank, !.cache = NoObject]
    /\ LET rest == Rows(Unarchived(store'.obj[o]))
       IN  cleared' = IF rest = {} THEN cleared ELSE cleared \cup {rest}
    /\ gone' = gone \cup Rows(s.obj[o].rows)
    /\ kept' = {}
    /\ raced' = (raced \/ InFlight(o))
    /\ UNCHANGED <<archiving, archived, raised>>
Reset(s, o) ==
    /\ Counted("resets", MaxResets)
    /\ store' = [s EXCEPT !.obj[o] = Blank, !.disk = Blank, !.cache = NoObject]
    /\ LET rest == Rows(Unarchived(s.obj[o]))
       IN  cleared' = IF rest = {} THEN cleared ELSE cleared \cup {rest}
    /\ gone' = gone \cup Rows(s.obj[o].rows)
    /\ kept' = {}
    /\ raced' = (raced \/ InFlight(o))
    /\ UNCHANGED <<archiving, archived, raised>>

\* /new as a turn of its own, and while a turn of the session is active
New ==
    /\ turn.pc = "ready"
    /\ turn' = NoTurn
    /\ UNCHANGED <<queue, work>>
    /\ Reset(store, turn.at)

NewInline ==
    /\ turn.bus
    /\ EndOfTurn
    /\ \E s \in Stopped(store) : Reset(Fetched(s), Fetched(s).cache)

ArchiveCleared(chunk) ==
    /\ chunk \in cleared
    /\ cleared' = cleared \ {chunk}
    /\ \/ archived' = archived \cup chunk /\ UNCHANGED <<raised, count>>
       \/ raised' = raised \cup chunk /\ Counted("faults", MaxFaults) /\ UNCHANGED archived
    /\ UNCHANGED <<store, turn, queue, work, archiving, kept, gone, raced>>

-----------------------------------------------------------------------------
Die ==
    /\ Counted("deaths", MaxDeaths)
    /\ store' = [store EXCEPT !.obj = [o \in Object |-> Blank], !.cache = NoObject]
    /\ turn' = NoTurn
    /\ queue' = <<>>
    /\ work' = [w \in Worker |-> Resting]
    /\ archiving' = FALSE
    /\ cleared' = {}
    /\ raised' = raised \cup UNION cleared
    /\ UNCHANGED <<archived, kept, gone, raced>>

TurnStep ==
    \/ \E bus \in BOOLEAN : BeginTurn(bus)
    \/ Prepare \/ Command \/ Build \/ PersistUser \/ Checkpoint \/ Persist \/ Stop \/ New \/ NewInline

WorkerStep(w) == Join(w) \/ Consolidate(w) \/ Archive(w) \/ ArchiveRaises(w)

Next ==
    \/ TurnStep
    \/ \E w \in Worker : WorkerStep(w)
    \/ Compact \/ Scan \/ Deliver \/ Die
    \/ \E chunk \in cleared : ArchiveCleared(chunk)

Spec == Init /\ [][Next]_vars

\* The event loop runs what is ready, and calls of the provider come back.
Fairness ==
    /\ WF_vars(Prepare) /\ WF_vars(Command \/ Build \/ New) /\ WF_vars(PersistUser) /\ WF_vars(Persist)
    /\ \A w \in Worker : WF_vars(WorkerStep(w))
    /\ WF_vars(Compact)
    /\ WF_vars(\E chunk \in cleared : ArchiveCleared(chunk))

FairSpec == Spec /\ Fairness

-----------------------------------------------------------------------------
(* Properties *)

\* The cursor passes no row that was not archived first, whatever raises, is
\* cancelled or dies between the archive, the cursor and the file, and although
\* rows are added while the archive runs.  (A /new in the middle of an archive
\* breaks this: see FreshStart.)  maybe_consolidate_by_tokens
SkipsNothing ==
    ~raced => \A i \in 1 .. Len(store.disk.rows) :
                  i <= store.disk.cursor => store.disk.rows[i] \in archived

\* What a turn from the bus has saved stays in the file until /new: no worker
\* that loaded the session before the turn writes its older object over it.
\* compact_idle_session, and active_session_keys in check_expired
TurnRowsKept == kept \subseteq Rows(store.disk.rows)

\* A turn after /new starts from nothing: no summary of rows that were cleared,
\* no cursor behind the end of the new history.  It does not hold: an archive
\* that runs during /new writes its cursor and its summary into the session
\* object that was cleared.  cmd_new, "start a fresh session"
FreshStart ==
    turn.pc \in {"ready", "consolidating", "built", "running"} =>
        /\ store.obj[turn.at].summary \cap gone = {}
        /\ store.obj[turn.at].cursor <= Len(store.obj[turn.at].rows)

\* A compaction comes to its end, whether it archives, finds nothing or raises:
\* a session left in _archiving would never be compacted again.  _archive
CompactionEnds == archiving ~> ~archiving

\* Every row that /new clears is in the long-term memory in the end, unless the
\* archive of its chunk raises or its process dies.  cmd_new, archive_messages
ClearedIsArchived ==
    \A row \in Row : (row \in gone /\ ~raced) ~> (row \in archived \cup raised \/ raced)
=============================================================================
