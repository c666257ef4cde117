---------------------------- MODULE TurnHistory ----------------------------
(***************************************************************************)
(* The history of one session through the turns of AgentLoop: the user     *)
(* message written before the model is asked, the runtime checkpoint that  *)
(* every iteration of the runner overwrites, the rows appended at the end, *)
(* and what is put back after a crash, a /stop, an exception or a save     *)
(* that failed.                                                            *)
(*                                                                         *)
(* `mem' is the cached Session, `disk' its file, `body' what the runner    *)
(* added to the transcript of the turn in progress.  Turns of one session  *)
(* do not overlap (AgentDispatch), so there is one of each.  The calls of  *)
(* one model response are one row, and so are their results.               *)
(***************************************************************************)
EXTENDS Naturals, Sequences, SequencesExt, FiniteSets, FiniteSetsExt

CONSTANTS
    Ask,          \* turns opened by a person's message
    Cont,         \* turns opened by an internal continuation: no user row
    Follow,       \* messages a turn may take while it runs
    NoTurn,       \* no turn is in progress
    DiskFaults,   \* may a write of the session file raise?
    MaxResponses  \* model responses in one behaviour

ASSUME HistoryAssumption ==
    /\ NoTurn \notin Ask \cup Cont
    /\ Follow \cap (Ask \cup Cont) = {}
    /\ DiskFaults \in BOOLEAN
    /\ MaxResponses \in Nat

Turn == Ask \cup Cont

VARIABLES
    mem,       \* the cached session
    disk,      \* the session file
    body,      \* rows the runner added to the transcript of the turn
    stage,     \* where the turn is
    turn,      \* the turn in progress
    responses, \* model responses so far, the name of their rows
    begun,     \* turns that were dispatched
    took,      \* the turn that took a follow-up
    cut,       \* turns ended by a cancel, an exception or a crash
    queued,    \* continuations put on the mid-turn queue
    bare       \* turns that ended without a closing row

vars == <<mem, disk, body, stage, turn, responses, begun, took, cut, queued, bare>>

\* user: an input row   calls, result: tool calls and what they returned
\* final: an answer     interrupted: the result made up for a lost one
\* note: "Task interrupted before a response was generated"
Entry == [kind : {"user", "calls", "result", "final", "interrupted", "note"},
          n    : 0 .. MaxResponses,
          who  : SUBSET (Turn \cup Follow)]

Phases == {"none", "awaiting_tools", "tools_completed", "final_response"}
Checkpoint == [phase : Phases, n : 0 .. MaxResponses, who : SUBSET Turn]
Session == [log : Seq(Entry), mark : BOOLEAN, ck : Checkpoint]
Stages == {"idle", "restored", "running", "tools", "ending", "failing"}

TypeOK ==
    /\ mem \in Session
    /\ disk \in Session
    /\ body \in Seq(Entry)
    /\ stage \in Stages
    /\ turn \in Turn \cup {NoTurn}
    /\ stage = "idle" <=> turn = NoTurn
    /\ responses \in 0 .. MaxResponses
    /\ begun \subseteq Turn
    /\ took \in [Follow -> Turn \cup {NoTurn}]
    /\ cut \subseteq Turn
    /\ queued \subseteq Cont
    /\ bare \subseteq Turn

NoCheckpoint == [phase |-> "none", n |-> 0, who |-> {}]
EmptySession == [log |-> <<>>, mark |-> FALSE, ck |-> NoCheckpoint]

Init ==
    /\ mem = EmptySession
    /\ disk = EmptySession
    /\ body = <<>>
    /\ stage = "idle"
    /\ turn = NoTurn
    /\ responses = 0
    /\ begun = {}
    /\ took = [f \in Follow |-> NoTurn]
    /\ cut = {}
    /\ queued = {}
    /\ bare = {}

-----------------------------------------------------------------------------
(* Rows *)

UserRow(who) == [kind |-> "user", n |-> 0, who |-> who]
NoteRow(row) == [kind |-> "note", n |-> 0, who |-> row.who]
Row(kind, k) == [kind |-> kind, n |-> k, who |-> {turn}]
RowAt(kind, ck) == [kind |-> kind, n |-> ck.n, who |-> ck.who]

EndsWith(rows, kind) == rows # <<>> /\ Last(rows).kind = kind

\* A follow-up behind another user row is merged into it; behind the prompt
\* itself it is merged into the prompt, which is not part of the body.
Injected(rows, f) ==
    IF rows = <<>> THEN rows
    ELSE IF EndsWith(rows, "user")
      THEN Append(Front(rows), UserRow(Last(rows).who \cup {f}))
    ELSE Append(rows, UserRow({f}))

-----------------------------------------------------------------------------
(* Restoring *)

\* What the checkpoint knows of the interrupted turn.
RestorableBug(ck) ==
    CASE ck.phase = "none"            -> <<>>
      [] ck.phase = "awaiting_tools"  -> <<RowAt("calls", ck)>>
      [] ck.phase = "tools_completed" -> <<RowAt("calls", ck), RowAt("result", ck)>>
      [] ck.phase = "final_response"  -> <<RowAt("final", ck)>>
Restorable(ck) ==
    CASE ck.phase = "none"            -> <<>>
      [] ck.phase = "awaiting_tools"  -> <<RowAt("calls", ck), RowAt("interrupted", ck)>>
      [] ck.phase = "tools_completed" -> <<RowAt("calls", ck), RowAt("result", ck)>>
      [] ck.phase = "final_response"  -> <<RowAt("final", ck)>>

\* The longest end of the history that is a beginning of the restored rows.
Overlap(log, rows) ==
    Max({k \in 0 .. Min({Len(log), Len(rows)}) :
            SubSeq(log, Len(log) - k + 1, Len(log)) = SubSeq(rows, 1, k)})

MaterializedBug(log, rows) == log
Materialized(log, rows) ==
    log \o SubSeq(rows, Overlap(log, rows) + 1, Len(rows))

\* _restore_runtime_checkpoint: it forgets the pending user turn too.
RestoreCheckpoint(s) ==
    IF s.ck.phase = "none" THEN s
    ELSE [log |-> Materialized(s.log, Restorable(s.ck)), mark |-> FALSE, ck |-> NoCheckpoint]

\* _restore_pending_user_turn
RestorePending(s) ==
    IF ~s.mark THEN s
    ELSE [s EXCEPT !.log = IF EndsWith(@, "user") THEN Append(@, NoteRow(Last(@))) ELSE @,
                   !.mark = FALSE]

-----------------------------------------------------------------------------
(* Saving: the file is replaced as a whole, or the write raises *)

Outcomes == IF DiskFaults THEN BOOLEAN ELSE {TRUE}

Write(s, ok) ==
    /\ mem' = s
    /\ disk' = IF ok THEN s ELSE disk

EndTurnBug ==
    /\ stage' = "idle"
    /\ body' = <<>>
    /\ UNCHANGED turn
EndTurn ==
    /\ stage' = "idle"
    /\ turn' = NoTurn
    /\ body' = <<>>

CutTurn == EndTurn /\ cut' = cut \cup {turn}

\* The stage that follows a save, or the end of the turn if it raised.
Continue(ok, next, rows) ==
    IF ok THEN /\ stage' = next
               /\ body' = rows
               /\ UNCHANGED <<turn, cut>>
          ELSE CutTurn

-----------------------------------------------------------------------------
(* A turn: restore, build, run, save *)

\* _restore_turn writes only when it put something back.
Restore(t) ==
    /\ stage = "idle"
    /\ t \in (Ask \cup queued) \ begun
    /\ begun' = begun \cup {t}
    /\ LET s == RestorePending(RestoreCheckpoint(mem)) IN
         \E ok \in Outcomes :
           IF s = mem \/ ok
             THEN /\ Write(s, s # mem)
                  /\ stage' = "restored"
                  /\ turn' = t
                  /\ UNCHANGED <<body, cut>>
             ELSE /\ Write(s, FALSE)
                  /\ cut' = cut \cup {t}
                  /\ UNCHANGED <<stage, turn, body>>
    /\ UNCHANGED <<responses, took, queued, bare>>

\* _persist_user_message_early, then the prompt is built.
PersistedEarlyBug(s, t) ==
    [s EXCEPT !.log = Append(@, UserRow({t}))]
PersistedEarly(s, t) ==
    [s EXCEPT !.log = Append(@, UserRow({t})), !.mark = TRUE]

Build ==
    /\ stage = "restored"
    /\ IF turn \in Ask
         THEN \E ok \in Outcomes :
                /\ Write(PersistedEarly(mem, turn), ok)
                /\ Continue(ok, "running", <<>>)
         ELSE /\ stage' = "running"
              /\ UNCHANGED <<mem, disk, body, turn, cut>>
    /\ UNCHANGED <<responses, begun, took, queued, bare>>

\* The next response of the model, if the bound allows one.
Respond ==
    /\ stage = "running"
    /\ responses < MaxResponses
    /\ responses' = responses + 1

Checkpointed(phase, k) == [mem EXCEPT !.ck = [phase |-> phase, n |-> k, who |-> {turn}]]

\* The model calls tools: the checkpoint of the iteration replaces the last one.
CallTools ==
    /\ Respond
    /\ \E ok \in Outcomes :
         /\ Write(Checkpointed("awaiting_tools", responses'), ok)
         /\ Continue(ok, "tools", Append(body, Row("calls", responses')))
    /\ UNCHANGED <<begun, took, queued, bare>>

\* All the results are in.
ToolsDone ==
    /\ stage = "tools"
    /\ \E ok \in Outcomes :
         /\ Write(Checkpointed("tools_completed", responses), ok)
         /\ Continue(ok, "running", Append(body, Row("result", responses)))
    /\ UNCHANGED <<responses, begun, took, queued, bare>>

\* A formatted result or a fatal tool error ends the run without a checkpoint.
ToolsEnd ==
    /\ stage = "tools"
    /\ body' = body \o <<Row("result", responses), Row("final", responses)>>
    /\ stage' \in {"ending", "failing"}
    /\ UNCHANGED <<mem, disk, turn, responses, begun, took, cut, queued, bare>>

\* _try_drain_injections without an answer: after tools, after an error of the
\* model or of a tool, after a blank response, at the end of the iterations.
Inject(f) ==
    /\ stage \in {"running", "failing"}
    /\ took[f] = NoTurn
    /\ body' = Injected(body, f)
    /\ took' = [took EXCEPT ![f] = turn]
    /\ stage' = "running"
    /\ UNCHANGED <<mem, disk, turn, responses, begun, cut, queued, bare>>

\* An answer while follow-ups wait: it is kept, and the run goes on.
AnswerAndFollow(f) ==
    /\ Respond
    /\ took[f] = NoTurn
    /\ took' = [took EXCEPT ![f] = turn]
    /\ \E ok \in Outcomes :
         /\ Write(Checkpointed("final_response", responses'), ok)
         /\ Continue(ok, "running", Injected(Append(body, Row("final", responses')), f))
    /\ UNCHANGED <<begun, queued, bare>>

Answer ==
    /\ Respond
    /\ \E ok \in Outcomes :
         /\ Write(Checkpointed("final_response", responses'), ok)
         /\ Continue(ok, "ending", Append(body, Row("final", responses')))
    /\ UNCHANGED <<begun, took, queued, bare>>

\* A terminal tool result, a cached answer, the end of the iterations (ending);
\* an error of the model or a blank answer (failing): a closing row without a
\* checkpoint.
Conclude ==
    /\ Respond
    /\ body' = Append(body, Row("final", responses'))
    /\ stage' \in {"ending", "failing"}
    /\ UNCHANGED <<mem, disk, turn, begun, took, cut, queued, bare>>

\* CreditExhaustedError: the transcript is returned as it is.
CreditsExhausted ==
    /\ stage = "running"
    /\ stage' = "ending"
    /\ bare' = bare \cup {turn}
    /\ UNCHANGED <<mem, disk, body, turn, responses, begun, took, cut, queued>>

\* The iterations are spent and a goal is active: the closing row is stripped
\* and a continuation is queued (maybe_continue_turn).
Yield(c) ==
    /\ stage = "running"
    /\ c \notin queued \cup begun
    /\ stage' = "ending"
    /\ queued' = queued \cup {c}
    /\ bare' = bare \cup {turn}
    /\ UNCHANGED <<mem, disk, body, turn, responses, begun, took, cut>>

\* _save_turn skips results that are already there.
Persistable(log, rows) ==
    IF \A i \in DOMAIN rows : rows[i].kind = "result" => rows[i] \notin ToSet(log) THEN rows
    ELSE SelectSeq(rows, LAMBDA r : r.kind = "result" => r \notin ToSet(log))

SavedBug(s) == [s EXCEPT !.log = @ \o Persistable(@, body), !.mark = FALSE]
SavedAloneBug(s) ==
    [log |-> Persistable(s.log, body), mark |-> FALSE, ck |-> NoCheckpoint]
Saved(s) ==
    [log |-> s.log \o Persistable(s.log, body), mark |-> FALSE, ck |-> NoCheckpoint]

\* _persist_turn
Persist ==
    /\ stage \in {"ending", "failing"}
    /\ \E ok \in Outcomes :
         /\ Write(Saved(mem), ok)
         /\ cut' = IF ok THEN cut ELSE cut \cup {turn}
    /\ EndTurn
    /\ UNCHANGED <<responses, begun, took, queued, bare>>

-----------------------------------------------------------------------------
(* Interruptions *)

\* _dispatch cancelled: the checkpoint becomes history; a write that raises
\* here is only logged.
Cancel ==
    /\ stage # "idle"
    /\ \E ok \in Outcomes : Write(RestoreCheckpoint(mem), ok /\ RestoreCheckpoint(mem) # mem)
    /\ CutTurn
    /\ UNCHANGED <<responses, begun, took, queued, bare>>

\* Any other exception of the turn: nothing is put back before the next one.
Fail ==
    /\ stage # "idle"
    /\ CutTurn
    /\ UNCHANGED <<mem, disk, responses, begun, took, queued, bare>>

\* The process dies and starts again: the session is loaded from its file.
Crash ==
    /\ mem' = disk
    /\ EndTurn
    /\ cut' = IF turn = NoTurn THEN cut ELSE cut \cup {turn}
    /\ queued' = {}
    /\ UNCHANGED <<disk, responses, begun, took, bare>>

\* Another component saves the session (consolidation, metadata, flush_all).
Flush ==
    /\ mem # disk
    /\ disk' = mem
    /\ UNCHANGED <<mem, body, stage, turn, responses, begun, took, cut, queued, bare>>

Next ==
    \/ \E t \in Turn : Restore(t)
    \/ Build
    \/ CallTools \/ ToolsDone \/ ToolsEnd
    \/ \E f \in Follow : Inject(f) \/ AnswerAndFollow(f)
    \/ Answer \/ Conclude \/ CreditsExhausted
    \/ \E c \in Cont : Yield(c)
    \/ Persist
    \/ Cancel \/ Fail \/ Crash \/ Flush

Spec == Init /\ [][Next]_vars
-----------------------------------------------------------------------------
(* Safety *)

\* The file never runs ahead of the cached session, and what it holds of the
\* history stays as it is: no restore, save, crash or failed write drops or
\* rewrites a row (append-only `messages', the file replaced as a whole).
HistoryGrows ==
    [][IsPrefix(disk.log, disk'.log) /\ IsPrefix(disk'.log, mem'.log)]_vars

\* Tool calls are directly followed by their results, and results by nothing
\* else's: the history can always be sent to a provider (_save_turn and
\* _restore_runtime_checkpoint make up the results that are missing).
CallsArePaired ==
    \A i \in DOMAIN mem.log :
        LET row == mem.log[i] IN
        /\ row.kind = "calls" =>
             /\ i < Len(mem.log)
             /\ mem.log[i+1].kind \in {"result", "interrupted"}
             /\ mem.log[i+1].n = row.n
        /\ row.kind \in {"result", "interrupted"} =>
             i > 1 /\ mem.log[i-1].kind = "calls" /\ mem.log[i-1].n = row.n

\* No row is written twice, although the checkpoint and the transcript of a
\* turn hold the same rows.
NoRowTwice == IsInjective(mem.log) /\ IsInjective(disk.log)

\* "Close a turn that only persisted the user message before crashing": when a
\* later turn writes its message, the one that was cut is closed.
CutTurnIsClosed ==
    \A i \in 1 .. Len(mem.log) - 1 :
        /\ mem.log[i].kind = "user"
        /\ mem.log[i].who \cap (cut \ bare) # {}
        => mem.log[i+1].kind # "user"

\* History speaks of an interruption only where there was one.
NoFalseInterruption ==
    \A i \in DOMAIN mem.log :
        mem.log[i].kind \in {"interrupted", "note"} => mem.log[i].who \cap cut # {}

RowsOfCheckpoint(ck) == {r \in ToSet(Restorable(ck)) : r.kind # "interrupted"}

Preserved(s) == RowsOfCheckpoint(s.ck) \cup ToSet(s.log)

\* What the checkpoint on disk preserves is given up only for later work of the
\* same turn: it is still there, it has become history, or what is there now
\* includes a later row of that turn.
CheckpointSurvives ==
    [][\/ RowsOfCheckpoint(disk.ck) \subseteq Preserved(disk')
       \/ \E r \in Preserved(disk') : r.n > disk.ck.n /\ r.who = disk.ck.who]_vars

\* /stop while the turn iterates: "the user does not lose tool results and
\* assistant messages accumulated" (the cancel path of _dispatch).
StopKeepsWork ==
    [][Cancel /\ stage \in {"running", "tools"}
         => {r \in ToSet(body) : r.kind \in {"calls", "result"}} \subseteq ToSet(mem'.log)]_vars

\* A follow-up taken by a turn that was saved is part of the history.
FollowUpsAreSaved ==
    \A f \in Follow :
        took[f] \notin cut \cup {NoTurn, turn}
            => \E i \in DOMAIN mem.log : f \in mem.log[i].who
=============================================================================
