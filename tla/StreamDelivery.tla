---------------------------- MODULE StreamDelivery ----------------------------
(***************************************************************************)
(* The way of an answer to the screen: turns publish pieces of text, ends  *)
(* of segments and replies on the outbound queue; one dispatcher merges    *)
(* runs of pieces and sends for all chats, with a limit of attempts; the   *)
(* Telegram channel keeps one buffer per chat and edits one message with   *)
(* it.                                                                     *)
(***************************************************************************)
EXTENDS Naturals, Sequences, FiniteSets, SequencesExt

CONSTANTS
    Turn,
    SessionOf,  \* the session of a turn: its turns run one after the other
    ChatOf,     \* the chat in which a turn is shown
    MaxTries,   \* send_max_retries, at least one
    MaxTurns,   \* bound: the turns that begin
    MaxPieces,  \* bound: the pieces of text that all turns write
    MaxEnds,    \* bound: the segments that all turns end
    MaxQueue,   \* bound: the messages on the bus
    MaxFaults   \* bound: the attempts that fail

ASSUME StreamAssumption ==
    /\ DOMAIN SessionOf = Turn
    /\ DOMAIN ChatOf = Turn
    /\ MaxTries \in Nat \ {0}
    /\ MaxTurns \in Nat
    /\ MaxPieces \in Nat
    /\ MaxEnds \in Nat
    /\ MaxQueue \in Nat
    /\ MaxFaults \in Nat

VARIABLES
    turn,       \* the turns with their TurnDelivery
    outbound,   \* the queue of the bus
    pending,    \* what the dispatcher took off the queue and did not merge
    sending,    \* the message that _send_with_retry tries, with its attempts
    buf,        \* _stream_bufs of the channel
    screen,     \* the messages of all chats, in the order they were opened
    faults,     \* bound: attempts that failed
    ends,       \* bound: segments that were ended before a turn was cancelled
    written,    \* history: the pieces published
    lost,       \* history: the pieces of messages that were given up
    ended       \* history: the streams whose end was sent

dispatcher == <<pending, sending, faults>>
channel == <<buf, screen>>
vars == <<turn, outbound, pending, sending, buf, screen, faults, ends, written, lost, ended>>

Chat == {ChatOf[t] : t \in Turn}

\* A stream is a segment of a turn.  The reply is a piece of a segment of its own.
Stream == Turn \X (0 .. MaxEnds + 1)
Piece == [stream : Stream, n : 0 .. MaxPieces]
Reply(t) == [stream |-> <<t, MaxEnds + 1>>, n |-> 0]

\* "streamed" is a reply whose text the stream has shown.
Event == [kind : {"delta", "end", "reply", "streamed"}, stream : Stream,
          text : Seq(Piece), merge : BOOLEAN]

Nothing == [kind |-> "nothing"]
NoBuffer == [stream |-> <<>>, text |-> <<>>, at |-> 0]

TypeOK ==
    /\ turn \in [Turn -> [pc : {"waiting", "running", "done"}, segment : 0 .. MaxEnds + 1,
                          said : 0 .. MaxPieces,
                          open : BOOLEAN, spoke : BOOLEAN, streamed : BOOLEAN]]
    /\ outbound \in Seq(Event)
    /\ pending \in Seq(Event) /\ Len(pending) <= 1
    /\ sending = Nothing \/ (sending.msg \in Event /\ sending.attempt \in 1 .. MaxTries)
    /\ DOMAIN buf = Chat
    /\ \A c \in Chat :
         buf[c] = NoBuffer \/ (/\ buf[c].stream \in Stream
                               /\ buf[c].text \in Seq(Piece) \ {<<>>}
                               /\ buf[c].at \in 0 .. Len(screen))
    /\ screen \in Seq([chat : Chat, text : Seq(Piece) \ {<<>>}])
    /\ faults \in 0 .. MaxFaults
    /\ ends \in 0 .. MaxEnds
    /\ lost \subseteq written
    /\ ended \subseteq Stream

Blank(pc) == [pc |-> pc, segment |-> 0, said |-> 0,
              open |-> FALSE, spoke |-> FALSE, streamed |-> FALSE]

Init ==
    /\ turn = [t \in Turn |-> Blank("waiting")]
    /\ outbound = <<>>
    /\ pending = <<>>
    /\ sending = Nothing
    /\ buf = [c \in Chat |-> NoBuffer]
    /\ screen = <<>>
    /\ faults = 0
    /\ ends = 0
    /\ written = {} /\ lost = {} /\ ended = {}

-----------------------------------------------------------------------------
(* Turns *)

Delta(t, p) == [kind |-> "delta", stream |-> p.stream, text |-> <<p>>, merge |-> FALSE]
End(t, merge) ==
    [kind |-> "end", stream |-> <<t, turn[t].segment>>, text |-> <<>>, merge |-> merge]
Answered(t, k) == [kind |-> k, stream |-> Reply(t).stream, text |-> <<Reply(t)>>, merge |-> FALSE]

Publish(msgs) ==
    /\ Len(outbound) < MaxQueue
    /\ outbound' = outbound \o msgs

Running(t) == turn[t].pc = "running"

\* The plain message that says the task is active comes before its segments.
Notice(t) == LET p == [stream |-> <<t, 0>>, n |-> 0]
             IN  [kind |-> "reply", stream |-> p.stream, text |-> <<p>>, merge |-> FALSE]

Begin(t) ==
    /\ turn[t].pc = "waiting"
    /\ \A u \in Turn : SessionOf[u] = SessionOf[t] => ~Running(u)
    /\ Cardinality({u \in Turn : turn[u].pc # "waiting"}) < MaxTurns
    /\ turn' = [turn EXCEPT ![t].pc = "running"]
    /\ Publish(<<Notice(t)>>)
    /\ UNCHANGED <<dispatcher, channel, ends, written, lost, ended>>

Say(t) ==
    LET p == [stream |-> <<t, turn[t].segment>>, n |-> turn[t].said + 1]
    IN  /\ Running(t)
        /\ Cardinality(written) < MaxPieces
        /\ turn' = [turn EXCEPT ![t].said = @ + 1, ![t].open = TRUE, ![t].spoke = TRUE]
        /\ Publish(<<Delta(t, p)>>)
        /\ written' = written \cup {p}
        /\ UNCHANGED <<dispatcher, channel, ends, lost, ended>>

\* Before tools run, when a stall is recovered and after the answer.  The next
\* segment may belong to the same message.
EndSegment(t, merge) ==
    /\ Running(t)
    /\ ends < MaxEnds
    /\ ends' = ends + 1
    /\ turn' = [turn EXCEPT ![t].open = merge,
                            ![t].streamed = turn[t].spoke, ![t].spoke = FALSE,
                            ![t].segment = IF merge THEN @ ELSE @ + 1]
    /\ Publish(<<End(t, merge)>>)
    /\ UNCHANGED <<dispatcher, channel, written, lost, ended>>

\* An error is a reply that was not streamed, and a turn may have no reply.
Answer(t) ==
    /\ Running(t)
    /\ ~turn[t].spoke /\ (turn[t].segment > 0 \/ turn[t].open)
    /\ turn' = [turn EXCEPT ![t] = Blank("done")]
    /\ \/ Publish(<<Answered(t, "reply")>>)
       \/ turn[t].streamed /\ Publish(<<Answered(t, "streamed")>>)
       \/ UNCHANGED outbound
    /\ UNCHANGED <<dispatcher, channel, ends, written, lost, ended>>

\* The apology of a turn that raised; its stream stays open.
Fail(t) ==
    /\ Running(t)
    /\ turn' = [turn EXCEPT ![t] = Blank("done")]
    /\ Publish(<<Answered(t, "reply")>>)
    /\ UNCHANGED <<dispatcher, channel, ends, written, lost, ended>>

Cancel(t) ==
    /\ Running(t)
    /\ turn' = [turn EXCEPT ![t] = Blank("done")]
    /\ Publish(IF turn[t].open THEN <<End(t, FALSE)>> ELSE <<>>)
    /\ UNCHANGED <<dispatcher, channel, ends, written, lost, ended>>

-----------------------------------------------------------------------------
(* The dispatcher *)

\* The run of pieces of one stream at the head of the queue
Run(stream, q) ==
    LET same(m) == m.kind = "delta" /\ m.stream = stream
    IN  SelectInSeq(q, LAMBDA m : ~same(m))

\* Merges m with the run behind it, whose deltas are of one piece each.  The
\* message that ends the run is held back.
CoalesceBug(m, q) ==
    LET stop == Run(m.stream, q)
        run == IF stop = 0 THEN q ELSE SubSeq(q, 1, stop - 1)
    IN  [msg |-> [m EXCEPT !.text = @ \o [i \in DOMAIN run |-> Head(run[i].text)]],
         held |-> <<>>,
         rest |-> IF stop = 0 THEN <<>> ELSE Append(SubSeq(q, stop + 1, Len(q)), q[stop])]
Coalesce(m, q) ==
    LET stop == Run(m.stream, q)
        run == IF stop = 0 THEN q ELSE SubSeq(q, 1, stop - 1)
    IN  [msg |-> [m EXCEPT !.text = @ \o [i \in DOMAIN run |-> Head(run[i].text)]],
         held |-> IF stop = 0 THEN <<>> ELSE <<q[stop]>>,
         rest |-> IF stop = 0 THEN <<>> ELSE SubSeq(q, stop + 1, Len(q))]

Taken(m, q) ==
    IF m.kind = "delta" THEN Coalesce(m, q) ELSE [msg |-> m, held |-> <<>>, rest |-> q]

TakeNext(m, q) ==
    /\ sending' = [msg |-> Taken(m, q).msg, attempt |-> 1]
    /\ pending' = Taken(m, q).held
    /\ outbound' = Taken(m, q).rest

TakeBug ==
    /\ sending = Nothing
    /\ outbound # <<>>
    /\ IF pending # <<>> THEN TakeNext(Head(pending), outbound)
       ELSE TakeNext(Head(outbound), Tail(outbound))
    /\ UNCHANGED <<turn, channel, faults, ends, written, lost, ended>>
Take ==
    /\ sending = Nothing
    /\ \/ pending # <<>> /\ TakeNext(Head(pending), outbound)
       \/ pending = <<>> /\ outbound # <<>> /\ TakeNext(Head(outbound), Tail(outbound))
    /\ UNCHANGED <<turn, channel, faults, ends, written, lost, ended>>

ChatOfMsg(m) == ChatOf[m.stream[1]]

\* What an attempt does to the channel before it calls the platform: pieces
\* join the buffer, each time the message is tried.
Joined(m) ==
    LET b == buf[ChatOfMsg(m)]
    IN  IF b # NoBuffer /\ b.stream = m.stream THEN [b EXCEPT !.text = @ \o m.text]
        ELSE [stream |-> m.stream, text |-> m.text, at |-> 0]

Open(c, text) == screen' = Append(screen, [chat |-> c, text |-> text])
Edit(b) == screen' = [screen EXCEPT ![b.at].text = b.text]

\* An edit within the interval since the last one is left to a later message.
SendDelta(c, b) ==
    \/ b.at = 0 /\ Open(c, b.text) /\ buf' = [buf EXCEPT ![c] = [b EXCEPT !.at = Len(screen) + 1]]
    \/ b.at # 0 /\ (Edit(b) \/ UNCHANGED screen) /\ buf' = [buf EXCEPT ![c] = b]

\* The end of a stream that is not in the buffer, or was never shown, does nothing.
ClosesBug(m) == FALSE
Closes(m) ==
    LET b == buf[ChatOfMsg(m)]
    IN  m.kind = "end" /\ ~m.merge /\ b.at # 0 /\ b.stream = m.stream

Calls(m) == m.kind \in {"delta", "reply"} \/ Closes(m)

Send ==
    LET m == sending.msg
        c == ChatOfMsg(m)
    IN  /\ sending # Nothing
        /\ CASE m.kind = "delta" -> SendDelta(c, Joined(m))
             [] m.kind = "reply" -> Open(c, m.text) /\ UNCHANGED buf
             [] Closes(m) -> Edit(buf[c]) /\ buf' = [buf EXCEPT ![c] = NoBuffer]
             [] OTHER -> UNCHANGED channel
        /\ ended' = ended \cup {s \in {m.stream} : m.kind = "end" /\ ~m.merge}
        /\ sending' = Nothing
        /\ UNCHANGED <<turn, outbound, pending, faults, ends, written, lost>>

\* The channel raises: the message is tried again after a delay, or given up.
SendFailsBug ==
    LET m == sending.msg
    IN  /\ sending # Nothing
        /\ faults < MaxFaults
        /\ faults' = faults + 1
        /\ Calls(m)
        /\ buf' = IF m.kind = "delta" THEN [buf EXCEPT ![ChatOfMsg(m)] = Joined(m)] ELSE buf
        /\ sending' = [sending EXCEPT !.attempt = @ + 1]
        /\ UNCHANGED <<turn, outbound, pending, screen, ends, written, ended, lost>>
SendFails ==
    LET m == sending.msg
        last == sending.attempt >= MaxTries
    IN  /\ sending # Nothing
        /\ faults < MaxFaults
        /\ faults' = faults + 1
        /\ Calls(m)
        /\ buf' = IF m.kind = "delta" THEN [buf EXCEPT ![ChatOfMsg(m)] = Joined(m)] ELSE buf
        /\ sending' = IF last THEN Nothing ELSE [sending EXCEPT !.attempt = @ + 1]
        /\ lost' = IF last /\ m.kind = "delta" THEN lost \cup ToSet(m.text) ELSE lost
        /\ UNCHANGED <<turn, outbound, pending, screen, ends, written, ended>>

-----------------------------------------------------------------------------
TurnStep(t) ==
    \/ Begin(t) \/ Say(t) \/ Answer(t) \/ Fail(t) \/ Cancel(t)
    \/ \E merge \in BOOLEAN : EndSegment(t, merge)

Dispatch == Take \/ Send \/ SendFails

Next == Dispatch \/ \E t \in Turn : TurnStep(t)

Spec == Init /\ [][Next]_vars

\* The dispatcher goes on as long as a message is there.
FairSpec == Spec /\ WF_vars(Dispatch)

-----------------------------------------------------------------------------
(* Properties *)

\* The text of a turn stands in its chat in the order in which it was written:
\* a message shows one stream, what is new in it comes behind what was there, and
\* later segments and the reply come in later messages.  _coalesce_stream_deltas
InOrder ==
    /\ \A i, j \in DOMAIN screen :
         \A a \in ToSet(screen[i].text), b \in ToSet(screen[j].text) :
           i < j /\ a.stream[1] = b.stream[1] => a.stream[2] <= b.stream[2]
    /\ \A i \in DOMAIN screen :
         LET text == screen[i].text
         IN  \A k \in DOMAIN text :
               \/ \A l \in 1 .. k - 1 : text[l].stream = text[k].stream /\ text[l].n < text[k].n
               \/ \E l \in 1 .. k - 1 : text[l] = text[k]

\* When the end of a stream was sent, its chat shows every piece of it but those
\* of messages that were given up.  send_delta keeps pieces of edits it leaves out
\* in a buffer that only a later edit shows.
StreamComplete ==
    \A p \in written :
      p.stream \in ended => p \in lost \/ \E i \in DOMAIN screen : p \in ToSet(screen[i].text)

\* A message shows no piece twice, also when an attempt to send it failed.
TextOnce == \A i \in DOMAIN screen : IsInjective(screen[i].text)

\* Whatever is published leaves the queue, also the message the dispatcher held
\* back, and a chat that fails delays the others but does not stop them: when the
\* turns are quiet, nothing is left.  _dispatch_outbound, _send_with_retry
Drained == outbound = <<>> /\ pending = <<>> /\ sending = Nothing
QueueDrains == []<>Drained
=============================================================================
