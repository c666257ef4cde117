--------------------------- MODULE ProviderFallback ---------------------------
(***************************************************************************)
(* Streaming requests of concurrent turns through one FallbackProvider.    *)
(* Three loops are nested: the rounds of a persistent request, the chain   *)
(* of the primary and its fallbacks, and the attempts of one candidate.    *)
(* Each loop knows by a flag of its own whether text was shown, and each   *)
(* may start a new segment of the stream, silence what follows, or stop.   *)
(* The requests share the circuit breaker of the primary.                  *)
(***************************************************************************)
EXTENDS Naturals

CONSTANTS
    Call,
    Persistent, \* calls in a mode that wraps the chain in a retry loop
    Fallbacks,  \* the number of fallback models
    Attempts,   \* of one candidate
    Identical,  \* equal errors that end a persistent call
    Threshold,  \* failures that open the circuit
    MaxFailures \* bound: the count of failures

ASSUME ProviderAssumption ==
    /\ Persistent \subseteq Call
    /\ Fallbacks \in Nat \ {0}
    /\ Attempts \in Nat \ {0}
    /\ Identical \in Nat \ {0}
    /\ Threshold \in Nat \ {0}
    /\ MaxFailures \in Nat

Primary == 0
Candidate == 0 .. Fallbacks

\* "auth": not worth another attempt, but another candidate may do.  "skipped":
\* the circuit was open and no fallback could be asked.
Error == {"timeout", "busy", "auth", "refused"}
Transient == {"timeout", "busy", "skipped"}
Fallbackable == {"timeout", "busy", "auth"}

VARIABLES
    call,       \* the requests
    failures,   \* _primary_failures
    circuit     \* _primary_tripped_at: none, within the cooldown, or older

vars == <<call, failures, circuit>>

\* sent: has_streamed_content of the caller, has_streamed of the chain and
\* has_streamed_content of the candidate.  muted: the loops that took the
\* callback away.  shown: the attempt that wrote the segment on the screen.
Loops == {"round", "chain", "candidate"}
Fresh(b) == [pc |-> "idle", at |-> Primary, attempt |-> 1, sent |-> {}, muted |-> {},
             shown |-> "nobody", last |-> "none", same |-> 0, recovers |-> b]
Request == [pc : {"idle", "calling", "waiting", "done"}, at : Candidate, attempt : 1 .. Attempts,
            sent : SUBSET Loops, muted : SUBSET Loops,
            shown : {"nobody", "this", "earlier", "mixed"},
            last : Error \cup Transient \cup {"none"}, same : 0 .. Identical, recovers : BOOLEAN]

TypeOK ==
    /\ call \in [Call -> Request]
    /\ failures \in 0 .. MaxFailures
    /\ circuit \in {"closed", "open", "cooled"}

Init ==
    /\ call \in [Call -> {Fresh(b) : b \in BOOLEAN}]
    /\ failures = 0
    /\ circuit = "closed"

-----------------------------------------------------------------------------
(* Streams *)

\* The next attempt finds on the screen what the one before it left.
Turned(r) == [r EXCEPT !.shown = IF @ = "this" THEN "earlier" ELSE @]

\* on_stream_recover resets the flags of every loop and opens a segment.
Recovered(r) == [r EXCEPT !.sent = {}, !.shown = "nobody"]

\* A loop takes the callback away instead.
Silenced(r, loop) == [r EXCEPT !.muted = @ \cup {loop}, !.sent = @ \ ({loop} \cap {"chain"})]

\* After a timeout in the middle of a stream
ResumedBug(r, loop) == IF r.recovers THEN Recovered(r) ELSE r
Resumed(r, loop) == IF r.recovers THEN Recovered(r) ELSE Silenced(r, loop)

\* A loop that took the callback away no longer asks what was shown.
Cut(r, loop) == loop \in r.sent \ r.muted

Delta(c) ==
    /\ call[c].pc = "calling"
    /\ call[c].muted = {}
    /\ call' = [call EXCEPT ![c].sent = Loops,
                            ![c].shown = IF @ \in {"nobody", "this"} THEN "this" ELSE "mixed"]
    /\ UNCHANGED <<failures, circuit>>

-----------------------------------------------------------------------------
(* The chain *)

Available == circuit # "open"

Ended(r) == [r EXCEPT !.pc = "done"]

\* A candidate starts with a flag and a callback of its own.
Candidacy(r, k) ==
    [Turned(r) EXCEPT !.pc = "calling", !.at = k, !.attempt = 1,
                      !.sent = @ \ {"candidate"}, !.muted = @ \ {"candidate"}]

\* Models whose provider cannot be built are passed over.
Fallback(r, k) == {Candidacy(r, j) : j \in {i \in Candidate : i > k}}

\* A round begins: the circuit is looked at once, and a chain that may not
\* stream any more has no candidate.
FirstOf(r) ==
    IF Available THEN {Candidacy(r, Primary)}
    ELSE IF "chain" \in r.sent THEN {} ELSE Fallback(r, Primary)

\* What a persistent call does with the error of its chain
AnotherBug(c, r, e) ==
    LET s == IF Cut(r, "round") THEN Resumed(r, "round") ELSE r
    IN  IF Cut(r, "round") /\ e # "timeout" THEN Ended(r)
        ELSE IF e \notin Transient THEN Ended(s)
        ELSE [s EXCEPT !.pc = "waiting", !.last = e, !.same = 1, !.muted = @ \ {"chain"}]
Another(c, r, e) ==
    LET same == IF r.last = e THEN r.same + 1 ELSE 1
        s == IF Cut(r, "round") THEN Resumed(r, "round") ELSE r
    IN  IF Cut(r, "round") /\ e # "timeout" THEN Ended(r)
        ELSE IF e \notin Transient \/ same >= Identical THEN Ended(s)
        ELSE [s EXCEPT !.pc = "waiting", !.last = e, !.same = same, !.muted = @ \ {"chain"}]

ChainEnds(c, r, e) == IF c \in Persistent THEN Another(c, r, e) ELSE Ended(r)

\* The loop over the fallbacks goes on, or the chain ends with its last error.
OneMore(c, r, k, e) ==
    LET cut == "chain" \in r.sent
        s == IF cut THEN Recovered(r) ELSE r
    IN  IF cut /\ (e # "timeout" \/ ~r.recovers) THEN {ChainEnds(c, r, e)}
        ELSE Fallback(s, k) \cup {ChainEnds(c, IF k = Fallbacks THEN r ELSE s, e)}

-----------------------------------------------------------------------------
Start(c) ==
    /\ call[c].pc \in {"idle", "waiting"}
    /\ \/ /\ FirstOf(call[c]) # {}
          /\ \E r \in FirstOf(call[c]) : call' = [call EXCEPT ![c] = r]
       \/ /\ ~Available
          /\ call' = [call EXCEPT ![c] = ChainEnds(c, call[c], "skipped")]
    /\ UNCHANGED <<failures, circuit>>

Answer(c) ==
    /\ call[c].pc = "calling"
    /\ call' = [call EXCEPT ![c] = Ended(@)]
    /\ IF call[c].at = Primary
         THEN failures' = 0 /\ circuit' = "closed"
         ELSE UNCHANGED <<failures, circuit>>

\* One attempt more of the same candidate
RetriesBug(r, e) ==
    /\ Cut(r, "candidate") => e = "timeout"
    /\ e \in Transient
    /\ r.attempt <= Attempts
Retries(r, e) ==
    /\ Cut(r, "candidate") => e = "timeout"
    /\ e \in Transient
    /\ r.attempt < Attempts

\* A stream that stalls is resumed by the loop of its candidate, which may have
\* no attempt left to show in it.
Stalled(c, e) ==
    LET r == call[c]
    IN  IF Cut(r, "candidate") /\ e = "timeout" THEN Resumed(r, "candidate") ELSE r

AttemptFails(c, e) ==
    /\ call[c].pc = "calling"
    /\ Retries(call[c], e)
    /\ call' = [call EXCEPT ![c] = [Turned(Stalled(c, e)) EXCEPT !.attempt = @ + 1]]
    /\ UNCHANGED <<failures, circuit>>

CandidateFails(c, e) == call[c].pc = "calling" /\ ~Retries(call[c], e)

PrimaryStops(c, e) ==
    /\ ("chain" \in Stalled(c, e).sent /\ e # "timeout") \/ e \notin Fallbackable
    /\ call' = [call EXCEPT ![c] = ChainEnds(c, Stalled(c, e), e)]
    /\ UNCHANGED <<failures, circuit>>

PrimaryFailsOver(c, e) ==
    LET r == Stalled(c, e)
        s == IF "chain" \in r.sent THEN Resumed(r, "chain") ELSE r
    IN  /\ e \in Fallbackable
        /\ "chain" \in r.sent => e = "timeout"
        /\ \E next \in OneMore(c, s, Primary, e) : call' = [call EXCEPT ![c] = next]
        /\ failures' = IF failures < MaxFailures THEN failures + 1 ELSE failures
        /\ circuit' = IF failures + 1 >= Threshold THEN "open" ELSE circuit

PrimaryFails(c, e) ==
    /\ CandidateFails(c, e)
    /\ call[c].at = Primary
    /\ PrimaryStops(c, e) \/ PrimaryFailsOver(c, e)

FallbackFails(c, e) ==
    /\ CandidateFails(c, e)
    /\ call[c].at # Primary
    /\ \E s \in OneMore(c, Stalled(c, e), call[c].at, e) : call' = [call EXCEPT ![c] = s]
    /\ UNCHANGED <<failures, circuit>>

\* _PRIMARY_COOLDOWN_S after the circuit was opened for the last time
Cool ==
    /\ circuit = "open"
    /\ circuit' = "cooled"
    /\ UNCHANGED <<call, failures>>

\* The turn sends its next request.
Again(c) ==
    /\ call[c].pc = "done"
    /\ \E b \in BOOLEAN : call' = [call EXCEPT ![c] = Fresh(b)]
    /\ UNCHANGED <<failures, circuit>>

CallStep(c) ==
    \/ Start(c) \/ Answer(c)
    \/ \E e \in Error : AttemptFails(c, e) \/ PrimaryFails(c, e) \/ FallbackFails(c, e)

Next == Cool \/ \E c \in Call : CallStep(c) \/ Delta(c) \/ Again(c)

Spec == Init /\ [][Next]_vars

\* Requests end, and time passes.
Fairness == WF_vars(Cool) /\ \A c \in Call : WF_vars(CallStep(c))
FairSpec == Spec /\ Fairness

-----------------------------------------------------------------------------
(* Properties *)

\* A segment of the stream shows the text of one attempt.  Whichever of the
\* three loops goes on after text was shown, the next attempt writes into a
\* segment of its own or is not shown.  _run_with_retry, _try_with_fallback
OneVoice == \A c \in Call : call[c].shown # "mixed"

\* A request in the standard mode ends: the resets of the flags after a stall
\* give no loop another turn it has not counted.  chat_stream_with_retry
StandardCallsEnd ==
    \A c \in Call \ Persistent : call[c].pc = "calling" ~> call[c].pc = "done"

\* A persistent request goes on for ever only while its errors change: the
\* limit on identical errors counts through fallbacks and an open circuit.
\* _PERSISTENT_IDENTICAL_ERROR_LIMIT
PersistentStops ==
    \A c \in Persistent :
        []<>(call[c].pc = "waiting") => []<><<call'[c].last # call[c].last>>_vars
=============================================================================
