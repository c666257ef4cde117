------------------------ MODULE ProviderFallbackProofs ------------------------
(***************************************************************************)
(* Proofs about ProviderFallback: the types of a request, and that a       *)
(* segment of the stream shows one attempt only, for any number of         *)
(* requests, fallbacks and attempts.                                       *)
(*                                                                         *)
(* OneVoice is not inductive.  Voiced says of each request what the three  *)
(* loops owe each other: whoever may still write (muted is empty) finds    *)
(* either nothing on the screen or its own text, with all flags up.  Flags *)
(* are lowered by a recovery, which empties the screen, or by a loop that  *)
(* takes the callback away.                                                *)
(***************************************************************************)
EXTENDS ProviderFallback, TLAPS

Outcome == Error \cup {"skipped"}

\* The candidate flag and callback die with the candidate, so what the next one
\* may write into depends on the other two.
Silent(r) == ~(r.muted \subseteq {"candidate"})

\* A request between two candidates, whose chain has not looked at it yet
Mid(r) ==
    /\ r \in Request
    /\ r.shown # "mixed"
    /\ r.shown # "nobody" => "round" \in r.sent
    /\ r.shown # "nobody" => Silent(r) \/ "chain" \in r.sent

\* A request that may be given to another candidate
Ready(r) ==
    /\ r \in Request
    /\ r.shown # "mixed"
    /\ r.shown # "nobody" => "round" \in r.sent /\ Silent(r)

Voiced(r) ==
    /\ Mid(r)
    /\ r.pc \in {"idle", "waiting"} => Ready(r)
    /\ r.pc = "calling" /\ r.muted = {} =>
           r.shown = "nobody" \/ (r.shown = "this" /\ r.sent = Loops)

\* Voiced without Mid for requests that are over
Kept(r) ==
    /\ r \in Request
    /\ r.shown # "mixed"
    /\ r.pc # "done" => Voiced(r)

Counters ==
    /\ failures \in 0 .. MaxFailures
    /\ circuit \in {"closed", "open", "cooled"}

IInv ==
    /\ call \in [Call -> Request]
    /\ \A c \in Call : Kept(call[c])
    /\ Counters

-----------------------------------------------------------------------------
(* What the operators on a request do to its fields *)

LEMMA RecoveredReady == ASSUME NEW r \in Request PROVE Ready(Recovered(r))
  BY DEF Recovered, Request, Ready

LEMMA SilencedMid ==
    ASSUME NEW r, Mid(r), NEW l \in {"round", "candidate"}
    PROVE  Mid(Silenced(r, l)) /\ Silenced(r, l).pc = r.pc
  BY DEF Silenced, Request, Mid, Silent, Loops

LEMMA SilencedReady ==
    ASSUME NEW r, Mid(r), NEW l \in {"round", "chain"}
    PROVE  Ready(Silenced(r, l)) /\ Silenced(r, l).pc = r.pc
  BY DEF Silenced, Request, Mid, Ready, Silent, Loops

LEMMA ReadyMid == ASSUME NEW r, Ready(r) PROVE Mid(r)
  BY DEF Ready, Mid

LEMMA ResumedReady ==
    ASSUME NEW r, Mid(r), NEW l \in {"round", "chain"}
    PROVE  Ready(Resumed(r, l))
  BY RecoveredReady, SilencedReady DEF Resumed, Mid

LEMMA NotSentReady == ASSUME NEW r, Mid(r), "chain" \notin r.sent PROVE Ready(r)
  BY DEF Mid, Ready

LEMMA CandidacyVoiced ==
    ASSUME NEW r, Ready(r), NEW k \in Candidate
    PROVE  Kept(Candidacy(r, k))
  <1> DEFINE s == Candidacy(r, k)
  <1>1. /\ Turned(r) \in Request
        /\ Turned(r).sent = r.sent /\ Turned(r).muted = r.muted
        /\ r.shown = "nobody" => Turned(r).shown = "nobody"
        /\ Turned(r).shown # "mixed"
        /\ Turned(r).shown # "nobody" => r.shown # "nobody"
    BY DEF Turned, Ready, Request
  <1>2. /\ s \in Request /\ s.pc = "calling" /\ s.shown = Turned(r).shown
        /\ s.sent = r.sent \ {"candidate"} /\ s.muted = r.muted \ {"candidate"}
    <2>1. 1 \in 1 .. Attempts
      BY ProviderAssumption
    <2> DEFINE t == Turned(r)
               u == [t EXCEPT !.pc = "calling", !.at = k, !.attempt = 1,
                              !.sent = @ \ {"candidate"}, !.muted = @ \ {"candidate"}]
    <2>2. t \in Request /\ t.sent = r.sent /\ t.muted = r.muted
      BY <1>1
    <2>3. s = u
      BY DEF Candidacy
    <2> HIDE DEF t
    <2>4. u \in Request
      BY <2>1, <2>2 DEF Request
    <2>5. /\ u.pc = "calling" /\ u.shown = t.shown
          /\ u.sent = t.sent \ {"candidate"} /\ u.muted = t.muted \ {"candidate"}
      BY <2>2 DEF Request
    <2>6. t.shown = Turned(r).shown
      BY DEF t
    <2> HIDE DEF u, s
    <2> QED  BY <2>2, <2>3, <2>4, <2>5, <2>6
  <1>3. s.shown # "nobody" => "round" \in s.sent /\ Silent(s)
    BY <1>1, <1>2 DEF Ready, Silent
  <1> QED  BY <1>1, <1>2, <1>3 DEF Kept, Voiced, Mid, Silent

LEMMA EndedKept == ASSUME NEW r \in Request, r.shown # "mixed" PROVE Kept(Ended(r))
  BY DEF Ended, Kept, Request

LEMMA ChainEndsKept ==
    ASSUME NEW c \in Call, NEW r, Mid(r), NEW e \in Outcome
    PROVE  Kept(ChainEnds(c, r, e))
  <1> DEFINE same == IF r.last = e THEN r.same + 1 ELSE 1
             s == IF Cut(r, "round") THEN Resumed(r, "round") ELSE r
             w == [s EXCEPT !.pc = "waiting", !.last = e, !.same = same,
                            !.muted = @ \ {"chain"}]
  <1>1. r \in Request /\ r.shown # "mixed"
    BY DEF Mid
  <1>2. s \in Request /\ s.shown # "mixed"
    BY <1>1, ResumedReady DEF Ready
  <1>3. Kept(Ended(r)) /\ Kept(Ended(s))
    BY <1>1, <1>2, EndedKept
  <1>4. s.shown # "nobody" => "round" \in s.sent /\ "round" \in s.muted
    <2>1. CASE Cut(r, "round")
      BY <1>1, <2>1 DEF Resumed, Recovered, Silenced, Request, Mid
    <2>2. CASE ~Cut(r, "round")
      BY <2>2 DEF Cut, Mid
    <2> QED  BY <2>1, <2>2
  <1>5. ASSUME ~(e \notin Transient \/ same >= Identical)
        PROVE  Kept(w)
    <2>1. same \in 0 .. Identical
      BY <1>1, <1>5, ProviderAssumption DEF Request
    <2>2. /\ w \in Request /\ w.pc = "waiting" /\ w.shown = s.shown
          /\ w.sent = s.sent /\ w.muted = s.muted \ {"chain"}
      <3> HIDE DEF same, s
      <3>1. e \in Transient
        BY <1>5
      <3>2. PICK u : u = [s EXCEPT !.pc = "waiting", !.last = e, !.same = same]
        OBVIOUS
      <3>3. u \in Request /\ u.pc = "waiting" /\ u.shown = s.shown
            /\ u.sent = s.sent /\ u.muted = s.muted
        BY <1>2, <2>1, <3>1, <3>2 DEF Request
      <3>4. w = [u EXCEPT !.muted = @ \ {"chain"}]
        BY <1>2, <3>2, <3>3 DEF Request
      <3>5. w \in Request
        BY <3>3, <3>4 DEF Request
      <3> QED  BY <3>3, <3>4, <3>5 DEF Request
    <2>3. Ready(w)
      BY <1>2, <1>4, <2>2 DEF Ready, Silent
    <2> QED  BY <2>2, <2>3, ReadyMid DEF Kept, Voiced, Ready
  <1> QED  BY <1>3, <1>5 DEF ChainEnds, Another

LEMMA FallbackKept ==
    ASSUME NEW r, Ready(r), NEW k \in Candidate, NEW s \in Fallback(r, k)
    PROVE  Kept(s)
  BY CandidacyVoiced DEF Fallback

LEMMA OneMoreKept ==
    ASSUME NEW c \in Call, NEW r, Mid(r), NEW k \in Candidate, NEW e \in Error,
           NEW s \in OneMore(c, r, k, e)
    PROVE  Kept(s)
  <1> DEFINE t == IF "chain" \in r.sent THEN Recovered(r) ELSE r
  <1>1. Ready(t) /\ Mid(t)
    BY RecoveredReady, NotSentReady, ReadyMid DEF Mid
  <1>2. Kept(ChainEnds(c, r, e)) /\ Kept(ChainEnds(c, t, e))
    BY <1>1, ChainEndsKept DEF Outcome
  <1>3. \A x \in Fallback(t, k) : Kept(x)
    BY <1>1, FallbackKept
  <1> QED  BY <1>2, <1>3 DEF OneMore

-----------------------------------------------------------------------------
(* Attempts of one candidate *)

LEMMA StalledMid ==
    ASSUME NEW c \in Call, NEW e \in Error, Kept(call[c]), call[c].pc = "calling"
    PROVE  Mid(Stalled(c, e))
  <1>1. Mid(call[c])
    BY DEF Kept, Voiced
  <1>2. Mid(Resumed(call[c], "candidate"))
    BY <1>1, RecoveredReady, ReadyMid, SilencedMid DEF Resumed, Mid
  <1> QED  BY <1>1, <1>2 DEF Stalled

\* The next attempt of the same candidate finds nothing on the screen, or is mute.
LEMMA AnotherAttempt ==
    ASSUME NEW c \in Call, NEW e \in Error, Kept(call[c]), call[c].pc = "calling",
           Retries(call[c], e)
    PROVE  Kept([Turned(Stalled(c, e)) EXCEPT !.attempt = @ + 1])
  <1> DEFINE r == call[c]
             s == Stalled(c, e)
             t == [Turned(s) EXCEPT !.attempt = @ + 1]
  <1>1. Voiced(r) /\ r \in Request
    BY DEF Kept
  <1>2. Mid(s)
    BY StalledMid
  <1>3. s.attempt = r.attempt /\ s.pc = r.pc
    BY <1>1 DEF Stalled, Resumed, Recovered, Silenced, Request
  <1>4. s.muted = {} => s.shown = "nobody"
    <2>1. CASE Cut(r, "candidate")
      <3>1. s = Resumed(r, "candidate")
        BY <2>1 DEF Stalled, Retries
      <3>2. r.recovers => s.shown = "nobody"
        BY <1>1, <3>1 DEF Resumed, Recovered, Request
      <3>3. ~r.recovers => "candidate" \in s.muted
        BY <1>1, <3>1 DEF Resumed, Silenced, Request
      <3> QED  BY <3>2, <3>3
    <2>2. CASE ~Cut(r, "candidate")
      BY <1>1, <2>2 DEF Stalled, Voiced, Cut, Loops
    <2> QED  BY <2>1, <2>2
  <1>5. /\ Turned(s) \in Request /\ Turned(s).pc = s.pc /\ Turned(s).attempt = s.attempt
        /\ Turned(s).sent = s.sent /\ Turned(s).muted = s.muted
        /\ Turned(s).shown # "mixed"
        /\ Turned(s).shown = "nobody" <=> s.shown = "nobody"
    BY <1>2 DEF Turned, Mid, Request
  <1>6. r.attempt + 1 \in 1 .. Attempts
    BY <1>1, ProviderAssumption DEF Retries, Request
  <1>7. /\ t \in Request /\ t.pc = "calling" /\ t.shown = Turned(s).shown
        /\ t.sent = s.sent /\ t.muted = s.muted
    BY <1>3, <1>5, <1>6 DEF Request
  <1>8. Mid(t)
    BY <1>2, <1>5, <1>7 DEF Mid, Silent
  <1> QED  BY <1>4, <1>5, <1>7, <1>8 DEF Kept, Voiced, Mid

-----------------------------------------------------------------------------
(* The steps *)

\* A step of one request leaves the others alone.
LEMMA OneCall ==
    ASSUME IInv, NEW c \in Call, NEW r, Kept(r), call' = [call EXCEPT ![c] = r]
    PROVE  call' \in [Call -> Request] /\ \A d \in Call : Kept(call'[d])
  BY DEF IInv, Kept

LEMMA SameCounters == ASSUME IInv, UNCHANGED <<failures, circuit>> PROVE Counters'
  BY DEF IInv, Counters

LEMMA FreshKept == ASSUME NEW b \in BOOLEAN PROVE Kept(Fresh(b))
  <1>1. /\ Fresh(b) \in Request /\ Fresh(b).shown = "nobody" /\ Fresh(b).pc = "idle"
    BY ProviderAssumption DEF Fresh, Request, Candidate, Primary
  <1> QED  BY <1>1 DEF Kept, Voiced, Mid, Ready

THEOREM InitInv == Init => IInv
  <1> SUFFICES ASSUME Init PROVE IInv
    OBVIOUS
  <1>1. \A c \in Call : \E b \in BOOLEAN : call[c] = Fresh(b)
    BY DEF Init
  <1>2. \A c \in Call : Kept(call[c])
    BY <1>1, FreshKept
  <1>3. call \in [Call -> Request]
    BY <1>2 DEF Init, Kept
  <1>4. Counters
    BY ProviderAssumption DEF Init, Counters
  <1> QED  BY <1>2, <1>3, <1>4 DEF IInv

LEMMA StartStep == ASSUME IInv, NEW c \in Call, Start(c) PROVE IInv'
  <1>1. Kept(call[c]) /\ Ready(call[c])
    BY DEF IInv, Start, Kept, Voiced
  <1>2. Primary \in Candidate
    BY ProviderAssumption DEF Primary, Candidate
  <1>3. \A r \in FirstOf(call[c]) : Kept(r)
    BY <1>1, <1>2, CandidacyVoiced, FallbackKept DEF FirstOf
  <1>4. Kept(ChainEnds(c, call[c], "skipped"))
    BY <1>1, ReadyMid, ChainEndsKept DEF Outcome
  <1>5. PICK r : Kept(r) /\ call' = [call EXCEPT ![c] = r]
    BY <1>3, <1>4 DEF Start
  <1> QED  BY <1>5, OneCall, SameCounters DEF Start, IInv

LEMMA AnswerStep == ASSUME IInv, NEW c \in Call, Answer(c) PROVE IInv'
  <1>1. Kept(Ended(call[c]))
    BY EndedKept DEF IInv, Kept
  <1>2. Counters'
    BY ProviderAssumption DEF IInv, Counters, Answer
  <1> QED  BY <1>1, <1>2, OneCall DEF Answer, IInv

LEMMA DeltaStep == ASSUME IInv, NEW c \in Call, Delta(c) PROVE IInv'
  <1> DEFINE r == [call[c] EXCEPT !.sent = Loops,
                                  !.shown = IF @ \in {"nobody", "this"} THEN "this" ELSE "mixed"]
  <1>1. call[c] \in Request /\ Voiced(call[c]) /\ call[c].pc = "calling" /\ call[c].muted = {}
    BY DEF IInv, Kept, Delta
  <1>2. call[c].shown \in {"nobody", "this"}
    BY <1>1 DEF Voiced
  <1>3. /\ r \in Request /\ r.pc = "calling" /\ r.muted = {}
        /\ r.sent = Loops /\ r.shown = "this"
    BY <1>1, <1>2 DEF Request
  <1>4. Kept(r)
    BY <1>3 DEF Kept, Voiced, Mid, Loops
  <1>5. call' = [call EXCEPT ![c] = r]
    BY DEF Delta
  <1> QED  BY <1>4, <1>5, OneCall, SameCounters DEF Delta, IInv

LEMMA AttemptFailsStep ==
    ASSUME IInv, NEW c \in Call, NEW e \in Error, AttemptFails(c, e) PROVE IInv'
  <1>1. Kept([Turned(Stalled(c, e)) EXCEPT !.attempt = @ + 1])
    BY AnotherAttempt DEF IInv, AttemptFails
  <1> QED  BY <1>1, OneCall, SameCounters DEF AttemptFails, IInv

LEMMA PrimaryFailsStep ==
    ASSUME IInv, NEW c \in Call, NEW e \in Error, PrimaryFails(c, e) PROVE IInv'
  <1> DEFINE r == Stalled(c, e)
             s == IF "chain" \in r.sent THEN Resumed(r, "chain") ELSE r
  <1>1. Mid(r)
    BY StalledMid DEF IInv, PrimaryFails, CandidateFails
  <1>2. Primary \in Candidate /\ e \in Outcome
    BY ProviderAssumption DEF Primary, Candidate, Outcome
  <1>3. CASE PrimaryStops(c, e)
    <2>1. Kept(ChainEnds(c, r, e))
      BY <1>1, <1>2, ChainEndsKept
    <2> QED  BY <1>3, <2>1, OneCall, SameCounters DEF PrimaryStops, IInv
  <1>4. CASE PrimaryFailsOver(c, e)
    <2>1. Mid(s)
      BY <1>1, ResumedReady, ReadyMid
    <2>2. PICK next \in OneMore(c, s, Primary, e) : call' = [call EXCEPT ![c] = next]
      BY <1>4 DEF PrimaryFailsOver
    <2>3. Kept(next)
      BY <1>2, <2>1, OneMoreKept
    <2>4. /\ failures' = IF failures < MaxFailures THEN failures + 1 ELSE failures
          /\ circuit' \in {"open", circuit}
      BY <1>4 DEF PrimaryFailsOver
    <2>5. Counters
      BY DEF IInv
    <2> HIDE DEF r, s
    <2>6. failures' \in 0 .. MaxFailures
      BY <2>4, <2>5, ProviderAssumption DEF Counters
    <2>7. circuit' \in {"closed", "open", "cooled"}
      BY <2>4, <2>5 DEF Counters
    <2>8. Counters'
      BY <2>6, <2>7 DEF Counters
    <2> QED  BY <2>2, <2>3, <2>8, OneCall DEF IInv
  <1> QED  BY <1>3, <1>4 DEF PrimaryFails

LEMMA FallbackFailsStep ==
    ASSUME IInv, NEW c \in Call, NEW e \in Error, FallbackFails(c, e) PROVE IInv'
  <1>1. Mid(Stalled(c, e))
    BY StalledMid DEF IInv, FallbackFails, CandidateFails
  <1>2. call[c].at \in Candidate
    BY DEF IInv, Request
  <1>3. PICK s \in OneMore(c, Stalled(c, e), call[c].at, e) : call' = [call EXCEPT ![c] = s]
    BY DEF FallbackFails
  <1>4. Kept(s)
    BY <1>1, <1>2, OneMoreKept
  <1> QED  BY <1>3, <1>4, OneCall, SameCounters DEF FallbackFails, IInv

LEMMA AgainStep == ASSUME IInv, NEW c \in Call, Again(c) PROVE IInv'
  BY FreshKept, OneCall, SameCounters DEF Again, IInv

LEMMA CoolStep == ASSUME IInv, Cool PROVE IInv'
  BY DEF Cool, IInv, Counters

THEOREM StepInv == IInv /\ [Next]_vars => IInv'
  <1> SUFFICES ASSUME IInv, [Next]_vars PROVE IInv'
    OBVIOUS
  <1>1. CASE UNCHANGED vars
    BY <1>1 DEF vars, IInv, Counters
  <1>2. CASE Cool
    BY <1>2, CoolStep
  <1>3. ASSUME NEW c \in Call, CallStep(c) \/ Delta(c) \/ Again(c) PROVE IInv'
    BY <1>3, StartStep, AnswerStep, DeltaStep, AttemptFailsStep, PrimaryFailsStep,
       FallbackFailsStep, AgainStep DEF CallStep
  <1> QED  BY <1>1, <1>2, <1>3 DEF Next

THEOREM Invariance == Spec => []IInv
  BY InitInv, StepInv, PTL DEF Spec

\* Every variable keeps its type: a candidate makes no more than its attempts and
\* no error is counted beyond the limit.  _run_with_retry, _try_with_fallback
THEOREM TypeCorrect == Spec => []TypeOK
  <1>1. IInv => TypeOK
    BY DEF IInv, Counters, TypeOK
  <1> QED  BY <1>1, Invariance, PTL

\* A segment of the stream shows the text of one attempt, for any number of
\* requests, fallbacks and attempts.  _run_with_retry, _try_with_fallback
THEOREM Unmixed == Spec => []OneVoice
  <1>1. IInv => OneVoice
    BY DEF IInv, Kept, OneVoice
  <1> QED  BY <1>1, Invariance, PTL
=============================================================================
