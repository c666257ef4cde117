------------------------ MODULE StreamDeliveryProofs ------------------------
(* Theorems about StreamDelivery, for every value of its constants.  The     *)
(* message that is sent, the one that is held back and the queue are read as *)
(* one sequence, the pipe: merging joins its head, sending drops its head,   *)
(* and turns add to its end.                                                 *)
EXTENDS StreamDelivery, FiniteSetTheorems, SequenceTheorems, TLAPS

Now == IF sending = Nothing THEN <<>> ELSE <<sending.msg>>
Pipe == Now \o pending \o outbound

Queues ==
    /\ sending = Nothing \/ sending \in [msg : Event, attempt : 1 .. MaxTries]
    /\ pending \in Seq(Event) /\ Len(pending) <= 1
    /\ outbound \in Seq(Event)

State == [pc : {"waiting", "running", "done"}, segment : 0 .. MaxEnds + 1, said : 0 .. MaxPieces,
          open : BOOLEAN, spoke : BOOLEAN, streamed : BOOLEAN]
Buffered == [stream : Stream \cup {<<>>}, text : Seq(Piece), at : Nat]

\* Of the pipe, every delta behind the message that is sent has one piece.
Single == \A i \in DOMAIN Pipe :
            Pipe[i].kind = "delta" /\ (i > 1 \/ sending = Nothing) => Len(Pipe[i].text) = 1

Closing(m) == m.kind = "end" /\ ~m.merge

\* A stream that its turn writes, has reached, has left behind
Live(s) == turn[s[1]].pc = "running" /\ turn[s[1]].segment = s[2]
Begun(s) == turn[s[1]].pc # "waiting" /\ (turn[s[1]].pc = "running" => s[2] <= turn[s[1]].segment)
Over(s) == turn[s[1]].pc # "waiting" /\ (turn[s[1]].pc = "running" => s[2] < turn[s[1]].segment)

Rising(text) == \A k, l \in DOMAIN text : k < l => text[k].n < text[l].n
Under(a, b) == \A x \in ToSet(a), y \in ToSet(b) : x.n < y.n

\* What is new in a text comes behind what was there.
Orderly(text) ==
    \A k \in DOMAIN text :
      \/ \A l \in 1 .. k - 1 : text[l].stream = text[k].stream /\ text[l].n < text[k].n
      \/ \E l \in 1 .. k - 1 : text[l] = text[k]

Types ==
    /\ turn \in [Turn -> State]
    /\ Queues
    /\ buf \in [Chat -> Buffered]
    /\ screen \in Seq([chat : Chat, text : Seq(Piece) \ {<<>>}])
    /\ faults \in 0 .. MaxFaults /\ ends \in 0 .. MaxEnds
    /\ lost \subseteq written /\ ended \subseteq Stream
    /\ written \subseteq Piece /\ IsFiniteSet(written)

Turns ==
    /\ \A t, u \in Turn : SessionOf[t] = SessionOf[u] /\ Running(t) /\ Running(u) => t = u
    /\ \A t \in Turn : turn[t].segment <= ends /\ turn[t].said <= Cardinality(written)
    /\ \A p \in written : Begun(p.stream) /\ (Running(p.stream[1]) => p.n <= turn[p.stream[1]].said)
    /\ \A s \in ended : Over(s)

Message(m) ==
    /\ \A k \in DOMAIN m.text : m.text[k].stream = m.stream
    /\ m.kind \in {"delta", "reply"} => m.text # <<>>
    /\ m.kind = "reply" => Len(m.text) = 1
    /\ m.kind = "delta" => Rising(m.text) /\ ToSet(m.text) \subseteq written /\ m.stream \notin ended
    /\ Begun(m.stream) /\ (Closing(m) => Over(m.stream))
Messages == \A i \in DOMAIN Pipe : Message(Pipe[i])

Follows(m, n) ==
    /\ m.stream[1] = n.stream[1] => m.stream[2] <= n.stream[2]
    /\ n.kind = "delta" /\ m.stream = n.stream =>
         ~Closing(m) /\ (m.kind = "delta" => Under(m.text, n.text))
Order == \A i, j \in DOMAIN Pipe : i < j => Follows(Pipe[i], Pipe[j])

\* A delta in the pipe is new to the buffer of its stream, unless it was tried.
Fresh(b) ==
    \A i \in DOMAIN Pipe : Pipe[i].kind = "delta" /\ Pipe[i].stream = b.stream =>
      \/ Under(b.text, Pipe[i].text)
      \/ i = 1 /\ sending # Nothing /\ ToSet(Pipe[i].text) \subseteq ToSet(b.text)
Buffer(b, c) ==
    /\ b.stream \in Stream /\ ChatOf[b.stream[1]] = c /\ Begun(b.stream)
    /\ b.text # <<>> /\ Orderly(b.text) /\ ToSet(b.text) \subseteq written
    /\ \A a \in ToSet(b.text) : a.stream = b.stream
    /\ b.at # 0 => /\ b.at \in DOMAIN screen /\ screen[b.at].chat = c
                   /\ ToSet(screen[b.at].text) \subseteq ToSet(b.text)
Buffers == \A c \in Chat : buf[c] # NoBuffer => Buffer(buf[c], c) /\ Fresh(buf[c])

Screen ==
    \A i \in DOMAIN screen :
      /\ Orderly(screen[i].text)
      /\ \A a \in ToSet(screen[i].text) :
           /\ Begun(a.stream)
           /\ \A j \in DOMAIN Pipe : a.stream[1] = Pipe[j].stream[1] => a.stream[2] <= Pipe[j].stream[2]

IInv == Types /\ Turns /\ Single /\ Messages /\ Order /\ Buffers /\ Screen /\ InOrder
-----------------------------------------------------------------------------
(* The pipe *)

LEMMA NowType ==
    ASSUME Queues
    PROVE  /\ Now \in Seq(Event)
           /\ sending # Nothing => sending.msg \in Event /\ Now = <<sending.msg>>
           /\ sending = Nothing => Now = <<>>
  BY DEF Queues, Now

LEMMA PipeType ==
    ASSUME Queues
    PROVE  Pipe \in Seq(Event)
  BY NowType, ConcatProperties DEF Queues, Pipe

LEMMA Published ==
    ASSUME Queues, NEW msgs \in Seq(Event), outbound' = outbound \o msgs,
           UNCHANGED <<pending, sending>>
    PROVE  Queues' /\ Pipe' = Pipe \o msgs
  <1>1. Queues'
    BY ConcatProperties DEF Queues
  <1>2. Now' = Now
    BY DEF Now
  <1>3. Now \o pending \in Seq(Event)
    BY NowType, ConcatProperties DEF Queues
  <1>4. (Now \o pending) \o (outbound \o msgs) = ((Now \o pending) \o outbound) \o msgs
    <2>1. \A a, b, c \in Seq(Event) : (a \o b) \o c = a \o (b \o c)
      BY ConcatAssociative
    <2>2. outbound \in Seq(Event)
      BY DEF Queues
    <2> QED  BY <1>3, <2>1, <2>2
  <1> QED  BY <1>1, <1>2, <1>4 DEF Pipe

LEMMA NoMessage ==
    ASSUME NEW m, NEW n
    PROVE  [msg |-> m, attempt |-> n] # Nothing
  BY DEF Nothing

LEMMA Waiting ==
    ASSUME Queues, sending = Nothing
    PROVE  Pipe = pending \o outbound
  BY NowType, ConcatProperties, ConcatEmptySeq DEF Queues, Pipe

LEMMA Left ==
    ASSUME Queues, sending # Nothing, sending' = Nothing, UNCHANGED <<pending, outbound>>
    PROVE  /\ Queues'
           /\ Len(Pipe) \in Nat \ {0} /\ Pipe[1] = sending.msg /\ Len(Pipe') = Len(Pipe) - 1
           /\ \A i \in DOMAIN Pipe' : i + 1 \in DOMAIN Pipe /\ Pipe'[i] = Pipe[i + 1]
  <1>1. Queues'
    BY DEF Queues
  <1> DEFINE q == pending \o outbound
  <1>2. q \in Seq(Event) /\ Pipe' = q
    BY <1>1, ConcatProperties, ConcatEmptySeq DEF Queues, Pipe, Now
  <1>3. Pipe = <<sending.msg>> \o q
    <2>1. Now \in Seq(Event) /\ Now = <<sending.msg>>
      BY NowType
    <2>2. (Now \o pending) \o outbound = Now \o q
      BY <2>1, ConcatAssociative DEF Queues
    <2> QED  BY <2>1, <2>2 DEF Pipe
  <1> HIDE DEF q
  <1>4. <<sending.msg>> \in Seq(Event) /\ Len(<<sending.msg>>) = 1 /\ <<sending.msg>>[1] = sending.msg
    BY NowType
  <1>5. /\ Pipe \in Seq(Event) /\ Len(Pipe) = Len(q) + 1
        /\ \A i \in 1 .. Len(q) + 1 : Pipe[i] = IF i <= 1 THEN sending.msg ELSE q[i - 1]
    BY <1>2, <1>3, <1>4, ConcatProperties
  <1>6. Len(q) \in Nat /\ DOMAIN q = 1 .. Len(q) /\ DOMAIN Pipe = 1 .. Len(q) + 1
    BY <1>2, <1>5
  <1>7. ASSUME NEW i \in DOMAIN q
        PROVE  i + 1 \in DOMAIN Pipe /\ q[i] = Pipe[i + 1]
    BY <1>5, <1>6
  <1> QED  BY <1>1, <1>2, <1>5, <1>6, <1>7


LEMMA Least ==
    ASSUME NEW S \in SUBSET Nat, S # {}
    PROVE  Min(S) \in S /\ \A x \in S : Min(S) <= x
  <1>1. PICK n \in S : \A x \in S : <<x, n>> \notin OpToRel(<, Nat)
    BY NatLessThanWellFounded, WFMin
  <1>2. ASSUME NEW x \in S PROVE n <= x
    <2>1. OpToRel(<, Nat) = {ss \in Nat \X Nat : ss[1] < ss[2]}
      BY DEF OpToRel
    <2>2. <<x, n>> \in Nat \X Nat
      OBVIOUS
    <2>3. x < n => <<x, n>> \in OpToRel(<, Nat)
      BY <2>1, <2>2
    <2>4. x \in Nat /\ n \in Nat
      OBVIOUS
    <2>5. ~(x < n)
      BY <1>1, <2>3, Zenon
    <2> QED  BY <2>4, <2>5
  <1> QED  BY <1>2 DEF Min

\* c is m with the next d messages of q merged into it, and the rest of q.
Merges(m, q, c, d) ==
    /\ \A i \in 1 .. d : q[i].kind = "delta" /\ q[i].stream = m.stream
    /\ c.msg = [m EXCEPT !.text = m.text \o [i \in 1 .. d |-> Head(q[i].text)]]
    /\ c.held \in Seq(Event) /\ Len(c.held) <= 1 /\ c.rest \in Seq(Event)
    /\ Len(c.held) + Len(c.rest) = Len(q) - d
    /\ \A i \in 1 .. Len(q) - d : (c.held \o c.rest)[i] = q[i + d]

LEMMA Coalesced ==
    ASSUME NEW m \in Event, NEW q \in Seq(Event), NEW c, c = Coalesce(m, q)
    PROVE  \E d \in 0 .. Len(q) : Merges(m, q, c, d)
  <1> DEFINE stop == Run(m.stream, q)
             Other == {i \in 1 .. Len(q) : ~(q[i].kind = "delta" /\ q[i].stream = m.stream)}
             run == IF stop = 0 THEN q ELSE SubSeq(q, 1, stop - 1)
  <1>1. stop = IF Other # {} THEN Min(Other) ELSE 0
    BY DEF Run, SelectInSeq
  <1>2. /\ c.msg = [m EXCEPT !.text = m.text \o [i \in DOMAIN run |-> Head(run[i].text)]]
        /\ c.held = IF stop = 0 THEN <<>> ELSE <<q[stop]>>
        /\ c.rest = IF stop = 0 THEN <<>> ELSE SubSeq(q, stop + 1, Len(q))
    BY DEF Coalesce
  <1>3. Len(q) \in Nat /\ DOMAIN q = 1 .. Len(q)
    OBVIOUS
  <1> HIDE DEF stop
  <1>4. CASE stop = 0
    <2>1. \A i \in 1 .. Len(q) : q[i].kind = "delta" /\ q[i].stream = m.stream
      <3>1. Other = {}
        <4>1. SUFFICES ASSUME Other # {} PROVE FALSE
          OBVIOUS
        <4>2. Other \in SUBSET Nat
          BY <1>3
        <4>3. Min(Other) \in Other
          BY <4>1, <4>2, Least
        <4> QED  BY <1>1, <1>4, <4>1, <4>3
      <3> QED  BY <3>1
    <2>2. c.msg = [m EXCEPT !.text = m.text \o [i \in 1 .. Len(q) |-> Head(q[i].text)]]
      BY <1>2, <1>3, <1>4
    <2>3. c.held = <<>> /\ c.rest = <<>>
      BY <1>2, <1>4
    <2>4. Merges(m, q, c, Len(q))
      BY <1>3, <2>1, <2>2, <2>3 DEF Merges
    <2> QED  BY <1>3, <2>4
  <1>5. CASE stop # 0
    <2>1. stop \in 1 .. Len(q) /\ \A i \in 1 .. stop - 1 : q[i].kind = "delta" /\ q[i].stream = m.stream
      <3>1. Other # {} /\ Other \in SUBSET Nat
        BY <1>1, <1>3, <1>5
      <3>2. stop \in Other /\ \A x \in Other : stop <= x
        BY <1>1, <3>1, Least
      <3>3. ASSUME NEW i \in 1 .. stop - 1 PROVE i \in 1 .. Len(q) /\ i \notin Other
        BY <1>3, <3>2
      <3> QED  BY <3>2, <3>3
    <2> DEFINE d == stop - 1
    <2>2. d \in 0 .. Len(q) /\ d \in Nat /\ stop = d + 1
      BY <1>3, <2>1
    <2>3. /\ run = SubSeq(q, 1, d) /\ DOMAIN run = 1 .. d
          /\ \A i \in 1 .. d : run[i] = q[i]
      BY <1>3, <1>5, <2>1, <2>2
    <2>4. c.msg = [m EXCEPT !.text = m.text \o [i \in 1 .. d |-> Head(q[i].text)]]
      <3>1. [i \in DOMAIN run |-> Head(run[i].text)] = [i \in 1 .. d |-> Head(q[i].text)]
        BY <2>3
      <3> HIDE DEF run
      <3> QED  BY <1>2, <3>1
    <2>5. /\ c.held = <<q[stop]>> /\ c.held \in Seq(Event) /\ Len(c.held) = 1
          /\ c.held[1] = q[stop]
      BY <1>2, <1>3, <1>5, <2>1
    <2>6. /\ c.rest \in Seq(Event) /\ Len(c.rest) = Len(q) - stop
          /\ \A i \in 1 .. Len(q) - stop : c.rest[i] = q[stop + i]
      BY <1>2, <1>3, <1>5, <2>1
    <2>7. ASSUME NEW i \in 1 .. Len(q) - d
          PROVE  (c.held \o c.rest)[i] = q[i + d]
      <3>1. i \in 1 .. Len(c.held) + Len(c.rest)
        BY <1>3, <2>2, <2>5, <2>6
      <3>2. (c.held \o c.rest)[i] = IF i <= Len(c.held) THEN c.held[i] ELSE c.rest[i - Len(c.held)]
        BY <2>5, <2>6, <3>1, ConcatProperties
      <3>3. CASE i = 1
        BY <2>2, <2>5, <3>2, <3>3
      <3>4. CASE i # 1
        <4>1. i - 1 \in 1 .. Len(q) - stop /\ stop + (i - 1) = i + d
          BY <1>3, <2>2, <3>4
        <4>2. (c.held \o c.rest)[i] = c.rest[i - 1]
          <5>1. ~(i <= Len(c.held)) /\ i - Len(c.held) = i - 1
            BY <1>3, <2>2, <2>5, <3>4
          <5> QED  BY <3>2, <5>1
        <4> QED  BY <2>6, <4>1, <4>2
      <3> QED  BY <3>3, <3>4
    <2>8. Len(c.held) + Len(c.rest) = Len(q) - d
      BY <1>3, <2>2, <2>5, <2>6
    <2>9. \A i \in 1 .. d : q[i].kind = "delta" /\ q[i].stream = m.stream
      BY <2>1, <2>2
    <2> HIDE DEF run
    <2>10. c.held \in Seq(Event) /\ Len(c.held) <= 1 /\ c.rest \in Seq(Event)
      BY <2>5, <2>6
    <2>11. Merges(m, q, c, d)
      BY <2>4, <2>7, <2>8, <2>9, <2>10 DEF Merges
    <2> HIDE DEF d
    <2> QED  BY <2>2, <2>11
  <1> QED  BY <1>4, <1>5

\* The step merges d messages into the one it takes.
Fused(d) ==
    /\ Pipe # <<>> /\ Pipe' # <<>> /\ sending' # Nothing
    /\ Pipe' \in Seq(Event) /\ Len(Pipe') = Len(Pipe) - d
    /\ Pipe'[1].kind = Pipe[1].kind /\ Pipe'[1].stream = Pipe[1].stream
    /\ Pipe'[1].merge = Pipe[1].merge
    /\ \A i \in DOMAIN Pipe' : i > 1 => i + d \in DOMAIN Pipe /\ Pipe'[i] = Pipe[i + d]
    /\ Pipe[1].kind # "delta" => d = 0 /\ Pipe'[1] = Pipe[1]
    /\ Pipe[1].kind = "delta" =>
         /\ Len(Pipe'[1].text) = d + 1
         /\ \A k \in 1 .. d + 1 : /\ k \in DOMAIN Pipe
                                  /\ Pipe[k].kind = "delta" /\ Pipe[k].stream = Pipe[1].stream
                                  /\ Len(Pipe[k].text) = 1 /\ Pipe'[1].text[k] = Pipe[k].text[1]

LEMMA Cell ==
    ASSUME NEW S, NEW m \in S, NEW q \in Seq(S)
    PROVE  /\ <<m>> \o q \in Seq(S) /\ Len(<<m>> \o q) = Len(q) + 1
           /\ (<<m>> \o q)[1] = m
           /\ \A i \in 1 .. Len(q) : (<<m>> \o q)[i + 1] = q[i]
  <1>1. <<m>> \in Seq(S) /\ Len(<<m>>) = 1 /\ <<m>>[1] = m /\ Len(q) \in Nat
    OBVIOUS
  <1>2. /\ <<m>> \o q \in Seq(S) /\ Len(<<m>> \o q) = Len(q) + 1
        /\ \A i \in 1 .. Len(q) + 1 : (<<m>> \o q)[i] = IF i <= 1 THEN m ELSE q[i - 1]
    BY <1>1, ConcatProperties
  <1> QED  BY <1>1, <1>2

LEMMA Lone ==
    ASSUME NEW S, NEW q \in Seq(S), Len(q) <= 1, q # <<>>
    PROVE  q = <<Head(q)>> /\ Head(q) \in S
  <1>1. Len(q) = 1
    <2>1. PICK n \in Nat : n = Len(q)
      OBVIOUS
    <2>2. n <= 1 /\ n # 0
      BY <2>1
    <2>3. n = 1
      BY <2>2
    <2> QED  BY <2>1, <2>3
  <1>2. Head(q) = q[1] /\ q[1] \in S
    BY <1>1
  <1> QED  BY <1>1, <1>2

LEMMA TakenFrom ==
    ASSUME Queues, Take
    PROVE  \E m \in Event, q \in Seq(Event) : Pipe = <<m>> \o q /\ TakeNext(m, q)
  <1>1. Pipe = pending \o outbound /\ pending \in Seq(Event) /\ outbound \in Seq(Event)
    BY Waiting DEF Queues, Take
  <1>2. CASE pending # <<>>
    <2>1. pending = <<Head(pending)>> /\ Head(pending) \in Event
      BY <1>1, <1>2, Lone DEF Queues
    <2>2. TakeNext(Head(pending), outbound)
      BY <1>2 DEF Take
    <2> QED  BY <1>1, <2>1, <2>2
  <1>3. CASE pending = <<>>
    <2>1. outbound # <<>> /\ TakeNext(Head(outbound), Tail(outbound))
      BY <1>3 DEF Take
    <2>2. Pipe = outbound
      BY <1>1, <1>3, ConcatEmptySeq
    <2>3. /\ Head(outbound) \in Event /\ Tail(outbound) \in Seq(Event)
          /\ outbound = <<Head(outbound)>> \o Tail(outbound)
      <3>1. Head(outbound) \in Event /\ Tail(outbound) \in Seq(Event)
        BY <1>1, <2>1
      <3>2. /\ Len(outbound) = Len(Tail(outbound)) + 1 /\ outbound[1] = Head(outbound)
            /\ \A i \in 1 .. Len(Tail(outbound)) : outbound[i + 1] = Tail(outbound)[i]
        BY <1>1, <2>1
      <3> DEFINE r == <<Head(outbound)>> \o Tail(outbound)
      <3>3. /\ r \in Seq(Event) /\ Len(r) = Len(Tail(outbound)) + 1 /\ r[1] = Head(outbound)
            /\ \A i \in 1 .. Len(Tail(outbound)) : r[i + 1] = Tail(outbound)[i]
        BY <3>1, Cell
      <3> HIDE DEF r
      <3>4. ASSUME NEW i \in 1 .. Len(outbound) PROVE outbound[i] = r[i]
        <4>1. CASE i = 1
          BY <3>2, <3>3, <4>1
        <4>2. CASE i # 1
          <5>1. i - 1 \in 1 .. Len(Tail(outbound)) /\ (i - 1) + 1 = i
            BY <1>1, <3>1, <3>2, <4>2
          <5> QED  BY <3>2, <3>3, <5>1
        <4> QED  BY <4>1, <4>2
      <3>5. outbound = r
        BY <1>1, <3>2, <3>3, <3>4, SeqEqual
      <3> QED  BY <3>1, <3>5 DEF r
    <2> QED  BY <2>1, <2>2, <2>3
  <1> QED  BY <1>2, <1>3

LEMMA Take1 ==
    ASSUME Queues, Single, Take
    PROVE  Queues' /\ \E d \in Nat : d < Len(Pipe) /\ Fused(d)
  <1>1. PICK m \in Event, q \in Seq(Event) : Pipe = <<m>> \o q /\ TakeNext(m, q)
    BY TakenFrom
  <1> DEFINE c == Taken(m, q)
  <1>2. sending' = [msg |-> c.msg, attempt |-> 1] /\ pending' = c.held /\ outbound' = c.rest
    BY <1>1 DEF TakeNext
  <1>3. sending = Nothing /\ 1 \in 1 .. MaxTries
    BY StreamAssumption DEF Take
  <1>4. /\ Pipe \in Seq(Event) /\ Len(Pipe) = Len(q) + 1 /\ Pipe[1] = m /\ Len(q) \in Nat
        /\ \A i \in 1 .. Len(q) : Pipe[i + 1] = q[i]
    BY <1>1, Cell
  <1>5. ASSUME c.msg \in Event, c.held \in Seq(Event), Len(c.held) <= 1, c.rest \in Seq(Event)
        PROVE  /\ Queues' /\ sending' # Nothing
               /\ Pipe' = <<c.msg>> \o (c.held \o c.rest)
    <2> HIDE DEF c
    <2>1. sending' # Nothing
      BY <1>2, NoMessage
    <2>2. Queues'
      BY <1>2, <1>3, <1>5 DEF Queues
    <2>3. Now' = <<c.msg>>
      BY <1>2, <2>1 DEF Now
    <2>4. <<c.msg>> \in Seq(Event)
      BY <1>5
    <2>5. \A a, h, r \in Seq(Event) : (a \o h) \o r = a \o (h \o r)
      BY ConcatAssociative
    <2> QED  BY <1>2, <1>5, <2>1, <2>2, <2>3, <2>4, <2>5 DEF Pipe
  <1>6. CASE m.kind # "delta"
    <2>1. c.msg = m /\ c.held = <<>> /\ c.rest = q
      BY <1>6 DEF Taken
    <2>2. Queues' /\ sending' # Nothing /\ Pipe' = <<m>> \o q
      BY <1>5, <2>1, ConcatEmptySeq
    <2>3. Pipe' = Pipe /\ Pipe # <<>> /\ DOMAIN Pipe = 1 .. Len(Pipe)
      BY <1>1, <1>4, <2>2
    <2>4. Fused(0)
      BY <1>4, <1>6, <2>2, <2>3 DEF Fused
    <2> QED  BY <1>4, <2>2, <2>4
  <1>7. CASE m.kind = "delta"
    <2>1. c = Coalesce(m, q)
      BY <1>7 DEF Taken
    <2>2. PICK d \in 0 .. Len(q) : Merges(m, q, c, d)
      BY <2>1, Coalesced
    <2> HIDE DEF c
    <2>3. /\ \A k \in 1 .. d + 1 : k \in DOMAIN Pipe /\ Pipe[k].kind = "delta" /\ Pipe[k].stream = m.stream
                                   /\ Len(Pipe[k].text) = 1 /\ Pipe[k] \in Event
      <3>1. ASSUME NEW k \in 1 .. d + 1
            PROVE  k \in DOMAIN Pipe /\ Pipe[k].kind = "delta" /\ Pipe[k].stream = m.stream
        <4>1. CASE k = 1
          BY <1>4, <1>7, <4>1
        <4>2. CASE k # 1
          <5>1. k - 1 \in 1 .. d /\ k - 1 \in 1 .. Len(q) /\ (k - 1) + 1 = k
            BY <1>4, <4>2
          <5>2. Pipe[k] = q[k - 1]
            BY <1>4, <5>1
          <5> QED  BY <1>4, <2>2, <5>1, <5>2 DEF Merges
        <4> QED  BY <4>1, <4>2
      <3> QED  BY <1>3, <1>4, <3>1, SMTT(40) DEF Single
    <2> DEFINE more == [i \in 1 .. d |-> Head(q[i].text)]
    <2>4. /\ more \in Seq(Piece) /\ Len(more) = d
          /\ \A i \in 1 .. d : more[i] = Pipe[i + 1].text[1]
      <3>1. ASSUME NEW i \in 1 .. d
            PROVE  Head(q[i].text) \in Piece /\ Head(q[i].text) = Pipe[i + 1].text[1]
        <4>1. i \in 1 .. Len(q) /\ i + 1 \in 1 .. d + 1
          BY <1>4
        <4>2. q[i] = Pipe[i + 1] /\ Len(q[i].text) = 1 /\ q[i] \in Event
          BY <1>4, <2>3, <4>1
        <4>3. q[i].text \in Seq(Piece)
          BY <4>2 DEF Event
        <4> QED  BY <4>2, <4>3
      <3>2. d \in Nat
        BY <1>4
      <3> QED  BY <3>1, <3>2
    <2> HIDE DEF more
    <2>5. m.text \in Seq(Piece) /\ Len(m.text) = 1
      <3>1. 1 \in 1 .. d + 1
        BY <1>4
      <3> QED  BY <1>4, <2>3, <3>1 DEF Event
    <2>6. /\ m.text \o more \in Seq(Piece) /\ Len(m.text \o more) = d + 1
          /\ \A k \in 1 .. d + 1 : (m.text \o more)[k] = Pipe[k].text[1]
      <3>1. /\ m.text \o more \in Seq(Piece) /\ Len(m.text \o more) = 1 + d
            /\ \A k \in 1 .. 1 + d : (m.text \o more)[k] = IF k <= 1 THEN m.text[k] ELSE more[k - 1]
        <4>1. PICK a \in Seq(Piece) : a = m.text
          BY <2>5
        <4>2. /\ a \o more \in Seq(Piece) /\ Len(a \o more) = Len(a) + Len(more)
              /\ \A k \in 1 .. Len(a) + Len(more) :
                   (a \o more)[k] = IF k <= Len(a) THEN a[k] ELSE more[k - Len(a)]
          BY <2>4, ConcatProperties
        <4>3. Len(a) = 1 /\ Len(more) = d
          BY <2>4, <2>5, <4>1
        <4> QED  BY <4>1, <4>2, <4>3
      <3>2. ASSUME NEW k \in 1 .. d + 1
            PROVE  (m.text \o more)[k] = Pipe[k].text[1]
        <4>1. CASE k = 1
          BY <1>4, <3>1, <4>1
        <4>2. CASE k # 1
          <5>1. k - 1 \in 1 .. d /\ ~(k <= 1) /\ k \in 1 .. 1 + d /\ (k - 1) + 1 = k
            BY <1>4, <4>2
          <5> QED  BY <2>4, <3>1, <5>1
        <4> QED  BY <4>1, <4>2
      <3> QED  BY <1>4, <3>1, <3>2
    <2>7. /\ c.msg \in Event /\ c.msg.kind = m.kind /\ c.msg.stream = m.stream
          /\ c.msg.merge = m.merge /\ c.msg.text = m.text \o more
      <3>1. \A f \in Seq(Piece) :
              /\ [m EXCEPT !.text = f] \in Event /\ [m EXCEPT !.text = f].text = f
              /\ [m EXCEPT !.text = f].kind = m.kind /\ [m EXCEPT !.text = f].stream = m.stream
              /\ [m EXCEPT !.text = f].merge = m.merge
        BY DEF Event
      <3>2. c.msg = [m EXCEPT !.text = m.text \o more]
        BY <2>2 DEF Merges, more
      <3> QED  BY <2>6, <3>1, <3>2
    <2>8. /\ Queues' /\ sending' # Nothing
          /\ Pipe' = <<c.msg>> \o (c.held \o c.rest)
      BY <1>5, <2>2, <2>7 DEF Merges
    <2>9. /\ c.held \o c.rest \in Seq(Event) /\ Len(c.held \o c.rest) = Len(q) - d
          /\ \A i \in 1 .. Len(q) - d : (c.held \o c.rest)[i] = q[i + d]
      <3>1. \A a, b \in Seq(Event) : a \o b \in Seq(Event) /\ Len(a \o b) = Len(a) + Len(b)
        BY ConcatProperties
      <3> QED  BY <2>2, <3>1 DEF Merges
    <2>10. /\ Pipe' \in Seq(Event) /\ Len(Pipe') = Len(q) - d + 1 /\ Pipe'[1] = c.msg
           /\ \A i \in 1 .. Len(q) - d : Pipe'[i + 1] = q[i + d]
      <3>1. PICK a \in Event : a = c.msg
        BY <2>7
      <3>2. PICK b \in Seq(Event) : b = c.held \o c.rest
        BY <2>9
      <3>3. Pipe' = <<a>> \o b /\ Len(b) = Len(q) - d /\ \A i \in 1 .. Len(q) - d : b[i] = q[i + d]
        BY <2>8, <2>9, <3>1, <3>2
      <3>4. /\ <<a>> \o b \in Seq(Event) /\ Len(<<a>> \o b) = Len(b) + 1 /\ (<<a>> \o b)[1] = a
            /\ \A i \in 1 .. Len(b) : (<<a>> \o b)[i + 1] = b[i]
        BY Cell
      <3> QED  BY <3>1, <3>3, <3>4
    <2>11. ASSUME NEW i \in DOMAIN Pipe', i > 1
           PROVE  i + d \in DOMAIN Pipe /\ Pipe'[i] = Pipe[i + d]
      <3>1. i \in 1 .. Len(q) - d + 1
        BY <2>10
      <3>2. /\ i - 1 \in 1 .. Len(q) - d /\ (i - 1) + 1 = i /\ (i - 1) + d \in 1 .. Len(q)
            /\ ((i - 1) + d) + 1 = i + d /\ i + d \in 1 .. Len(q) + 1
        <4>1. PICK n \in Nat : n = Len(q)
          BY <1>4
        <4>2. d \in Nat /\ d <= n /\ i \in 1 .. n - d + 1 /\ i > 1
          BY <2>11, <3>1, <4>1
        <4>3. /\ i - 1 \in 1 .. n - d /\ (i - 1) + 1 = i /\ (i - 1) + d \in 1 .. n
              /\ ((i - 1) + d) + 1 = i + d /\ i + d \in 1 .. n + 1
          BY <4>2
        <4> QED  BY <4>1, <4>3
      <3> QED  BY <1>4, <2>10, <3>2
    <2>12. Pipe # <<>> /\ Pipe' # <<>> /\ Len(Pipe') = Len(Pipe) - d
      BY <1>4, <2>10
    <2>13. Fused(d)
      <3>1. Pipe[1] = m /\ Pipe'[1] = c.msg
        BY <1>4, <2>10
      <3>2. /\ Pipe'[1].kind = Pipe[1].kind /\ Pipe'[1].stream = Pipe[1].stream
            /\ Pipe'[1].merge = Pipe[1].merge /\ Pipe'[1].text = m.text \o more
        BY <2>7, <3>1
      <3>3. \A k \in 1 .. d + 1 : /\ k \in DOMAIN Pipe
                                  /\ Pipe[k].kind = "delta" /\ Pipe[k].stream = Pipe[1].stream
                                  /\ Len(Pipe[k].text) = 1 /\ Pipe'[1].text[k] = Pipe[k].text[1]
        BY <2>3, <2>6, <3>1, <3>2
      <3>4. Len(Pipe'[1].text) = d + 1
        BY <2>6, <3>2
      <3> QED  BY <1>7, <2>8, <2>10, <2>11, <2>12, <3>1, <3>2, <3>3, <3>4 DEF Fused
    <2> QED  BY <1>4, <2>8, <2>13
  <1> QED  BY <1>6, <1>7

-----------------------------------------------------------------------------
(* The steps of turns *)

\* A message that turn t may publish
New(t, e) ==
    /\ e \in Event /\ e.stream[1] = t
    /\ \A s \in Stream : s[1] = t /\ Begun(s) => s[2] <= e.stream[2]
    /\ \A k \in DOMAIN e.text : e.text[k].stream = e.stream
    /\ e.kind \in {"delta", "reply"} => e.text # <<>>
    /\ e.kind = "reply" => Len(e.text) = 1
    /\ Begun(e.stream)' /\ (Closing(e) => Over(e.stream)' /\ Live(e.stream))
    /\ e.kind = "delta" =>
         /\ Live(e.stream) /\ Len(e.text) = 1 /\ e.text[1] \in written'
         /\ \A x \in written : x.stream[1] = t => x.n < e.text[1].n

\* Turn t goes on and publishes at most one message.
Moves(t) ==
    /\ turn' \in [Turn -> State]
    /\ \A u \in Turn : u # t => turn'[u] = turn[u]
    /\ turn'[t].pc # "waiting"
    /\ turn'[t].pc = "done" => turn[t].pc = "running"
    /\ turn'[t].pc = "running" =>
         \/ turn[t].pc = "running" /\ turn[t].segment <= turn'[t].segment /\ turn[t].said <= turn'[t].said
         \/ turn[t].pc = "waiting" /\ \A u \in Turn : SessionOf[u] = SessionOf[t] => ~Running(u)
    /\ ends' \in 0 .. MaxEnds /\ ends <= ends' /\ turn'[t].segment <= ends'
    /\ written \subseteq written' /\ written' \subseteq Piece /\ IsFiniteSet(written')
    /\ Cardinality(written) <= Cardinality(written') /\ turn'[t].said <= Cardinality(written')
    /\ \A p \in written' : p \notin written =>
         p.stream = <<t, turn[t].segment>> /\ Begun(p.stream)' /\ p.n <= turn'[t].said
    /\ UNCHANGED <<dispatcher, channel, lost, ended>>
    /\ outbound' = outbound \/ \E e \in Event : New(t, e) /\ outbound' = outbound \o <<e>>

LEMMA StreamType ==
    ASSUME NEW s \in Stream
    PROVE  s[1] \in Turn /\ s[2] \in Nat /\ s[2] <= MaxEnds + 1 /\ s = <<s[1], s[2]>>
  BY StreamAssumption DEF Stream

LEMMA Onward ==
    ASSUME turn \in [Turn -> State], NEW t \in Turn, Moves(t), NEW s \in Stream
    PROVE  /\ Begun(s) => Begun(s)'
           /\ Over(s) => Over(s)'
           /\ Begun(s) /\ s[1] = t => turn[t].pc # "waiting"
  <1>1. s[1] \in Turn /\ s[2] \in Nat
    BY StreamType
  <1>2. turn[s[1]] \in State /\ turn'[s[1]] \in State
    BY <1>1 DEF Moves
  <1>3. CASE s[1] # t
    BY <1>1, <1>3 DEF Moves, Begun, Over
  <1>4. CASE s[1] = t
    BY <1>1, <1>2, <1>4, StreamAssumption DEF Moves, Begun, Over, State
  <1> QED  BY <1>3, <1>4

\* The pipe grows at its end.
LEMMA Grown ==
    ASSUME Queues, NEW t \in Turn, Moves(t)
    PROVE  /\ Queues' /\ (Pipe # <<>> \/ sending # Nothing => sending' = sending)
           /\ \A i \in DOMAIN Pipe : i \in DOMAIN Pipe' /\ Pipe'[i] = Pipe[i]
           /\ \A j \in DOMAIN Pipe' :
                \/ j \in DOMAIN Pipe
                \/ /\ \E e \in Event : Pipe'[j] = e /\ New(t, e)
                   /\ \A i \in DOMAIN Pipe' : i # j => i \in DOMAIN Pipe /\ i < j
           /\ DOMAIN Pipe \subseteq Nat /\ DOMAIN Pipe' \subseteq Nat
           /\ Pipe \in Seq(Event) /\ Pipe' \in Seq(Event)
  <1>1. UNCHANGED <<pending, sending>>
    BY DEF Moves, dispatcher
  <1>2. Pipe \in Seq(Event)
    BY PipeType
  <1>3. CASE outbound' = outbound
    <2>1. Queues' /\ Pipe' = Pipe
      BY <1>1, <1>3 DEF Queues, Pipe, Now
    <2> QED  BY <1>1, <1>2, <2>1
  <1>4. CASE outbound' # outbound
    <2>1. PICK e \in Event : New(t, e) /\ outbound' = outbound \o <<e>>
      BY <1>4 DEF Moves
    <2>2. <<e>> \in Seq(Event) /\ Len(<<e>>) = 1 /\ <<e>>[1] = e
      OBVIOUS
    <2>3. Queues' /\ Pipe' = Pipe \o <<e>>
      BY <1>1, <2>1, <2>2, Published
    <2>4. /\ Pipe' \in Seq(Event) /\ Len(Pipe') = Len(Pipe) + 1
          /\ \A i \in 1 .. Len(Pipe) + 1 : Pipe'[i] = IF i <= Len(Pipe) THEN Pipe[i] ELSE <<e>>[i - Len(Pipe)]
      BY <1>2, <2>2, <2>3, ConcatProperties
    <2>5. PICK n \in Nat : n = Len(Pipe)
      BY <1>2
    <2>6. DOMAIN Pipe = 1 .. n /\ DOMAIN Pipe' = 1 .. n + 1
      BY <1>2, <2>4, <2>5
    <2>7. \A i \in 1 .. n : Pipe'[i] = Pipe[i]
      BY <2>4, <2>5
    <2>8. Pipe'[n + 1] = e
      BY <2>2, <2>4, <2>5
    <2>9. ASSUME NEW j \in DOMAIN Pipe', j \notin DOMAIN Pipe
          PROVE  /\ Pipe'[j] = e
                 /\ \A i \in DOMAIN Pipe' : i # j => i \in DOMAIN Pipe /\ i < j
      <3>1. j = n + 1
        BY <2>6, <2>9
      <3>2. Pipe'[j] = e
        BY <2>8, <3>1
      <3>3. \A i \in DOMAIN Pipe' : i # j => i \in DOMAIN Pipe /\ i < j
        BY <2>6, <3>1
      <3> QED  BY <3>2, <3>3
    <2>10. \A i \in DOMAIN Pipe : i \in DOMAIN Pipe' /\ Pipe'[i] = Pipe[i]
      BY <2>6, <2>7
    <2> QED  BY <1>1, <1>2, <2>1, <2>3, <2>4, <2>6, <2>9, <2>10
  <1> QED  BY <1>3, <1>4

LEMMA EventType ==
    ASSUME Queues, NEW i \in DOMAIN Pipe
    PROVE  /\ Pipe[i] \in Event /\ Pipe[i].stream \in Stream /\ Pipe[i].text \in Seq(Piece)
           /\ i \in Nat /\ i >= 1
  <1>1. Pipe \in Seq(Event)
    BY PipeType
  <1>2. Pipe[i] \in Event /\ i \in Nat /\ i >= 1
    BY <1>1
  <1> QED  BY <1>2 DEF Event

LEMMA TurnKeepsTurns ==
    ASSUME Types, Turns, NEW t \in Turn, Moves(t)
    PROVE  Types' /\ Turns'
  <1>1. Types'
    BY Grown, StreamAssumption DEF Types, Moves, channel, dispatcher
  <1>2. ASSUME NEW u \in Turn, NEW v \in Turn, SessionOf[u] = SessionOf[v], Running(u)', Running(v)'
        PROVE  u = v
    BY <1>2 DEF Turns, Moves, Running
  <1>3. \A u \in Turn : turn[u].segment \in Nat /\ turn[u].said \in Nat /\ turn'[u].said \in Nat
    BY StreamAssumption DEF Types, State, Moves
  <1>4. Cardinality(written) \in Nat /\ Cardinality(written') \in Nat /\ ends \in Nat /\ ends' \in Nat
    BY FS_CardinalityType DEF Types, Moves
  <1>5. ASSUME NEW u \in Turn
        PROVE  turn'[u].segment <= ends' /\ turn'[u].said <= Cardinality(written')
    BY <1>3, <1>4 DEF Turns, Moves
  <1>6. ASSUME NEW p \in written'
        PROVE  Begun(p.stream)' /\ (Running(p.stream[1])' => p.n <= turn'[p.stream[1]].said)
    <2>1. CASE p \in written
      <3>1. p \in Piece /\ p.stream \in Stream /\ p.n \in Nat
        BY <2>1, StreamAssumption DEF Types, Piece
      <3>2. Begun(p.stream)' /\ p.stream[1] \in Turn
        BY <2>1, <3>1, Onward, StreamType DEF Turns, Types
      <3>3. CASE p.stream[1] # t
        BY <2>1, <3>2, <3>3 DEF Turns, Moves, Running
      <3>4. CASE p.stream[1] = t
        <4>1. turn[t].pc # "waiting"
          BY <2>1, <3>4 DEF Turns, Begun
        <4>2. ASSUME Running(t)' PROVE p.n <= turn'[t].said
          <5>1. Running(t) /\ turn[t].said <= turn'[t].said
            BY <4>1, <4>2 DEF Moves, Running
          <5>2. p.n <= turn[t].said
            BY <2>1, <3>4, <5>1 DEF Turns
          <5> QED  BY <1>3, <3>1, <5>1, <5>2
        <4> QED  BY <3>2, <3>4, <4>2
      <3> QED  BY <3>3, <3>4
    <2>2. CASE p \notin written
      <3>1. p.stream = <<t, turn[t].segment>> /\ Begun(p.stream)' /\ p.n <= turn'[t].said
        BY <2>2 DEF Moves
      <3> QED  BY <3>1
    <2> QED  BY <2>1, <2>2
  <1>7. \A s \in ended' : Over(s)'
    BY Onward DEF Turns, Types, Moves
  <1> QED  BY <1>1, <1>2, <1>5, <1>6, <1>7 DEF Turns

LEMMA TurnKeepsMessages ==
    ASSUME Types, Turns, Single, Messages, Order, NEW t \in Turn, Moves(t)
    PROVE  Single' /\ Messages' /\ Order'
  <1> USE Grown DEF Types
  <1>1. ended' = ended /\ sending' = sending /\ written \subseteq written'
    BY DEF Moves, dispatcher
  <1>2. ASSUME NEW i \in DOMAIN Pipe', NEW m, m = Pipe'[i]
        PROVE  Message(m)' /\ (m.kind = "delta" /\ (i > 1 \/ sending = Nothing) => Len(m.text) = 1)
    <2>1. CASE i \in DOMAIN Pipe
      <3>1. m = Pipe[i] /\ m.stream \in Stream
        BY <1>2, <2>1, EventType
      <3>2. Message(m)
        BY <2>1, <3>1 DEF Messages
      <3>3. /\ Begun(m.stream) => Begun(m.stream)'
            /\ Over(m.stream) => Over(m.stream)'
        BY <3>1, Onward
      <3>4. Message(m)'
        BY <1>1, <3>1, <3>2, <3>3 DEF Message, Closing
      <3> QED  BY <2>1, <3>1, <3>4 DEF Single
    <2>2. CASE i \notin DOMAIN Pipe
      <3>1. PICK e \in Event : e = m /\ New(t, e)
        BY <1>2, <2>2
      <3>2. e.kind = "delta" => /\ Rising(e.text) /\ ToSet(e.text) \subseteq written' /\ e.stream \notin ended'
                                /\ Len(e.text) = 1
        <4>1. SUFFICES ASSUME e.kind = "delta"
                       PROVE  /\ Rising(e.text) /\ ToSet(e.text) \subseteq written' /\ e.stream \notin ended'
                              /\ Len(e.text) = 1
          OBVIOUS
        <4>2. Len(e.text) = 1 /\ e.text[1] \in written' /\ Live(e.stream)
          BY <3>1, <4>1 DEF New
        <4>3. e.text \in Seq(Piece) /\ DOMAIN e.text = {1} /\ e.stream \in Stream
          BY <4>2 DEF Event
        <4>4. e.stream[1] \in Turn /\ e.stream[2] \in Nat
          BY <4>3, StreamType
        <4>5. ~Over(e.stream)
          BY <4>2, <4>4 DEF Live, Over
        <4>6. e.stream \notin ended'
          BY <1>1, <4>5 DEF Turns
        <4>7. Rising(e.text) /\ ToSet(e.text) \subseteq written'
          BY <4>2, <4>3 DEF Rising, ToSet
        <4> QED  BY <4>2, <4>6, <4>7
      <3>3. Message(e)'
        BY <3>1, <3>2 DEF Message, New, Closing
      <3> QED  BY <3>1, <3>2, <3>3
    <2> QED  BY <2>1, <2>2
  <1>3. ASSUME NEW i \in DOMAIN Pipe', NEW j \in DOMAIN Pipe', i < j
        PROVE  Follows(Pipe'[i], Pipe'[j])
    <2>1. i \in Nat /\ j \in Nat
      OBVIOUS
    <2>2. CASE j \in DOMAIN Pipe
      <3>1. i \in DOMAIN Pipe
        BY <1>3, <2>1, <2>2
      <3> QED  BY <1>3, <2>2, <3>1 DEF Order
    <2>3. CASE j \notin DOMAIN Pipe
      <3>1. i \in DOMAIN Pipe /\ Pipe'[i] = Pipe[i]
        BY <1>3, <2>1, <2>3
      <3>2. PICK e \in Event : e = Pipe'[j] /\ New(t, e)
        BY <2>3
      <3>3. PICK m \in Event : m = Pipe[i] /\ m.stream \in Stream /\ m.text \in Seq(Piece)
        BY <3>1, EventType
      <3>4. Message(m)
        BY <3>1, <3>3 DEF Messages
      <3>5. m.stream[1] = e.stream[1] => m.stream[2] <= e.stream[2]
        BY <3>2, <3>3, <3>4 DEF New, Message
      <3>6. ASSUME e.kind = "delta", m.stream = e.stream
            PROVE  ~Closing(m) /\ (m.kind = "delta" => Under(m.text, e.text))
        <4>1. Live(e.stream) /\ Len(e.text) = 1 /\ e.stream[1] = t /\ e.text \in Seq(Piece)
          BY <3>2, <3>6 DEF New, Event
        <4>2. ~Over(m.stream)
          BY <3>3, <3>6, <4>1, StreamType DEF Live, Over
        <4>3. ~Closing(m)
          BY <3>4, <4>2 DEF Message
        <4>4. ASSUME m.kind = "delta", NEW x \in ToSet(m.text), NEW y \in ToSet(e.text)
              PROVE  x.n < y.n
          <5>1. y = e.text[1]
            BY <4>1 DEF ToSet
          <5>2. x \in written /\ x.stream = m.stream
            BY <3>4, <4>4 DEF Message, ToSet
          <5> QED  BY <3>2, <3>6, <4>1, <5>1, <5>2 DEF New
        <4> QED  BY <4>3, <4>4 DEF Under
      <3> QED  BY <3>1, <3>2, <3>3, <3>5, <3>6 DEF Follows
    <2> QED  BY <2>2, <2>3
  <1>4. Messages'
    BY <1>2 DEF Messages
  <1>5. Single'
    BY <1>1, <1>2 DEF Single
  <1> QED  BY <1>3, <1>4, <1>5 DEF Order, Follows, Closing, Under

LEMMA PieceType ==
    ASSUME NEW p \in Piece
    PROVE  p.stream \in Stream /\ p.n \in Nat /\ p.stream[1] \in Turn /\ p.stream[2] \in Nat
  BY StreamType, StreamAssumption DEF Piece

LEMMA ShownType ==
    ASSUME Types, NEW i \in DOMAIN screen
    PROVE  screen[i].text \in Seq(Piece) \ {<<>>} /\ screen[i].chat \in Chat /\ i \in 1 .. Len(screen)
  <1> DEFINE Line == [chat : Chat, text : Seq(Piece) \ {<<>>}]
  <1>1. screen \in Seq(Line)
    BY DEF Types
  <1> HIDE DEF Line
  <1>2. screen[i] \in Line /\ i \in 1 .. Len(screen)
    BY <1>1
  <1> QED  BY <1>2 DEF Line

LEMMA TurnKeepsBuffers ==
    ASSUME Types, Turns, Buffers, NEW t \in Turn, Moves(t)
    PROVE  Buffers'
  <1>1. UNCHANGED <<buf, screen, sending>> /\ written \subseteq written'
    BY DEF Moves, dispatcher, channel
  <1>2. ASSUME NEW c \in Chat, buf[c] # NoBuffer, NEW b, b = buf[c]
        PROVE  Buffer(b, c)' /\ Fresh(b)'
    <2>1. Buffer(b, c) /\ Fresh(b)
      BY <1>2 DEF Buffers
    <2>2. Buffer(b, c)'
      <3>1. Begun(b.stream)'
        BY <2>1, Onward DEF Buffer, Types
      <3> QED  BY <1>1, <2>1, <3>1 DEF Buffer
    <2>3. ASSUME NEW i \in DOMAIN Pipe', Pipe'[i].kind = "delta", Pipe'[i].stream = b.stream
          PROVE  \/ Under(b.text, Pipe'[i].text)
                 \/ i = 1 /\ sending' # Nothing /\ ToSet(Pipe'[i].text) \subseteq ToSet(b.text)
      <3>1. CASE i \in DOMAIN Pipe
        <4>1. Pipe'[i] = Pipe[i]
          BY <3>1, Grown DEF Types
        <4> QED  BY <1>1, <2>1, <2>3, <3>1, <4>1 DEF Fresh
      <3>2. CASE i \notin DOMAIN Pipe
        <4>1. PICK e \in Event : e = Pipe'[i] /\ New(t, e)
          BY <3>2, Grown DEF Types
        <4>2. e.text \in Seq(Piece) /\ Len(e.text) = 1 /\ e.stream[1] = t /\ e.stream = b.stream
          BY <2>3, <4>1 DEF New, Event
        <4>3. ASSUME NEW x \in ToSet(b.text), NEW y \in ToSet(e.text)
              PROVE  x.n < y.n
          <5>1. y = e.text[1]
            BY <4>2 DEF ToSet
          <5>2. x \in written /\ x.stream = b.stream
            BY <2>1 DEF Buffer
          <5> QED  BY <2>3, <4>1, <4>2, <5>1, <5>2 DEF New
        <4> QED  BY <4>1, <4>3 DEF Under
      <3> QED  BY <3>1, <3>2
    <2>4. Fresh(b)'
      BY <2>3 DEF Fresh
    <2> QED  BY <2>2, <2>4
  <1> QED  BY <1>1, <1>2 DEF Buffers

LEMMA TurnKeepsScreen ==
    ASSUME Types, Turns, Screen, InOrder, NEW t \in Turn, Moves(t)
    PROVE  Screen' /\ InOrder'
  <1>1. screen' = screen
    BY DEF Moves, channel
  <1>2. InOrder'
    BY <1>1 DEF InOrder
  <1>3. ASSUME NEW i \in DOMAIN screen, NEW a \in ToSet(screen[i].text)
        PROVE  /\ Begun(a.stream)'
               /\ \A j \in DOMAIN Pipe' : a.stream[1] = Pipe'[j].stream[1] => a.stream[2] <= Pipe'[j].stream[2]
    <2>1. Begun(a.stream) /\ a.stream \in Stream
      <3>1. screen[i].text \in Seq(Piece)
        BY ShownType DEF Types
      <3>2. a \in Piece
        BY <3>1 DEF ToSet
      <3> QED  BY <3>2, PieceType DEF Screen
    <2>2. Begun(a.stream)'
      BY <2>1, Onward DEF Types
    <2>3. ASSUME NEW j \in DOMAIN Pipe', a.stream[1] = Pipe'[j].stream[1]
          PROVE  a.stream[2] <= Pipe'[j].stream[2]
      <3>1. CASE j \in DOMAIN Pipe
        <4>1. Pipe'[j] = Pipe[j]
          BY <3>1, Grown DEF Types
        <4> QED  BY <2>3, <3>1, <4>1 DEF Screen
      <3>2. CASE j \notin DOMAIN Pipe
        <4>1. PICK e \in Event : e = Pipe'[j] /\ New(t, e)
          BY <3>2, Grown DEF Types
        <4> QED  BY <2>1, <2>3, <4>1 DEF New
      <3> QED  BY <3>1, <3>2
    <2> QED  BY <2>2, <2>3
  <1> QED  BY <1>1, <1>2, <1>3 DEF Screen

LEMMA TurnMoves ==
    ASSUME IInv, NEW t \in Turn, Moves(t)
    PROVE  IInv'
  BY TurnKeepsTurns, TurnKeepsMessages, TurnKeepsBuffers, TurnKeepsScreen DEF IInv

\* What the steps of a turn have in common
LEMMA AtTurn ==
    ASSUME IInv, NEW t \in Turn
    PROVE  /\ turn[t] \in State /\ turn[t].segment \in 0 .. MaxEnds /\ turn[t].said \in 0 .. MaxPieces
           /\ <<t, turn[t].segment>> \in Stream /\ Reply(t) \in Piece /\ Reply(t).stream = <<t, MaxEnds + 1>>
           /\ Blank("done") \in State /\ Blank("running") \in State
           /\ turn[t].said <= Cardinality(written) /\ Cardinality(written) \in Nat
           /\ written \subseteq Piece /\ IsFiniteSet(written) /\ ends \in 0 .. MaxEnds
           /\ turn \in [Turn -> State] /\ Cardinality(written) <= Cardinality(written)
           /\ turn[t].segment <= ends
  <1>1. turn[t] \in State /\ turn[t].segment <= ends /\ ends \in 0 .. MaxEnds
    BY DEF IInv, Types, Turns
  <1>2. Cardinality(written) \in Nat
    BY FS_CardinalityType DEF IInv, Types
  <1>3. Blank("done") \in State /\ Blank("running") \in State
    BY StreamAssumption DEF Blank, State
  <1>4. turn[t].segment \in 0 .. MaxEnds
    BY <1>1, StreamAssumption DEF State
  <1>5. <<t, turn[t].segment>> \in Stream /\ <<t, MaxEnds + 1>> \in Stream
    BY <1>4, StreamAssumption DEF Stream
  <1> QED  BY <1>1, <1>2, <1>3, <1>4, <1>5, StreamAssumption DEF IInv, Types, Turns, State, Reply, Piece

LEMMA Counts ==
    ASSUME IInv, NEW t \in Turn
    PROVE  /\ turn[t].said \in Nat /\ turn[t].segment \in Nat /\ ends \in Nat /\ MaxEnds \in Nat /\ MaxPieces \in Nat
           /\ Cardinality(written) \in Nat /\ turn[t].said <= Cardinality(written)
           /\ turn[t].segment <= ends /\ ends <= MaxEnds
  <1>1. MaxEnds \in Nat /\ MaxPieces \in Nat
    BY StreamAssumption
  <1>2. /\ turn[t].said \in 0 .. MaxPieces /\ turn[t].segment \in 0 .. MaxEnds /\ ends \in 0 .. MaxEnds
        /\ Cardinality(written) \in Nat /\ turn[t].said <= Cardinality(written)
        /\ turn[t].segment <= ends
    BY AtTurn
  <1> QED  BY <1>1, <1>2

\* A step that writes no piece
LEMMA Silent ==
    ASSUME IInv, NEW t \in Turn, written' = written, NEW s, s.said <= turn[t].said, s.said \in Nat
    PROVE  /\ written \subseteq written' /\ written' \subseteq Piece /\ IsFiniteSet(written')
           /\ Cardinality(written) <= Cardinality(written') /\ s.said <= Cardinality(written')
           /\ \A p \in written' : p \in written
  <1>1. Cardinality(written') = Cardinality(written)
    OBVIOUS
  <1>2. /\ turn[t].said \in Nat /\ turn[t].said <= Cardinality(written)
        /\ Cardinality(written) \in Nat /\ written \subseteq Piece /\ IsFiniteSet(written)
    BY AtTurn, Counts
  <1> QED  BY <1>1, <1>2

\* A turn that stays as it was, or ends
LEMMA Ends ==
    ASSUME IInv, NEW t \in Turn, Running(t), turn' = [turn EXCEPT ![t] = Blank("done")],
           UNCHANGED <<dispatcher, channel, ends, written, lost, ended>>,
           outbound' = outbound \/ \E e \in Event : New(t, e) /\ outbound' = outbound \o <<e>>
    PROVE  Moves(t)
  <1>1. /\ turn' \in [Turn -> State] /\ turn'[t] = Blank("done")
        /\ \A u \in Turn : u # t => turn'[u] = turn[u]
    BY AtTurn
  <1>2. turn'[t].pc = "done" /\ turn'[t].segment = 0 /\ turn'[t].said = 0
    BY <1>1 DEF Blank
  <1>3. ends' \in 0 .. MaxEnds /\ ends <= ends' /\ turn'[t].segment <= ends'
    BY <1>2, AtTurn, Counts
  <1>4. 0 <= turn[t].said /\ 0 \in Nat
    BY Counts
  <1>5. /\ written \subseteq written' /\ written' \subseteq Piece /\ IsFiniteSet(written')
        /\ Cardinality(written) <= Cardinality(written') /\ turn'[t].said <= Cardinality(written')
        /\ \A p \in written' : p \in written
    BY <1>2, <1>4, Silent
  <1> QED  BY <1>1, <1>2, <1>3, <1>5 DEF Moves, Running

\* The first message of a turn
LEMMA Announced ==
    ASSUME IInv, NEW t \in Turn, turn[t] \in State, turn[t].pc = "waiting",
           turn'[t] \in State, turn'[t].pc = "running"
    PROVE  Notice(t) \in Event /\ New(t, Notice(t))
  <1>1. PICK r \in Piece : r = [stream |-> <<t, 0>>, n |-> 0]
    <2>1. 0 \in 0 .. MaxEnds + 1 /\ 0 \in 0 .. MaxPieces
      BY StreamAssumption
    <2>2. <<t, 0>> \in Stream
      BY <2>1 DEF Stream
    <2> QED  BY <2>1, <2>2 DEF Piece
  <1>2. <<r>> \in Seq(Piece) /\ r.stream \in Stream /\ r.stream = <<t, 0>>
    BY <1>1, PieceType
  <1>3. PICK e : e = Notice(t)
    OBVIOUS
  <1>4. e \in Event /\ e.kind = "reply" /\ e.stream = <<t, 0>> /\ e.text = <<r>>
    BY <1>1, <1>2, <1>3 DEF Notice, Event
  <1>5. e.stream[1] = t /\ e.stream[2] = 0
    BY <1>4
  <1>6. Begun(e.stream)'
    <2>1. turn'[t].segment \in Nat
      BY StreamAssumption DEF State
    <2> QED  BY <1>5, <2>1 DEF Begun
  <1>7. \A s \in Stream : s[1] = t => ~Begun(s)
    BY DEF Begun
  <1>8. \A i \in DOMAIN e.text : e.text[i].stream = e.stream
    <2>1. DOMAIN e.text = {1} /\ e.text[1] = r
      BY <1>4
    <2> QED  BY <1>2, <1>4, <2>1
  <1>9. e.text # <<>> /\ Len(e.text) = 1 /\ e.kind # "delta" /\ ~Closing(e)
    BY <1>4 DEF Closing
  <1>10. New(t, e)
    BY <1>4, <1>5, <1>6, <1>7, <1>8, <1>9 DEF New
  <1> QED  BY <1>3, <1>4, <1>10

LEMMA BeginStep ==
    ASSUME IInv, NEW t \in Turn, Begin(t)
    PROVE  Moves(t)
  <1>1. turn[t] \in State /\ turn[t].pc = "waiting"
    BY AtTurn DEF Begin
  <1>2. turn' \in [Turn -> State] /\ turn'[t] \in State /\ turn'[t].pc = "running"
        /\ turn'[t].segment = turn[t].segment /\ turn'[t].said = turn[t].said
        /\ \A u \in Turn : u # t => turn'[u] = turn[u]
    BY <1>1, AtTurn DEF Begin, State
  <1>3. UNCHANGED <<dispatcher, channel, ends, written, lost, ended>>
    BY DEF Begin
  <1>4. \A u \in Turn : SessionOf[u] = SessionOf[t] => ~Running(u)
    BY DEF Begin
  <1>5. ends' \in 0 .. MaxEnds /\ ends <= ends' /\ turn'[t].segment <= ends'
    BY <1>2, <1>3, AtTurn, Counts
  <1>6. turn'[t].said <= turn[t].said /\ turn'[t].said \in Nat
    BY <1>1, <1>2, StreamAssumption DEF State
  <1>7. /\ written \subseteq written' /\ written' \subseteq Piece /\ IsFiniteSet(written')
        /\ Cardinality(written) <= Cardinality(written') /\ turn'[t].said <= Cardinality(written')
        /\ \A p \in written' : p \in written
    BY <1>3, <1>6, Silent
  <1>8. outbound' = outbound \o <<Notice(t)>>
    BY DEF Begin, Publish
  <1>9. Notice(t) \in Event /\ New(t, Notice(t))
    BY <1>1, <1>2, Announced
  <1> QED  BY <1>1, <1>2, <1>3, <1>4, <1>5, <1>7, <1>8, <1>9 DEF Moves

LEMMA SayStep ==
    ASSUME IInv, NEW t \in Turn, Say(t)
    PROVE  Moves(t)
  <1>0. PICK p : p = [stream |-> <<t, turn[t].segment>>, n |-> turn[t].said + 1]
    OBVIOUS
  <1>1. /\ Running(t) /\ Cardinality(written) < MaxPieces
        /\ turn' = [turn EXCEPT ![t].said = @ + 1, ![t].open = TRUE, ![t].spoke = TRUE]
        /\ outbound' = outbound \o <<Delta(t, p)>> /\ written' = written \cup {p}
        /\ UNCHANGED <<dispatcher, channel, ends, lost, ended>>
    BY <1>0 DEF Say, Publish
  <1>2. turn[t].said \in Nat /\ turn[t].said + 1 \in 0 .. MaxPieces /\ turn[t].said < Cardinality(written) + 1
    BY <1>1, Counts
  <1>3. p \in Piece /\ p.stream = <<t, turn[t].segment>> /\ p.n = turn[t].said + 1
    BY <1>0, <1>2, AtTurn DEF Piece
  <1>4. /\ turn' \in [Turn -> State] /\ turn'[t].pc = "running" /\ turn'[t].segment = turn[t].segment
        /\ turn'[t].said = turn[t].said + 1
        /\ \A u \in Turn : u # t => turn'[u] = turn[u]
    <2>1. turn[t] \in State /\ turn \in [Turn -> State]
      BY AtTurn
    <2>2. [turn[t] EXCEPT !.said = @ + 1, !.open = TRUE, !.spoke = TRUE] \in State
      BY <1>2, <2>1 DEF State
    <2>3. turn' = [turn EXCEPT ![t] = [turn[t] EXCEPT !.said = @ + 1, !.open = TRUE, !.spoke = TRUE]]
      BY <1>1, <2>1
    <2> QED  BY <1>1, <2>1, <2>2, <2>3 DEF Running, State
  <1>5. \A x \in written : x.stream[1] = t => x.n < p.n
    <2>1. ASSUME NEW x \in written, x.stream[1] = t PROVE x.n < p.n
      <3>1. x.n <= turn[t].said
        BY <1>1, <2>1 DEF IInv, Turns
      <3>2. x.n \in Nat
        BY AtTurn, PieceType
      <3> QED  BY <1>2, <1>3, <3>1, <3>2
    <2> QED  BY <2>1
  <1>6. /\ written \subseteq written' /\ written' \subseteq Piece /\ IsFiniteSet(written')
        /\ Cardinality(written') = Cardinality(written) + 1
    <2>1. p \notin written
      <3>1. p.n \in Nat /\ p.stream[1] = t
        BY <1>3, PieceType
      <3> QED  BY <1>5, <3>1
    <2> QED  BY <1>1, <1>3, <2>1, AtTurn, FS_AddElement
  <1>7. Cardinality(written) <= Cardinality(written') /\ turn'[t].said <= Cardinality(written')
    BY <1>4, <1>6, Counts
  <1>8. Begun(p.stream)'
    <2>1. p.stream[1] = t /\ p.stream[2] = turn'[t].segment /\ turn'[t].segment \in Nat
      BY <1>3, <1>4, Counts
    <2> QED  BY <1>4, <2>1 DEF Begun
  <1>9. \A x \in written' : x \notin written =>
           x.stream = <<t, turn[t].segment>> /\ Begun(x.stream)' /\ x.n <= turn'[t].said
    <2>1. ASSUME NEW x \in written', x \notin written
          PROVE  x = p
      BY <1>1, <2>1
    <2>2. p.n <= turn'[t].said
      BY <1>2, <1>3, <1>4
    <2> QED  BY <1>3, <1>8, <2>1, <2>2
  <1>10. Delta(t, p) \in Event /\ New(t, Delta(t, p))
    <2>0. PICK e : e = Delta(t, p)
      OBVIOUS
    <2>1. /\ e \in Event /\ e.kind = "delta" /\ e.stream = p.stream /\ e.text = <<p>>
      <3>1. <<p>> \in Seq(Piece) /\ p.stream \in Stream
        BY <1>3, PieceType
      <3> QED  BY <2>0, <3>1 DEF Delta, Event
    <2>2. e.stream[1] = t /\ e.stream[2] = turn[t].segment
      BY <1>3, <2>1
    <2>3. Live(e.stream)
      BY <1>1, <2>2 DEF Live, Running
    <2>4. \A s \in Stream : s[1] = t /\ Begun(s) => s[2] <= e.stream[2]
      BY <1>1, <2>2 DEF Begun, Running
    <2>5. Len(e.text) = 1 /\ e.text[1] = p /\ e.text # <<>> /\ DOMAIN e.text = {1} /\ p \in written'
      BY <1>1, <2>1
    <2>6. ~Closing(e) /\ \A k \in DOMAIN e.text : e.text[k].stream = e.stream
      BY <2>1, <2>5 DEF Closing
    <2>7. Begun(e.stream)'
      BY <1>8, <2>1
    <2> QED  BY <1>5, <2>0, <2>1, <2>2, <2>3, <2>4, <2>5, <2>6, <2>7 DEF New
  <1>11. ends' \in 0 .. MaxEnds /\ ends <= ends' /\ turn'[t].segment <= ends'
    BY <1>1, <1>4, AtTurn, Counts
  <1>12. turn[t].segment <= turn'[t].segment /\ turn[t].said <= turn'[t].said
    BY <1>4, Counts
  <1> QED  BY <1>1, <1>4, <1>6, <1>7, <1>9, <1>10, <1>11, <1>12 DEF Moves, Running

\* The last messages of a turn
LEMMA Replies ==
    ASSUME IInv, NEW t \in Turn, turn' = [turn EXCEPT ![t] = Blank("done")],
           NEW e, NEW k \in {"reply", "streamed"}, e = Answered(t, k)
    PROVE  e \in Event /\ New(t, e)
  <1>0. PICK r \in Piece : r = Reply(t)
    BY AtTurn
  <1>1. <<r>> \in Seq(Piece) /\ r.stream \in Stream /\ r.stream = <<t, MaxEnds + 1>>
    <2>1. r.stream = <<t, MaxEnds + 1>>
      BY <1>0, AtTurn
    <2> QED  BY <2>1, PieceType
  <1>2. /\ e \in Event /\ e.kind = k /\ e.stream = <<t, MaxEnds + 1>> /\ e.text = <<r>>
    BY <1>0, <1>1 DEF Answered, Event
  <1>3. e.stream[1] = t /\ e.stream[2] = MaxEnds + 1
    BY <1>2
  <1>4. turn'[t].pc = "done"
    BY AtTurn DEF Blank
  <1>5. Begun(e.stream)'
    BY <1>3, <1>4 DEF Begun
  <1>6. \A s \in Stream : s[2] <= e.stream[2]
    BY <1>3, StreamType
  <1>7. \A i \in DOMAIN e.text : e.text[i].stream = e.stream
    <2>1. DOMAIN e.text = {1} /\ e.text[1] = r
      BY <1>2
    <2> QED  BY <1>1, <1>2, <2>1
  <1>8. e.text # <<>> /\ Len(e.text) = 1 /\ e.kind # "delta" /\ ~Closing(e)
    BY <1>2 DEF Closing
  <1> QED  BY <1>2, <1>3, <1>5, <1>6, <1>7, <1>8 DEF New

\* The end of the segment a turn writes
LEMMA EndMessage ==
    ASSUME IInv, NEW t \in Turn, Running(t), NEW merge \in BOOLEAN, NEW e, e = End(t, merge),
           turn'[t].pc \in {"running", "done"},
           turn'[t].pc = "running" => turn[t].segment <= turn'[t].segment
                                      /\ (~merge => turn[t].segment < turn'[t].segment)
    PROVE  e \in Event /\ New(t, e)
  <1>1. <<>> \in Seq(Piece) /\ <<t, turn[t].segment>> \in Stream
    BY AtTurn
  <1>2. /\ e \in Event /\ e.kind = "end" /\ e.stream = <<t, turn[t].segment>> /\ e.text = <<>>
        /\ e.merge = merge
    BY <1>1 DEF End, Event
  <1>3. e.stream[1] = t /\ e.stream[2] = turn[t].segment
    BY <1>2
  <1>4. Begun(e.stream)'
    BY <1>3 DEF Begun
  <1>5. Closing(e) => Over(e.stream)' /\ Live(e.stream)
    BY <1>2, <1>3 DEF Closing, Over, Live, Running
  <1>6. \A s \in Stream : s[1] = t /\ Begun(s) => s[2] <= e.stream[2]
    BY <1>3 DEF Begun, Running
  <1>7. e.kind \notin {"delta", "reply"} /\ DOMAIN e.text = {}
    BY <1>2
  <1> QED  BY <1>2, <1>3, <1>4, <1>5, <1>6, <1>7 DEF New

LEMMA EndSegmentStep ==
    ASSUME IInv, NEW t \in Turn, NEW merge \in BOOLEAN, EndSegment(t, merge)
    PROVE  Moves(t)
  <1>1. /\ Running(t) /\ ends < MaxEnds /\ ends' = ends + 1
        /\ outbound' = outbound \o <<End(t, merge)>>
        /\ UNCHANGED <<dispatcher, channel, written, lost, ended>>
    BY DEF EndSegment, Publish
  <1>2. PICK n \in Nat : n = IF merge THEN turn[t].segment ELSE turn[t].segment + 1
    BY Counts
  <1>3. turn[t].segment <= n /\ (~merge => turn[t].segment < n) /\ n <= ends + 1 /\ n \in 0 .. MaxEnds + 1
    BY <1>1, <1>2, Counts
  <1>4. /\ turn' \in [Turn -> State] /\ turn'[t].pc = "running" /\ turn'[t].segment = n
        /\ turn'[t].said = turn[t].said
        /\ \A u \in Turn : u # t => turn'[u] = turn[u]
    <2>1. turn[t] \in State /\ turn \in [Turn -> State]
      BY AtTurn
    <2>2. PICK r : r = [turn[t] EXCEPT !.open = merge, !.streamed = turn[t].spoke, !.spoke = FALSE, !.segment = n]
      OBVIOUS
    <2>3. /\ r \in State /\ r.pc = turn[t].pc /\ r.segment = n /\ r.said = turn[t].said
      BY <1>3, <2>1, <2>2 DEF State
    <2>4. turn' = [turn EXCEPT ![t] = r]
      BY <1>2, <2>1, <2>2 DEF EndSegment
    <2> QED  BY <1>1, <2>1, <2>3, <2>4 DEF Running
  <1>5. PICK e : e = End(t, merge)
    OBVIOUS
  <1>6. e \in Event /\ New(t, e)
    BY <1>1, <1>3, <1>4, <1>5, EndMessage
  <1>7. ends' \in 0 .. MaxEnds /\ ends <= ends' /\ turn'[t].segment <= ends'
    BY <1>1, <1>3, <1>4, Counts
  <1>8. turn'[t].said <= turn[t].said /\ turn'[t].said \in Nat
    BY <1>4, Counts
  <1>9. /\ written \subseteq written' /\ written' \subseteq Piece /\ IsFiniteSet(written')
        /\ Cardinality(written) <= Cardinality(written') /\ turn'[t].said <= Cardinality(written')
        /\ \A p \in written' : p \in written
    BY <1>1, <1>8, Silent
  <1>10. turn[t].segment <= turn'[t].segment /\ turn[t].said <= turn'[t].said
    BY <1>3, <1>4, Counts
  <1> QED  BY <1>1, <1>4, <1>5, <1>6, <1>7, <1>9, <1>10 DEF Moves, Running

LEMMA AnswerStep ==
    ASSUME IInv, NEW t \in Turn, Answer(t)
    PROVE  Moves(t)
  <1>1. /\ Running(t) /\ turn' = [turn EXCEPT ![t] = Blank("done")]
        /\ UNCHANGED <<dispatcher, channel, ends, written, lost, ended>>
        /\ \/ \E k \in {"reply", "streamed"} : outbound' = outbound \o <<Answered(t, k)>>
           \/ outbound' = outbound
    BY DEF Answer, Publish
  <1>2. outbound' = outbound \/ \E e \in Event : New(t, e) /\ outbound' = outbound \o <<e>>
    <2>1. ASSUME NEW k \in {"reply", "streamed"}, outbound' = outbound \o <<Answered(t, k)>>
          PROVE  \E e \in Event : New(t, e) /\ outbound' = outbound \o <<e>>
      <3>1. PICK e : e = Answered(t, k)
        OBVIOUS
      <3>2. e \in Event /\ New(t, e)
        BY <1>1, <3>1, Replies
      <3> QED  BY <2>1, <3>1, <3>2
    <2> QED  BY <1>1, <2>1
  <1> QED  BY <1>1, <1>2, Ends

LEMMA FailStep ==
    ASSUME IInv, NEW t \in Turn, Fail(t)
    PROVE  Moves(t)
  <1>1. /\ Running(t) /\ turn' = [turn EXCEPT ![t] = Blank("done")]
        /\ UNCHANGED <<dispatcher, channel, ends, written, lost, ended>>
        /\ outbound' = outbound \o <<Answered(t, "reply")>>
    BY DEF Fail, Publish
  <1>2. PICK e : e = Answered(t, "reply")
    OBVIOUS
  <1>3. e \in Event /\ New(t, e)
    <2>1. PICK k \in {"reply", "streamed"} : k = "reply"
      OBVIOUS
    <2> QED  BY <1>1, <1>2, <2>1, Replies
  <1> QED  BY <1>1, <1>2, <1>3, Ends

LEMMA CancelStep ==
    ASSUME IInv, NEW t \in Turn, Cancel(t)
    PROVE  Moves(t)
  <1>1. /\ Running(t) /\ turn' = [turn EXCEPT ![t] = Blank("done")]
        /\ UNCHANGED <<dispatcher, channel, ends, written, lost, ended>>
        /\ outbound' = outbound \o <<End(t, FALSE)>> \/ outbound' = outbound \o <<>>
    BY DEF Cancel, Publish
  <1>2. outbound \o <<>> = outbound
    BY ConcatEmptySeq DEF IInv, Types, Queues
  <1>3. turn'[t].pc = "done"
    BY <1>1, AtTurn DEF Blank
  <1>4. PICK merge \in BOOLEAN : merge = FALSE
    OBVIOUS
  <1>5. PICK e : e = End(t, merge)
    OBVIOUS
  <1>6. e \in Event /\ New(t, e)
    BY <1>1, <1>3, <1>5, EndMessage
  <1> QED  BY <1>1, <1>2, <1>4, <1>5, <1>6, Ends

LEMMA TurnSteps ==
    ASSUME IInv, NEW t \in Turn, TurnStep(t)
    PROVE  Moves(t) /\ IInv'
  <1>1. Moves(t)
    BY BeginStep, SayStep, AnswerStep, FailStep, CancelStep, EndSegmentStep DEF TurnStep
  <1> QED  BY <1>1, TurnMoves

-----------------------------------------------------------------------------
(* Taking and merging *)

\* Where the messages of the pipe come from when d of them were merged
LEMMA Origin ==
    ASSUME Types, Single, Messages, Order, Take, NEW d \in Nat, d < Len(Pipe), Fused(d), Queues'
    PROVE  /\ Pipe' \in Seq(Event) /\ 1 \in DOMAIN Pipe /\ 1 \in DOMAIN Pipe'
           /\ \A i \in DOMAIN Pipe' : i > 1 =>
                i + d \in DOMAIN Pipe /\ i + d > d + 1 /\ Pipe'[i] = Pipe[i + d]
           /\ \A k \in 1 .. d + 1 : k \in DOMAIN Pipe
           /\ Pipe[1].kind = "delta" =>
                /\ DOMAIN Pipe'[1].text = 1 .. d + 1
                /\ \A k \in 1 .. d + 1 :
                     /\ Pipe[k].kind = "delta" /\ Pipe[k].stream = Pipe[1].stream
                     /\ 1 \in DOMAIN Pipe[k].text /\ Pipe'[1].text[k] = Pipe[k].text[1]
           /\ \A x \in ToSet(Pipe'[1].text) :
                \E k \in 1 .. d + 1 : Pipe[k].stream = Pipe[1].stream /\ Pipe[k].kind = Pipe[1].kind
                                      /\ x \in ToSet(Pipe[k].text)
  <1>1. Pipe \in Seq(Event) /\ Pipe' \in Seq(Event)
    BY PipeType DEF Types, Fused
  <1>2. PICK n \in Nat : n = Len(Pipe)
    BY <1>1
  <1>3. Len(Pipe') = n - d /\ DOMAIN Pipe = 1 .. n /\ DOMAIN Pipe' = 1 .. n - d
    BY <1>1, <1>2 DEF Fused
  <1>4. 1 \in DOMAIN Pipe /\ 1 \in DOMAIN Pipe'
    BY <1>2, <1>3
  <1>5. \A k \in 1 .. d + 1 : k \in DOMAIN Pipe
    BY <1>2, <1>3
  <1>6. ASSUME NEW i \in DOMAIN Pipe', i > 1
        PROVE  i + d \in DOMAIN Pipe /\ i + d > d + 1 /\ Pipe'[i] = Pipe[i + d]
    <2>1. i \in Nat
      BY <1>3
    <2> QED  BY <1>6, <2>1 DEF Fused
  <1>7. ASSUME Pipe[1].kind = "delta"
        PROVE  /\ DOMAIN Pipe'[1].text = 1 .. d + 1
               /\ \A k \in 1 .. d + 1 :
                     /\ Pipe[k].kind = "delta" /\ Pipe[k].stream = Pipe[1].stream
                     /\ 1 \in DOMAIN Pipe[k].text /\ Pipe'[1].text[k] = Pipe[k].text[1]
    <2>1. Len(Pipe'[1].text) = d + 1
      BY <1>7 DEF Fused
    <2>2. Pipe'[1].text \in Seq(Piece)
      <3>1. Pipe'[1] \in Event
        BY <1>1, <1>4
      <3> QED  BY <3>1 DEF Event
    <2>3. DOMAIN Pipe'[1].text = 1 .. d + 1
      BY <2>1, <2>2
    <2>4. ASSUME NEW k \in 1 .. d + 1
          PROVE  /\ Pipe[k].kind = "delta" /\ Pipe[k].stream = Pipe[1].stream
                 /\ 1 \in DOMAIN Pipe[k].text /\ Pipe'[1].text[k] = Pipe[k].text[1]
      <3>1. /\ Pipe[k].kind = "delta" /\ Pipe[k].stream = Pipe[1].stream
            /\ Len(Pipe[k].text) = 1 /\ Pipe'[1].text[k] = Pipe[k].text[1]
        BY <1>7 DEF Fused
      <3>2. Pipe[k].text \in Seq(Piece)
        BY <1>5, EventType DEF Types
      <3> QED  BY <3>1, <3>2
    <2> QED  BY <2>3, <2>4
  <1>8. ASSUME NEW x \in ToSet(Pipe'[1].text)
        PROVE  \E k \in 1 .. d + 1 : Pipe[k].stream = Pipe[1].stream /\ Pipe[k].kind = Pipe[1].kind
                                     /\ x \in ToSet(Pipe[k].text)
    <2>1. CASE Pipe[1].kind = "delta"
      <3>1. PICK k \in 1 .. d + 1 : x = Pipe'[1].text[k]
        BY <1>7, <2>1 DEF ToSet
      <3> QED  BY <1>7, <2>1, <3>1 DEF ToSet
    <2>2. CASE Pipe[1].kind # "delta"
      <3>1. d = 0 /\ Pipe'[1] = Pipe[1] /\ 1 \in 1 .. d + 1
        BY <2>2 DEF Fused
      <3> QED  BY <3>1
    <2> QED  BY <2>1, <2>2
  <1> QED  BY <1>1, <1>4, <1>5, <1>6, <1>7, <1>8

LEMMA TakeKeeps ==
    ASSUME IInv, Take
    PROVE  IInv'
  <1>1. UNCHANGED <<turn, buf, screen, faults, ends, written, lost, ended>> /\ sending = Nothing
    BY DEF Take, channel
  <1>2. Queues /\ Types /\ Single /\ Messages /\ Order /\ Turns
    BY DEF IInv, Types
  <1>3. PICK d \in Nat : d < Len(Pipe) /\ Fused(d)
    BY <1>2, Take1
  <1>4. Queues' /\ sending' # Nothing
    BY <1>2, <1>3, Take1 DEF Fused
  <1>5. Types' /\ Turns'
    BY <1>1, <1>2, <1>4 DEF Types, Turns, Begun, Over, Running
  <1>6. /\ Pipe'[1].kind = Pipe[1].kind /\ Pipe'[1].stream = Pipe[1].stream
        /\ Pipe'[1].merge = Pipe[1].merge
        /\ Pipe[1].kind # "delta" => Pipe'[1] = Pipe[1]
    BY <1>3 DEF Fused
  <1>7. ASSUME NEW m, m = Pipe'[1]
        PROVE  Message(m)'
    <2>1. Message(Pipe[1])
      BY <1>2, <1>3, <1>4, Origin DEF Messages
    <2>2. CASE m.kind # "delta"
      BY <1>1, <1>6, <1>7, <2>1, <2>2 DEF Message, Begun, Over, Closing
    <2>3. CASE m.kind = "delta"
      <3>1. \A k \in 1 .. d + 1 :
              /\ Pipe[k].kind = "delta" /\ Pipe[k].stream = Pipe[1].stream
              /\ 1 \in DOMAIN Pipe[k].text /\ m.text[k] = Pipe[k].text[1]
              /\ Message(Pipe[k]) /\ k \in DOMAIN Pipe
        BY <1>2, <1>3, <1>4, <1>6, <1>7, <2>3, Origin DEF Messages
      <3>2. DOMAIN m.text = 1 .. d + 1 /\ 1 \in 1 .. d + 1
        BY <1>2, <1>3, <1>4, <1>6, <1>7, <2>3, Origin
      <3>3. \A k \in DOMAIN m.text : m.text[k].stream = m.stream
        BY <1>6, <1>7, <3>1, <3>2 DEF Message
      <3>4. ASSUME NEW k \in DOMAIN m.text, NEW l \in DOMAIN m.text, k < l
            PROVE  m.text[k].n < m.text[l].n
        <4>1. Follows(Pipe[k], Pipe[l])
          BY <1>2, <3>1, <3>2, <3>4 DEF Order
        <4>2. Under(Pipe[k].text, Pipe[l].text)
          BY <3>1, <3>2, <4>1 DEF Follows
        <4> QED  BY <3>1, <3>2, <4>2 DEF Under, ToSet
      <3>5. ASSUME NEW x \in ToSet(m.text) PROVE x \in written
        <4>1. PICK k \in 1 .. d + 1 : x = m.text[k]
          BY <3>2 DEF ToSet
        <4> QED  BY <3>1, <4>1 DEF Message, ToSet
      <3>6. m.text # <<>> /\ m.stream \notin ended /\ Begun(m.stream) /\ ~Closing(m)
        <4>1. Message(Pipe[1]) /\ Pipe[1].kind = "delta" /\ Pipe[1].stream = m.stream
          BY <1>6, <1>7, <2>3, <2>1
        <4>2. m.text # <<>>
          BY <3>2
        <4> QED  BY <2>3, <4>1, <4>2 DEF Message, Closing
      <3> QED  BY <1>1, <2>3, <3>3, <3>4, <3>5, <3>6 DEF Message, Rising, Begun, Closing
    <2> QED  BY <2>2, <2>3
  <1>8. ASSUME NEW i \in DOMAIN Pipe', i > 1, NEW m, m = Pipe'[i]
        PROVE  Message(m)' /\ (m.kind = "delta" => Len(m.text) = 1)
    <2>1. i + d \in DOMAIN Pipe /\ m = Pipe[i + d] /\ Message(m) /\ sending = Nothing
      BY <1>1, <1>2, <1>3, <1>4, <1>8, Origin DEF Messages
    <2>2. Message(m)'
      BY <1>1, <2>1 DEF Message, Begun, Over, Closing
    <2> QED  BY <1>2, <2>1, <2>2 DEF Single
  <1>9. DOMAIN Pipe' \subseteq Nat /\ \A i \in DOMAIN Pipe' : i = 1 \/ i > 1
    BY <1>2, <1>3, <1>4, Origin
  <1>10. Messages' /\ Single'
    <2>1. Messages'
      BY <1>7, <1>8, <1>9 DEF Messages
    <2>2. Single'
      BY <1>4, <1>8, <1>9 DEF Single
    <2> QED  BY <2>1, <2>2
  <1>11. Order'
    <2>1. ASSUME NEW i \in DOMAIN Pipe', NEW j \in DOMAIN Pipe', i < j
          PROVE  Follows(Pipe'[i], Pipe'[j])
      <3>1. j > 1 /\ j + d \in DOMAIN Pipe /\ j + d > d + 1 /\ Pipe'[j] = Pipe[j + d]
        <4>1. j > 1
          BY <1>9, <2>1
        <4> QED  BY <1>2, <1>3, <1>4, <4>1, Origin
      <3>2. CASE i > 1
        <4>1. i + d \in DOMAIN Pipe /\ Pipe'[i] = Pipe[i + d] /\ i + d < j + d
          BY <1>2, <1>3, <1>4, <1>9, <2>1, <3>2, Origin
        <4> QED  BY <1>2, <3>1, <4>1 DEF Order
      <3>3. CASE i = 1
        <4>1. \A k \in 1 .. d + 1 : k \in DOMAIN Pipe /\ k < j + d /\ Follows(Pipe[k], Pipe[j + d])
          <5>1. ASSUME NEW k \in 1 .. d + 1 PROVE k \in DOMAIN Pipe /\ k < j + d
            BY <1>2, <1>3, <1>4, <1>9, <3>1, Origin
          <5> QED  BY <1>2, <3>1, <5>1 DEF Order
        <4>2. Follows(Pipe[1], Pipe[j + d])
          BY <4>1
        <4>3. ASSUME Pipe'[j].kind = "delta", Pipe'[1].stream = Pipe'[j].stream, Pipe'[1].kind = "delta",
                     NEW x \in ToSet(Pipe'[1].text), NEW y \in ToSet(Pipe'[j].text)
              PROVE  x.n < y.n
          <5>1. PICK k \in 1 .. d + 1 : Pipe[k].stream = Pipe[1].stream /\ Pipe[k].kind = Pipe[1].kind
                                     /\ x \in ToSet(Pipe[k].text)
            BY <1>2, <1>3, <1>4, <4>3, Origin
          <5>2. Under(Pipe[k].text, Pipe[j + d].text)
            BY <1>6, <3>1, <4>1, <4>3, <5>1 DEF Follows
          <5> QED  BY <3>1, <4>3, <5>1, <5>2 DEF Under
        <4> QED  BY <1>6, <3>1, <3>3, <4>2, <4>3 DEF Follows, Closing, Under
      <3> QED  BY <1>9, <3>2, <3>3
    <2> QED  BY <2>1 DEF Order, Follows, Closing, Under
  <1>12. Buffers'
    <2>1. ASSUME NEW c \in Chat, buf[c] # NoBuffer, NEW b, b = buf[c]
          PROVE  Buffer(b, c)' /\ Fresh(b)'
      <3>1. Buffer(b, c) /\ Fresh(b)
        BY <2>1 DEF IInv, Buffers
      <3>2. Buffer(b, c)'
        BY <1>1, <3>1 DEF Buffer, Begun
      <3>3. ASSUME NEW i \in DOMAIN Pipe', Pipe'[i].kind = "delta", Pipe'[i].stream = b.stream
            PROVE  Under(b.text, Pipe'[i].text)
        <4>1. CASE i > 1
          BY <1>1, <1>2, <1>3, <1>4, <3>1, <3>3, <4>1, Origin DEF Fresh
        <4>2. CASE i = 1
          <5>1. ASSUME NEW x \in ToSet(b.text), NEW y \in ToSet(Pipe'[1].text)
                PROVE  x.n < y.n
            <6>1. PICK k \in 1 .. d + 1 : Pipe[k].stream = Pipe[1].stream /\ Pipe[k].kind = Pipe[1].kind
                                       /\ y \in ToSet(Pipe[k].text)
              BY <1>2, <1>3, <1>4, <5>1, Origin
            <6>2. k \in DOMAIN Pipe
              BY <1>2, <1>3, <1>4, Origin
            <6>3. Under(b.text, Pipe[k].text)
              BY <1>1, <1>6, <3>1, <3>3, <4>2, <6>1, <6>2 DEF Fresh
            <6> QED  BY <5>1, <6>1, <6>3 DEF Under
          <5> QED  BY <4>2, <5>1 DEF Under
        <4> QED  BY <1>9, <4>1, <4>2
      <3>4. Fresh(b)'
        BY <3>3 DEF Fresh
      <3> QED  BY <3>2, <3>4
    <2> QED  BY <1>1, <2>1 DEF Buffers
  <1>13. Screen' /\ InOrder'
    <2>1. ASSUME NEW i \in DOMAIN screen, NEW a \in ToSet(screen[i].text),
                 NEW j \in DOMAIN Pipe', a.stream[1] = Pipe'[j].stream[1]
          PROVE  a.stream[2] <= Pipe'[j].stream[2]
      <3>1. PICK k \in DOMAIN Pipe : Pipe'[j].stream = Pipe[k].stream
        BY <1>2, <1>3, <1>4, <1>6, <1>9, Origin
      <3> QED  BY <2>1, <3>1 DEF IInv, Screen
    <2>2. Screen'
      BY <1>1, <2>1 DEF IInv, Screen, Begun
    <2> QED  BY <1>1, <2>2 DEF IInv, InOrder
  <1> QED  BY <1>5, <1>10, <1>11, <1>12, <1>13 DEF IInv

-----------------------------------------------------------------------------
(* Sending *)

\* The dispatcher is done with the message it sends, or will try it again.
Leaves == sending # Nothing /\ sending' = Nothing /\ UNCHANGED <<pending, outbound>>
Retries ==
    /\ sending # Nothing /\ sending.attempt < MaxTries
    /\ sending' = [sending EXCEPT !.attempt = @ + 1] /\ UNCHANGED <<pending, outbound>>

LEMMA Tried ==
    ASSUME Queues, sending # Nothing
    PROVE  /\ 1 \in DOMAIN Pipe /\ Pipe[1] = sending.msg /\ Pipe[1] \in Event
           /\ sending.msg.stream \in Stream /\ sending.msg.text \in Seq(Piece)
           /\ ChatOfMsg(sending.msg) \in Chat
  <1> DEFINE q == pending \o outbound
  <1>1. q \in Seq(Event)
    BY ConcatProperties DEF Queues
  <1>2. PICK m \in Event : m = sending.msg
    BY DEF Queues
  <1>3. Pipe = <<m>> \o q
    <2>1. Now \in Seq(Event) /\ Now = <<m>>
      BY <1>2, NowType
    <2>2. (Now \o pending) \o outbound = Now \o q
      BY <2>1, ConcatAssociative DEF Queues
    <2> QED  BY <2>1, <2>2 DEF Pipe
  <1> HIDE DEF q
  <1>4. Pipe \in Seq(Event) /\ Len(Pipe) = Len(q) + 1 /\ Pipe[1] = m /\ Len(q) \in Nat
    BY <1>1, <1>3, Cell
  <1>5. m.stream \in Stream /\ m.text \in Seq(Piece) /\ m.stream[1] \in Turn
    BY StreamType DEF Event
  <1> QED  BY <1>2, <1>4, <1>5 DEF ChatOfMsg, Chat

LEMMA After ==
    ASSUME Queues, Leaves \/ Retries
    PROVE  /\ Queues' /\ Pipe' \in Seq(Event)
           /\ \A j \in DOMAIN Pipe' : \E k \in DOMAIN Pipe :
                Pipe'[j] = Pipe[k] /\ (Leaves => k = j + 1) /\ (Retries => k = j)
           /\ Leaves => sending' = Nothing
           /\ Retries => sending' # Nothing /\ sending'.msg = sending.msg /\ ~Leaves
  <1>1. CASE Leaves
    <2>1. ~Retries
      <3>1. SUFFICES ASSUME Retries PROVE FALSE
        OBVIOUS
      <3>2. sending \in [msg : Event, attempt : 1 .. MaxTries] /\ sending' = [sending EXCEPT !.attempt = @ + 1]
        BY <3>1 DEF Queues, Retries
      <3>3. sending' = [msg |-> sending.msg, attempt |-> sending.attempt + 1]
        BY <3>2
      <3> QED  BY <1>1, <3>3, NoMessage DEF Leaves
    <2>2. /\ Queues' /\ Len(Pipe') = Len(Pipe) - 1
          /\ \A i \in DOMAIN Pipe' : i + 1 \in DOMAIN Pipe /\ Pipe'[i] = Pipe[i + 1]
      BY <1>1, Left DEF Leaves
    <2>3. Pipe' \in Seq(Event)
      <3>1. Pipe' = pending \o outbound
        BY <1>1, ConcatEmptySeq DEF Leaves, Pipe, Now, Queues
      <3> QED  BY <3>1, ConcatProperties DEF Queues
    <2> QED  BY <1>1, <2>1, <2>2, <2>3 DEF Leaves
  <1>2. CASE Retries
    <2>1. sending \in [msg : Event, attempt : 1 .. MaxTries] /\ sending' = [sending EXCEPT !.attempt = @ + 1]
      BY <1>2 DEF Queues, Retries
    <2>2. sending' = [msg |-> sending.msg, attempt |-> sending.attempt + 1]
      BY <2>1
    <2>3. sending.attempt + 1 \in 1 .. MaxTries
      BY <1>2, <2>1, StreamAssumption DEF Retries
    <2>4. sending' # Nothing /\ sending'.msg = sending.msg
      BY <2>2, NoMessage
    <2>5. Queues'
      BY <1>2, <2>1, <2>2, <2>3 DEF Queues, Retries
    <2>6. Pipe' = Pipe
      <3>1. Now' = Now
        BY <1>2, <2>4 DEF Now, Retries
      <3> QED  BY <1>2, <3>1 DEF Pipe, Retries
    <2>7. ~Leaves
      BY <2>4 DEF Leaves
    <2> QED  BY <2>4, <2>5, <2>6, <2>7, PipeType
  <1> QED  BY <1>1, <1>2

LEMMA QueueKeeps ==
    ASSUME Types, Turns, Single, Messages, Order, Leaves \/ Retries, UNCHANGED <<turn, ends, written>>,
           \/ ended' = ended
           \/ Leaves /\ Closing(sending.msg) /\ ended' = ended \cup {sending.msg.stream}
    PROVE  Turns' /\ Single' /\ Messages' /\ Order'
  <1>1. Queues
    BY DEF Types
  <1>2. Pipe \in Seq(Event) /\ Pipe' \in Seq(Event) /\ DOMAIN Pipe \subseteq Nat /\ DOMAIN Pipe' \subseteq Nat
    BY <1>1, PipeType, After
  <1>3. 1 \in DOMAIN Pipe /\ Pipe[1] = sending.msg /\ Message(sending.msg)
    BY <1>1, Tried DEF Leaves, Retries, Messages
  <1>4. \A s \in ended' : Over(s)
    BY <1>3 DEF Turns, Message
  <1>5. Turns'
    BY <1>4 DEF Turns, Begun, Over, Running
  <1>6. ASSUME NEW j \in DOMAIN Pipe'
        PROVE  \E k \in DOMAIN Pipe : /\ Pipe'[j] = Pipe[k] /\ k \in Nat /\ j \in Nat
                                      /\ (Leaves => k = j + 1) /\ (Retries => k = j)
    BY <1>1, <1>2, After
  <1>7. ASSUME NEW j \in DOMAIN Pipe', NEW m, m = Pipe'[j]
        PROVE  /\ Message(m)'
               /\ m.kind = "delta" /\ (j > 1 \/ sending' = Nothing) => Len(m.text) = 1
    <2>1. PICK k \in DOMAIN Pipe : /\ m = Pipe[k] /\ k \in Nat /\ j \in Nat
                                   /\ (Leaves => k = j + 1) /\ (Retries => k = j)
      BY <1>6, <1>7
    <2>2. Message(m)
      BY <2>1 DEF Messages
    <2>3. m.kind = "delta" => m.stream \notin ended'
      <3>1. SUFFICES ASSUME m.kind = "delta", m.stream \in ended' PROVE FALSE
        OBVIOUS
      <3>2. Leaves /\ Closing(sending.msg) /\ m.stream = sending.msg.stream
        BY <2>2, <3>1 DEF Message
      <3>3. 1 < k
        BY <1>2, <2>1, <3>2
      <3>4. Follows(Pipe[1], Pipe[k])
        BY <1>3, <2>1, <3>3 DEF Order
      <3> QED  BY <1>3, <2>1, <3>1, <3>2, <3>4 DEF Follows
    <2>4. Message(m)'
      BY <2>2, <2>3 DEF Message, Begun, Over, Closing
    <2>5. j \in Nat /\ j >= 1
      BY <1>2
    <2>6. k > 1 \/ ~(j > 1 \/ sending' = Nothing)
      BY <1>1, <2>1, <2>5, After
    <2> QED  BY <2>1, <2>4, <2>6 DEF Single
  <1>8. Order'
    <2>1. ASSUME NEW i \in DOMAIN Pipe', NEW j \in DOMAIN Pipe', i < j
          PROVE  Follows(Pipe'[i], Pipe'[j])
      <3>1. PICK k \in DOMAIN Pipe : /\ Pipe'[i] = Pipe[k] /\ k \in Nat /\ i \in Nat
                                     /\ (Leaves => k = i + 1) /\ (Retries => k = i)
        BY <1>6
      <3>2. PICK l \in DOMAIN Pipe : /\ Pipe'[j] = Pipe[l] /\ l \in Nat /\ j \in Nat
                                     /\ (Leaves => l = j + 1) /\ (Retries => l = j)
        BY <1>6
      <3>3. k < l
        BY <2>1, <3>1, <3>2
      <3> QED  BY <3>1, <3>2, <3>3 DEF Order
    <2> QED  BY <2>1 DEF Order, Follows, Closing, Under
  <1> QED  BY <1>5, <1>7, <1>8 DEF Single, Messages

-----------------------------------------------------------------------------
(* What joins a buffer *)

LEMMA Concat ==
    ASSUME NEW a \in Seq(Piece), NEW b \in Seq(Piece)
    PROVE  \E x, y \in Nat :
             /\ DOMAIN a = 1 .. x /\ DOMAIN b = 1 .. y /\ DOMAIN (a \o b) = 1 .. x + y
             /\ a \o b \in Seq(Piece)
             /\ \A k \in 1 .. x : (a \o b)[k] = a[k]
             /\ \A k \in 1 .. x + y : k > x => k - x \in 1 .. y /\ (a \o b)[k] = b[k - x]
             /\ \A l \in 1 .. y : l + x \in 1 .. x + y /\ (a \o b)[l + x] = b[l]
  <1>1. PICK x \in Nat : x = Len(a)
    OBVIOUS
  <1>2. PICK y \in Nat : y = Len(b)
    OBVIOUS
  <1>3. PICK c : c = a \o b
    OBVIOUS
  <1>4. /\ c \in Seq(Piece) /\ Len(c) = x + y
        /\ \A k \in 1 .. x + y : c[k] = IF k <= x THEN a[k] ELSE b[k - x]
    BY <1>1, <1>2, <1>3, ConcatProperties
  <1>5. DOMAIN a = 1 .. x /\ DOMAIN b = 1 .. y /\ DOMAIN c = 1 .. x + y
    BY <1>1, <1>2, <1>4
  <1>6. \A k \in 1 .. x : c[k] = a[k]
    BY <1>4
  <1>7. \A k \in 1 .. x + y : k > x => k - x \in 1 .. y /\ c[k] = b[k - x]
    BY <1>4
  <1>8. \A l \in 1 .. y : l + x \in 1 .. x + y /\ c[l + x] = b[l]
    BY <1>4
  <1> QED  BY <1>3, <1>4, <1>5, <1>6, <1>7, <1>8

LEMMA JoinText ==
    ASSUME NEW a \in Seq(Piece), NEW b \in Seq(Piece), NEW s,
           \A p \in ToSet(a) : p.stream = s, \A k \in DOMAIN b : b[k].stream = s,
           Orderly(a), Rising(b), Under(a, b) \/ ToSet(b) \subseteq ToSet(a)
    PROVE  /\ a \o b \in Seq(Piece) /\ Orderly(a \o b)
           /\ ToSet(a \o b) = ToSet(a) \cup ToSet(b)
  <1>1. PICK c : c = a \o b
    OBVIOUS
  <1>2. PICK x \in Nat, y \in Nat :
             /\ DOMAIN a = 1 .. x /\ DOMAIN b = 1 .. y /\ DOMAIN c = 1 .. x + y
             /\ c \in Seq(Piece)
             /\ \A k \in 1 .. x : c[k] = a[k]
             /\ \A k \in 1 .. x + y : k > x => k - x \in 1 .. y /\ c[k] = b[k - x]
             /\ \A l \in 1 .. y : l + x \in 1 .. x + y /\ c[l + x] = b[l]
    <2>1. \E x, y \in Nat :
             /\ DOMAIN a = 1 .. x /\ DOMAIN b = 1 .. y /\ DOMAIN (a \o b) = 1 .. x + y
             /\ a \o b \in Seq(Piece)
             /\ \A k \in 1 .. x : (a \o b)[k] = a[k]
             /\ \A k \in 1 .. x + y : k > x => k - x \in 1 .. y /\ (a \o b)[k] = b[k - x]
             /\ \A l \in 1 .. y : l + x \in 1 .. x + y /\ (a \o b)[l + x] = b[l]
      BY Concat
    <2> QED  BY <1>1, <2>1, Zenon
  <1>3. ToSet(c) = ToSet(a) \cup ToSet(b)
    <2>1. ASSUME NEW p \in ToSet(c) PROVE p \in ToSet(a) \cup ToSet(b)
      <3>1. PICK k \in 1 .. x + y : p = c[k]
        BY <1>2 DEF ToSet
      <3>2. CASE k <= x
        <4>1. k \in 1 .. x
          BY <3>2
        <4> QED  BY <1>2, <3>1, <4>1 DEF ToSet
      <3>3. CASE k > x
        <4>1. k - x \in DOMAIN b /\ p = b[k - x]
          BY <1>2, <3>1, <3>3
        <4> QED  BY <4>1 DEF ToSet
      <3> QED  BY <3>2, <3>3
    <2>2. ASSUME NEW p \in ToSet(a) PROVE p \in ToSet(c)
      <3>1. PICK k \in 1 .. x : p = a[k]
        BY <1>2 DEF ToSet
      <3>2. k \in 1 .. x + y
        OBVIOUS
      <3> QED  BY <1>2, <3>1, <3>2 DEF ToSet
    <2>3. ASSUME NEW p \in ToSet(b) PROVE p \in ToSet(c)
      <3>1. PICK k \in 1 .. y : p = b[k]
        BY <1>2 DEF ToSet
      <3> QED  BY <1>2, <3>1 DEF ToSet
    <2> QED  BY <2>1, <2>2, <2>3
  <1>4. \A k \in 1 .. x + y : c[k].stream = s /\ (k > x => c[k] \in ToSet(b))
    <2>1. ASSUME NEW k \in 1 .. x + y PROVE c[k].stream = s /\ (k > x => c[k] \in ToSet(b))
      <3>1. CASE k <= x
        <4>1. k \in 1 .. x
          BY <3>1
        <4> QED  BY <1>2, <3>1, <4>1 DEF ToSet
      <3>2. CASE k > x
        <4>1. k - x \in DOMAIN b /\ c[k] = b[k - x]
          BY <1>2, <3>2
        <4> QED  BY <4>1 DEF ToSet
      <3> QED  BY <3>1, <3>2
    <2> QED  BY <2>1
  <1>5. ASSUME NEW k \in 1 .. x + y
        PROVE  \/ \A l \in 1 .. k - 1 : c[l].stream = c[k].stream /\ c[l].n < c[k].n
               \/ \E l \in 1 .. k - 1 : c[l] = c[k]
    <2>1. CASE k <= x
      <3>1. k \in 1 .. x /\ \A l \in 1 .. k - 1 : l \in 1 .. x
        BY <2>1
      <3>3. c[k] = a[k] /\ \A l \in 1 .. k - 1 : c[l] = a[l]
        BY <1>2, <3>1
      <3>2. \/ \A l \in 1 .. k - 1 : a[l].stream = a[k].stream /\ a[l].n < a[k].n
            \/ \E l \in 1 .. k - 1 : a[l] = a[k]
        BY <1>2, <3>1 DEF Orderly
      <3> QED  BY <3>2, <3>3
    <2>2. CASE k > x /\ ToSet(b) \subseteq ToSet(a)
      <3>1. c[k] \in ToSet(a)
        BY <1>4, <2>2
      <3>2. PICK l \in 1 .. x : c[k] = a[l]
        BY <1>2, <3>1 DEF ToSet
      <3>3. l \in 1 .. k - 1 /\ c[l] = c[k]
        BY <1>2, <2>2, <3>2
      <3> QED  BY <3>3
    <2>3. CASE k > x /\ Under(a, b)
      <3>1. k - x \in 1 .. y /\ c[k] = b[k - x]
        BY <1>2, <2>3
      <3>2. ASSUME NEW l \in 1 .. k - 1 PROVE c[l].stream = c[k].stream /\ c[l].n < c[k].n
        <4>1. l \in 1 .. x + y
          OBVIOUS
        <4>2. CASE l <= x
          <5>2. l \in 1 .. x
            BY <4>2
          <5>3. c[l] = a[l] /\ l \in DOMAIN a
            BY <1>2, <5>2
          <5>1. c[l] \in ToSet(a) /\ c[k] \in ToSet(b)
            BY <1>4, <2>3, <5>3 DEF ToSet
          <5> QED  BY <1>4, <2>3, <4>1, <5>1 DEF Under
        <4>3. CASE l > x
          <5>1. l - x \in 1 .. y /\ c[l] = b[l - x] /\ l - x < k - x
            <6>1. l \in 1 .. x + y
              BY <4>1
            <6>2. l - x \in 1 .. y /\ c[l] = b[l - x]
              BY <1>2, <4>3, <6>1
            <6> QED  BY <6>2
          <5>2. c[l].stream = c[k].stream
            BY <1>4, <4>1
          <5>3. PICK i \in DOMAIN b : i = l - x
            BY <1>2, <5>1
          <5>4. PICK j \in DOMAIN b : j = k - x
            BY <1>2, <3>1
          <5>5. b[i].n < b[j].n
            BY <5>1, <5>3, <5>4 DEF Rising
          <5> QED  BY <3>1, <5>1, <5>2, <5>3, <5>4, <5>5
        <4> QED  BY <4>2, <4>3
      <3> QED  BY <3>2
    <2> QED  BY <2>1, <2>2, <2>3
  <1>6. Orderly(c)
    BY <1>2, <1>5 DEF Orderly
  <1> QED  BY <1>1, <1>2, <1>3, <1>6

LEMMA RisingIsOrderly ==
    ASSUME NEW b \in Seq(Piece), Rising(b), NEW s, \A k \in DOMAIN b : b[k].stream = s
    PROVE  Orderly(b)
  <1>1. ASSUME NEW k \in DOMAIN b, NEW l \in 1 .. k - 1
        PROVE  b[l].stream = b[k].stream /\ b[l].n < b[k].n
    <2>1. l \in DOMAIN b /\ l < k
      OBVIOUS
    <2> QED  BY <2>1 DEF Rising
  <1> QED  BY <1>1 DEF Orderly

\* The buffer that a delta leaves when it is tried
LEMMA JoinedBuffer ==
    ASSUME IInv, sending # Nothing, sending.msg.kind = "delta",
           NEW b, b = Joined(sending.msg), NEW c, c = ChatOfMsg(sending.msg)
    PROVE  /\ c \in Chat /\ b \in Buffered /\ b # NoBuffer /\ Buffer(b, c)
           /\ b.stream = sending.msg.stream /\ ToSet(sending.msg.text) \subseteq ToSet(b.text)
           /\ \A i \in DOMAIN Pipe : Pipe[i].kind = "delta" /\ Pipe[i].stream = b.stream /\ i > 1
                => Under(b.text, Pipe[i].text)
           /\ b.at # 0 => b.at = buf[c].at /\ b.stream = buf[c].stream
           /\ buf[c] # NoBuffer /\ buf[c].stream = b.stream =>
                b.at = buf[c].at /\ ToSet(buf[c].text) \subseteq ToSet(b.text)
  <1>1. PICK m \in Event : m = sending.msg
    BY Tried DEF IInv, Types
  <1>2. /\ 1 \in DOMAIN Pipe /\ Pipe[1] = m /\ m.stream \in Stream /\ m.text \in Seq(Piece)
        /\ c \in Chat /\ m.kind = "delta" /\ c = ChatOf[m.stream[1]]
    BY <1>1, Tried DEF IInv, Types, ChatOfMsg
  <1>3. Message(m)
    BY <1>2 DEF IInv, Messages
  <1>4. /\ m.text # <<>> /\ Rising(m.text) /\ ToSet(m.text) \subseteq written
        /\ \A k \in DOMAIN m.text : m.text[k].stream = m.stream
        /\ Begun(m.stream)
    BY <1>2, <1>3 DEF Message
  <1>5. \A p \in ToSet(m.text) : p.stream = m.stream
    BY <1>4 DEF ToSet
  <1>6. ASSUME NEW i \in DOMAIN Pipe, Pipe[i].kind = "delta", Pipe[i].stream = m.stream, i > 1
        PROVE  Under(m.text, Pipe[i].text)
    <2>1. Follows(Pipe[1], Pipe[i])
      BY <1>2, <1>6 DEF IInv, Order
    <2> QED  BY <1>2, <1>6, <2>1 DEF Follows
  <1>7. PICK o : o = buf[c]
    OBVIOUS
  <1>8. o \in Buffered /\ (o # NoBuffer => Buffer(o, c) /\ Fresh(o))
    BY <1>2, <1>7 DEF IInv, Types, Buffers
  <1>9. CASE o # NoBuffer /\ o.stream = m.stream
    <2>1. o.text \in Seq(Piece) /\ Orderly(o.text) /\ \A p \in ToSet(o.text) : p.stream = m.stream
      BY <1>8, <1>9 DEF Buffered, Buffer
    <2>2. Under(o.text, m.text) \/ ToSet(m.text) \subseteq ToSet(o.text)
      BY <1>2, <1>8, <1>9 DEF Fresh
    <2>3. PICK t : t = o.text \o m.text
      OBVIOUS
    <2>4. t \in Seq(Piece) /\ Orderly(t) /\ ToSet(t) = ToSet(o.text) \cup ToSet(m.text)
      <3>1. PICK x \in Seq(Piece) : x = o.text
        BY <2>1
      <3>2. PICK y \in Seq(Piece) : y = m.text
        BY <1>2
      <3>3. PICK s : s = m.stream
        OBVIOUS
      <3> QED  BY <1>4, <2>1, <2>2, <2>3, <3>1, <3>2, <3>3, JoinText, ZenonT(60)
    <2>5. /\ b \in Buffered /\ b.text = t /\ b.stream = m.stream /\ b.at = o.at
      <3>1. b = [o EXCEPT !.text = t]
        BY <1>1, <1>2, <1>7, <1>9, <2>3 DEF Joined, ChatOfMsg
      <3> QED  BY <1>8, <1>9, <2>4, <3>1 DEF Buffered
    <2>6. t # <<>>
      <3>1. PICK p : p \in ToSet(m.text)
        <4>1. PICK x \in Seq(Piece) : x = m.text
          BY <1>2
        <4>2. x # <<>>
          BY <1>4, <4>1
        <4>3. 1 \in DOMAIN x
          BY <4>2
        <4>4. x[1] \in ToSet(x)
          BY <4>3 DEF ToSet
        <4> QED  BY <4>1, <4>4
      <3>2. p \in ToSet(t)
        BY <2>4, <3>1
      <3> QED  BY <3>2 DEF ToSet
    <2>7. Buffer(b, c)
      <3>1. Buffer(o, c)
        BY <1>8, <1>9
      <3>2. ToSet(b.text) \subseteq written
        BY <1>4, <2>4, <2>5, <3>1 DEF Buffer
      <3>3. \A p \in ToSet(b.text) : p.stream = b.stream
        BY <1>5, <2>1, <2>4, <2>5
      <3>4. b.at # 0 => /\ b.at \in DOMAIN screen /\ screen[b.at].chat = c
                        /\ ToSet(screen[b.at].text) \subseteq ToSet(b.text)
        BY <2>4, <2>5, <3>1 DEF Buffer
      <3> QED  BY <1>2, <1>4, <2>4, <2>5, <2>6, <3>2, <3>3, <3>4 DEF Buffer
    <2>8. ASSUME NEW i \in DOMAIN Pipe, Pipe[i].kind = "delta", Pipe[i].stream = b.stream, i > 1
          PROVE  Under(b.text, Pipe[i].text)
      <3>1. Under(m.text, Pipe[i].text)
        BY <1>6, <2>5, <2>8
      <3>2. Under(o.text, Pipe[i].text)
        BY <1>8, <1>9, <2>5, <2>8 DEF Fresh
      <3> QED  BY <2>4, <2>5, <3>1, <3>2 DEF Under
    <2>9. b # NoBuffer
      BY <2>5, <2>6 DEF NoBuffer
    <2> QED  BY <1>1, <1>2, <1>7, <1>9, <2>4, <2>5, <2>7, <2>8, <2>9
  <1>10. CASE ~(o # NoBuffer /\ o.stream = m.stream)
    <2>1. b = [stream |-> m.stream, text |-> m.text, at |-> 0]
      BY <1>1, <1>2, <1>7, <1>10 DEF Joined, ChatOfMsg
    <2>2. b \in Buffered /\ b.stream = m.stream /\ b.text = m.text /\ b.at = 0
      BY <1>2, <2>1 DEF Buffered
    <2>3. Orderly(m.text)
      BY <1>2, <1>4, RisingIsOrderly
    <2>4. Buffer(b, c)
      BY <1>2, <1>4, <1>5, <2>2, <2>3 DEF Buffer
    <2>5. b # NoBuffer
      BY <1>4, <2>2 DEF NoBuffer
    <2>6. ~(buf[c] # NoBuffer /\ buf[c].stream = b.stream)
      BY <1>7, <1>10, <2>2
    <2> QED  BY <1>1, <1>2, <1>6, <2>2, <2>4, <2>5, <2>6
  <1> QED  BY <1>9, <1>10

\* Line i of the screen now shows text, which is of stream s: a new line in chat
\* c for the message that is sent, or a line of c with the text it had in it.
Writes(i, c, s, text) ==
    /\ text \in Seq(Piece) \ {<<>>} /\ Orderly(text) /\ \A p \in ToSet(text) : p.stream = s
    /\ Begun(s)
    /\ screen' \in Seq([chat : Chat, text : Seq(Piece) \ {<<>>}])
    /\ i \in DOMAIN screen' /\ screen'[i].text = text /\ screen'[i].chat = c
    /\ DOMAIN screen \subseteq DOMAIN screen'
    /\ \A j \in DOMAIN screen' : j # i => j \in DOMAIN screen /\ screen'[j] = screen[j]
    /\ \/ /\ i \in DOMAIN screen /\ screen[i].chat = c
          /\ ToSet(screen[i].text) \subseteq ToSet(text)
       \/ /\ i \notin DOMAIN screen /\ \A j \in DOMAIN screen : j < i
          /\ s = Pipe[1].stream

LEMMA Opened ==
    ASSUME Types, NEW c \in Chat, NEW s, NEW text \in Seq(Piece) \ {<<>>}, Open(c, text),
           Orderly(text), \A p \in ToSet(text) : p.stream = s, Begun(s), s = Pipe[1].stream
    PROVE  Writes(Len(screen) + 1, c, s, text) /\ Len(screen) + 1 \in Nat \ {0}
  <1> DEFINE Line == [chat : Chat, text : Seq(Piece) \ {<<>>}]
  <1>1. PICK line \in Line : line = [chat |-> c, text |-> text]
    OBVIOUS
  <1>2. screen \in Seq(Line) /\ screen' = Append(screen, line)
    BY <1>1 DEF Types, Open
  <1> HIDE DEF Line
  <1>3. PICK n \in Nat : n = Len(screen)
    BY <1>2
  <1>4. /\ screen' \in Seq(Line) /\ Len(screen') = n + 1 /\ screen'[n + 1] = line
        /\ \A j \in 1 .. n : screen'[j] = screen[j]
    BY <1>2, <1>3
  <1>5. DOMAIN screen = 1 .. n /\ DOMAIN screen' = 1 .. n + 1
    BY <1>2, <1>3, <1>4
  <1>6. line.text = text /\ line.chat = c
    BY <1>1
  <1>7. \A j \in DOMAIN screen' : j # n + 1 => j \in DOMAIN screen /\ screen'[j] = screen[j]
    BY <1>4, <1>5
  <1>8. n + 1 \notin DOMAIN screen /\ n + 1 \in DOMAIN screen' /\ \A j \in DOMAIN screen : j < n + 1
    BY <1>5
  <1>9. DOMAIN screen \subseteq DOMAIN screen'
    BY <1>5
  <1> QED  BY <1>3, <1>4, <1>6, <1>7, <1>8, <1>9 DEF Writes, Line

LEMMA Edited ==
    ASSUME Types, NEW b \in Buffered, NEW c \in Chat, Buffer(b, c), b.at # 0, Edit(b)
    PROVE  Writes(b.at, c, b.stream, b.text)
  <1> DEFINE Line == [chat : Chat, text : Seq(Piece) \ {<<>>}]
  <1>1. PICK i \in DOMAIN screen : i = b.at
    BY DEF Buffer
  <1>2. PICK text \in Seq(Piece) \ {<<>>} : text = b.text
    BY DEF Buffer, Buffered
  <1>3. screen[i] \in Line /\ screen[i].chat = c /\ ToSet(screen[i].text) \subseteq ToSet(text)
    <2>1. screen[i] \in Line
      <3>1. screen \in Seq(Line)
        BY DEF Types
      <3> HIDE DEF Line
      <3> QED  BY <3>1
    <2> QED  BY <1>1, <1>2, <2>1 DEF Buffer
  <1>4. PICK line : line = [screen[i] EXCEPT !.text = text]
    OBVIOUS
  <1>5. line \in Line /\ line.text = text /\ line.chat = c
    BY <1>3, <1>4
  <1>6. screen' = [screen EXCEPT ![i] = line]
    BY <1>1, <1>2, <1>4 DEF Edit
  <1>7. screen \in Seq(Line)
    BY DEF Types
  <1> HIDE DEF Line
  <1>8. /\ screen' \in Seq(Line) /\ DOMAIN screen' = DOMAIN screen /\ screen'[i] = line
        /\ \A j \in DOMAIN screen : j # i => screen'[j] = screen[j]
    BY <1>5, <1>6, <1>7
  <1>9. Orderly(text) /\ Begun(b.stream) /\ \A p \in ToSet(text) : p.stream = b.stream
    BY <1>2 DEF Buffer
  <1> QED  BY <1>1, <1>2, <1>3, <1>5, <1>8, <1>9 DEF Writes, Line

\* A line that is written stays behind what came before it.
LEMMA WritesInOrder ==
    ASSUME IInv, NEW i, NEW c, NEW s, NEW text, Writes(i, c, s, text), turn' = turn, 1 \in DOMAIN Pipe,
           \A j \in DOMAIN Pipe' : \E k \in DOMAIN Pipe : Pipe'[j] = Pipe[k]
    PROVE  Screen' /\ InOrder'
  <1>1. i \in DOMAIN screen => \E a \in ToSet(screen[i].text) : a.stream = s
    <2>1. SUFFICES ASSUME i \in DOMAIN screen PROVE \E a \in ToSet(screen[i].text) : a.stream = s
      OBVIOUS
    <2>2. PICK x \in Seq(Piece) \ {<<>>} : x = screen[i].text
      BY <2>1, ShownType DEF IInv
    <2>3. 1 \in DOMAIN x
      BY <2>2
    <2>4. x[1] \in ToSet(x)
      BY <2>3 DEF ToSet
    <2> QED  BY <2>1, <2>2, <2>4 DEF Writes
  <1>2. ASSUME NEW k \in DOMAIN Pipe, s[1] = Pipe[k].stream[1]
        PROVE  s[2] <= Pipe[k].stream[2]
    <2>1. CASE i \in DOMAIN screen
      BY <1>1, <1>2, <2>1 DEF IInv, Screen
    <2>2. CASE i \notin DOMAIN screen
      <3>1. s = Pipe[1].stream
        BY <2>2 DEF Writes
      <3>2. CASE k = 1
        <4>1. Pipe[1].stream \in Stream
          BY EventType DEF IInv, Types
        <4> QED  BY <3>1, <3>2, <4>1, StreamType
      <3>3. CASE k # 1
        <4>1. Pipe \in Seq(Event)
          BY PipeType DEF IInv, Types
        <4>2. 1 < k
          BY <3>3, <4>1
        <4>3. Follows(Pipe[1], Pipe[k])
          BY <4>2 DEF IInv, Order
        <4> QED  BY <1>2, <3>1, <4>3 DEF Follows
      <3> QED  BY <3>2, <3>3
    <2> QED  BY <2>1, <2>2
  <1>3. ASSUME NEW j \in DOMAIN screen', NEW a \in ToSet(screen'[j].text)
        PROVE  /\ j # i => j \in DOMAIN screen /\ a \in ToSet(screen[j].text)
               /\ j = i => a.stream = s
    BY <1>3 DEF Writes
  <1>4. Screen'
    <2>1. ASSUME NEW j \in DOMAIN screen'
          PROVE  Orderly(screen'[j].text)
      BY DEF IInv, Screen, Writes
    <2>2. ASSUME NEW j \in DOMAIN screen', NEW a \in ToSet(screen'[j].text)
          PROVE  /\ Begun(a.stream)
                 /\ \A k \in DOMAIN Pipe : a.stream[1] = Pipe[k].stream[1] => a.stream[2] <= Pipe[k].stream[2]
      <3>1. CASE j = i
        <4>1. a.stream = s /\ Begun(s)
          BY <1>3, <2>2, <3>1 DEF Writes
        <4> QED  BY <1>2, <4>1
      <3>2. CASE j # i
        BY <1>3, <2>2, <3>2 DEF IInv, Screen
      <3> QED  BY <3>1, <3>2
    <2> QED  BY <2>1, <2>2 DEF Screen, Orderly, Begun
  <1>5. ASSUME NEW j \in DOMAIN screen', NEW k \in DOMAIN screen', j < k,
               NEW a \in ToSet(screen'[j].text), NEW b \in ToSet(screen'[k].text), a.stream[1] = b.stream[1]
        PROVE  a.stream[2] <= b.stream[2]
    <2>0. j \in Nat /\ k \in Nat
      BY DEF Writes
    <2>1. CASE j = i
      <3>1. k # i /\ k \in DOMAIN screen /\ b \in ToSet(screen[k].text) /\ a.stream = s
        BY <1>3, <1>5, <2>0, <2>1
      <3>2. i \in DOMAIN screen
        BY <1>5, <2>0, <2>1, <3>1 DEF Writes
      <3> QED  BY <1>1, <1>5, <2>1, <3>1, <3>2 DEF IInv, InOrder
    <2>2. CASE k = i
      <3>1. j # i /\ j \in DOMAIN screen /\ a \in ToSet(screen[j].text) /\ b.stream = s
        BY <1>3, <1>5, <2>0, <2>2
      <3>2. CASE i \in DOMAIN screen
        BY <1>1, <1>5, <2>2, <3>1, <3>2 DEF IInv, InOrder
      <3>3. CASE i \notin DOMAIN screen
        <4>1. s = Pipe[1].stream
          BY <3>3 DEF Writes
        <4> QED  BY <1>5, <3>1, <4>1 DEF IInv, Screen
      <3> QED  BY <3>2, <3>3
    <2>3. CASE j # i /\ k # i
      BY <1>3, <1>5, <2>3 DEF IInv, InOrder
    <2> QED  BY <2>1, <2>2, <2>3
  <1>6. InOrder'
    <2>1. \A j \in DOMAIN screen' : Orderly(screen'[j].text)
      BY DEF IInv, Screen, Writes
    <2> QED  BY <1>5, <2>1 DEF InOrder, Orderly
  <1> QED  BY <1>4, <1>6

\* A buffer whose message is not the line that is written
LEMMA Untouched ==
    ASSUME NEW b, NEW d, Buffer(b, d), turn' = turn, written' = written,
           \/ screen' = screen
           \/ \E i, c, s, text : Writes(i, c, s, text) /\ (i \notin DOMAIN screen \/ d # c)
    PROVE  Buffer(b, d)'
  <1>1. ASSUME b.at # 0
        PROVE  b.at \in DOMAIN screen' /\ screen'[b.at].chat = d /\ ToSet(screen'[b.at].text) \subseteq ToSet(b.text)
    <2>1. b.at \in DOMAIN screen /\ screen[b.at].chat = d /\ ToSet(screen[b.at].text) \subseteq ToSet(b.text)
      BY <1>1 DEF Buffer
    <2>2. ASSUME NEW i, NEW c, NEW s, NEW text, Writes(i, c, s, text), i \notin DOMAIN screen \/ d # c
          PROVE  b.at \in DOMAIN screen' /\ screen'[b.at] = screen[b.at]
      <3>1. b.at # i
        BY <2>1, <2>2 DEF Writes
      <3> QED  BY <2>1, <2>2, <3>1 DEF Writes
    <2> QED  BY <2>1, <2>2
  <1> QED  BY <1>1 DEF Buffer, Orderly, Begun

LEMMA StaysFresh ==
    ASSUME Queues, NEW b, Leaves \/ Retries,
           \A i \in DOMAIN Pipe : Pipe[i].kind = "delta" /\ Pipe[i].stream = b.stream =>
             \/ Under(b.text, Pipe[i].text)
             \/ i = 1 /\ (Retries => ToSet(Pipe[i].text) \subseteq ToSet(b.text))
    PROVE  Fresh(b)'
  <1>1. Pipe' \in Seq(Event) /\ \A j \in DOMAIN Pipe' : j \in Nat /\ j # 0
    <2>1. Pipe' \in Seq(Event)
      BY After
    <2> QED  BY <2>1
  <1>2. ASSUME NEW i \in DOMAIN Pipe', Pipe'[i].kind = "delta", Pipe'[i].stream = b.stream
        PROVE  \/ Under(b.text, Pipe'[i].text)
               \/ i = 1 /\ sending' # Nothing /\ ToSet(Pipe'[i].text) \subseteq ToSet(b.text)
    <2>1. PICK k \in DOMAIN Pipe : Pipe'[i] = Pipe[k] /\ (Leaves => k = i + 1) /\ (Retries => k = i)
      BY After
    <2>2. CASE Leaves
      <3>1. k # 1
        BY <1>1, <2>1, <2>2
      <3> QED  BY <1>2, <2>1, <3>1
    <2>3. CASE Retries
      BY <1>2, <2>1, <2>3, After
    <2> QED  BY <2>2, <2>3
  <1> QED  BY <1>2 DEF Fresh, Under

\* Sending, or an attempt that fails, leaves the turns as they are.
Delivers ==
    /\ Leaves \/ Retries
    /\ UNCHANGED <<turn, ends, written>> /\ faults' \in 0 .. MaxFaults
    /\ lost' \subseteq written /\ lost \subseteq lost'
    /\ \/ ended' = ended
       \/ Leaves /\ Closing(sending.msg) /\ ended' = ended \cup {sending.msg.stream}

\* One chat at most has its buffer and its messages changed.
Shows(c) ==
    /\ buf' \in [Chat -> Buffered] /\ \A d \in Chat : d # c => buf'[d] = buf[d]
    /\ \/ screen' = screen
       \/ \E i, s, text : Writes(i, c, s, text)
    /\ \/ buf'[c] = NoBuffer
       \/ Buffer(buf[c], c)' /\ Fresh(buf[c])'

LEMMA ChannelKeeps ==
    ASSUME IInv, Delivers, NEW c \in Chat, Shows(c)
    PROVE  IInv'
  <1>1. Queues /\ sending # Nothing
    BY DEF IInv, Types, Delivers, Leaves, Retries
  <1>2. /\ Leaves \/ Retries
        /\ UNCHANGED <<turn, ends, written>>
        /\ \A j \in DOMAIN Pipe' : \E k \in DOMAIN Pipe : Pipe'[j] = Pipe[k]
    <2>1. Leaves \/ Retries
      BY DEF Delivers
    <2> QED  BY <1>1, <2>1, After DEF Delivers
  <1>3. Turns' /\ Single' /\ Messages' /\ Order'
    BY QueueKeeps DEF IInv, Delivers
  <1>4. Types'
    <2>1. Queues'
      BY <1>1, <1>2, After
    <2>2. ended' \subseteq Stream
      <3>1. sending.msg.stream \in Stream
        BY <1>1, Tried
      <3> QED  BY <3>1 DEF Delivers, IInv, Types
    <2>3. screen' \in Seq([chat : Chat, text : Seq(Piece) \ {<<>>}])
      BY DEF Shows, Writes, IInv, Types
    <2>4. buf' \in [Chat -> Buffered]
      BY DEF Shows
    <2> QED  BY <2>1, <2>2, <2>3, <2>4 DEF Delivers, IInv, Types
  <1>5. Screen' /\ InOrder'
    <2>1. CASE screen' = screen
      <3>1. Screen'
        BY <1>2, <2>1 DEF IInv, Screen, Begun
      <3> QED  BY <2>1, <3>1 DEF IInv, InOrder
    <2>2. ASSUME NEW i, NEW s, NEW text, Writes(i, c, s, text)
          PROVE  Screen' /\ InOrder'
      <3>1. 1 \in DOMAIN Pipe
        BY <1>1, Tried
      <3> QED  BY <1>2, <2>2, <3>1, WritesInOrder
    <2> QED  BY <2>1, <2>2 DEF Shows
  <1>6. Buffers'
    <2>1. ASSUME NEW d \in Chat, d # c, buf[d] # NoBuffer, NEW b, b = buf[d]
          PROVE  Buffer(b, d)' /\ Fresh(b)'
      <3>1. Buffer(b, d) /\ Fresh(b)
        BY <2>1 DEF IInv, Buffers
      <3>2. \/ screen' = screen
            \/ \E i, e, s, text : Writes(i, e, s, text) /\ (i \notin DOMAIN screen \/ d # e)
        BY <2>1 DEF Shows
      <3>3. Buffer(b, d)'
        BY <1>2, <3>1, <3>2, Untouched
      <3>4. Fresh(b)'
        BY <1>1, <1>2, <3>1, StaysFresh DEF Fresh
      <3> QED  BY <3>3, <3>4
    <2>2. ASSUME NEW d \in Chat, d # c, buf'[d] # NoBuffer
          PROVE  Buffer(buf[d], d)' /\ Fresh(buf[d])'
      <3>1. PICK b : b = buf[d]
        OBVIOUS
      <3>2. buf'[d] = b
        BY <2>2, <3>1 DEF Shows
      <3>3. Buffer(b, d)' /\ Fresh(b)'
        BY <2>1, <2>2, <3>1, <3>2
      <3> QED  BY <3>2, <3>3
    <2> QED  BY <2>2 DEF Buffers, Shows
  <1> QED  BY <1>3, <1>4, <1>5, <1>6 DEF IInv

LEMMA SendIsDelivery ==
    ASSUME IInv, Send
    PROVE  Delivers /\ Leaves
  <1>1. sending # Nothing /\ UNCHANGED <<turn, outbound, pending, faults, ends, written, lost>> /\ Leaves
    BY DEF Send, Leaves
  <1>2. ended' = ended \cup {s \in {sending.msg.stream} : Closing(sending.msg)}
    BY DEF Send, Closing
  <1>3. \/ ended' = ended
        \/ Leaves /\ Closing(sending.msg) /\ ended' = ended \cup {sending.msg.stream}
    BY <1>1, <1>2
  <1> QED  BY <1>1, <1>3 DEF Delivers, IInv, Types

\* The buffer of another message is fresh when the one that is sent leaves.
LEMMA JoinedStaysFresh ==
    ASSUME IInv, Leaves \/ Retries, sending.msg.kind = "delta", NEW b,
           b.stream = Joined(sending.msg).stream, b.text = Joined(sending.msg).text
    PROVE  Fresh(b)'
  <1>1. sending # Nothing /\ Queues
    BY DEF Leaves, Retries, IInv, Types
  <1>2. PICK o : o = Joined(sending.msg)
    OBVIOUS
  <1>3. PICK c : c = ChatOfMsg(sending.msg)
    OBVIOUS
  <1>4. /\ ToSet(sending.msg.text) \subseteq ToSet(o.text)
        /\ \A i \in DOMAIN Pipe : Pipe[i].kind = "delta" /\ Pipe[i].stream = o.stream /\ i > 1
             => Under(o.text, Pipe[i].text)
    BY <1>1, <1>2, <1>3, JoinedBuffer
  <1>5. Pipe \in Seq(Event) /\ Pipe[1] = sending.msg
    BY <1>1, PipeType, Tried
  <1>6. \A i \in DOMAIN Pipe : i = 1 \/ i > 1
    BY <1>5
  <1> QED  BY <1>1, <1>2, <1>4, <1>5, <1>6, StaysFresh

\* The first attempt that succeeds opens a message.
LEMMA DeltaOpens ==
    ASSUME IInv, Leaves, UNCHANGED <<turn, written>>, sending.msg.kind = "delta",
           NEW c \in Chat, c = ChatOfMsg(sending.msg), NEW b, b = Joined(sending.msg), b.at = 0,
           Open(c, b.text), buf' = [buf EXCEPT ![c] = [b EXCEPT !.at = Len(screen) + 1]]
    PROVE  Shows(c)
  <1>1. sending # Nothing /\ Types /\ Queues
    BY DEF Leaves, IInv, Types
  <1>2. /\ b \in Buffered /\ Buffer(b, c) /\ b.stream = sending.msg.stream
    BY <1>1, JoinedBuffer
  <1>3. PICK text \in Seq(Piece) \ {<<>>} : text = b.text
    BY <1>2 DEF Buffered, Buffer
  <1>4. PICK s : s = b.stream
    OBVIOUS
  <1>5. s = Pipe[1].stream
    BY <1>1, <1>2, <1>4, Tried
  <1>6. PICK i : i = Len(screen) + 1
    OBVIOUS
  <1>7. Writes(i, c, s, text) /\ i \in Nat \ {0}
    BY <1>1, <1>2, <1>3, <1>4, <1>5, <1>6, Opened DEF Buffer
  <1>8. PICK n : n = [b EXCEPT !.at = i]
    OBVIOUS
  <1>9. n \in Buffered /\ n.stream = b.stream /\ n.text = b.text /\ n.at = i
    BY <1>2, <1>7, <1>8 DEF Buffered
  <1>10. /\ buf' = [buf EXCEPT ![c] = n] /\ buf \in [Chat -> Buffered]
    BY <1>1, <1>6, <1>8 DEF Types
  <1>11. Buffer(n, c)'
    <2>1. i \in DOMAIN screen' /\ screen'[i].chat = c /\ screen'[i].text = n.text
      BY <1>3, <1>7, <1>9 DEF Writes
    <2> QED  BY <1>2, <1>9, <2>1 DEF Buffer, Orderly, Begun
  <1>12. Fresh(n)'
    BY <1>9, JoinedStaysFresh
  <1>13. buf' \in [Chat -> Buffered] /\ buf'[c] = n /\ \A d \in Chat : d # c => buf'[d] = buf[d]
    BY <1>9, <1>10
  <1> QED  BY <1>7, <1>11, <1>12, <1>13 DEF Shows

\* Later ones edit it, or leave the edit to the next.
LEMMA DeltaEdits ==
    ASSUME IInv, Leaves \/ Retries, UNCHANGED <<turn, written>>, sending.msg.kind = "delta",
           NEW c \in Chat, c = ChatOfMsg(sending.msg), NEW b, b = Joined(sending.msg),
           (b.at # 0 /\ Edit(b)) \/ UNCHANGED screen, buf' = [buf EXCEPT ![c] = b]
    PROVE  Shows(c)
  <1>1. sending # Nothing /\ Types /\ Queues
    BY DEF Leaves, Retries, IInv, Types
  <1>2. /\ b \in Buffered /\ Buffer(b, c)
    BY <1>1, JoinedBuffer
  <1>3. screen' = screen \/ Writes(b.at, c, b.stream, b.text)
    BY <1>1, <1>2, Edited
  <1>4. Fresh(b)'
    BY JoinedStaysFresh
  <1>5. Buffer(b, c)'
    <2>1. CASE screen' = screen
      BY <1>2, <2>1, Untouched
    <2>2. CASE Writes(b.at, c, b.stream, b.text)
      <3>1. b.at \in DOMAIN screen' /\ screen'[b.at].chat = c /\ screen'[b.at].text = b.text
        BY <2>2 DEF Writes
      <3> QED  BY <1>2, <3>1 DEF Buffer, Orderly, Begun
    <2> QED  BY <1>3, <2>1, <2>2
  <1>6. buf' \in [Chat -> Buffered] /\ buf'[c] = b /\ \A d \in Chat : d # c => buf'[d] = buf[d]
    BY <1>1, <1>2 DEF Types
  <1>7. Buffer(buf[c], c)' /\ Fresh(buf[c])'
    BY <1>4, <1>5, <1>6
  <1> QED  BY <1>3, <1>6, <1>7 DEF Shows

\* What leaves the buffers as they are
LEMMA BuffersStay ==
    ASSUME IInv, Leaves \/ Retries, UNCHANGED <<turn, written, buf>>, NEW c \in Chat,
           \/ screen' = screen
           \/ \E i, s, text : Writes(i, c, s, text) /\ i \notin DOMAIN screen
    PROVE  Shows(c)
  <1>1. Types /\ Queues
    BY DEF IInv, Types
  <1>2. PICK b : b = buf[c]
    OBVIOUS
  <1>3. ASSUME b # NoBuffer PROVE Buffer(b, c)' /\ Fresh(b)'
    <2>1. Buffer(b, c) /\ Fresh(b)
      BY <1>2, <1>3 DEF IInv, Buffers
    <2>2. Buffer(b, c)'
      BY <2>1, Untouched
    <2>3. Fresh(b)'
      BY <1>1, <2>1, StaysFresh DEF Fresh
    <2> QED  BY <2>2, <2>3
  <1>4. buf'[c] = b /\ buf' = buf /\ buf \in [Chat -> Buffered]
    BY <1>1, <1>2 DEF Types
  <1>5. buf'[c] = NoBuffer \/ (Buffer(buf[c], c)' /\ Fresh(buf[c])')
    <2>1. CASE b = NoBuffer
      <3>1. buf'[c] = NoBuffer
        BY <1>4, <2>1
      <3> QED  BY <3>1
    <2>2. CASE b # NoBuffer
      <3>1. Buffer(b, c)' /\ Fresh(b)' /\ buf'[c] = b
        BY <1>3, <1>4, <2>2
      <3> QED  BY <3>1
    <2> QED  BY <2>1, <2>2
  <1> QED  BY <1>4, <1>5 DEF Shows

LEMMA SendKeeps ==
    ASSUME IInv, Send
    PROVE  IInv'
  <1>1. Delivers /\ Leaves /\ UNCHANGED <<turn, written>>
    BY SendIsDelivery DEF Delivers
  <1>2. sending # Nothing /\ Types /\ Queues
    BY <1>1 DEF Leaves, IInv, Types
  <1>3. PICK m \in Event : m = sending.msg
    BY <1>2, Tried
  <1>4. PICK c \in Chat : c = ChatOfMsg(m)
    BY <1>2, <1>3, Tried
  <1>5. 1 \in DOMAIN Pipe /\ Pipe[1] = m /\ Message(m) /\ m.text \in Seq(Piece)
    <2>1. 1 \in DOMAIN Pipe /\ Pipe[1] = m
      BY <1>2, <1>3, Tried
    <2> QED  BY <2>1 DEF IInv, Messages, Event
  <1>6. CASE m.kind = "delta"
    <2>1. PICK b : b = Joined(m)
      OBVIOUS
    <2>2. SendDelta(c, b)
      <3>1. SendDelta(ChatOfMsg(sending.msg), Joined(sending.msg))
        BY <1>3, <1>6, SMTT(30) DEF Send, SendDelta, Open, Edit, channel, Closes
      <3> QED  BY <1>3, <1>4, <2>1, <3>1
    <2>3. CASE b.at = 0
      <3>1. Open(c, b.text) /\ buf' = [buf EXCEPT ![c] = [b EXCEPT !.at = Len(screen) + 1]]
        BY <2>2, <2>3 DEF SendDelta
      <3>2. Shows(c)
        BY <1>1, <1>3, <1>4, <1>6, <2>1, <2>3, <3>1, DeltaOpens
      <3> QED  BY <1>1, <3>2, ChannelKeeps
    <2>4. CASE b.at # 0
      <3>1. ((b.at # 0 /\ Edit(b)) \/ UNCHANGED screen) /\ buf' = [buf EXCEPT ![c] = b]
        BY <2>2, <2>4 DEF SendDelta
      <3>2. Shows(c)
        BY <1>1, <1>3, <1>4, <1>6, <2>1, <3>1, DeltaEdits
      <3> QED  BY <1>1, <3>2, ChannelKeeps
    <2> QED  BY <2>3, <2>4
  <1>7. CASE m.kind = "reply"
    <2>1. Open(c, m.text) /\ UNCHANGED buf
      <3>1. Open(ChatOfMsg(sending.msg), sending.msg.text) /\ UNCHANGED buf
        BY <1>3, <1>7, SMTT(30) DEF Send, SendDelta, Open, Edit, channel, Closes
      <3> QED  BY <1>3, <1>4, <3>1
    <2>2. PICK text \in Seq(Piece) \ {<<>>} : text = m.text
      <3>1. m.text # <<>>
        BY <1>5, <1>7 DEF Message
      <3> QED  BY <1>5, <3>1
    <2>3. PICK s : s = m.stream
      OBVIOUS
    <2>4. \A p \in ToSet(text) : p.stream = s
      BY <1>5, <2>2, <2>3 DEF Message, ToSet
    <2>5. Orderly(text)
      <3>1. Len(text) = 1
        BY <1>5, <1>7, <2>2 DEF Message
      <3>2. \A k \in DOMAIN text : k = 1
        BY <3>1
      <3> QED  BY <3>2 DEF Orderly
    <2>6. Writes(Len(screen) + 1, c, s, text)
      BY <1>2, <1>5, <2>1, <2>2, <2>3, <2>4, <2>5, Opened DEF Message
    <2>7. Len(screen) + 1 \notin DOMAIN screen
      BY <1>2 DEF Types
    <2>8. Shows(c)
      BY <1>1, <2>1, <2>6, <2>7, BuffersStay
    <2> QED  BY <1>1, <2>8, ChannelKeeps
  <1>8. CASE Closes(m)
    <2>1. m.kind = "end" /\ Edit(buf[c]) /\ buf' = [buf EXCEPT ![c] = NoBuffer]
      BY <1>3, <1>4, <1>8 DEF Send, Closes
    <2>2. PICK b : b = buf[c]
      OBVIOUS
    <2>3. b.at # 0 /\ b \in Buffered /\ b # NoBuffer
      BY <1>2, <1>4, <1>8, <2>2 DEF Closes, Types, NoBuffer
    <2>4. Buffer(b, c)
      BY <2>2, <2>3 DEF IInv, Buffers
    <2>5. Writes(b.at, c, b.stream, b.text)
      BY <1>2, <2>1, <2>2, <2>3, <2>4, Edited
    <2>6. /\ buf' \in [Chat -> Buffered] /\ buf'[c] = NoBuffer
          /\ \A d \in Chat : d # c => buf'[d] = buf[d]
      <3>1. NoBuffer \in Buffered
        BY DEF NoBuffer, Buffered
      <3> QED  BY <1>2, <2>1, <3>1 DEF Types
    <2>7. Shows(c)
      BY <2>5, <2>6 DEF Shows
    <2> QED  BY <1>1, <2>7, ChannelKeeps
  <1>9. CASE m.kind \notin {"delta", "reply"} /\ ~Closes(m)
    <2>1. UNCHANGED <<buf, screen>>
      BY <1>3, <1>9 DEF Send, channel
    <2>2. Shows(c)
      BY <1>1, <2>1, BuffersStay
    <2> QED  BY <1>1, <2>2, ChannelKeeps
  <1> QED  BY <1>6, <1>7, <1>8, <1>9

LEMMA SendFailsIsDelivery ==
    ASSUME IInv, SendFails
    PROVE  Delivers
  <1>1. /\ sending # Nothing /\ Types /\ Queues
        /\ UNCHANGED <<turn, outbound, pending, screen, ends, written, ended>>
    BY DEF SendFails, IInv, Types
  <1>2. PICK m \in Event : m = sending.msg
    BY <1>1, Tried
  <1>4. Leaves \/ Retries
    <2>1. sending.attempt \in Nat
      <3>1. sending \in [msg : Event, attempt : 1 .. MaxTries]
        BY <1>1 DEF Queues
      <3> QED  BY <3>1
    <2>2. CASE sending.attempt >= MaxTries
      BY <1>1, <2>2 DEF SendFails, Leaves
    <2>3. CASE ~(sending.attempt >= MaxTries)
      BY <1>1, <2>1, <2>3, StreamAssumption DEF SendFails, Retries
    <2> QED  BY <2>2, <2>3
  <1>5. faults' \in 0 .. MaxFaults
    BY <1>1, StreamAssumption DEF SendFails, Types
  <1>6. lost' \subseteq written /\ lost \subseteq lost'
    <2>1. m.kind = "delta" => ToSet(m.text) \subseteq written
      <3>1. Message(Pipe[1]) /\ Pipe[1] = m
        BY <1>1, <1>2, Tried DEF IInv, Messages
      <3> QED  BY <3>1 DEF Message
    <2>2. lost \subseteq written
      BY <1>1 DEF Types
    <2> QED  BY <1>2, <2>1, <2>2 DEF SendFails
  <1> QED  BY <1>1, <1>4, <1>5, <1>6 DEF Delivers

LEMMA SendFailsKeeps ==
    ASSUME IInv, SendFails
    PROVE  IInv'
  <1>1. /\ sending # Nothing /\ Types /\ Queues
        /\ UNCHANGED <<turn, screen, written>> /\ Delivers /\ (Leaves \/ Retries)
    BY SendFailsIsDelivery DEF SendFails, IInv, Types, Delivers
  <1>2. PICK m \in Event : m = sending.msg
    BY <1>1, Tried
  <1>3. PICK c \in Chat : c = ChatOfMsg(m)
    BY <1>1, <1>2, Tried
  <1>4. CASE m.kind = "delta"
    <2>1. PICK b : b = Joined(m)
      OBVIOUS
    <2>2. buf' = [buf EXCEPT ![c] = b]
      BY <1>2, <1>3, <1>4, <2>1 DEF SendFails
    <2>3. Shows(c)
      BY <1>1, <1>2, <1>3, <1>4, <2>1, <2>2, DeltaEdits
    <2> QED  BY <1>1, <2>3, ChannelKeeps
  <1>5. CASE m.kind # "delta"
    <2>1. buf' = buf
      BY <1>2, <1>5 DEF SendFails
    <2>2. Shows(c)
      BY <1>1, <2>1, BuffersStay
    <2> QED  BY <1>1, <2>2, ChannelKeeps
  <1> QED  BY <1>4, <1>5

-----------------------------------------------------------------------------
(* The invariant *)

LEMMA InitInv ==
    ASSUME Init
    PROVE  IInv
  <1>1. Pipe = <<>> /\ DOMAIN Pipe = {}
    BY ConcatEmptySeq DEF Init, Pipe, Now
  <1>2. turn \in [Turn -> State] /\ \A t \in Turn : turn[t] = Blank("waiting")
    BY StreamAssumption DEF Init, Blank, State
  <1>3. NoBuffer \in Buffered /\ \A c \in Chat : buf[c] = NoBuffer
    BY DEF Init, NoBuffer, Buffered
  <1>4. written = {} /\ IsFiniteSet(written) /\ Cardinality(written) = 0
    BY FS_EmptySet DEF Init
  <1>5. Types
    <2>1. buf \in [Chat -> Buffered]
      BY <1>3 DEF Init
    <2>2. Queues
      BY DEF Init, Queues
    <2>3. screen \in Seq([chat : Chat, text : Seq(Piece) \ {<<>>}])
      BY DEF Init
    <2>4. 0 \in 0 .. MaxFaults /\ 0 \in 0 .. MaxEnds
      BY StreamAssumption
    <2> QED  BY <1>2, <1>4, <2>1, <2>2, <2>3, <2>4 DEF Init, Types
  <1>6. Turns
    BY <1>2, <1>4 DEF Init, Turns, Running, Blank
  <1>7. Single /\ Messages /\ Order
    BY <1>1 DEF Single, Messages, Order
  <1>8. Buffers /\ Screen /\ InOrder
    BY <1>3 DEF Init, Buffers, Screen, InOrder
  <1> QED  BY <1>5, <1>6, <1>7, <1>8 DEF IInv

LEMMA StepInv ==
    ASSUME IInv, [Next]_vars
    PROVE  IInv'
  <1>1. CASE Take
    BY <1>1, TakeKeeps
  <1>2. CASE Send
    BY <1>2, SendKeeps
  <1>3. CASE SendFails
    BY <1>3, SendFailsKeeps
  <1>4. ASSUME NEW t \in Turn, TurnStep(t)
        PROVE  IInv'
    BY <1>4, TurnSteps
  <1>5. CASE UNCHANGED vars
    <2>1. UNCHANGED <<turn, outbound, pending, sending, buf, screen, faults, ends, written, lost, ended>>
      BY <1>5 DEF vars
    <2>2. Pipe' = Pipe
      BY <2>1 DEF Pipe, Now
    <2>3. Types' /\ Turns' /\ Single' /\ InOrder'
      BY <2>1, <2>2 DEF IInv, Types, Queues, Turns, Begun, Over, Running, Single, InOrder
    <2>4. Messages'
      BY <2>1, <2>2 DEF IInv, Messages, Message, Begun, Over, Closing
    <2>5. Order'
      BY <2>2 DEF IInv, Order, Follows, Closing, Under
    <2>6. Buffers'
      <3>1. ASSUME NEW c \in Chat, NEW b, b = buf[c], b # NoBuffer
            PROVE  Buffer(b, c)' /\ Fresh(b)'
        <4>1. Buffer(b, c) /\ Fresh(b)
          BY <3>1 DEF IInv, Buffers
        <4>2. Buffer(b, c)'
          BY <2>1, <4>1 DEF Buffer, Begun, Orderly
        <4> QED  BY <2>1, <2>2, <4>1, <4>2 DEF Fresh, Under
      <3> QED  BY <2>1, <3>1 DEF Buffers
    <2>7. Screen'
      BY <2>1, <2>2 DEF IInv, Screen, Begun, Orderly
    <2> QED  BY <2>3, <2>4, <2>5, <2>6, <2>7 DEF IInv
  <1> QED  BY <1>1, <1>2, <1>3, <1>4, <1>5 DEF Next, Dispatch

LEMMA Invariance ==
    Spec => []IInv
  BY InitInv, StepInv, PTL DEF Spec

LEMMA InvTypes ==
    IInv => TypeOK
  <1> SUFFICES ASSUME IInv PROVE TypeOK
    OBVIOUS
  <1>1. Types
    BY DEF IInv
  <1>2. sending = Nothing \/ (sending.msg \in Event /\ sending.attempt \in 1 .. MaxTries)
    BY <1>1 DEF Types, Queues
  <1>3. ASSUME NEW c \in Chat, buf[c] # NoBuffer
        PROVE  buf[c].stream \in Stream /\ buf[c].text \in Seq(Piece) \ {<<>>} /\ buf[c].at \in 0 .. Len(screen)
    <2>1. buf[c] \in Buffered /\ Buffer(buf[c], c)
      BY <1>1, <1>3 DEF Types, IInv, Buffers
    <2>2. buf[c].at = 0 \/ buf[c].at \in DOMAIN screen
      BY <2>1 DEF Buffer
    <2>3. Len(screen) \in Nat /\ DOMAIN screen = 1 .. Len(screen)
      BY <1>1 DEF Types
    <2>4. buf[c].at \in 0 .. Len(screen)
      BY <2>2, <2>3
    <2> QED  BY <2>1, <2>4 DEF Buffered, Buffer
  <1> QED  BY <1>1, <1>2, <1>3 DEF Types, Queues, State, TypeOK

\* The state has its types: above all, a buffer names a message that was opened,
\* and no message is tried more often than it may be.
THEOREM TypeCorrect == Spec => []TypeOK
  BY Invariance, InvTypes, PTL

\* Each message shows one stream in the order it was written, and what a turn
\* writes later is never above what it wrote before, whatever is merged, held
\* back, tried again, given up or left to a later edit, for any number of turns.
THEOREM TextInOrder == Spec => []InOrder
  <1>1. IInv => InOrder
    BY DEF IInv
  <1> QED  BY <1>1, Invariance, PTL

-----------------------------------------------------------------------------
(* Where a piece is until its chat shows it.  The one buffer of a chat is    *)
(* enough when the turns of a chat run one after the other.                  *)

OneSessionPerChat == \A t, u \in Turn : ChatOf[t] = ChatOf[u] => SessionOf[t] = SessionOf[u]

SameChat(s, r) == ChatOf[s[1]] = ChatOf[r[1]]

\* The end of a stream is still to come behind message j of the pipe.
ClosedLater(s, j) == Live(s) \/ \E k \in DOMAIN Pipe : k > j /\ Closing(Pipe[k]) /\ Pipe[k].stream = s
Due(s) == s \in ended \/ ClosedLater(s, 0)

\* When a delta takes the buffer of its chat from another stream, that one has ended.
Alternate ==
    \A j \in DOMAIN Pipe : Pipe[j].kind = "delta" =>
      /\ \A i \in DOMAIN Pipe :
           i < j /\ Pipe[i].kind = "delta" /\ Pipe[i].stream # Pipe[j].stream
                /\ SameChat(Pipe[i].stream, Pipe[j].stream)
             => ~ClosedLater(Pipe[i].stream, j)
      /\ \A c \in Chat :
           buf[c] # NoBuffer /\ c = ChatOf[Pipe[j].stream[1]] /\ buf[c].stream # Pipe[j].stream
             => ~ClosedLater(buf[c].stream, j)

Shown(p) == \E i \in DOMAIN screen : p \in ToSet(screen[i].text)
InBuffer(p) == \E c \in Chat : buf[c].at # 0 /\ p \in ToSet(buf[c].text)
InPipe(p) == \E i \in DOMAIN Pipe : Pipe[i].kind = "delta" /\ p \in ToSet(Pipe[i].text)
Whereabouts == \A p \in written : Due(p.stream) => p \in lost \/ Shown(p) \/ InPipe(p) \/ InBuffer(p)

CInv == IInv /\ Alternate /\ Whereabouts /\ StreamComplete

LEMMA OneLive ==
    ASSUME IInv, OneSessionPerChat, NEW s \in Stream, NEW r \in Stream, Live(s), Live(r), SameChat(s, r)
    PROVE  s = r
  <1>1. /\ s[1] \in Turn /\ r[1] \in Turn /\ s = <<s[1], s[2]>> /\ r = <<r[1], r[2]>>
    BY StreamType
  <1>2. SessionOf[s[1]] = SessionOf[r[1]] /\ Running(s[1]) /\ Running(r[1])
    BY <1>1 DEF OneSessionPerChat, SameChat, Live, Running
  <1>3. s[1] = r[1]
    BY <1>1, <1>2 DEF IInv, Turns
  <1>4. s[2] = r[2]
    BY <1>3 DEF Live
  <1> QED  BY <1>1, <1>3, <1>4

\* A turn ends only the segment it writes.
LEMMA ClosedBefore ==
    ASSUME IInv, NEW t \in Turn, Moves(t), NEW s \in Stream, Begun(s), NEW j \in Nat, ClosedLater(s, j)'
    PROVE  ClosedLater(s, j)
  <1>1. s[1] \in Turn /\ s[2] \in Nat /\ turn \in [Turn -> State] /\ Queues
    BY StreamType DEF IInv, Types
  <1>2. CASE Live(s)'
    <2>1. CASE s[1] # t
      BY <1>1, <1>2, <2>1 DEF Live, Moves, ClosedLater
    <2>2. CASE s[1] = t
      <3>1. turn'[t].pc = "running" /\ turn'[t].segment = s[2]
        BY <1>2, <2>2 DEF Live
      <3>2. turn[t].pc = "running" /\ turn[t].segment <= s[2] /\ s[2] <= turn[t].segment
        BY <2>2, <3>1 DEF Moves, Begun
      <3>3. turn[t].segment \in Nat
        BY <1>1, StreamAssumption DEF State
      <3>4. Live(s)
        BY <1>1, <2>2, <3>2, <3>3 DEF Live
      <3> QED  BY <3>4 DEF ClosedLater
    <2> QED  BY <2>1, <2>2
  <1>3. CASE ~Live(s)'
    <2>1. PICK k \in DOMAIN Pipe' : k > j /\ Closing(Pipe'[k]) /\ Pipe'[k].stream = s
      BY <1>3 DEF ClosedLater, Closing
    <2>2. CASE k \in DOMAIN Pipe
      <3>1. Pipe'[k] = Pipe[k]
        BY <1>1, <2>2, Grown
      <3> QED  BY <2>1, <2>2, <3>1 DEF ClosedLater
    <2>3. CASE k \notin DOMAIN Pipe
      <3>1. PICK e \in Event : e = Pipe'[k] /\ New(t, e)
        BY <1>1, <2>3, Grown
      <3>2. Live(e.stream)
        BY <2>1, <3>1 DEF New
      <3> QED  BY <2>1, <3>1, <3>2 DEF ClosedLater
    <2> QED  BY <2>2, <2>3
  <1> QED  BY <1>2, <1>3

LEMMA Spoken ==
    ASSUME IInv, NEW t \in Turn, TurnStep(t), NEW p \in written', p \notin written
    PROVE  InPipe(p)' /\ p.stream \notin ended
  <1>1. Say(t)
    BY DEF TurnStep, Begin, Answer, Fail, Cancel, EndSegment
  <1>2. PICK q : q = [stream |-> <<t, turn[t].segment>>, n |-> turn[t].said + 1]
    OBVIOUS
  <1>3. /\ Running(t) /\ outbound' = outbound \o <<Delta(t, q)>> /\ written' = written \cup {q}
        /\ UNCHANGED <<pending, sending>>
    BY <1>1, <1>2 DEF Say, Publish, dispatcher
  <1>4. p = q /\ p \in Piece /\ p.stream = <<t, turn[t].segment>>
    <2>1. p = q
      BY <1>3
    <2>2. written' \subseteq Piece
      BY TurnSteps DEF IInv, Types
    <2> QED  BY <1>2, <2>1, <2>2
  <1>5. PICK e : e = Delta(t, q)
    OBVIOUS
  <1>6. e \in Event /\ e.kind = "delta" /\ e.text = <<p>>
    <2>1. <<p>> \in Seq(Piece) /\ p.stream \in Stream
      BY <1>4, PieceType
    <2> QED  BY <1>4, <1>5, <2>1 DEF Delta, Event
  <1>7. Queues /\ Pipe \in Seq(Event)
    BY PipeType DEF IInv, Types
  <1>8. <<e>> \in Seq(Event) /\ Len(<<e>>) = 1 /\ <<e>>[1] = e
    BY <1>6
  <1>9. Pipe' = Pipe \o <<e>>
    BY <1>3, <1>5, <1>7, <1>8, Published
  <1>10. PICK n \in Nat : n = Len(Pipe)
    BY <1>7
  <1>11. Pipe' \in Seq(Event) /\ Len(Pipe') = n + 1 /\ Pipe'[n + 1] = e
    BY <1>7, <1>8, <1>9, <1>10, ConcatProperties
  <1>12. n + 1 \in DOMAIN Pipe'
    BY <1>11
  <1>13. p \in ToSet(e.text)
    BY <1>6 DEF ToSet
  <1>14. p.stream \notin ended
    <2>1. p.stream[1] = t /\ p.stream[2] = turn[t].segment /\ turn[t].segment \in Nat
      BY <1>4, Counts
    <2>2. ~Over(p.stream)
      BY <1>3, <2>1 DEF Over, Running
    <2> QED  BY <2>2 DEF IInv, Turns
  <1> QED  BY <1>6, <1>11, <1>12, <1>13, <1>14 DEF InPipe

LEMMA TurnAlternates ==
    ASSUME CInv, OneSessionPerChat, NEW t \in Turn, Moves(t)
    PROVE  Alternate'
  <1>1. /\ IInv /\ Queues /\ buf' = buf
    BY DEF CInv, IInv, Types, Moves, channel
  <1>2. \A i \in DOMAIN Pipe : Pipe[i].stream \in Stream /\ Begun(Pipe[i].stream)
    BY <1>1, EventType DEF IInv, Messages, Message
  <1>3. \A c \in Chat : buf[c] # NoBuffer => buf[c].stream \in Stream /\ Begun(buf[c].stream)
    BY <1>1 DEF IInv, Buffers, Buffer
  <1>4. DOMAIN Pipe \subseteq Nat /\ DOMAIN Pipe' \subseteq Nat
    BY <1>1, Grown
  \* a stream that wrote before delta j
  <1>5. ASSUME NEW j \in DOMAIN Pipe', Pipe'[j].kind = "delta", NEW s \in Stream, Begun(s), s # Pipe'[j].stream,
               SameChat(s, Pipe'[j].stream),
               j \in DOMAIN Pipe => ~ClosedLater(s, j)
        PROVE  ~ClosedLater(s, j)'
    <2>1. SUFFICES ASSUME ClosedLater(s, j)' PROVE FALSE
      OBVIOUS
    <2>2. ClosedLater(s, j)
      BY <1>1, <1>4, <1>5, <2>1, ClosedBefore
    <2>3. PICK e \in Event : e = Pipe'[j] /\ New(t, e) /\ \A i \in DOMAIN Pipe : i < j
      BY <1>1, <1>4, <1>5, <2>2, Grown
    <2>4. Live(s)
      <3>1. \A k \in DOMAIN Pipe : ~(k > j)
        BY <1>4, <2>3
      <3> QED  BY <2>2, <3>1 DEF ClosedLater
    <2>5. Live(e.stream) /\ e.stream \in Stream
      BY <1>5, <2>3 DEF New, Event
    <2> QED  BY <1>1, <1>5, <2>3, <2>4, <2>5, OneLive
  <1>6. ASSUME NEW j \in DOMAIN Pipe', Pipe'[j].kind = "delta", NEW i \in DOMAIN Pipe', i < j,
               NEW s, s = Pipe'[i].stream, Pipe'[i].kind = "delta",
               s # Pipe'[j].stream, SameChat(s, Pipe'[j].stream)
        PROVE  ~ClosedLater(s, j)'
    <2>1. i \in DOMAIN Pipe /\ Pipe'[i] = Pipe[i]
      BY <1>1, <1>4, <1>6, Grown
    <2>2. j \in DOMAIN Pipe => Pipe'[j] = Pipe[j]
      BY <1>1, Grown
    <2>3. j \in DOMAIN Pipe => ~ClosedLater(s, j)
      BY <1>6, <2>1, <2>2 DEF CInv, Alternate
    <2> QED  BY <1>2, <1>5, <1>6, <2>1, <2>3
  <1>7. ASSUME NEW j \in DOMAIN Pipe', Pipe'[j].kind = "delta", NEW c \in Chat, buf[c] # NoBuffer,
               c = ChatOf[Pipe'[j].stream[1]], NEW s, s = buf[c].stream, s # Pipe'[j].stream
        PROVE  ~ClosedLater(s, j)'
    <2>1. j \in DOMAIN Pipe => Pipe'[j] = Pipe[j]
      BY <1>1, Grown
    <2>2. j \in DOMAIN Pipe => ~ClosedLater(s, j)
      BY <1>7, <2>1 DEF CInv, Alternate
    <2>3. SameChat(s, Pipe'[j].stream)
      BY <1>1, <1>7 DEF IInv, Buffers, Buffer, SameChat
    <2> QED  BY <1>3, <1>5, <1>7, <2>2, <2>3
  <1> QED  BY <1>1, <1>6, <1>7 DEF Alternate, SameChat

LEMMA TurnKeepsPieces ==
    ASSUME CInv, OneSessionPerChat, NEW t \in Turn, TurnStep(t)
    PROVE  CInv'
  <1>1. IInv /\ Moves(t) /\ IInv' /\ Queues
    BY TurnSteps DEF CInv, IInv, Types
  <1>2. UNCHANGED <<buf, screen, ended, lost>>
    BY <1>1 DEF Moves, channel
  <1>3. Alternate'
    BY <1>1, TurnAlternates
  <1>4. ASSUME NEW p \in written', Due(p.stream)'
        PROVE  (p \in lost \/ Shown(p) \/ InPipe(p) \/ InBuffer(p))'
    <2>1. CASE p \notin written
      BY <1>1, <2>1, Spoken
    <2>2. CASE p \in written
      <3>1. p.stream \in Stream /\ Begun(p.stream)
        BY <1>1, <2>2, PieceType DEF IInv, Types, Turns
      <3>2. Due(p.stream)
        BY <1>1, <1>2, <1>4, <3>1, ClosedBefore DEF Due
      <3>3. p \in lost \/ Shown(p) \/ InPipe(p) \/ InBuffer(p)
        BY <2>2, <3>2 DEF CInv, Whereabouts
      <3>4. InPipe(p) => InPipe(p)'
        BY <1>1, Grown DEF InPipe
      <3> QED  BY <1>2, <3>3, <3>4 DEF Shown, InBuffer
    <2> QED  BY <2>1, <2>2
  <1>5. ASSUME NEW p \in written', p.stream \in ended'
        PROVE  (p \in lost \/ Shown(p))'
    <2>1. p \in written
      BY <1>1, <1>2, <1>5, Spoken
    <2> QED  BY <1>2, <1>5, <2>1 DEF CInv, StreamComplete, Shown
  <1> QED  BY <1>1, <1>3, <1>4, <1>5 DEF CInv, Whereabouts, StreamComplete, Shown

LEMMA TakeKeepsPieces ==
    ASSUME CInv, Take
    PROVE  CInv'
  <1>1. UNCHANGED <<turn, buf, screen, faults, ends, written, lost, ended>> /\ sending = Nothing
    BY DEF Take, channel
  <1>2. IInv /\ Queues /\ Types /\ Single /\ Messages /\ Order /\ IInv'
    BY TakeKeeps DEF CInv, IInv, Types
  <1>3. PICK d \in Nat : d < Len(Pipe) /\ Fused(d)
    BY <1>2, Take1
  <1>4. Queues'
    BY <1>2 DEF IInv, Types
  <1>5. /\ Pipe' \in Seq(Event) /\ 1 \in DOMAIN Pipe /\ 1 \in DOMAIN Pipe'
        /\ \A i \in DOMAIN Pipe' : i > 1 =>
             i + d \in DOMAIN Pipe /\ i + d > d + 1 /\ Pipe'[i] = Pipe[i + d]
        /\ \A k \in 1 .. d + 1 : k \in DOMAIN Pipe
    BY <1>2, <1>3, <1>4, Origin
  <1>6. Pipe[1].kind = "delta" =>
          \A k \in 1 .. d + 1 :
             /\ Pipe[k].kind = "delta" /\ Pipe[k].stream = Pipe[1].stream
             /\ 1 \in DOMAIN Pipe[k].text /\ Pipe'[1].text[k] = Pipe[k].text[1]
             /\ k \in DOMAIN Pipe'[1].text /\ Len(Pipe[k].text) = 1
    BY <1>2, <1>3, <1>4, Origin DEF Fused
  <1>7. /\ Pipe'[1].kind = Pipe[1].kind /\ Pipe'[1].stream = Pipe[1].stream
        /\ Pipe[1].kind # "delta" => d = 0 /\ Pipe'[1] = Pipe[1]
    BY <1>3 DEF Fused
  <1>8. Pipe \in Seq(Event) /\ DOMAIN Pipe' \subseteq Nat /\ \A i \in DOMAIN Pipe' : i = 1 \/ i > 1
    BY <1>2, <1>5, PipeType
  <1>9. ASSUME NEW s, NEW j \in DOMAIN Pipe', ClosedLater(s, j)'
        PROVE  ClosedLater(s, j + d)
    <2>1. CASE Live(s)'
      BY <1>1, <2>1 DEF ClosedLater, Live
    <2>2. CASE ~Live(s)'
      <3>1. PICK k \in DOMAIN Pipe' : k > j /\ Closing(Pipe'[k]) /\ Pipe'[k].stream = s
        BY <1>9, <2>2 DEF ClosedLater, Closing
      <3>2. k > 1 /\ k + d > j + d
        BY <1>8, <3>1
      <3>3. k + d \in DOMAIN Pipe /\ Pipe'[k] = Pipe[k + d]
        BY <1>5, <3>2
      <3> QED  BY <3>1, <3>2, <3>3 DEF ClosedLater
    <2> QED  BY <2>1, <2>2
  <1>10. ASSUME NEW s, Due(s)' PROVE Due(s)
    <2>1. CASE s \in ended \/ Live(s)'
      BY <1>1, <2>1 DEF Due, ClosedLater, Live
    <2>2. CASE ~(s \in ended \/ Live(s)')
      <3>1. PICK k \in DOMAIN Pipe' : k > 0 /\ Closing(Pipe'[k]) /\ Pipe'[k].stream = s
        BY <1>1, <1>10, <2>2 DEF Due, ClosedLater, Closing
      <3>2. CASE k = 1
        BY <1>5, <1>7, <3>1, <3>2 DEF Due, ClosedLater, Closing
      <3>3. CASE k > 1
        <4>1. k + d \in DOMAIN Pipe /\ Pipe'[k] = Pipe[k + d] /\ k + d > 0
          BY <1>5, <1>8, <3>3
        <4> QED  BY <3>1, <4>1 DEF Due, ClosedLater
      <3> QED  BY <1>8, <3>2, <3>3
    <2> QED  BY <2>1, <2>2
  \* delta j of the merged pipe, or the last that was merged into it
  <1>11. ASSUME NEW j \in DOMAIN Pipe', Pipe'[j].kind = "delta"
         PROVE  j + d \in DOMAIN Pipe /\ Pipe[j + d].kind = "delta" /\ Pipe[j + d].stream = Pipe'[j].stream
    <2>1. CASE j = 1
      <3>1. d + 1 \in 1 .. d + 1 /\ j + d = d + 1
        BY <2>1
      <3> QED  BY <1>5, <1>6, <1>7, <1>11, <2>1, <3>1
    <2>2. CASE j > 1
      BY <1>5, <1>11, <2>2
    <2> QED  BY <1>8, <2>1, <2>2
  <1>12. ASSUME NEW j \in DOMAIN Pipe', Pipe'[j].kind = "delta", NEW i \in DOMAIN Pipe', i < j,
                NEW s, s = Pipe'[i].stream, Pipe'[i].kind = "delta",
                s # Pipe'[j].stream, SameChat(s, Pipe'[j].stream)
         PROVE  ~ClosedLater(s, j)'
    <2>1. /\ i + d \in DOMAIN Pipe /\ Pipe[i + d].kind = "delta" /\ Pipe[i + d].stream = s
          /\ j + d \in DOMAIN Pipe /\ Pipe[j + d].kind = "delta" /\ Pipe[j + d].stream = Pipe'[j].stream
      BY <1>11, <1>12
    <2>2. i + d < j + d
      BY <1>8, <1>12
    <2>3. ~ClosedLater(s, j + d)
      BY <1>12, <2>1, <2>2 DEF CInv, Alternate
    <2> QED  BY <1>9, <2>3
  <1>13. ASSUME NEW j \in DOMAIN Pipe', Pipe'[j].kind = "delta", NEW c \in Chat, buf[c] # NoBuffer,
                c = ChatOf[Pipe'[j].stream[1]], NEW s, s = buf[c].stream, s # Pipe'[j].stream
         PROVE  ~ClosedLater(s, j)'
    <2>1. /\ j + d \in DOMAIN Pipe /\ Pipe[j + d].kind = "delta" /\ Pipe[j + d].stream = Pipe'[j].stream
      BY <1>11, <1>13
    <2>2. ~ClosedLater(s, j + d)
      BY <1>13, <2>1 DEF CInv, Alternate
    <2> QED  BY <1>9, <2>2
  <1>14. Alternate'
    BY <1>1, <1>12, <1>13 DEF Alternate, SameChat
  <1>15. ASSUME NEW p, InPipe(p) PROVE InPipe(p)'
    <2>1. PICK i \in DOMAIN Pipe : Pipe[i].kind = "delta" /\ p \in ToSet(Pipe[i].text)
      BY <1>15 DEF InPipe
    <2>2. PICK n \in Nat : n = Len(Pipe)
      BY <1>8
    <2>3. DOMAIN Pipe = 1 .. n /\ DOMAIN Pipe' = 1 .. n - d /\ i \in Nat
      BY <1>3, <1>8, <2>2 DEF Fused
    <2>4. CASE i <= d + 1 /\ Pipe[1].kind = "delta"
      <3>1. i \in 1 .. d + 1
        BY <2>3, <2>4
      <3>2. p = Pipe[i].text[1]
        <4>1. Pipe[i].text \in Seq(Piece) /\ Len(Pipe[i].text) = 1
          BY <1>2, <1>6, <2>4, <3>1, EventType
        <4> QED  BY <2>1, <4>1 DEF ToSet
      <3>3. p \in ToSet(Pipe'[1].text)
        BY <1>6, <2>4, <3>1, <3>2 DEF ToSet
      <3> QED  BY <1>5, <1>7, <2>4, <3>3 DEF InPipe
    <2>5. CASE ~(i <= d + 1 /\ Pipe[1].kind = "delta")
      <3>1. i > d + 1
        <4>1. CASE Pipe[1].kind = "delta"
          BY <2>3, <2>5, <4>1
        <4>2. CASE Pipe[1].kind # "delta"
          <5>1. d = 0 /\ i # 1
            BY <1>7, <2>1, <4>2
          <5> QED  BY <2>3, <5>1
        <4> QED  BY <4>1, <4>2
      <3>2. PICK j \in Nat : j = i - d
        BY <2>3, <3>1
      <3>3. j \in DOMAIN Pipe' /\ j > 1 /\ j + d = i
        BY <2>3, <3>1, <3>2
      <3>4. Pipe'[j] = Pipe[i]
        BY <1>5, <3>3
      <3> QED  BY <2>1, <3>3, <3>4 DEF InPipe
    <2> QED  BY <2>4, <2>5
  <1>16. Whereabouts'
    <2>1. ASSUME NEW p \in written, Due(p.stream)'
          PROVE  (p \in lost \/ Shown(p) \/ InPipe(p) \/ InBuffer(p))'
      <3>1. p \in lost \/ Shown(p) \/ InPipe(p) \/ InBuffer(p)
        BY <1>10, <2>1 DEF CInv, Whereabouts
      <3> QED  BY <1>1, <1>15, <3>1 DEF Shown, InBuffer
    <2> QED  BY <1>1, <2>1 DEF Whereabouts
  <1>17. StreamComplete'
    BY <1>1 DEF CInv, StreamComplete
  <1> QED  BY <1>2, <1>14, <1>16, <1>17 DEF CInv

\* No message but the one that leaves is gone from the pipe.
LEMMA Kept ==
    ASSUME Queues, Leaves \/ Retries, NEW i \in DOMAIN Pipe, ~(Leaves /\ i = 1)
    PROVE  \E j \in DOMAIN Pipe' : Pipe'[j] = Pipe[i]
  <1>1. CASE Retries
    <2>1. sending \in [msg : Event, attempt : 1 .. MaxTries] /\ sending' = [sending EXCEPT !.attempt = @ + 1]
      BY <1>1 DEF Queues, Retries
    <2>2. sending' = [msg |-> sending.msg, attempt |-> sending.attempt + 1]
      BY <2>1
    <2>3. sending' # Nothing /\ sending'.msg = sending.msg
      BY <2>2, NoMessage
    <2>4. Now' = Now
      BY <1>1, <2>3 DEF Now, Retries
    <2>5. Pipe' = Pipe
      BY <1>1, <2>4 DEF Pipe, Retries
    <2> QED  BY <2>5
  <1>2. CASE Leaves
    <2>1. Len(Pipe) \in Nat \ {0} /\ Len(Pipe') = Len(Pipe) - 1 /\ \A j \in DOMAIN Pipe' : Pipe'[j] = Pipe[j + 1]
      BY <1>2, Left DEF Leaves
    <2>2. Pipe \in Seq(Event) /\ Pipe' \in Seq(Event)
      BY After, PipeType
    <2>3. PICK n \in Nat : n = Len(Pipe)
      BY <2>1
    <2>4. DOMAIN Pipe = 1 .. n /\ DOMAIN Pipe' = 1 .. n - 1
      BY <2>1, <2>2, <2>3
    <2>5. PICK j \in Nat : j = i - 1
      BY <2>4
    <2>6. j \in DOMAIN Pipe' /\ j + 1 = i
      BY <1>2, <2>4, <2>5
    <2> QED  BY <2>1, <2>6
  <1> QED  BY <1>1, <1>2

\* What becomes of the pieces of message m and of the buffers when m is tried
Hands(m) ==
    /\ \A p \in written : Shown(p) => Shown(p)'
    /\ \A c \in Chat :
         \/ buf'[c] = buf[c]
         \/ /\ m.kind = "delta" /\ c = ChatOf[m.stream[1]] /\ buf'[c].stream = m.stream
            /\ buf[c] # NoBuffer /\ buf[c].stream = m.stream =>
                 ToSet(buf[c].text) \subseteq ToSet(buf'[c].text) /\ (buf[c].at # 0 => buf'[c].at # 0)
         \/ buf'[c] = NoBuffer /\ \A p \in ToSet(buf[c].text) : Shown(p)'
    /\ m.kind = "delta" /\ Leaves => \A p \in ToSet(m.text) : p \in lost' \/ InBuffer(p)'
    /\ ended' # ended =>
         \A c \in Chat : buf[c].at # 0 /\ buf[c].stream = m.stream => \A p \in ToSet(buf[c].text) : Shown(p)'

LEMMA HandsKeep ==
    ASSUME CInv, IInv', Delivers, NEW m, m = sending.msg, Hands(m)
    PROVE  CInv'
  <1>1. /\ IInv /\ Queues /\ (Leaves \/ Retries)
        /\ UNCHANGED <<turn, written>> /\ lost \subseteq lost'
    BY DEF CInv, IInv, Types, Delivers
  <1>2. /\ sending # Nothing /\ 1 \in DOMAIN Pipe /\ Pipe[1] = m /\ m \in Event
        /\ Message(m)
    <2>1. sending # Nothing
      BY <1>1 DEF Leaves, Retries
    <2>2. 1 \in DOMAIN Pipe /\ Pipe[1] = m /\ m \in Event
      BY <1>1, <2>1, Tried
    <2> QED  BY <1>1, <2>1, <2>2 DEF IInv, Messages
  <1>3. Pipe' \in Seq(Event) /\ Pipe \in Seq(Event) /\ DOMAIN Pipe \subseteq Nat /\ DOMAIN Pipe' \subseteq Nat
    <2>1. Pipe' \in Seq(Event) /\ Pipe \in Seq(Event)
      BY <1>1, After, PipeType
    <2> QED  BY <2>1
  <1>4. PICK d \in {0, 1} : (Leaves => d = 1) /\ (Retries => d = 0)
    BY <1>1, After
  <1>5. ASSUME NEW j \in DOMAIN Pipe'
        PROVE  j + d \in DOMAIN Pipe /\ Pipe'[j] = Pipe[j + d] /\ j \in Nat /\ j >= 1
    <2>1. PICK k \in DOMAIN Pipe : Pipe'[j] = Pipe[k] /\ (Leaves => k = j + 1) /\ (Retries => k = j)
      BY <1>1, After
    <2>2. j \in Nat /\ j >= 1
      BY <1>3
    <2>3. k = j + d
      BY <1>1, <1>4, <2>1, <2>2
    <2> QED  BY <2>1, <2>2, <2>3
  <1>6. ASSUME NEW s, NEW j \in Nat, ClosedLater(s, j)'
        PROVE  ClosedLater(s, j + d)
    <2>1. CASE Live(s)'
      BY <1>1, <2>1 DEF ClosedLater, Live
    <2>2. CASE ~Live(s)'
      <3>1. PICK k \in DOMAIN Pipe' : k > j /\ Closing(Pipe'[k]) /\ Pipe'[k].stream = s
        BY <1>6, <2>2 DEF ClosedLater, Closing
      <3>2. k + d \in DOMAIN Pipe /\ Pipe'[k] = Pipe[k + d] /\ k + d > j + d
        BY <1>4, <1>5, <3>1
      <3> QED  BY <3>1, <3>2 DEF ClosedLater
    <2> QED  BY <2>1, <2>2
  \* when m is a delta, no end of a stream is at the head of the pipe
  <1>7. ASSUME NEW s, m.kind = "delta", ClosedLater(s, 0)'
        PROVE  ClosedLater(s, 1)
    <2>1. ClosedLater(s, d)
      BY <1>4, <1>6, <1>7
    <2>2. CASE d = 1
      BY <2>1, <2>2
    <2>3. CASE d = 0
      <3>1. SUFFICES ASSUME ~Live(s) PROVE ClosedLater(s, 1)
        BY DEF ClosedLater
      <3>2. PICK k \in DOMAIN Pipe : k > 0 /\ Closing(Pipe[k]) /\ Pipe[k].stream = s
        BY <2>1, <2>3, <3>1 DEF ClosedLater
      <3>3. k # 1
        BY <1>2, <1>7, <3>2 DEF Closing
      <3>4. k > 1
        BY <1>3, <3>2, <3>3
      <3> QED  BY <3>2, <3>4 DEF ClosedLater
    <2> QED  BY <1>4, <2>2, <2>3
  <1>8. ASSUME NEW s, Due(s)' PROVE Due(s)
    <2>1. CASE s \in ended
      BY <2>1 DEF Due
    <2>2. CASE s \in ended' /\ s \notin ended
      <3>1. Closing(m) /\ s = m.stream
        BY <1>2, <2>2 DEF Delivers
      <3>2. ClosedLater(s, 0)
        BY <1>2, <3>1 DEF ClosedLater
      <3> QED  BY <3>2 DEF Due
    <2>3. CASE s \notin ended'
      <3>1. ClosedLater(s, d)
        BY <1>4, <1>6, <1>8, <2>3 DEF Due
      <3>2. ClosedLater(s, 0)
        BY <1>3, <1>4, <3>1 DEF ClosedLater
      <3> QED  BY <3>2 DEF Due
    <2> QED  BY <2>1, <2>2, <2>3
  <1>9. Alternate'
    <2>1. ASSUME NEW j \in DOMAIN Pipe', Pipe'[j].kind = "delta", NEW i \in DOMAIN Pipe', i < j,
                 NEW s, s = Pipe'[i].stream, Pipe'[i].kind = "delta",
                 s # Pipe'[j].stream, SameChat(s, Pipe'[j].stream)
          PROVE  ~ClosedLater(s, j)'
      <3>1. /\ i + d \in DOMAIN Pipe /\ Pipe[i + d] = Pipe'[i] /\ j + d \in DOMAIN Pipe
            /\ Pipe[j + d] = Pipe'[j] /\ i + d < j + d /\ j \in Nat
        BY <1>4, <1>5, <2>1
      <3>2. ~ClosedLater(s, j + d)
        BY <2>1, <3>1 DEF CInv, Alternate
      <3> QED  BY <1>6, <3>1, <3>2
    <2>2. ASSUME NEW j \in DOMAIN Pipe', Pipe'[j].kind = "delta", NEW c \in Chat, buf'[c] # NoBuffer,
                 c = ChatOf[Pipe'[j].stream[1]], NEW s, s = buf'[c].stream, s # Pipe'[j].stream
          PROVE  ~ClosedLater(s, j)'
      <3>1. j + d \in DOMAIN Pipe /\ Pipe[j + d] = Pipe'[j] /\ j \in Nat /\ j >= 1
        BY <1>5
      <3>2. CASE buf'[c] = buf[c]
        <4>1. ~ClosedLater(s, j + d)
          BY <2>2, <3>1, <3>2 DEF CInv, Alternate
        <4> QED  BY <1>6, <3>1, <4>1
      <3>3. CASE m.kind = "delta" /\ c = ChatOf[m.stream[1]] /\ buf'[c].stream = m.stream
        <4>1. j + d # 1
          BY <1>2, <2>2, <3>1, <3>3
        <4>2. 1 < j + d
          BY <1>4, <3>1, <4>1
        <4>3. SameChat(s, Pipe'[j].stream) /\ s = Pipe[1].stream /\ Pipe[1].kind = "delta"
          BY <1>2, <2>2, <3>3 DEF SameChat
        <4>4. ~ClosedLater(s, j + d)
          BY <1>2, <2>2, <3>1, <4>2, <4>3 DEF CInv, Alternate
        <4> QED  BY <1>6, <3>1, <4>4
      <3> QED  BY <2>2, <3>2, <3>3 DEF Hands
    <2> QED  BY <2>1, <2>2 DEF Alternate, SameChat
  \* a piece of the buffer, when its stream is still due
  <1>10. ASSUME NEW p \in written, Due(p.stream)', NEW c \in Chat, buf[c].at # 0, p \in ToSet(buf[c].text)
         PROVE  (p \in lost \/ Shown(p) \/ InBuffer(p))'
    <2>1. buf[c] # NoBuffer
      BY <1>10 DEF NoBuffer
    <2>2. p.stream = buf[c].stream /\ ChatOf[p.stream[1]] = c
      BY <1>1, <1>10, <2>1 DEF IInv, Buffers, Buffer
    <2>3. CASE buf'[c] = buf[c]
      BY <1>10, <2>3 DEF InBuffer
    <2>4. CASE buf'[c] = NoBuffer /\ \A q \in ToSet(buf[c].text) : Shown(q)'
      BY <1>10, <2>4
    <2>5. CASE /\ m.kind = "delta" /\ c = ChatOf[m.stream[1]] /\ buf'[c].stream = m.stream
               /\ buf[c].stream = m.stream
      <3>1. \/ ToSet(buf[c].text) \subseteq ToSet(buf'[c].text) /\ buf'[c].at # 0
            \/ buf'[c] = buf[c]
            \/ buf'[c] = NoBuffer /\ \A q \in ToSet(buf[c].text) : Shown(q)'
        BY <1>10, <2>1, <2>5 DEF Hands
      <3> QED  BY <1>10, <2>3, <2>4, <3>1 DEF InBuffer
    <2>6. CASE m.kind = "delta" /\ c = ChatOf[m.stream[1]] /\ buf[c].stream # m.stream
      <3>1. ~ClosedLater(p.stream, 1)
        BY <1>2, <2>1, <2>2, <2>6 DEF CInv, Alternate
      <3>2. ~ClosedLater(p.stream, 0)'
        BY <1>7, <2>6, <3>1
      <3>3. p.stream \in ended
        <4>1. ~Closing(m)
          BY <2>6 DEF Closing
        <4> QED  BY <1>2, <1>10, <3>2, <4>1 DEF Due, Delivers
      <3>4. p \in lost \/ Shown(p)
        BY <1>10, <3>3 DEF CInv, StreamComplete, Shown
      <3> QED  BY <1>1, <1>10, <3>4 DEF Hands
    <2> QED  BY <2>3, <2>4, <2>5, <2>6 DEF Hands
  <1>11. ASSUME NEW p \in written, Due(p.stream)'
         PROVE  (p \in lost \/ Shown(p) \/ InPipe(p) \/ InBuffer(p))'
    <2>1. p \in lost \/ Shown(p) \/ InPipe(p) \/ InBuffer(p)
      BY <1>8, <1>11 DEF CInv, Whereabouts
    <2>2. CASE p \in lost \/ Shown(p)
      BY <1>1, <1>11, <2>2 DEF Hands
    <2>3. CASE InPipe(p)
      <3>1. PICK i \in DOMAIN Pipe : Pipe[i].kind = "delta" /\ p \in ToSet(Pipe[i].text)
        BY <2>3 DEF InPipe
      <3>2. CASE Leaves /\ i = 1
        BY <1>2, <3>1, <3>2 DEF Hands
      <3>3. CASE ~(Leaves /\ i = 1)
        <4>1. \E j \in DOMAIN Pipe' : Pipe'[j] = Pipe[i]
          BY <1>1, <3>3, Kept
        <4> QED  BY <3>1, <4>1 DEF InPipe
      <3> QED  BY <3>2, <3>3
    <2>4. CASE InBuffer(p)
      <3>1. PICK c \in Chat : buf[c].at # 0 /\ p \in ToSet(buf[c].text)
        BY <2>4 DEF InBuffer
      <3> QED  BY <1>10, <1>11, <3>1
    <2> QED  BY <2>1, <2>2, <2>3, <2>4
  <1>12. ASSUME NEW p \in written, p.stream \in ended'
         PROVE  (p \in lost \/ Shown(p))'
    <2>1. CASE p.stream \in ended
      <3>1. p \in lost \/ Shown(p)
        BY <1>12, <2>1 DEF CInv, StreamComplete, Shown
      <3> QED  BY <1>1, <1>12, <3>1 DEF Hands
    <2>2. CASE p.stream \notin ended
      <3>1. Closing(m) /\ p.stream = m.stream /\ ended' # ended
        BY <1>2, <1>12, <2>2 DEF Delivers
      <3>2. Due(p.stream)
        BY <1>8, <1>12 DEF Due
      <3>3. ~InPipe(p)
        <4>1. SUFFICES ASSUME InPipe(p) PROVE FALSE
          OBVIOUS
        <4>2. PICK i \in DOMAIN Pipe : Pipe[i].kind = "delta" /\ p \in ToSet(Pipe[i].text)
          BY <4>1 DEF InPipe
        <4>3. p.stream = Pipe[i].stream
          BY <1>1, <4>2 DEF IInv, Messages, Message, ToSet
        <4>4. i # 1
          BY <1>2, <3>1, <4>2 DEF Closing
        <4>5. 1 < i
          BY <1>3, <4>4
        <4>6. Follows(Pipe[1], Pipe[i])
          BY <1>1, <1>2, <4>5 DEF IInv, Order
        <4> QED  BY <1>2, <3>1, <4>2, <4>3, <4>6 DEF Follows
      <3>4. p \in lost \/ Shown(p) \/ InBuffer(p)
        BY <3>2, <3>3 DEF CInv, Whereabouts
      <3>5. CASE InBuffer(p)
        <4>1. PICK c \in Chat : buf[c].at # 0 /\ p \in ToSet(buf[c].text)
          BY <3>5 DEF InBuffer
        <4>2. buf[c] # NoBuffer
          BY <4>1 DEF NoBuffer
        <4>3. buf[c].stream = p.stream
          BY <1>1, <4>1, <4>2 DEF IInv, Buffers, Buffer
        <4> QED  BY <3>1, <4>1, <4>3 DEF Hands
      <3> QED  BY <1>1, <1>12, <3>4, <3>5 DEF Hands
    <2> QED  BY <2>1, <2>2
  <1> QED  BY <1>1, <1>9, <1>11, <1>12 DEF CInv, Whereabouts, StreamComplete, Shown

LEMMA StaysShown ==
    ASSUME NEW i, NEW c, NEW s, NEW text, Writes(i, c, s, text)
    PROVE  /\ \A p : Shown(p) => Shown(p)'
           /\ \A p \in ToSet(text) : Shown(p)'
  <1>1. i \in DOMAIN screen' /\ screen'[i].text = text
    BY DEF Writes
  <1>2. \A p \in ToSet(text) : Shown(p)'
    BY <1>1 DEF Shown
  <1>3. ASSUME NEW p, Shown(p) PROVE Shown(p)'
    <2>1. PICK j \in DOMAIN screen : p \in ToSet(screen[j].text)
      BY <1>3 DEF Shown
    <2>2. CASE j = i
      <3>1. p \in ToSet(text)
        BY <2>1, <2>2 DEF Writes
      <3> QED  BY <1>2, <3>1
    <2>3. CASE j # i
      <3>1. j \in DOMAIN screen' /\ screen'[j] = screen[j]
        BY <2>1, <2>3 DEF Writes
      <3> QED  BY <2>1, <3>1 DEF Shown
    <2> QED  BY <2>2, <2>3
  <1> QED  BY <1>2, <1>3

\* A delta takes the buffer of its chat.
LEMMA DeltaHands ==
    ASSUME IInv, Leaves \/ Retries, NEW m, m = sending.msg, m.kind = "delta", NEW c \in Chat, c = ChatOfMsg(m),
           NEW b, b = Joined(m), NEW at \in Nat, b.at # 0 => at = b.at,
           buf' = [buf EXCEPT ![c] = [b EXCEPT !.at = at]], ended' = ended,
           \A p \in written : Shown(p) => Shown(p)',
           Leaves => at # 0 \/ \A p \in ToSet(m.text) : p \in lost'
    PROVE  Hands(m)
  <1>1. sending # Nothing /\ buf \in [Chat -> Buffered]
    BY DEF Leaves, Retries, IInv, Types
  <1>2. /\ b \in Buffered /\ b.stream = m.stream /\ ToSet(m.text) \subseteq ToSet(b.text)
        /\ buf[c] # NoBuffer /\ buf[c].stream = b.stream =>
             b.at = buf[c].at /\ ToSet(buf[c].text) \subseteq ToSet(b.text)
    BY <1>1, JoinedBuffer
  <1>3. PICK n : n = [b EXCEPT !.at = at]
    OBVIOUS
  <1>4. n \in Buffered /\ n.stream = m.stream /\ n.text = b.text /\ n.at = at
    BY <1>2, <1>3 DEF Buffered
  <1>5. buf'[c] = n /\ \A e \in Chat : e # c => buf'[e] = buf[e]
    BY <1>1, <1>3, <1>4
  <1>6. c = ChatOf[m.stream[1]]
    BY DEF ChatOfMsg
  <1>7. ASSUME buf[c] # NoBuffer, buf[c].stream = m.stream
        PROVE  ToSet(buf[c].text) \subseteq ToSet(buf'[c].text) /\ (buf[c].at # 0 => buf'[c].at # 0)
    BY <1>2, <1>4, <1>5, <1>7
  <1>8. ASSUME Leaves, NEW p \in ToSet(m.text)
        PROVE  p \in lost' \/ InBuffer(p)'
    <2>1. CASE at # 0
      <3>1. buf'[c].at # 0 /\ p \in ToSet(buf'[c].text)
        BY <1>2, <1>4, <1>5, <1>8, <2>1
      <3> QED  BY <3>1 DEF InBuffer
    <2> QED  BY <1>8, <2>1
  <1> QED  BY <1>4, <1>5, <1>6, <1>7, <1>8 DEF Hands

LEMMA SendHands ==
    ASSUME IInv, Send, NEW m, m = sending.msg
    PROVE  Hands(m)
  <1>1. Leaves /\ sending # Nothing /\ Types /\ Queues
    BY SendIsDelivery DEF Leaves, IInv, Types
  <1>2. PICK c \in Chat : c = ChatOfMsg(m)
    BY <1>1, Tried
  <1>3. 1 \in DOMAIN Pipe /\ Pipe[1] = m /\ Message(m) /\ m.text \in Seq(Piece)
    <2>1. 1 \in DOMAIN Pipe /\ Pipe[1] = m /\ m.text \in Seq(Piece)
      BY <1>1, Tried
    <2> QED  BY <2>1 DEF IInv, Messages
  <1>4. ended' = ended \cup {s \in {m.stream} : Closing(m)}
    BY DEF Send, Closing
  <1>5. CASE m.kind = "delta"
    <2>1. PICK b : b = Joined(m)
      OBVIOUS
    <2>2. b \in Buffered /\ Buffer(b, c) /\ b.stream = m.stream
      BY <1>1, <1>2, <1>5, <2>1, JoinedBuffer
    <2>3. SendDelta(c, b)
      <3>1. SendDelta(ChatOfMsg(sending.msg), Joined(sending.msg))
        BY <1>5, SMTT(30) DEF Send, SendDelta, Open, Edit, channel, Closes
      <3> QED  BY <1>2, <2>1, <3>1
    <2>4. ended' = ended
      BY <1>4, <1>5 DEF Closing
    <2>5. CASE b.at = 0
      <3>1. Open(c, b.text) /\ buf' = [buf EXCEPT ![c] = [b EXCEPT !.at = Len(screen) + 1]]
        BY <2>3, <2>5 DEF SendDelta
      <3>2. PICK text \in Seq(Piece) \ {<<>>} : text = b.text
        BY <2>2 DEF Buffered, Buffer
      <3>3. PICK s : s = b.stream
        OBVIOUS
      <3>4. PICK i : i = Len(screen) + 1
        OBVIOUS
      <3>5. Writes(i, c, s, text) /\ i \in Nat \ {0}
        BY <1>1, <1>3, <2>2, <3>1, <3>2, <3>3, <3>4, Opened DEF Buffer
      <3>6. \A p \in written : Shown(p) => Shown(p)'
        BY <3>5, StaysShown
      <3> QED  BY <1>1, <1>2, <1>5, <2>1, <2>4, <2>5, <3>1, <3>4, <3>5, <3>6, DeltaHands
    <2>6. CASE b.at # 0
      <3>1. (Edit(b) \/ UNCHANGED screen) /\ buf' = [buf EXCEPT ![c] = b]
        BY <2>3, <2>6 DEF SendDelta
      <3>2. PICK at \in Nat : at = b.at
        BY <2>2 DEF Buffered
      <3>3. b = [b EXCEPT !.at = at]
        BY <2>2, <3>2 DEF Buffered
      <3>4. \A p \in written : Shown(p) => Shown(p)'
        <4>1. CASE UNCHANGED screen
          BY <4>1 DEF Shown
        <4>2. CASE Edit(b)
          <5>1. Writes(b.at, c, b.stream, b.text)
            BY <1>1, <2>2, <2>6, <4>2, Edited
          <5> QED  BY <5>1, StaysShown
        <4> QED  BY <3>1, <4>1, <4>2
      <3>5. buf' = [buf EXCEPT ![c] = [b EXCEPT !.at = at]]
        BY <3>1, <3>3
      <3> QED  BY <1>1, <1>2, <1>5, <2>1, <2>4, <2>6, <3>2, <3>4, <3>5, DeltaHands
    <2> QED  BY <2>5, <2>6
  <1>6. CASE m.kind = "reply"
    <2>1. Open(c, m.text) /\ UNCHANGED buf
      <3>1. Open(ChatOfMsg(sending.msg), sending.msg.text) /\ UNCHANGED buf
        BY <1>6, SMTT(30) DEF Send, SendDelta, Open, Edit, channel, Closes
      <3> QED  BY <1>2, <3>1
    <2>2. \A p : Shown(p) => Shown(p)'
      <3>1. PICK text : text = m.text
        OBVIOUS
      <3>2. PICK line : line = [chat |-> c, text |-> text]
        OBVIOUS
      <3>3. text \in Seq(Piece) \ {<<>>}
        BY <1>3, <1>6, <3>1 DEF Message
      <3> DEFINE Line == [chat : Chat, text : Seq(Piece) \ {<<>>}]
      <3>4. line \in Line /\ screen \in Seq(Line) /\ screen' = Append(screen, line)
        BY <1>1, <2>1, <3>1, <3>2, <3>3 DEF Types, Open
      <3> HIDE DEF Line
      <3>5. \A j \in DOMAIN screen : j \in DOMAIN screen' /\ screen'[j] = screen[j]
        BY <3>4
      <3> QED  BY <3>5 DEF Shown
    <2>3. ended' = ended
      BY <1>4, <1>6 DEF Closing
    <2> QED  BY <1>6, <2>1, <2>2, <2>3 DEF Hands
  <1>7. CASE Closes(m)
    <2>1. m.kind = "end" /\ Edit(buf[c]) /\ buf' = [buf EXCEPT ![c] = NoBuffer]
      BY <1>2, <1>7 DEF Send, Closes
    <2>2. PICK b : b = buf[c]
      OBVIOUS
    <2>3. b.at # 0 /\ b \in Buffered /\ b # NoBuffer
      BY <1>1, <1>2, <1>7, <2>2 DEF Closes, Types, NoBuffer
    <2>4. Buffer(b, c)
      BY <2>2, <2>3 DEF IInv, Buffers
    <2>5. Writes(b.at, c, b.stream, b.text)
      BY <1>1, <2>1, <2>2, <2>3, <2>4, Edited
    <2>6. /\ \A p : Shown(p) => Shown(p)'
          /\ \A p \in ToSet(b.text) : Shown(p)'
      BY <2>5, StaysShown
    <2>7. buf'[c] = NoBuffer /\ \A d \in Chat : d # c => buf'[d] = buf[d]
      BY <1>1, <2>1 DEF Types
    <2>8. ASSUME NEW d \in Chat, buf[d].at # 0, buf[d].stream = m.stream
          PROVE  d = c
      <3>1. buf[d] # NoBuffer
        BY <2>8 DEF NoBuffer
      <3>2. ChatOf[m.stream[1]] = d
        BY <2>8, <3>1 DEF IInv, Buffers, Buffer
      <3> QED  BY <1>2, <3>2 DEF ChatOfMsg
    <2> QED  BY <2>1, <2>2, <2>6, <2>7, <2>8 DEF Hands
  <1>8. CASE m.kind \notin {"delta", "reply"} /\ ~Closes(m)
    <2>1. UNCHANGED <<buf, screen>>
      BY <1>8 DEF Send, channel
    <2>2. ASSUME ended' # ended, NEW d \in Chat, buf[d].at # 0, buf[d].stream = m.stream
          PROVE  FALSE
      <3>1. Closing(m)
        BY <1>4, <2>2
      <3>2. buf[d] # NoBuffer
        BY <2>2 DEF NoBuffer
      <3>3. ChatOf[m.stream[1]] = d
        BY <2>2, <3>2 DEF IInv, Buffers, Buffer
      <3>4. d = ChatOfMsg(m)
        BY <3>3 DEF ChatOfMsg
      <3> QED  BY <1>8, <2>2, <3>1, <3>4 DEF Closes, Closing
    <2> QED  BY <1>8, <2>1, <2>2 DEF Hands, Shown
  <1> QED  BY <1>5, <1>6, <1>7, <1>8

LEMMA SendFailsHands ==
    ASSUME IInv, SendFails, NEW m, m = sending.msg
    PROVE  Hands(m) /\ Delivers
  <1>1. /\ sending # Nothing /\ Types /\ Queues
        /\ UNCHANGED <<turn, screen, ended, written>> /\ Delivers /\ (Leaves \/ Retries)
    BY SendFailsIsDelivery DEF SendFails, IInv, Types, Delivers
  <1>2. PICK c \in Chat : c = ChatOfMsg(m)
    BY <1>1, Tried
  <1>3. \A p \in written : Shown(p) => Shown(p)'
    BY <1>1 DEF Shown
  <1>4. CASE m.kind = "delta"
    <2>1. PICK b : b = Joined(m)
      OBVIOUS
    <2>2. b \in Buffered
      BY <1>1, <1>2, <1>4, <2>1, JoinedBuffer
    <2>3. buf' = [buf EXCEPT ![c] = b]
      BY <1>2, <1>4, <2>1 DEF SendFails
    <2>4. PICK at \in Nat : at = b.at
      BY <2>2 DEF Buffered
    <2>5. b = [b EXCEPT !.at = at]
      BY <2>2, <2>4 DEF Buffered
    <2>6. buf' = [buf EXCEPT ![c] = [b EXCEPT !.at = at]]
      BY <2>3, <2>5
    <2>7. Leaves => \A p \in ToSet(m.text) : p \in lost'
      <3>1. SUFFICES ASSUME Leaves PROVE \A p \in ToSet(m.text) : p \in lost'
        OBVIOUS
      <3>2. sending.attempt >= MaxTries
        <4>1. SUFFICES ASSUME ~(sending.attempt >= MaxTries) PROVE FALSE
          OBVIOUS
        <4>2. sending \in [msg : Event, attempt : 1 .. MaxTries] /\ sending' = [sending EXCEPT !.attempt = @ + 1]
          BY <1>1, <4>1 DEF SendFails, Queues
        <4>3. sending' = [msg |-> sending.msg, attempt |-> sending.attempt + 1]
          BY <4>2
        <4> QED  BY <3>1, <4>3, NoMessage DEF Leaves
      <3> QED  BY <1>4, <3>2 DEF SendFails
    <2> QED  BY <1>1, <1>2, <1>3, <1>4, <2>1, <2>4, <2>6, <2>7, DeltaHands
  <1>5. CASE m.kind # "delta"
    <2>1. buf' = buf
      BY <1>5 DEF SendFails
    <2> QED  BY <1>1, <1>3, <1>5, <2>1 DEF Hands
  <1> QED  BY <1>1, <1>4, <1>5

LEMMA InitPieces ==
    ASSUME Init
    PROVE  CInv
  <1>1. IInv
    BY InitInv
  <1>2. Pipe = <<>> /\ DOMAIN Pipe = {} /\ written = {}
    BY ConcatEmptySeq DEF Init, Pipe, Now
  <1> QED  BY <1>1, <1>2 DEF CInv, Alternate, Whereabouts, StreamComplete

LEMMA StepPieces ==
    ASSUME OneSessionPerChat, CInv, [Next]_vars
    PROVE  CInv'
  <1>1. CASE Take
    BY <1>1, TakeKeepsPieces
  <1>2. CASE Send
    BY <1>2, SendKeeps, SendIsDelivery, SendHands, HandsKeep DEF CInv
  <1>3. CASE SendFails
    BY <1>3, SendFailsKeeps, SendFailsHands, HandsKeep DEF CInv
  <1>4. ASSUME NEW t \in Turn, TurnStep(t)
        PROVE  CInv'
    BY <1>4, TurnKeepsPieces
  <1>5. CASE UNCHANGED vars
    <2>1. UNCHANGED <<turn, outbound, pending, sending, buf, screen, faults, ends, written, lost, ended>>
      BY <1>5 DEF vars
    <2>2. Pipe' = Pipe /\ IInv'
      BY <1>5, <2>1, StepInv DEF Pipe, Now, CInv
    <2>3. \A s, j : ClosedLater(s, j)' = ClosedLater(s, j)
      BY <2>1, <2>2 DEF ClosedLater, Live, Closing
    <2>4. Alternate'
      BY <2>1, <2>2, <2>3 DEF CInv, Alternate, SameChat
    <2>5. Whereabouts'
      BY <2>1, <2>2, <2>3 DEF CInv, Whereabouts, Due, Shown, InPipe, InBuffer
    <2> QED  BY <2>1, <2>2, <2>4, <2>5 DEF CInv, StreamComplete
  <1> QED  BY <1>1, <1>2, <1>3, <1>4, <1>5 DEF Next, Dispatch

\* When the turns of a chat run one after the other, a chat shows all of a stream
\* whose end was sent but for pieces that were given up, however edits are left
\* out, attempts fail and deltas of other chats come in between.  With two
\* sessions in a chat this does not hold: one takes the buffer of the other.
THEOREM StreamsAreShown == OneSessionPerChat => (Spec => []StreamComplete)
  <1>1. OneSessionPerChat /\ CInv /\ [Next]_vars => CInv'
    BY StepPieces
  <1>2. Init => CInv
    BY InitPieces
  <1>3. CInv => StreamComplete
    BY DEF CInv
  <1>4. OneSessionPerChat => (Spec => []StreamComplete)
    <2>1. SUFFICES ASSUME OneSessionPerChat PROVE Spec => []StreamComplete
      OBVIOUS
    <2>2. CInv /\ [Next]_vars => CInv'
      BY <1>1, <2>1
    <2> QED  BY <1>2, <1>3, <2>2, PTL DEF Spec
  <1> QED  BY <1>4
=============================================================================
