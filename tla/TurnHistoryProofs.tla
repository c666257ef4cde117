------------------------- MODULE TurnHistoryProofs -------------------------
(* The history of a session through its turns: what TurnHistory promises     *)
(* holds for any number of turns, follow-ups, responses, crashes and failed  *)
(* writes.                                                                   *)
EXTENDS TurnHistory, TLAPS

USE HistoryAssumption

-----------------------------------------------------------------------------
(* What is invariant *)

Work == {"calls", "result", "final", "interrupted"}

\* Of a history: `begun' are the turns that may have rows, `told' the
\* follow-ups, `cut' the turns that were cut, `bare' those that end without an
\* answer.
PairedRows(log) ==
    \A i \in DOMAIN log :
        /\ log[i].kind = "calls" =>
             /\ i < Len(log)
             /\ log[i+1].kind \in {"result", "interrupted"}
             /\ log[i+1].n = log[i].n
        /\ log[i].kind \in {"result", "interrupted"} =>
             i > 1 /\ log[i-1].kind = "calls" /\ log[i-1].n = log[i].n

RowsKnown(log, b, told) ==
    \A i \in DOMAIN log :
        /\ log[i].who \subseteq b \cup told
        /\ log[i].kind \in Work => log[i].who \subseteq b
        /\ log[i].kind = "user" => log[i].n = 0

NotesFollow(log) ==
    \A i \in DOMAIN log :
        log[i].kind = "note" => i > 1 /\ log[i] = NoteRow(log[i-1]) /\ log[i-1].kind = "user"

Truthful(log, c) ==
    \A i \in DOMAIN log :
        log[i].kind \in {"interrupted", "note"} => log[i].who \cap c # {}

\* A prompt of a turn that owes an answer
Owed(row, r) == row.kind = "user" /\ row.who \cap (Turn \ r) # {}

ClosedRows(log, r) ==
    \A i \in 1 .. Len(log) - 1 : Owed(log[i], r) => log[i+1].kind # "user"

SoundLog(log, b, told, c, r) ==
    /\ PairedRows(log)
    /\ RowsKnown(log, b, told)
    /\ IsInjective(log)
    /\ NotesFollow(log)
    /\ Truthful(log, c)
    /\ ClosedRows(log, r)

\* Of a session: `open' are the turns that were cut or still run.
SoundCheckpoint(s, b, open) ==
    /\ s.ck.who \subseteq b
    /\ s.ck.phase # "none" =>
         /\ s.ck.who \cap open # {}
         /\ \A i \in DOMAIN s.log : s.log[i].kind \in Work => s.log[i].who # s.ck.who

SoundMark(s, open, r) ==
    EndsWith(s.log, "user") =>
        /\ s.mark => Last(s.log).who \cap open # {}
        /\ Owed(Last(s.log), r) => s.mark

Sound(s, b, told, c, open, r) ==
    /\ SoundLog(s.log, b, told, c, r)
    /\ SoundCheckpoint(s, b, open)
    /\ SoundMark(s, open, r)

Told == {f \in Follow : took[f] \notin {NoTurn, turn}}
Open == cut \cup ({turn} \ {NoTurn})

\* The turn in progress has no row of its own yet, but for its prompt.
FreshTurn ==
    stage # "idle" =>
        /\ turn \in begun
        /\ \A i \in DOMAIN mem.log : mem.log[i].kind \in Work => mem.log[i].who # {turn}
        /\ EndsWith(mem.log, "user") => Last(mem.log).who \cap (Turn \ bare) \subseteq {turn}
        /\ stage = "restored" =>
             /\ mem.ck.phase = "none"
             /\ ~mem.mark
             /\ \A i \in DOMAIN mem.log : turn \notin mem.log[i].who

\* Of the transcript of turn t: `open' while calls wait for their results, k is
\* the last response, tk tells who took a follow-up.
TurnRow(t, kind, k) == [kind |-> kind, n |-> k, who |-> {t}]

BodyRows(rows, open, t, tk, k) ==
    \A i \in DOMAIN rows :
        /\ rows[i].kind \in {"calls", "result", "final", "user"}
        /\ rows[i].kind # "user" =>
             /\ rows[i].who = {t}
             /\ rows[i].n <= k
             /\ open /\ i < Len(rows) => rows[i].n < k
        /\ rows[i].kind = "user" =>
             /\ i > 1
             /\ rows[i].n = 0
             /\ rows[i].who \subseteq Follow
             /\ rows[i].who # {}
             /\ \A f \in rows[i].who :
                  /\ tk[f] = t
                  /\ \A j \in DOMAIN rows : f \in rows[j].who => j = i

BodyPaired(rows, open) ==
    \A i \in DOMAIN rows :
        /\ rows[i].kind = "calls" =>
             \/ i = Len(rows) /\ open
             \/ /\ i < Len(rows)
                /\ rows[i+1].kind = "result"
                /\ rows[i+1].n = rows[i].n
        /\ rows[i].kind = "result" =>
             i > 1 /\ rows[i-1].kind = "calls" /\ rows[i-1].n = rows[i].n

SoundRows(rows, open, t, tk, k) ==
    /\ BodyRows(rows, open, t, tk, k)
    /\ BodyPaired(rows, open)
    /\ IsInjective(rows)
    /\ open => rows # <<>> /\ Last(rows) = TurnRow(t, "calls", k)

SoundBody ==
    /\ SoundRows(body, stage = "tools", turn, took, responses)
    /\ stage \in {"idle", "restored"} => body = <<>>
    /\ stage \in {"ending", "failing"} /\ turn \notin bare => body # <<>>

\* What the checkpoint of the turn holds is in its transcript.
CheckpointInBody ==
    /\ stage \notin {"idle", "restored"} /\ mem.ck.phase # "none" =>
         /\ mem.ck.who = {turn}
         /\ mem.ck.n <= responses
         /\ RowsOfCheckpoint(mem.ck) \subseteq ToSet(body)

\* What a checkpoint preserves is still with a session, or later work is.
Carries(s, ck) ==
    \/ RowsOfCheckpoint(ck) \subseteq Preserved(s)
    \/ \E r \in Preserved(s) : r.n > ck.n /\ r.who = ck.who

IInv ==
    /\ TypeOK
    /\ Sound(mem, begun, Told, cut, Open, bare)
    /\ Sound(disk, begun, Told, cut, Open, bare)
    /\ \A f \in Follow : took[f] \in begun \cup {NoTurn}
    /\ FreshTurn
    /\ SoundBody
    /\ CheckpointInBody
    /\ Carries(mem, disk.ck)
    /\ IsPrefix(disk.log, mem.log)

-----------------------------------------------------------------------------
(* Rows and checkpoints *)

LEMMA RowTypes ==
    ASSUME NEW ck \in Checkpoint, NEW kind \in {"calls", "result", "final", "interrupted"}
    PROVE  RowAt(kind, ck) \in Entry /\ RowAt(kind, ck).kind = kind
           /\ RowAt(kind, ck).n = ck.n /\ RowAt(kind, ck).who = ck.who
  BY DEF RowAt, Entry, Checkpoint

LEMMA OneRow ==
    ASSUME NEW S, NEW x \in S
    PROVE  <<x>> \in Seq(S) /\ Len(<<x>>) = 1 /\ <<x>>[1] = x
  OBVIOUS

LEMMA TwoRows ==
    ASSUME NEW S, NEW x \in S, NEW y \in S
    PROVE  <<x, y>> \in Seq(S) /\ Len(<<x, y>>) = 2 /\ <<x, y>>[1] = x /\ <<x, y>>[2] = y
  OBVIOUS

\* What is put back for a checkpoint: one or two rows, named by it.
LEMMA RestorableRows ==
    ASSUME NEW ck \in Checkpoint, ck.phase # "none"
    PROVE  /\ Restorable(ck) \in Seq(Entry)
           /\ Len(Restorable(ck)) \in {1, 2}
           /\ \A i \in 1 .. Len(Restorable(ck)) :
                Restorable(ck)[i].n = ck.n /\ Restorable(ck)[i].who = ck.who
           /\ Len(Restorable(ck)) = 1 => Restorable(ck)[1].kind = "final"
           /\ Len(Restorable(ck)) = 2 =>
                /\ Restorable(ck)[1].kind = "calls"
                /\ Restorable(ck)[2].kind \in {"result", "interrupted"}
  <1>1. ck.phase \in {"awaiting_tools", "tools_completed", "final_response"}
    BY DEF Checkpoint, Phases
  <1>2. CASE ck.phase = "awaiting_tools"
    <2>1. Restorable(ck) = <<RowAt("calls", ck), RowAt("interrupted", ck)>>
      BY <1>2 DEF Restorable
    <2> QED  BY <2>1, RowTypes, TwoRows
  <1>3. CASE ck.phase = "tools_completed"
    <2>1. Restorable(ck) = <<RowAt("calls", ck), RowAt("result", ck)>>
      BY <1>3 DEF Restorable
    <2> QED  BY <2>1, RowTypes, TwoRows
  <1>4. CASE ck.phase = "final_response"
    <2>1. Restorable(ck) = <<RowAt("final", ck)>>
      BY <1>4 DEF Restorable
    <2> QED  BY <2>1, RowTypes, OneRow
  <1> QED  BY <1>1, <1>2, <1>3, <1>4

\* A checkpoint that is not part of the history is put back as a whole.
LEMMA Whole ==
    ASSUME NEW log \in Seq(Entry), NEW ck \in Checkpoint, ck.phase # "none",
           \A i \in DOMAIN log : log[i].kind \in Work => log[i].who # ck.who
    PROVE  Materialized(log, Restorable(ck)) = log \o Restorable(ck)
  <1> DEFINE rows == Restorable(ck)
             S == {k \in 0 .. Min({Len(log), Len(rows)}) :
                     SubSeq(log, Len(log) - k + 1, Len(log)) = SubSeq(rows, 1, k)}
  <1>1. rows \in Seq(Entry) /\ Len(rows) \in {1, 2}
        /\ \A i \in 1 .. Len(rows) : rows[i].who = ck.who /\ rows[i].kind \in Work
    BY RestorableRows DEF Work
  <1> HIDE DEF rows
  <1>2. Min({Len(log), Len(rows)}) \in {Len(log), Len(rows)}
        /\ Min({Len(log), Len(rows)}) <= Len(log) /\ Min({Len(log), Len(rows)}) <= Len(rows)
    <2>1. \E x \in {Len(log), Len(rows)} : \A y \in {Len(log), Len(rows)} : x =< y
      BY <1>1
    <2> QED  BY <2>1 DEF Min
  <1>3. 0 \in S
    BY <1>1, <1>2
  <1>4. ASSUME NEW k \in S, k # 0
        PROVE  FALSE
    <2>1. k \in 1 .. Len(log) /\ k \in 1 .. Len(rows)
      BY <1>1, <1>2, <1>4
    <2>2. SubSeq(log, Len(log) - k + 1, Len(log))[k] = log[Len(log)]
      <3>1. PICK a \in 1 .. Len(log) : a = Len(log) - k + 1
        BY <2>1
      <3>2. k \in 1 .. Len(log) - a + 1 /\ a + k - 1 = Len(log)
        BY <2>1, <3>1
      <3>3. SubSeq(log, a, Len(log))[k] = log[a + k - 1]
        BY <3>2
      <3> QED  BY <3>1, <3>2, <3>3
    <2>3. SubSeq(rows, 1, k)[k] = rows[k]
      BY <2>1, <1>1
    <2> QED  BY SMTT(30), <1>1, <1>4, <2>1, <2>2, <2>3
  <1>5. S = {0}
    BY <1>3, <1>4
  <1>6. Overlap(log, rows) = 0
    <2>1. Overlap(log, rows) = Max(S)
      BY DEF Overlap
    <2>2. Max({0}) = 0
      BY DEF Max
    <2> QED  BY <1>5, <2>1, <2>2
  <1>7. SubSeq(rows, 1, Len(rows)) = rows
    BY <1>1
  <1> QED  BY <1>6, <1>7 DEF Materialized, rows

LEMMA PrefixDef ==
    ASSUME NEW s \in Seq(Entry), NEW t \in Seq(Entry)
    PROVE  IsPrefix(s, t) <=> Len(s) <= Len(t) /\ \A i \in 1 .. Len(s) : s[i] = t[i]
  <1>1. SubSeq(s, 1, Len(s)) = s
    OBVIOUS
  <1>2. ASSUME Len(s) <= Len(t)
        PROVE  /\ SubSeq(t, 1, Len(s)) \in Seq(Entry)
               /\ Len(SubSeq(t, 1, Len(s))) = Len(s)
               /\ \A i \in 1 .. Len(s) : SubSeq(t, 1, Len(s))[i] = t[i]
    BY <1>2
  <1>3. ASSUME Len(s) <= Len(t), \A i \in 1 .. Len(s) : s[i] = t[i]
        PROVE  s = SubSeq(t, 1, Len(s))
    BY <1>2, <1>3
  <1> QED  BY <1>1, <1>2, <1>3 DEF IsPrefix

LEMMA PrefixConcat ==
    ASSUME NEW s \in Seq(Entry), NEW t \in Seq(Entry)
    PROVE  IsPrefix(s, s \o t)
  <1>1. s \o t \in Seq(Entry) /\ Len(s \o t) = Len(s) + Len(t)
        /\ \A i \in 1 .. Len(s) : (s \o t)[i] = s[i]
    OBVIOUS
  <1>2. Len(s) <= Len(s \o t)
    BY <1>1
  <1> QED  BY <1>1, <1>2, PrefixDef

LEMMA PrefixTrans ==
    ASSUME NEW s \in Seq(Entry), NEW t \in Seq(Entry), NEW u \in Seq(Entry),
           IsPrefix(s, t), IsPrefix(t, u)
    PROVE  IsPrefix(s, u)
  BY PrefixDef

-----------------------------------------------------------------------------
(* Adding rows to a history *)

Fits(log, rows, b, told, c, r) ==
    /\ PairedRows(rows)
    /\ RowsKnown(rows, b, told)
    /\ IsInjective(rows)
    /\ \A i \in DOMAIN log : \A j \in DOMAIN rows : log[i] # rows[j]
    /\ \A j \in DOMAIN rows :
         rows[j].kind = "note" =>
             j = 1 /\ EndsWith(log, "user") /\ rows[j] = NoteRow(Last(log))
    /\ Truthful(rows, c)
    /\ ClosedRows(rows, r)
    /\ log # <<>> /\ rows # <<>> /\ Owed(Last(log), r) => rows[1].kind # "user"

LEMMA ConcatSound ==
    ASSUME NEW log \in Seq(Entry), NEW rows \in Seq(Entry), NEW b, NEW told, NEW c, NEW r,
           SoundLog(log, b, told, c, r), Fits(log, rows, b, told, c, r)
    PROVE  SoundLog(log \o rows, b, told, c, r)
  <1> DEFINE m == Len(log)
             n == Len(rows)
             all == log \o rows
  <1>1. all \in Seq(Entry) /\ Len(all) = m + n /\ m \in Nat /\ n \in Nat
        /\ m = Len(log) /\ n = Len(rows)
        /\ DOMAIN all = 1 .. m + n /\ DOMAIN log = 1 .. m /\ DOMAIN rows = 1 .. n
    OBVIOUS
  <1>2. \A i \in 1 .. m : all[i] = log[i]
    OBVIOUS
  <1>3. \A i \in 1 .. n : all[m + i] = rows[i]
    OBVIOUS
  <1>4. \A i \in 1 .. m + n : i \in 1 .. m \/ \E j \in 1 .. n : i = m + j
    <2> TAKE i \in 1 .. m + n
    <2>1. i \in 1 .. m \/ (i - m \in 1 .. n /\ i = m + (i - m))
      BY <1>1
    <2> QED  BY <2>1
  <1>5. m # 0 => Last(log) = log[m]
    BY DEF Last
  <1>6. log # <<>> <=> m # 0
    OBVIOUS
  <1>7. rows # <<>> <=> n # 0
    OBVIOUS
  <1> HIDE DEF all
  <1>8. PairedRows(all)
    <2>1. PairedRows(log) /\ PairedRows(rows)
      BY DEF SoundLog, Fits
    <2> HIDE DEF m, n
    <2>2. ASSUME NEW i \in 1 .. m
          PROVE  /\ all[i].kind = "calls" =>
                      /\ i < m + n
                      /\ all[i+1].kind \in {"result", "interrupted"}
                      /\ all[i+1].n = all[i].n
                 /\ all[i].kind \in {"result", "interrupted"} =>
                      i > 1 /\ all[i-1].kind = "calls" /\ all[i-1].n = all[i].n
      <3>1. all[i] = log[i] /\ (i < m => all[i+1] = log[i+1]) /\ (i > 1 => all[i-1] = log[i-1])
        BY <1>1, <1>2
      <3>2. /\ log[i].kind = "calls" =>
                 /\ i < m
                 /\ log[i+1].kind \in {"result", "interrupted"}
                 /\ log[i+1].n = log[i].n
            /\ log[i].kind \in {"result", "interrupted"} =>
                 i > 1 /\ log[i-1].kind = "calls" /\ log[i-1].n = log[i].n
        BY <1>1, <2>1 DEF PairedRows
      <3>3. i < m => i < m + n
        BY <1>1
      <3> QED  BY <3>1, <3>2, <3>3
    <2>3. ASSUME NEW j \in 1 .. n
          PROVE  /\ all[m+j].kind = "calls" =>
                      /\ m + j < m + n
                      /\ all[m+j+1].kind \in {"result", "interrupted"}
                      /\ all[m+j+1].n = all[m+j].n
                 /\ all[m+j].kind \in {"result", "interrupted"} =>
                      m + j > 1 /\ all[m+j-1].kind = "calls" /\ all[m+j-1].n = all[m+j].n
      <3>1. all[m+j] = rows[j]
        BY <1>3
      <3>2. j < n => all[m+j+1] = rows[j+1]
        <4> SUFFICES ASSUME j < n PROVE all[m+j+1] = rows[j+1]
          OBVIOUS
        <4>1. j + 1 \in 1 .. n /\ m + j + 1 = m + (j + 1)
          BY <1>1
        <4> QED  BY <1>3, <4>1
      <3>3. j > 1 => all[m+j-1] = rows[j-1]
        <4> SUFFICES ASSUME j > 1 PROVE all[m+j-1] = rows[j-1]
          OBVIOUS
        <4>1. j - 1 \in 1 .. n /\ m + j - 1 = m + (j - 1)
          BY <1>1
        <4> QED  BY <1>3, <4>1
      <3>4. /\ rows[j].kind = "calls" =>
                 /\ j < n
                 /\ rows[j+1].kind \in {"result", "interrupted"}
                 /\ rows[j+1].n = rows[j].n
            /\ rows[j].kind \in {"result", "interrupted"} =>
                 j > 1 /\ rows[j-1].kind = "calls" /\ rows[j-1].n = rows[j].n
        BY <1>1, <2>1 DEF PairedRows
      <3>5. (j < n => m + j < m + n) /\ (j > 1 => m + j > 1)
        BY <1>1
      <3> QED  BY <3>1, <3>2, <3>3, <3>4, <3>5
    <2>4. ASSUME NEW i \in 1 .. m + n
          PROVE  /\ all[i].kind = "calls" =>
                      /\ i < m + n
                      /\ all[i+1].kind \in {"result", "interrupted"}
                      /\ all[i+1].n = all[i].n
                 /\ all[i].kind \in {"result", "interrupted"} =>
                      i > 1 /\ all[i-1].kind = "calls" /\ all[i-1].n = all[i].n
      <3>1. CASE i \in 1 .. m
        BY <2>2, <3>1
      <3>2. ASSUME NEW j \in 1 .. n, i = m + j
            PROVE  /\ all[i].kind = "calls" =>
                        /\ i < m + n
                        /\ all[i+1].kind \in {"result", "interrupted"}
                        /\ all[i+1].n = all[i].n
                   /\ all[i].kind \in {"result", "interrupted"} =>
                        i > 1 /\ all[i-1].kind = "calls" /\ all[i-1].n = all[i].n
        <4>1. i + 1 = m + j + 1 /\ i - 1 = m + j - 1
          BY <1>1, <3>2
        <4> QED  BY <2>3, <3>2, <4>1
      <3> QED  BY <1>4, <3>1, <3>2
    <2> QED  BY <1>1, <2>4 DEF PairedRows
  <1>9. RowsKnown(all, b, told)
    <2>1. RowsKnown(log, b, told) /\ RowsKnown(rows, b, told)
      BY DEF SoundLog, Fits
    <2>2. \A i \in 1 .. m :
            /\ all[i].who \subseteq b \cup told
            /\ all[i].kind \in Work => all[i].who \subseteq b
            /\ all[i].kind = "user" => all[i].n = 0
      BY <1>1, <1>2, <2>1 DEF RowsKnown
    <2>3. \A i \in 1 .. n :
            /\ all[m+i].who \subseteq b \cup told
            /\ all[m+i].kind \in Work => all[m+i].who \subseteq b
            /\ all[m+i].kind = "user" => all[m+i].n = 0
      BY <1>1, <1>3, <2>1 DEF RowsKnown
    <2> QED  BY ZenonT(60), <1>1, <1>4, <2>2, <2>3 DEF RowsKnown
  <1>10. IsInjective(all)
    <2>1. IsInjective(log) /\ IsInjective(rows)
          /\ \A i \in DOMAIN log : \A j \in DOMAIN rows : log[i] # rows[j]
      BY DEF SoundLog, Fits
    <2>2. ASSUME NEW i \in 1 .. m + n, NEW j \in 1 .. m + n, all[i] = all[j]
          PROVE  i = j
      <3>1. CASE i \in 1 .. m /\ j \in 1 .. m
        BY <1>1, <1>2, <2>1, <2>2, <3>1 DEF IsInjective
      <3>2. ASSUME i \in 1 .. m, NEW k \in 1 .. n, j = m + k
            PROVE  FALSE
        BY <1>1, <1>2, <1>3, <2>1, <2>2, <3>2
      <3>3. ASSUME j \in 1 .. m, NEW k \in 1 .. n, i = m + k
            PROVE  FALSE
        BY <1>1, <1>2, <1>3, <2>1, <2>2, <3>3
      <3>4. ASSUME NEW k \in 1 .. n, i = m + k, NEW l \in 1 .. n, j = m + l
            PROVE  i = j
        <4>1. rows[k] = rows[l]
          BY <1>3, <2>2, <3>4
        <4>2. k = l
          BY <1>1, <2>1, <4>1 DEF IsInjective
        <4> QED  BY <3>4, <4>2
      <3> QED  BY <1>4, <3>1, <3>2, <3>3, <3>4
    <2> QED  BY <1>1, <2>2 DEF IsInjective
  <1>11. NotesFollow(all)
    <2>1. NotesFollow(log)
      BY DEF SoundLog
    <2>2. ASSUME NEW i \in 1 .. m, all[i].kind = "note"
          PROVE  i > 1 /\ all[i] = NoteRow(all[i-1]) /\ all[i-1].kind = "user"
      <3>1. i > 1 /\ log[i] = NoteRow(log[i-1]) /\ log[i-1].kind = "user"
        BY <1>1, <1>2, <2>1, <2>2 DEF NotesFollow
      <3>2. all[i-1] = log[i-1]
        BY <1>2, <3>1
      <3> QED  BY <1>2, <3>1, <3>2
    <2>3. ASSUME NEW j \in 1 .. n, all[m+j].kind = "note"
          PROVE  m + j > 1 /\ all[m+j] = NoteRow(all[m+j-1]) /\ all[m+j-1].kind = "user"
      <3>1. j = 1 /\ EndsWith(log, "user") /\ rows[j] = NoteRow(Last(log))
        BY <1>1, <1>3, <2>3 DEF Fits
      <3>2. m # 0 /\ log[m].kind = "user" /\ rows[1] = NoteRow(log[m])
        BY <1>5, <1>6, <3>1 DEF EndsWith
      <3>3. m \in 1 .. m /\ m + j - 1 = m
        BY <1>1, <3>1, <3>2
      <3> QED  BY <1>1, <1>2, <1>3, <3>1, <3>2, <3>3
    <2>4. ASSUME NEW i \in 1 .. m + n, all[i].kind = "note"
          PROVE  i > 1 /\ all[i] = NoteRow(all[i-1]) /\ all[i-1].kind = "user"
      <3>1. CASE i \in 1 .. m
        BY <2>2, <2>4, <3>1
      <3>2. ASSUME NEW j \in 1 .. n, i = m + j
            PROVE  i > 1 /\ all[i] = NoteRow(all[i-1]) /\ all[i-1].kind = "user"
        BY <2>3, <2>4, <3>2
      <3> QED  BY <1>4, <3>1, <3>2
    <2> QED  BY <1>1, <2>4 DEF NotesFollow
  <1>12. Truthful(all, c)
    <2>1. Truthful(log, c) /\ Truthful(rows, c)
      BY DEF SoundLog, Fits
    <2>2. \A i \in 1 .. m : all[i].kind \in {"interrupted", "note"} => all[i].who \cap c # {}
      BY <1>1, <1>2, <2>1 DEF Truthful
    <2>3. \A i \in 1 .. n : all[m+i].kind \in {"interrupted", "note"} => all[m+i].who \cap c # {}
      BY <1>1, <1>3, <2>1 DEF Truthful
    <2> QED  BY <1>1, <1>4, <2>2, <2>3 DEF Truthful
  <1>13. ClosedRows(all, r)
    <2>1. ClosedRows(log, r) /\ ClosedRows(rows, r)
      BY DEF SoundLog, Fits
    <2>2. ASSUME NEW i \in 1 .. m + n, i < m, Owed(all[i], r)
          PROVE  all[i+1].kind # "user"
      <3>1. i \in 1 .. m - 1 /\ i + 1 \in 1 .. m
        BY <1>1, <2>2
      <3>2. all[i] = log[i] /\ all[i+1] = log[i+1]
        BY <1>1, <1>2, <3>1
      <3> QED  BY <2>1, <2>2, <3>1, <3>2 DEF ClosedRows
    <2>3. ASSUME m # 0, n # 0, Owed(all[m], r)
          PROVE  all[m+1].kind # "user"
      <3>1. all[m] = Last(log) /\ all[m+1] = rows[1]
        BY <1>1, <1>2, <1>3, <1>5, <2>3
      <3> QED  BY <1>6, <1>7, <2>3, <3>1 DEF Fits
    <2>4. ASSUME NEW j \in 1 .. n - 1, Owed(all[m+j], r)
          PROVE  all[m+j+1].kind # "user"
      <3>1. all[m+j] = rows[j] /\ all[m+(j+1)] = rows[j+1] /\ m + (j+1) = m + j + 1
        BY <1>1, <1>3
      <3> QED  BY <2>1, <2>4, <3>1 DEF ClosedRows
    <2>5. ASSUME NEW i \in 1 .. m + n - 1, Owed(all[i], r)
          PROVE  all[i+1].kind # "user"
      <3>1. CASE i < m
        BY <1>1, <2>2, <2>5, <3>1
      <3>2. CASE i = m
        BY <1>1, <2>3, <2>5, <3>2
      <3>3. CASE i > m
        <4>1. i - m \in 1 .. n - 1 /\ i = m + (i - m)
          BY <1>1, <3>3
        <4> QED  BY <2>4, <2>5, <4>1
      <3> QED  BY <1>1, <3>1, <3>2, <3>3
    <2> QED  BY <1>1, <2>5 DEF ClosedRows
  <1> QED  BY <1>8, <1>9, <1>10, <1>11, <1>12, <1>13 DEF SoundLog, all

\* Turns and follow-ups may come in, be cut, or end bare.
LEMMA SoundMono ==
    ASSUME NEW s \in Session,
           NEW b, NEW told, NEW c, NEW open, NEW r,
           NEW b2, NEW told2, NEW c2, NEW open2, NEW r2,
           Sound(s, b, told, c, open, r),
           b \subseteq b2, told \subseteq told2, c \subseteq c2, open \subseteq open2,
           r \subseteq r2
    PROVE  Sound(s, b2, told2, c2, open2, r2)
  <1>1. RowsKnown(s.log, b2, told2)
    BY DEF Sound, SoundLog, RowsKnown
  <1>2. Truthful(s.log, c2)
    <2>1. ASSUME NEW w, w \cap c # {}
          PROVE  w \cap c2 # {}
      BY <2>1
    <2> QED  BY <2>1 DEF Sound, SoundLog, Truthful
  <1>3. \A row : Owed(row, r2) => Owed(row, r)
    BY DEF Owed
  <1>4. ClosedRows(s.log, r2)
    BY <1>3 DEF Sound, SoundLog, ClosedRows
  <1>5. SoundCheckpoint(s, b2, open2)
    BY DEF Sound, SoundCheckpoint
  <1>6. SoundMark(s, open2, r2)
    BY <1>3 DEF Sound, SoundMark
  <1> QED  BY <1>1, <1>2, <1>4, <1>5, <1>6 DEF Sound, SoundLog

-----------------------------------------------------------------------------
(* What the operations of a session do to it *)

LEMMA RestoreCheckpointSound ==
    ASSUME NEW s \in Session, NEW b, NEW told, NEW c, NEW open, NEW r,
           Sound(s, b, told, c, open, r), c \subseteq open
    PROVE  /\ RestoreCheckpoint(s) \in Session
           /\ RestoreCheckpoint(s).ck.phase = "none"
           /\ RestoreCheckpoint(s).mark => s.mark
           /\ IsPrefix(s.log, RestoreCheckpoint(s).log)
           /\ Preserved(s) \subseteq Preserved(RestoreCheckpoint(s))
           /\ Sound(RestoreCheckpoint(s), b, told, open, open, r)
  <1> DEFINE rows == Restorable(s.ck)
             q == RestoreCheckpoint(s)
  <1>0. s.log \in Seq(Entry) /\ s.ck \in Checkpoint /\ s.mark \in BOOLEAN
    BY DEF Session
  <1>1. Sound(s, b, told, open, open, r)
    BY SoundMono
  <1>2. CASE s.ck.phase = "none"
    <2>1. q = s
      BY <1>2 DEF RestoreCheckpoint
    <2>2. IsPrefix(s.log, s.log)
      BY <1>0, PrefixDef
    <2> QED  BY <1>1, <1>2, <2>1, <2>2
  <1>3. CASE s.ck.phase # "none"
    <2> HIDE DEF rows
    <2>1. /\ rows \in Seq(Entry) /\ Len(rows) \in {1, 2}
          /\ \A i \in 1 .. Len(rows) : rows[i].n = s.ck.n /\ rows[i].who = s.ck.who
          /\ Len(rows) = 1 => rows[1].kind = "final"
          /\ Len(rows) = 2 =>
               rows[1].kind = "calls" /\ rows[2].kind \in {"result", "interrupted"}
      BY <1>0, <1>3, RestorableRows DEF rows
    <2>2. \A i \in DOMAIN s.log : s.log[i].kind \in Work => s.log[i].who # s.ck.who
      BY <1>3 DEF Sound, SoundCheckpoint
    <2>3. Materialized(s.log, rows) = s.log \o rows
      BY <1>0, <1>3, <2>2, Whole DEF rows
    <2>4. q = [log |-> s.log \o rows, mark |-> FALSE, ck |-> NoCheckpoint]
      BY <1>3, <2>3 DEF RestoreCheckpoint, rows
    <2>5. q.log = s.log \o rows /\ q.mark = FALSE /\ q.ck = NoCheckpoint
      BY <2>4
    <2>6. q \in Session
      <3>1. NoCheckpoint \in Checkpoint
        BY DEF NoCheckpoint, Checkpoint, Phases
      <3>2. s.log \o rows \in Seq(Entry)
        BY <1>0, <2>1
      <3> QED  BY <2>4, <3>1, <3>2 DEF Session
    <2>7. IsPrefix(s.log, q.log)
      BY <1>0, <2>1, <2>5, PrefixConcat
    <2>8. s.ck.who \cap open # {} /\ s.ck.who \subseteq b
      BY <1>3 DEF Sound, SoundCheckpoint
    <2>9. DOMAIN rows = 1 .. Len(rows) /\ \A i \in 1 .. Len(rows) : rows[i].kind \in Work
      BY <2>1 DEF Work
    <2>10. Fits(s.log, rows, b, told, open, r)
      <3>1. PairedRows(rows)
        BY <2>1, <2>9 DEF PairedRows
      <3>2. RowsKnown(rows, b, told)
        BY <2>1, <2>8, <2>9 DEF RowsKnown, Work
      <3>3. IsInjective(rows)
        BY <2>1, <2>9 DEF IsInjective
      <3>4. \A i \in DOMAIN s.log : \A j \in DOMAIN rows : s.log[i] # rows[j]
        BY <2>1, <2>2, <2>9
      <3>5. \A j \in DOMAIN rows : rows[j].kind # "note" /\ rows[j].kind # "user"
        BY <2>9 DEF Work
      <3>6. Truthful(rows, open)
        BY <2>1, <2>8, <2>9 DEF Truthful
      <3>7. ClosedRows(rows, r)
        BY <2>1, <2>9, <3>5 DEF ClosedRows, Owed
      <3>8. rows[1].kind # "user"
        BY <2>1, <2>9, <3>5
      <3> QED  BY <3>1, <3>2, <3>3, <3>4, <3>5, <3>6, <3>7, <3>8 DEF Fits
    <2>11. SoundLog(q.log, b, told, open, r)
      <3>1. SoundLog(s.log, b, told, open, r)
        BY <1>1 DEF Sound
      <3> QED  BY <1>0, <2>1, <2>5, <2>10, <3>1, ConcatSound
    <2>12. SoundCheckpoint(q, b, open)
      BY <2>5 DEF SoundCheckpoint, NoCheckpoint
    <2>13. SoundMark(q, open, r)
      <3>1. Last(q.log) = rows[Len(rows)]
        BY <1>0, <2>1, <2>5 DEF Last
      <3>2. Last(q.log).kind # "user"
        BY <2>1, <2>9, <3>1 DEF Work
      <3> QED  BY <3>2 DEF SoundMark, EndsWith
    <2>14. Preserved(s) \subseteq Preserved(q)
      <3>1. ToSet(s.log) \subseteq ToSet(q.log)
        <4>1. \A i \in 1 .. Len(s.log) : i \in 1 .. Len(q.log) /\ q.log[i] = s.log[i]
          BY <1>0, <2>1, <2>5
        <4> QED  BY <1>0, <2>6, <4>1 DEF ToSet, Session
      <3>2. ToSet(rows) \subseteq ToSet(q.log)
        <4>1. \A i \in 1 .. Len(rows) :
                Len(s.log) + i \in 1 .. Len(q.log) /\ q.log[Len(s.log) + i] = rows[i]
          BY <1>0, <2>1, <2>5
        <4>2. DOMAIN q.log = 1 .. Len(q.log)
          BY <2>6 DEF Session
        <4> QED  BY <2>9, <4>1, <4>2 DEF ToSet
      <3>3. RowsOfCheckpoint(s.ck) \subseteq ToSet(rows)
        BY DEF RowsOfCheckpoint, rows
      <3> QED  BY <3>1, <3>2, <3>3 DEF Preserved
    <2> QED  BY <2>5, <2>6, <2>7, <2>11, <2>12, <2>13, <2>14 DEF Sound, NoCheckpoint
  <1> QED  BY <1>2, <1>3

LEMMA EndsWithLast ==
    ASSUME NEW log \in Seq(Entry), NEW kind, EndsWith(log, kind)
    PROVE  /\ Len(log) \in 1 .. Len(log) /\ Len(log) \in DOMAIN log
           /\ Last(log) = log[Len(log)] /\ Last(log) \in Entry /\ Last(log).kind = kind
  BY DEF EndsWith, Last

LEMMA AppendLast ==
    ASSUME NEW log \in Seq(Entry), NEW row \in Entry
    PROVE  /\ Append(log, row) = log \o <<row>>
           /\ Append(log, row) \in Seq(Entry)
           /\ Append(log, row) # <<>>
           /\ Last(Append(log, row)) = row
           /\ IsPrefix(log, Append(log, row))
           /\ \A i \in DOMAIN Append(log, row) :
                (i \in DOMAIN log /\ Append(log, row)[i] = log[i]) \/ Append(log, row)[i] = row
           /\ ToSet(Append(log, row)) = ToSet(log) \cup {row}
  <1>1. Append(log, row) = log \o <<row>>
    OBVIOUS
  <1>2. Append(log, row) \in Seq(Entry) /\ Append(log, row) # <<>>
        /\ Len(Append(log, row)) = Len(log) + 1
        /\ DOMAIN Append(log, row) = 1 .. Len(log) + 1 /\ DOMAIN log = 1 .. Len(log)
        /\ Append(log, row)[Len(log) + 1] = row
        /\ \A i \in 1 .. Len(log) : Append(log, row)[i] = log[i]
    OBVIOUS
  <1>3. Last(Append(log, row)) = row
    BY <1>2 DEF Last
  <1>4. IsPrefix(log, Append(log, row))
    BY <1>1, OneRow, PrefixConcat
  <1>5. \A i \in 1 .. Len(log) + 1 : i \in 1 .. Len(log) \/ i = Len(log) + 1
    OBVIOUS
  <1>6. Len(log) + 1 \in DOMAIN Append(log, row) /\ DOMAIN log \subseteq DOMAIN Append(log, row)
    BY <1>2
  <1>7. ToSet(Append(log, row)) = ToSet(log) \cup {row}
    BY <1>2, <1>5, <1>6 DEF ToSet
  <1> QED  BY <1>1, <1>2, <1>3, <1>4, <1>5, <1>7

LEMMA RestorePendingSound ==
    ASSUME NEW s \in Session, NEW b, NEW told, NEW c, NEW open, NEW r,
           Sound(s, b, told, c, open, r), c \subseteq open
    PROVE  /\ RestorePending(s) \in Session
           /\ RestorePending(s).ck = s.ck
           /\ ~RestorePending(s).mark
           /\ IsPrefix(s.log, RestorePending(s).log)
           /\ Preserved(s) \subseteq Preserved(RestorePending(s))
           /\ Sound(RestorePending(s), b, told, open, open, r)
  <1> DEFINE q == RestorePending(s)
             note == NoteRow(Last(s.log))
  <1>0. s.log \in Seq(Entry) /\ s.ck \in Checkpoint /\ s.mark \in BOOLEAN
    BY DEF Session
  <1>1. Sound(s, b, told, open, open, r)
    BY SoundMono
  <1>2. IsPrefix(s.log, s.log)
    BY <1>0, PrefixDef
  <1>3. CASE ~s.mark
    <2>1. q = s
      BY <1>3 DEF RestorePending
    <2> QED  BY <1>1, <1>2, <1>3, <2>1
  <1>4. CASE s.mark /\ ~EndsWith(s.log, "user")
    <2>1. q = [s EXCEPT !.mark = FALSE]
      BY <1>4 DEF RestorePending, Session
    <2>2. q \in Session /\ q.log = s.log /\ q.ck = s.ck /\ q.mark = FALSE
      BY <2>1 DEF Session
    <2>3. Sound(q, b, told, open, open, r)
      BY <1>1, <1>4, <2>2 DEF Sound, SoundCheckpoint, SoundMark
    <2> QED  BY <1>2, <2>2, <2>3 DEF Preserved
  <1>5. CASE s.mark /\ EndsWith(s.log, "user")
    <2>1. q = [s EXCEPT !.log = Append(@, note), !.mark = FALSE]
      BY <1>5 DEF RestorePending, Session
    <2>2. q.log = Append(s.log, note) /\ q.ck = s.ck /\ q.mark = FALSE
      BY <2>1 DEF Session
    <2>3. /\ Len(s.log) \in DOMAIN s.log /\ Last(s.log) = s.log[Len(s.log)]
          /\ Last(s.log) \in Entry /\ Last(s.log).kind = "user"
      BY <1>0, <1>5, EndsWithLast
    <2>4. note \in Entry /\ note.kind = "note" /\ note.who = Last(s.log).who
      BY <2>3 DEF NoteRow, Entry
    <2> HIDE DEF note
    <2>5. q \in Session
      <3>1. Append(s.log, note) \in Seq(Entry)
        BY <1>0, <2>4
      <3> QED  BY <1>0, <2>1, <3>1 DEF Session
    <2>6. Fits(s.log, <<note>>, b, told, open, r)
      <3> DEFINE rows == <<note>>
      <3>1. rows \in Seq(Entry) /\ Len(rows) = 1 /\ rows[1] = note /\ DOMAIN rows = {1}
        BY <2>4, OneRow
      <3> HIDE DEF rows
      <3>2. PairedRows(rows)
        BY <2>4, <3>1 DEF PairedRows
      <3>3. RowsKnown(rows, b, told)
        BY <2>3, <2>4, <3>1 DEF RowsKnown, Sound, SoundLog, Work
      <3>4. IsInjective(rows)
        BY <3>1 DEF IsInjective
      <3>5. \A i \in DOMAIN s.log : s.log[i] # note
        <4> SUFFICES ASSUME NEW i \in DOMAIN s.log, s.log[i] = note
                     PROVE  FALSE
          OBVIOUS
        <4>1. i > 1 /\ s.log[i] = NoteRow(s.log[i-1]) /\ s.log[i-1].kind = "user"
          BY <2>4 DEF Sound, SoundLog, NotesFollow
        <4>2. i - 1 \in DOMAIN s.log /\ s.log[i-1] \in Entry /\ i - 1 # Len(s.log)
          BY <1>0, <4>1
        <4>3. s.log[i-1].who = note.who
          BY <4>1 DEF NoteRow
        <4>4. s.log[i-1].n = 0 /\ Last(s.log).n = 0
          BY <2>3, <4>1, <4>2 DEF Sound, SoundLog, RowsKnown
        <4>5. s.log[i-1] = Last(s.log)
          BY <2>3, <2>4, <4>1, <4>2, <4>3, <4>4 DEF Entry
        <4> QED  BY <2>3, <4>2, <4>5 DEF Sound, SoundLog, IsInjective
      <3>6. Truthful(rows, open)
        BY <1>5, <2>4, <3>1 DEF Truthful, Sound, SoundMark
      <3>7. ClosedRows(rows, r)
        BY <3>1 DEF ClosedRows
      <3> QED  BY <1>5, <2>4, <3>1, <3>2, <3>3, <3>4, <3>5, <3>6, <3>7 DEF Fits, note, rows
    <2>7. SoundLog(q.log, b, told, open, r)
      <3>1. SoundLog(s.log, b, told, open, r)
        BY <1>1 DEF Sound
      <3>2. <<note>> \in Seq(Entry) /\ q.log = s.log \o <<note>>
        BY <1>0, <2>2, <2>4, AppendLast, OneRow
      <3> QED  BY <1>0, <2>6, <3>1, <3>2, ConcatSound
    <2>8. SoundCheckpoint(q, b, open)
      BY <1>0, <1>1, <2>2, <2>4, AppendLast DEF Sound, SoundCheckpoint, Work
    <2>9. SoundMark(q, open, r)
      BY <1>0, <2>2, <2>4, AppendLast DEF SoundMark, EndsWith
    <2>10. Preserved(s) \subseteq Preserved(q)
      BY ZenonT(60), <1>0, <2>2, <2>4, AppendLast DEF Preserved
    <2> QED
      BY ZenonT(60), <1>0, <2>2, <2>4, <2>5, <2>7, <2>8, <2>9, <2>10, AppendLast DEF Sound
  <1> QED  BY <1>3, <1>4, <1>5

LEMMA PersistedEarlySound ==
    ASSUME NEW s \in Session, NEW t \in Turn,
           NEW b, NEW told, NEW c, NEW open, NEW r,
           Sound(s, b, told, c, open, r), t \in b, t \in open,
           s.ck.phase = "none", ~s.mark,
           \A i \in DOMAIN s.log : t \notin s.log[i].who
    PROVE  LET q == PersistedEarly(s, t)
           IN  /\ q \in Session
               /\ q.ck = s.ck
               /\ IsPrefix(s.log, q.log)
               /\ Preserved(s) \subseteq Preserved(q)
               /\ Sound(q, b, told, c, open, r)
               /\ Last(q.log) = UserRow({t})
               /\ \A i \in DOMAIN q.log :
                    q.log[i].kind \in Work => i \in DOMAIN s.log /\ q.log[i] = s.log[i]
  <1> DEFINE q == PersistedEarly(s, t)
             row == UserRow({t})
             rows == <<row>>
  <1>0. s.log \in Seq(Entry) /\ s.ck \in Checkpoint /\ s.mark \in BOOLEAN
    BY DEF Session
  <1>1. row \in Entry /\ row.kind = "user" /\ row.who = {t} /\ row.n = 0
    BY DEF UserRow, Entry
  <1>2. q.log = Append(s.log, row) /\ q.mark = TRUE /\ q.ck = s.ck /\ q \in Session
    <2>1. q = [s EXCEPT !.log = Append(@, row), !.mark = TRUE]
      BY DEF PersistedEarly
    <2>2. Append(s.log, row) \in Seq(Entry)
      BY <1>0, <1>1
    <2> HIDE DEF q, row
    <2> QED  BY <1>0, <2>1, <2>2 DEF Session
  <1> HIDE DEF q, row
  <1>3. rows \in Seq(Entry) /\ Len(rows) = 1 /\ rows[1] = row /\ DOMAIN rows = {1}
    BY <1>1, OneRow
  <1> HIDE DEF rows
  <1>4. Fits(s.log, rows, b, told, c, r)
    <2>1. PairedRows(rows)
      BY <1>1, <1>3 DEF PairedRows
    <2>2. RowsKnown(rows, b, told)
      BY <1>1, <1>3 DEF RowsKnown, Work
    <2>3. IsInjective(rows)
      BY <1>3 DEF IsInjective
    <2>4. \A i \in DOMAIN s.log : \A j \in DOMAIN rows : s.log[i] # rows[j]
      BY <1>1, <1>3
    <2>5. Truthful(rows, c)
      BY <1>1, <1>3 DEF Truthful
    <2>6. ClosedRows(rows, r)
      BY <1>3 DEF ClosedRows
    <2>7. s.log # <<>> => ~Owed(Last(s.log), r)
      BY DEF Sound, SoundMark, EndsWith, Owed
    <2> QED  BY <1>1, <1>3, <2>1, <2>2, <2>3, <2>4, <2>5, <2>6, <2>7 DEF Fits
  <1>5. SoundLog(q.log, b, told, c, r)
    <2>1. SoundLog(s.log, b, told, c, r)
      BY DEF Sound
    <2>2. q.log = s.log \o rows
      BY <1>0, <1>1, <1>2, AppendLast DEF rows
    <2> QED  BY <1>0, <1>3, <1>4, <2>1, <2>2, ConcatSound
  <1>6. SoundCheckpoint(q, b, open)
    BY <1>2 DEF Sound, SoundCheckpoint
  <1>7. Last(q.log) = row /\ IsPrefix(s.log, q.log) /\ ToSet(q.log) = ToSet(s.log) \cup {row}
    BY ZenonT(60), <1>0, <1>1, <1>2, AppendLast
  <1>8. SoundMark(q, open, r)
    BY <1>1, <1>2, <1>7 DEF SoundMark
  <1>9. Preserved(s) \subseteq Preserved(q)
    BY <1>2, <1>7 DEF Preserved
  <1>10. \A i \in DOMAIN q.log :
           q.log[i].kind \in Work => i \in DOMAIN s.log /\ q.log[i] = s.log[i]
    BY <1>0, <1>1, <1>2, AppendLast DEF Work
  <1> QED  BY <1>2, <1>5, <1>6, <1>7, <1>8, <1>9, <1>10 DEF Sound, q, row

LEMMA CheckpointedSound ==
    ASSUME NEW s \in Session, NEW t \in Turn, NEW phase \in Phases \ {"none"},
           NEW k \in 0 .. MaxResponses,
           NEW b, NEW told, NEW c, NEW open, NEW r,
           Sound(s, b, told, c, open, r), t \in b, t \in open,
           \A i \in DOMAIN s.log : s.log[i].kind \in Work => s.log[i].who # {t},
           NEW ck, ck = [phase |-> phase, n |-> k, who |-> {t}],
           NEW q, q = [s EXCEPT !.ck = ck]
    PROVE  /\ q \in Session
           /\ q.log = s.log
           /\ q.mark = s.mark
           /\ q.ck = ck
           /\ Sound(q, b, told, c, open, r)
  <1>1. ck \in Checkpoint /\ ck.phase = phase /\ ck.n = k /\ ck.who = {t}
    BY DEF Checkpoint
  <1>2. q \in Session /\ q.log = s.log /\ q.mark = s.mark /\ q.ck = ck
    BY <1>1 DEF Session
  <1>3. SoundCheckpoint(q, b, open)
    BY <1>1, <1>2 DEF SoundCheckpoint
  <1>4. SoundMark(q, open, r)
    BY <1>2 DEF Sound, SoundMark
  <1> QED  BY <1>2, <1>3, <1>4 DEF Sound

-----------------------------------------------------------------------------
(* What a checkpoint preserves *)

LEMMA RestorableHolds ==
    ASSUME NEW ck \in Checkpoint
    PROVE  /\ \A x \in RowsOfCheckpoint(ck) :
                 x \in Entry /\ x.n = ck.n /\ x.who = ck.who /\ x.kind \in Work
           /\ ck.phase = "none" => RowsOfCheckpoint(ck) = {}
           /\ ck.phase = "awaiting_tools" => RowsOfCheckpoint(ck) = {RowAt("calls", ck)}
           /\ ck.phase = "tools_completed" =>
                RowsOfCheckpoint(ck) = {RowAt("calls", ck), RowAt("result", ck)}
           /\ ck.phase = "final_response" => RowsOfCheckpoint(ck) = {RowAt("final", ck)}
  <1> DEFINE rows == Restorable(ck)
  <1>1. ck.phase = "none" => ToSet(rows) = {}
    BY DEF Restorable, ToSet
  <1>2. ck.phase = "awaiting_tools" =>
          ToSet(rows) = {RowAt("calls", ck), RowAt("interrupted", ck)}
    BY DEF Restorable, ToSet
  <1>3. ck.phase = "tools_completed" => ToSet(rows) = {RowAt("calls", ck), RowAt("result", ck)}
    BY DEF Restorable, ToSet
  <1>4. ck.phase = "final_response" => ToSet(rows) = {RowAt("final", ck)}
    BY DEF Restorable, ToSet
  <1>5. ck.phase \in {"none", "awaiting_tools", "tools_completed", "final_response"}
    BY DEF Checkpoint, Phases
  <1>6. /\ RowAt("calls", ck).kind = "calls"
        /\ RowAt("result", ck).kind = "result"
        /\ RowAt("interrupted", ck).kind = "interrupted"
        /\ RowAt("final", ck).kind = "final"
    BY RowTypes
  <1> HIDE DEF rows
  <1>7. RowsOfCheckpoint(ck) = {x \in ToSet(rows) : x.kind # "interrupted"}
    BY DEF RowsOfCheckpoint, rows
  <1>8. ck.phase = "none" => RowsOfCheckpoint(ck) = {}
    BY <1>1, <1>7
  <1>9. ck.phase = "awaiting_tools" => RowsOfCheckpoint(ck) = {RowAt("calls", ck)}
    BY <1>2, <1>6, <1>7
  <1>10. ck.phase = "tools_completed" =>
           RowsOfCheckpoint(ck) = {RowAt("calls", ck), RowAt("result", ck)}
    BY <1>3, <1>6, <1>7
  <1>11. ck.phase = "final_response" => RowsOfCheckpoint(ck) = {RowAt("final", ck)}
    BY <1>4, <1>6, <1>7
  <1>12. \A kind \in {"calls", "result", "final"} :
           /\ RowAt(kind, ck) \in Entry /\ RowAt(kind, ck).n = ck.n
           /\ RowAt(kind, ck).who = ck.who /\ RowAt(kind, ck).kind \in Work
    BY RowTypes DEF Work
  <1>13. \A x \in RowsOfCheckpoint(ck) : \E kind \in {"calls", "result", "final"} :
           x = RowAt(kind, ck)
    BY <1>5, <1>8, <1>9, <1>10, <1>11
  <1> QED  BY <1>8, <1>9, <1>10, <1>11, <1>12, <1>13

LEMMA CarriesMore ==
    ASSUME NEW s, NEW q, NEW ck, Carries(s, ck), Preserved(s) \subseteq Preserved(q)
    PROVE  Carries(q, ck)
  BY DEF Carries

\* Work that replaces the checkpoint of its own turn is as much or later.
LEMMA CarriesOn ==
    ASSUME NEW s \in Session, NEW q \in Session, NEW ck \in Checkpoint, Carries(s, ck),
           ToSet(s.log) \subseteq ToSet(q.log),
           \/ s.ck.phase = "none"
           \/ RowsOfCheckpoint(s.ck) \subseteq Preserved(q)
           \/ \E x \in Preserved(q) : x.n > s.ck.n /\ x.who = s.ck.who /\ x.n \in Nat
    PROVE  Carries(q, ck)
  <1>0. s.ck \in Checkpoint /\ s.ck.n \in Nat /\ ck.n \in Nat
    BY DEF Session, Checkpoint
  <1>1. \A x \in RowsOfCheckpoint(s.ck) : x.n = s.ck.n /\ x.who = s.ck.who
    BY <1>0, RestorableHolds
  <1>2. \A x \in RowsOfCheckpoint(ck) : x.n = ck.n /\ x.who = ck.who
    BY RestorableHolds
  <1>3. CASE s.ck.phase = "none" \/ RowsOfCheckpoint(s.ck) \subseteq Preserved(q)
    <2>1. s.ck.phase = "none" => RowsOfCheckpoint(s.ck) = {}
      BY <1>0, RestorableHolds
    <2>2. Preserved(s) \subseteq Preserved(q)
      BY <1>3, <2>1 DEF Preserved
    <2> QED  BY <2>2, CarriesMore
  <1>4. ASSUME NEW x \in Preserved(q), x.n > s.ck.n, x.who = s.ck.who, x.n \in Nat
        PROVE  Carries(q, ck)
    <2>1. CASE RowsOfCheckpoint(ck) \subseteq ToSet(s.log)
      BY <2>1 DEF Carries, Preserved
    <2>2. ASSUME NEW y \in RowsOfCheckpoint(ck), y \notin ToSet(s.log),
                 RowsOfCheckpoint(ck) \subseteq Preserved(s)
          PROVE  Carries(q, ck)
      <3>1. y \in RowsOfCheckpoint(s.ck)
        BY <2>2 DEF Preserved
      <3>2. ck.n = s.ck.n /\ ck.who = s.ck.who
        BY <1>1, <1>2, <2>2, <3>1
      <3> QED  BY <1>4, <3>2 DEF Carries
    <2>3. ASSUME NEW y \in Preserved(s), y.n > ck.n, y.who = ck.who
          PROVE  Carries(q, ck)
      <3>1. CASE y \in ToSet(s.log)
        BY <2>3, <3>1 DEF Carries, Preserved
      <3>2. CASE y \in RowsOfCheckpoint(s.ck)
        <4>1. s.ck.n > ck.n /\ s.ck.who = ck.who
          BY <1>1, <2>3, <3>2
        <4>2. x.n > ck.n
          BY <1>0, <1>4, <4>1
        <4> QED  BY <1>4, <4>1, <4>2 DEF Carries
      <3> QED  BY <3>1, <3>2 DEF Preserved
    <2> QED  BY <2>1, <2>2, <2>3 DEF Carries
  <1> QED  BY <1>3, <1>4

-----------------------------------------------------------------------------
(* Saving a turn *)

LEMMA Apart ==
    /\ Follow \cap Turn = {}
    /\ NoTurn \notin Turn
    /\ Ask \subseteq Turn /\ Cont \subseteq Turn
  BY DEF Turn

LEMMA BodyFits ==
    ASSUME IInv, stage \in {"ending", "failing"}
    PROVE  Fits(mem.log, body, begun, {f \in Follow : took[f] # NoTurn}, cut, bare)
  <1> DEFINE told == {f \in Follow : took[f] # NoTurn}
  <1>1. /\ mem \in Session /\ mem.log \in Seq(Entry)
        /\ body \in Seq(Entry) /\ DOMAIN body = 1 .. Len(body)
        /\ begun \subseteq Turn /\ turn \in begun /\ turn \in Turn /\ Len(body) \in Nat
    BY DEF IInv, TypeOK, Session, FreshTurn
  <1>2. \A i \in DOMAIN body :
          /\ body[i].kind \in {"calls", "result", "final", "user"}
          /\ body[i].kind # "user" => body[i].who = {turn}
          /\ body[i].kind = "user" =>
               /\ i > 1 /\ body[i].n = 0 /\ body[i].who \subseteq Follow /\ body[i].who # {}
               /\ \A f \in body[i].who : took[f] = turn
    BY DEF IInv, SoundBody, SoundRows, BodyRows
  <1>3. turn # NoTurn
    BY <1>1, Apart
  <1>4. PairedRows(body)
    <2>1. BodyPaired(body, stage = "tools")
      BY DEF IInv, SoundBody, SoundRows
    <2>2. stage # "tools"
      OBVIOUS
    <2> QED  BY <1>2, <2>1, <2>2 DEF PairedRows, BodyPaired
  <1>5. RowsKnown(body, begun, told)
    <2>1. ASSUME NEW i \in DOMAIN body, body[i].kind = "user"
          PROVE  body[i].who \subseteq told /\ body[i].n = 0
      BY <1>2, <1>3, <2>1
    <2>2. ASSUME NEW i \in DOMAIN body, body[i].kind # "user"
          PROVE  body[i].who \subseteq begun
      BY <1>1, <1>2, <2>2
    <2> HIDE DEF told
    <2> QED  BY <2>1, <2>2 DEF RowsKnown, Work
  <1>6. IsInjective(body)
    BY DEF IInv, SoundBody, SoundRows
  <1>7. ASSUME NEW i \in DOMAIN mem.log, NEW j \in DOMAIN body, mem.log[i] = body[j]
        PROVE  FALSE
    <2>1. CASE body[j].kind = "user"
      <3>1. PICK f \in body[j].who : f \in Follow /\ took[f] = turn
        BY <1>2, <2>1
      <3>2. f \in begun \cup Told
        BY <1>7, <3>1 DEF IInv, Sound, SoundLog, RowsKnown
      <3> QED  BY <1>1, <3>1, <3>2, Apart DEF Told
    <2>2. CASE body[j].kind # "user"
      <3>1. mem.log[i].kind \in Work /\ mem.log[i].who = {turn}
        BY <1>2, <1>7, <2>2 DEF Work
      <3> QED  BY <3>1 DEF IInv, FreshTurn
    <2> QED  BY <2>1, <2>2
  <1>8. Truthful(body, cut)
    BY <1>2 DEF Truthful
  <1>9. ClosedRows(body, bare)
    BY <1>1, <1>2, Apart DEF ClosedRows, Owed
  <1>10. body # <<>> => body[1].kind # "user"
    BY <1>1, <1>2
  <1>11. \A j \in DOMAIN body : body[j].kind # "note"
    BY <1>2
  <1> QED  BY <1>4, <1>5, <1>6, <1>7, <1>8, <1>9, <1>10, <1>11 DEF Fits

LEMMA SplitIndex ==
    ASSUME NEW m \in Nat, NEW n \in Nat
    PROVE  \A i \in 1 .. m + n : i \in 1 .. m \/ \E j \in 1 .. n : i = m + j
  <1> TAKE i \in 1 .. m + n
  <1>1. CASE i > m
    <2>1. i - m \in 1 .. n /\ i = m + (i - m)
      BY <1>1
    <2> QED  BY <2>1
  <1> QED  BY <1>1

LEMMA SavedSound ==
    ASSUME IInv, stage \in {"ending", "failing"}
    PROVE  LET q == Saved(mem)
           IN  /\ q \in Session
               /\ IsPrefix(mem.log, q.log)
               /\ Sound(q, begun, {f \in Follow : took[f] # NoTurn}, cut, cut, bare)
               /\ \A ck \in Checkpoint : Carries(mem, ck) => Carries(q, ck)
  <1> DEFINE told == {f \in Follow : took[f] # NoTurn}
             q == Saved(mem)
  <1>1. /\ mem \in Session /\ mem.log \in Seq(Entry) /\ body \in Seq(Entry)
        /\ begun \subseteq Turn /\ turn \in begun /\ turn \in Turn
    BY DEF IInv, TypeOK, Session, FreshTurn
  <1>2. Fits(mem.log, body, begun, told, cut, bare)
    BY BodyFits
  <1> HIDE DEF told
  <1>3. Persistable(mem.log, body) = body
    <2>1. \A i \in DOMAIN body : body[i] \notin ToSet(mem.log)
      BY <1>2 DEF Fits, ToSet
    <2> QED  BY <2>1 DEF Persistable
  <1>4. q.log = mem.log \o body /\ q.mark = FALSE /\ q.ck = NoCheckpoint
    BY <1>3 DEF Saved
  <1>5. q \in Session
    <2>1. mem.log \o body \in Seq(Entry)
      BY <1>1
    <2>2. NoCheckpoint \in Checkpoint
      BY DEF NoCheckpoint, Checkpoint, Phases
    <2> QED  BY <1>3, <2>1, <2>2 DEF Saved, Session
  <1> HIDE DEF q
  <1>6. IsPrefix(mem.log, q.log)
    BY <1>1, <1>4, PrefixConcat
  <1>7. SoundLog(q.log, begun, told, cut, bare)
    <2>1. Told \subseteq told
      BY DEF Told, told
    <2>2. Sound(mem, begun, Told, cut, Open, bare)
      BY DEF IInv
    <2>3. Sound(mem, begun, told, cut, Open, bare)
      BY <1>1, <2>1, <2>2, SoundMono
    <2>4. SoundLog(mem.log, begun, told, cut, bare)
      BY <2>3 DEF Sound
    <2> QED  BY <1>1, <1>2, <1>4, <2>4, ConcatSound
  <1>8. SoundCheckpoint(q, begun, cut)
    BY <1>4 DEF SoundCheckpoint, NoCheckpoint
  <1>9. SoundMark(q, cut, bare)
    <2>1. CASE body = <<>>
      <3>1. q.log = mem.log
        BY <1>1, <1>4, <2>1
      <3>2. turn \in bare
        BY <2>1 DEF IInv, SoundBody
      <3>3. EndsWith(mem.log, "user") => Last(mem.log).who \cap (Turn \ bare) \subseteq {turn}
        BY DEF IInv, FreshTurn
      <3>4. EndsWith(q.log, "user") => ~Owed(Last(q.log), bare)
        BY <3>1, <3>2, <3>3 DEF Owed
      <3> QED  BY <1>4, <3>4 DEF SoundMark
    <2>2. CASE body # <<>>
      <3>1. Len(body) \in DOMAIN body /\ Last(q.log) = body[Len(body)]
        BY <1>1, <1>4, <2>2 DEF Last
      <3>2. body[Len(body)].kind = "user" => body[Len(body)].who \subseteq Follow
        BY <3>1 DEF IInv, SoundBody, SoundRows, BodyRows
      <3>3. ~Owed(Last(q.log), bare)
        BY <3>1, <3>2, Apart DEF Owed
      <3> QED  BY <1>4, <3>3 DEF SoundMark
    <2> QED  BY <2>1, <2>2
  <1>10. ToSet(q.log) = ToSet(mem.log) \cup ToSet(body)
    <2>1. /\ Len(q.log) = Len(mem.log) + Len(body)
          /\ \A i \in 1 .. Len(mem.log) : q.log[i] = mem.log[i] /\ i \in 1 .. Len(q.log)
          /\ \A i \in 1 .. Len(body) :
               q.log[Len(mem.log) + i] = body[i] /\ Len(mem.log) + i \in 1 .. Len(q.log)
      BY <1>1, <1>4
    <2>2. \A i \in 1 .. Len(q.log) :
            i \in 1 .. Len(mem.log) \/ \E j \in 1 .. Len(body) : i = Len(mem.log) + j
      <3>1. Len(mem.log) \in Nat /\ Len(body) \in Nat
        BY <1>1
      <3>2. Len(q.log) = Len(mem.log) + Len(body)
        BY <2>1
      <3>3. \A i \in 1 .. Len(mem.log) + Len(body) :
              i \in 1 .. Len(mem.log) \/ \E j \in 1 .. Len(body) : i = Len(mem.log) + j
        BY <3>1, SplitIndex
      <3> QED  BY <3>2, <3>3
    <2>3. /\ DOMAIN q.log = 1 .. Len(q.log) /\ DOMAIN mem.log = 1 .. Len(mem.log)
          /\ DOMAIN body = 1 .. Len(body)
      BY <1>1, <1>5 DEF Session
    <2>4. ASSUME NEW x \in ToSet(q.log)
          PROVE  x \in ToSet(mem.log) \cup ToSet(body)
      <3>1. PICK i \in 1 .. Len(q.log) : x = q.log[i]
        BY <2>3 DEF ToSet
      <3>2. CASE i \in 1 .. Len(mem.log)
        BY <2>1, <2>3, <3>1, <3>2 DEF ToSet
      <3>3. ASSUME NEW j \in 1 .. Len(body), i = Len(mem.log) + j
            PROVE  x \in ToSet(body)
        BY <2>1, <2>3, <3>1, <3>3 DEF ToSet
      <3> QED  BY <2>2, <3>2, <3>3
    <2>5. ToSet(mem.log) \subseteq ToSet(q.log) /\ ToSet(body) \subseteq ToSet(q.log)
      BY <2>1, <2>3 DEF ToSet
    <2> QED  BY <2>4, <2>5
  <1>11. ASSUME NEW ck \in Checkpoint, Carries(mem, ck)
         PROVE  Carries(q, ck)
    <2>1. mem.ck.phase = "none" \/ RowsOfCheckpoint(mem.ck) \subseteq ToSet(body)
      BY DEF IInv, CheckpointInBody
    <2> QED  BY <1>1, <1>5, <1>10, <1>11, <2>1, CarriesOn DEF Preserved
  <1> QED  BY <1>5, <1>6, <1>7, <1>8, <1>9, <1>11 DEF Sound, q, told

-----------------------------------------------------------------------------
(* The transcript of a turn *)

LEMMA TurnRowType ==
    ASSUME NEW t \in Turn, NEW kind \in {"calls", "result", "final"}, NEW k \in 0 .. MaxResponses
    PROVE  /\ TurnRow(t, kind, k) \in Entry
           /\ TurnRow(t, kind, k).kind = kind
           /\ TurnRow(t, kind, k).n = k
           /\ TurnRow(t, kind, k).who = {t}
  BY DEF TurnRow, Entry

LEMMA AppendRows ==
    ASSUME NEW rows \in Seq(Entry), NEW row \in Entry
    PROVE  /\ Append(rows, row) \in Seq(Entry)
           /\ Len(rows) \in Nat
           /\ DOMAIN rows = 1 .. Len(rows)
           /\ Len(Append(rows, row)) = Len(rows) + 1
           /\ DOMAIN Append(rows, row) = 1 .. Len(rows) + 1
           /\ Append(rows, row)[Len(rows) + 1] = row
           /\ \A i \in 1 .. Len(rows) : Append(rows, row)[i] = rows[i] /\ rows[i] \in Entry
  OBVIOUS

\* A row of the turn that is no user row: the response that made it is the
\* last one, and it is not there yet.
LEMMA AppendTurnRow ==
    ASSUME NEW rows \in Seq(Entry), NEW t \in Turn, NEW tk, NEW open \in BOOLEAN,
           NEW k \in 0 .. MaxResponses, NEW l \in 0 .. MaxResponses, k <= l,
           NEW kind \in {"calls", "result", "final"}, NEW more \in BOOLEAN,
           SoundRows(rows, open, t, tk, k),
           more <=> kind = "calls",
           open <=> kind = "result",
           kind = "calls" => k < l,
           kind = "result" => l = k,
           kind = "final" => \A i \in DOMAIN rows : rows[i] # TurnRow(t, "final", l)
    PROVE  SoundRows(Append(rows, TurnRow(t, kind, l)), more, t, tk, l)
  <1> DEFINE row == TurnRow(t, kind, l)
             all == Append(rows, row)
             n == Len(rows)
  <1>1. row \in Entry /\ row.kind = kind /\ row.n = l /\ row.who = {t}
    BY TurnRowType
  <1>2. /\ all \in Seq(Entry) /\ n \in Nat /\ DOMAIN rows = 1 .. n /\ n = Len(rows)
        /\ Len(all) = n + 1 /\ DOMAIN all = 1 .. n + 1 /\ all[n + 1] = row
        /\ \A i \in 1 .. n : all[i] = rows[i] /\ rows[i] \in Entry
    BY <1>1, AppendRows
  <1>3. k \in Nat /\ l \in Nat /\ \A i \in 1 .. n : rows[i].n \in Nat
    BY <1>2 DEF Entry
  <1>4. open => n # 0 /\ rows[n] = TurnRow(t, "calls", k)
    BY <1>2 DEF SoundRows, Last
  <1> HIDE DEF row, all, n
  <1>11. n \in Nat
    BY <1>2
  <1>5. \A i \in 1 .. n + 1 : i \in 1 .. n \/ i = n + 1
    BY <1>11
  <1>6. BodyRows(all, more, t, tk, l)
    <2>1. ASSUME NEW i \in 1 .. n
          PROVE  /\ all[i].kind \in {"calls", "result", "final", "user"}
                 /\ all[i].kind # "user" =>
                      /\ all[i].who = {t}
                      /\ all[i].n <= l
                      /\ more => all[i].n < l
                 /\ all[i].kind = "user" =>
                      /\ i > 1
                      /\ all[i].n = 0
                      /\ all[i].who \subseteq Follow
                      /\ all[i].who # {}
                      /\ \A f \in all[i].who :
                           /\ tk[f] = t
                           /\ \A j \in 1 .. n : f \in all[j].who => j = i
      <3>1. /\ rows[i].kind \in {"calls", "result", "final", "user"}
            /\ rows[i].kind # "user" => rows[i].who = {t} /\ rows[i].n <= k
            /\ rows[i].kind = "user" =>
                 /\ i > 1
                 /\ rows[i].n = 0
                 /\ rows[i].who \subseteq Follow
                 /\ rows[i].who # {}
                 /\ \A f \in rows[i].who :
                      /\ tk[f] = t
                      /\ \A j \in 1 .. n : f \in rows[j].who => j = i
        BY <1>2 DEF SoundRows, BodyRows
      <3>2. all[i].kind # "user" => all[i].n <= l /\ (more => all[i].n < l)
        BY <1>2, <1>3, <3>1
      <3> QED  BY <1>2, <3>1, <3>2
    <2>2. \A i \in 1 .. n : \A f \in all[i].who : all[i].kind = "user" => f \notin all[n + 1].who
      BY <1>1, <1>2, <2>1, Apart
    <2>3. ASSUME NEW i \in 1 .. n + 1
          PROVE  /\ all[i].kind \in {"calls", "result", "final", "user"}
                 /\ all[i].kind # "user" =>
                      /\ all[i].who = {t}
                      /\ all[i].n <= l
                      /\ more /\ i < n + 1 => all[i].n < l
                 /\ all[i].kind = "user" =>
                      /\ i > 1
                      /\ all[i].n = 0
                      /\ all[i].who \subseteq Follow
                      /\ all[i].who # {}
                      /\ \A f \in all[i].who :
                           /\ tk[f] = t
                           /\ \A j \in 1 .. n + 1 : f \in all[j].who => j = i
      <3>1. CASE i \in 1 .. n
        BY <1>5, <2>1, <2>2, <3>1
      <3>2. CASE i = n + 1
        BY <1>1, <1>2, <1>3, <3>2
      <3> QED  BY <1>5, <3>1, <3>2
    <2> QED  BY <1>2, <2>3 DEF BodyRows
  <1>7. BodyPaired(all, more)
    <2>1. \A i \in 1 .. n :
            /\ rows[i].kind = "calls" =>
                 \/ i = n /\ open
                 \/ i < n /\ rows[i+1].kind = "result" /\ rows[i+1].n = rows[i].n
            /\ rows[i].kind = "result" =>
                 i > 1 /\ rows[i-1].kind = "calls" /\ rows[i-1].n = rows[i].n
      BY <1>2 DEF SoundRows, BodyPaired
    <2>2. open => rows[n].kind = "calls" /\ rows[n].n = k
      BY <1>4, TurnRowType DEF TurnRow
    <2>3. ASSUME NEW i \in 1 .. n, all[i].kind = "calls"
          PROVE  i < n + 1 /\ all[i+1].kind = "result" /\ all[i+1].n = all[i].n
      <3>1. CASE i < n
        <4>1. i + 1 \in 1 .. n /\ i < n + 1
          BY <1>2, <3>1
        <4>2. rows[i].kind = "calls" /\ i # n
          BY <1>2, <2>3, <3>1
        <4> QED  BY <1>2, <2>1, <4>1, <4>2
      <3>2. CASE i = n
        <4>3. rows[n].kind = "calls" /\ n \in 1 .. n
          BY <1>2, <2>3, <3>2
        <4>4. ~(n < n)
          BY <1>11
        <4>5. open
          BY <2>1, <4>3, <4>4
        <4>1. kind = "result" /\ l = k
          BY <4>5
        <4>2. all[i] = rows[n] /\ all[i+1] = row /\ i < n + 1
          BY <1>2, <3>2
        <4> QED  BY <1>1, <2>2, <4>1, <4>2
      <3> QED  BY <1>11, <3>1, <3>2
    <2>4. ASSUME NEW i \in 1 .. n, all[i].kind = "result"
          PROVE  i > 1 /\ all[i-1].kind = "calls" /\ all[i-1].n = all[i].n
      <3>1. i > 1 /\ rows[i-1].kind = "calls" /\ rows[i-1].n = rows[i].n
        BY <1>2, <2>1, <2>4
      <3>2. i - 1 \in 1 .. n
        BY <1>2, <3>1
      <3> QED  BY <1>2, <3>1, <3>2
    <2>5. ASSUME kind = "result"
          PROVE  n + 1 > 1 /\ all[n].kind = "calls" /\ all[n].n = row.n
      <3>1. n \in 1 .. n
        BY <1>2, <1>4, <2>5
      <3> QED  BY <1>1, <1>2, <2>2, <2>5, <3>1
    <2>6. n + 1 - 1 = n
      BY <1>2
    <2>7. ASSUME NEW i \in 1 .. n + 1
          PROVE  /\ all[i].kind = "calls" =>
                      \/ i = n + 1 /\ more
                      \/ i < n + 1 /\ all[i+1].kind = "result" /\ all[i+1].n = all[i].n
                 /\ all[i].kind = "result" =>
                      i > 1 /\ all[i-1].kind = "calls" /\ all[i-1].n = all[i].n
      <3>1. CASE i \in 1 .. n
        BY <2>3, <2>4, <3>1
      <3>2. CASE i = n + 1
        BY <1>1, <1>2, <2>5, <2>6, <3>2
      <3> QED  BY <1>5, <3>1, <3>2
    <2> QED  BY <1>2, <2>7 DEF BodyPaired
  <1>8. ASSUME NEW i \in 1 .. n, rows[i] = row
        PROVE  FALSE
    <2>1. rows[i].kind # "user" => rows[i].n <= k /\ (open /\ i < n => rows[i].n < k)
      BY <1>2 DEF SoundRows, BodyRows
    <2>2. CASE kind = "calls"
      BY <1>1, <1>3, <1>8, <2>1, <2>2
    <2>3. CASE kind = "final"
      BY <1>2, <1>8, <2>3 DEF row
    <2>4. CASE kind = "result"
      <3>1. i # n
        BY <1>1, <1>4, <1>8, <2>4 DEF TurnRow
      <3>2. i < n
        BY <1>11, <3>1
      <3> QED  BY <1>1, <1>3, <1>8, <2>1, <2>4, <3>2
    <2> QED  BY <2>2, <2>3, <2>4
  <1>9. IsInjective(all)
    <2>1. IsInjective(rows)
      BY DEF SoundRows
    <2>2. ASSUME NEW i \in 1 .. n + 1, NEW j \in 1 .. n + 1, all[i] = all[j]
          PROVE  i = j
      <3>1. CASE i \in 1 .. n /\ j \in 1 .. n
        BY <1>2, <2>1, <2>2, <3>1 DEF IsInjective
      <3>2. CASE i \in 1 .. n /\ j = n + 1
        BY <1>2, <1>8, <2>2, <3>2
      <3>3. CASE i = n + 1 /\ j \in 1 .. n
        BY <1>2, <1>8, <2>2, <3>3
      <3> QED  BY <1>5, <3>1, <3>2, <3>3
    <2> QED  BY <1>2, <2>2 DEF IsInjective
  <1>10. more => all # <<>> /\ Last(all) = TurnRow(t, "calls", l)
    <2>1. all # <<>> /\ Last(all) = row
      BY <1>2 DEF Last
    <2> QED  BY <2>1 DEF row
  <1> QED  BY <1>6, <1>7, <1>9, <1>10 DEF SoundRows, all, row

\* A follow-up becomes, or joins, the last row.
LEMMA JoinSound ==
    ASSUME NEW rows \in Seq(Entry), NEW all \in Seq(Entry), NEW t \in Turn,
           NEW tk \in [Follow -> Turn \cup {NoTurn}], NEW k \in 0 .. MaxResponses,
           SoundRows(rows, FALSE, t, tk, k),
           NEW f \in Follow, tk[f] = NoTurn,
           NEW w, NEW m \in Nat, m > 1, Len(all) = m,
           \A i \in 1 .. m - 1 : all[i] = rows[i],
           all[m].kind = "user", all[m].n = 0, all[m].who = w \cup {f},
           \/ Len(rows) = m /\ rows[m].kind = "user" /\ w = rows[m].who
           \/ Len(rows) = m - 1 /\ w = {}
    PROVE  SoundRows(all, FALSE, t, [tk EXCEPT ![f] = t], k)
  <1> DEFINE tk2 == [tk EXCEPT ![f] = t]
  <1>1. /\ DOMAIN all = 1 .. m /\ DOMAIN rows = 1 .. Len(rows) /\ Len(rows) \in Nat
        /\ 1 .. m - 1 \subseteq 1 .. Len(rows)
    OBVIOUS
  <1>2. \A i \in 1 .. m : i \in 1 .. m - 1 \/ i = m
    OBVIOUS
  <1>3. tk2[f] = t /\ \A g \in Follow : g # f => tk2[g] = tk[g]
    OBVIOUS
  <1> HIDE DEF tk2
  <1>4. \A i \in 1 .. Len(rows) :
          /\ rows[i].kind \in {"calls", "result", "final", "user"}
          /\ rows[i].kind # "user" => rows[i].who = {t} /\ rows[i].n <= k
          /\ rows[i].kind = "user" =>
               /\ i > 1
               /\ rows[i].n = 0
               /\ rows[i].who \subseteq Follow
               /\ rows[i].who # {}
               /\ \A g \in rows[i].who :
                    /\ tk[g] = t
                    /\ \A j \in 1 .. Len(rows) : g \in rows[j].who => j = i
    <2>1. BodyRows(rows, FALSE, t, tk, k) /\ DOMAIN rows = 1 .. Len(rows)
      BY <1>1 DEF SoundRows
    <2> TAKE i \in 1 .. Len(rows)
    <2>2. /\ rows[i].kind \in {"calls", "result", "final", "user"}
          /\ rows[i].kind # "user" => rows[i].who = {t} /\ rows[i].n <= k
          /\ rows[i].kind = "user" =>
               /\ i > 1
               /\ rows[i].n = 0
               /\ rows[i].who \subseteq Follow
               /\ rows[i].who # {}
               /\ \A g \in rows[i].who :
                    /\ tk[g] = t
                    /\ \A j \in DOMAIN rows : g \in rows[j].who => j = i
      BY <2>1 DEF BodyRows
    <2> QED  BY <2>1, <2>2
  <1>5. t # NoTurn /\ f # t
    BY Apart
  <1>6. \A i \in 1 .. Len(rows) : f \notin rows[i].who
    BY <1>4, <1>5
  <1>7. /\ w \subseteq Follow
        /\ \A g \in w : tk[g] = t /\ \A j \in 1 .. m - 1 : g \notin rows[j].who
    <2>1. CASE Len(rows) = m /\ rows[m].kind = "user" /\ w = rows[m].who
      <3>1. m \in 1 .. Len(rows) /\ \A j \in 1 .. m - 1 : j \in 1 .. Len(rows) /\ j # m
        BY <2>1
      <3> QED  BY <1>4, <2>1, <3>1
    <2>2. CASE w = {}
      BY <2>2
    <2> QED  BY <2>1, <2>2
  <1>8. BodyRows(all, FALSE, t, tk2, k)
    <2>1. ASSUME NEW i \in 1 .. m - 1
          PROVE  /\ all[i].kind \in {"calls", "result", "final", "user"}
                 /\ all[i].kind # "user" => all[i].who = {t} /\ all[i].n <= k
                 /\ all[i].kind = "user" =>
                      /\ i > 1
                      /\ all[i].n = 0
                      /\ all[i].who \subseteq Follow
                      /\ all[i].who # {}
                      /\ \A g \in all[i].who :
                           /\ tk2[g] = t
                           /\ \A j \in 1 .. m : g \in all[j].who => j = i
      <3>1. i \in 1 .. Len(rows) /\ all[i] = rows[i]
        BY <1>1
      <3>2. ASSUME all[i].kind = "user", NEW g \in all[i].who, NEW j \in 1 .. m, g \in all[j].who
            PROVE  j = i
        <4>1. g # f /\ g \notin w
          BY <1>6, <1>7, <3>1, <3>2
        <4>2. j \in 1 .. m - 1 /\ j \in 1 .. Len(rows) /\ all[j] = rows[j]
          BY <1>1, <1>2, <3>2, <4>1
        <4> QED  BY <1>4, <3>1, <3>2, <4>2
      <3>3. ASSUME all[i].kind = "user", NEW g \in all[i].who
            PROVE  tk2[g] = t
        BY <1>3, <1>4, <1>6, <3>1, <3>3
      <3> QED  BY <1>4, <3>1, <3>2, <3>3
    <2>2. ASSUME NEW g \in w \cup {f}
          PROVE  tk2[g] = t /\ \A j \in 1 .. m : g \in all[j].who => j = m
      <3>1. tk2[g] = t
        BY <1>3, <1>7
      <3>2. \A j \in 1 .. m - 1 : g \notin all[j].who
        <4>1. ASSUME NEW j \in 1 .. m - 1
              PROVE  g \notin rows[j].who
          <5>1. j \in 1 .. Len(rows)
            BY <1>1
          <5> QED  BY <1>6, <1>7, <5>1
        <4> QED  BY <4>1
      <3> QED  BY <1>2, <3>1, <3>2
    <2>3. w \cup {f} \subseteq Follow /\ w \cup {f} # {}
      BY <1>7
    <2>4. ASSUME NEW i \in DOMAIN all
          PROVE  /\ all[i].kind \in {"calls", "result", "final", "user"}
                 /\ all[i].kind # "user" => all[i].who = {t} /\ all[i].n <= k
                 /\ all[i].kind = "user" =>
                      /\ i > 1
                      /\ all[i].n = 0
                      /\ all[i].who \subseteq Follow
                      /\ all[i].who # {}
                      /\ \A g \in all[i].who :
                           /\ tk2[g] = t
                           /\ \A j \in DOMAIN all : g \in all[j].who => j = i
      <3>1. CASE i \in 1 .. m - 1
        BY <1>1, <2>1, <3>1
      <3>2. CASE i = m
        BY <1>1, <2>2, <2>3, <3>2
      <3> QED  BY <1>1, <1>2, <3>1, <3>2
    <2> QED  BY <2>4, Zenon DEF BodyRows
  <1>9. BodyPaired(all, FALSE)
    <2>1. \A i \in 1 .. Len(rows) :
            /\ rows[i].kind = "calls" =>
                 i < Len(rows) /\ rows[i+1].kind = "result" /\ rows[i+1].n = rows[i].n
            /\ rows[i].kind = "result" =>
                 i > 1 /\ rows[i-1].kind = "calls" /\ rows[i-1].n = rows[i].n
      BY <1>1 DEF SoundRows, BodyPaired
    <2>2. ASSUME NEW i \in 1 .. m - 1, all[i].kind = "calls"
          PROVE  i < m /\ all[i+1].kind = "result" /\ all[i+1].n = all[i].n
      <3>1. i \in 1 .. Len(rows) /\ all[i] = rows[i] /\ i < m
        BY <1>1
      <3>2. i < Len(rows) /\ rows[i+1].kind = "result" /\ rows[i+1].n = rows[i].n
        BY <2>1, <2>2, <3>1
      <3>3. i + 1 # m
        BY <3>2
      <3>4. i + 1 \in 1 .. m - 1
        BY <3>3
      <3> QED  BY <3>1, <3>2, <3>4
    <2>3. ASSUME NEW i \in 1 .. m - 1, all[i].kind = "result"
          PROVE  i > 1 /\ all[i-1].kind = "calls" /\ all[i-1].n = all[i].n
      <3>1. i \in 1 .. Len(rows) /\ all[i] = rows[i]
        BY <1>1
      <3>2. i > 1 /\ rows[i-1].kind = "calls" /\ rows[i-1].n = rows[i].n
        BY <2>1, <2>3, <3>1
      <3>3. i - 1 \in 1 .. m - 1
        BY <3>2
      <3> QED  BY <3>1, <3>2, <3>3
    <2> QED  BY ZenonT(60), <1>1, <1>2, <2>2, <2>3 DEF BodyPaired
  <1>10. IsInjective(all)
    <2>1. IsInjective(rows)
      BY DEF SoundRows
    <2>2. \A i \in 1 .. m - 1 : f \notin all[i].who
      BY <1>1, <1>6
    <2>3. ASSUME NEW i \in 1 .. m, NEW j \in 1 .. m, all[i] = all[j]
          PROVE  i = j
      <3>1. CASE i \in 1 .. m - 1 /\ j \in 1 .. m - 1
        BY <1>1, <2>1, <2>3, <3>1 DEF IsInjective
      <3>2. CASE i = m \/ j = m
        <4>1. f \in all[i].who /\ f \in all[j].who
          BY <2>3, <3>2
        <4> QED  BY <1>2, <2>2, <4>1
      <3> QED  BY <1>2, <3>1, <3>2
    <2> QED  BY <1>1, <2>3 DEF IsInjective
  <1> QED  BY <1>8, <1>9, <1>10 DEF SoundRows, tk2

LEMMA InjectedSound ==
    ASSUME NEW rows \in Seq(Entry), NEW t \in Turn,
           NEW tk \in [Follow -> Turn \cup {NoTurn}], NEW k \in 0 .. MaxResponses,
           SoundRows(rows, FALSE, t, tk, k),
           NEW f \in Follow, tk[f] = NoTurn
    PROVE  /\ Injected(rows, f) \in Seq(Entry)
           /\ SoundRows(Injected(rows, f), FALSE, t, [tk EXCEPT ![f] = t], k)
           /\ \A x \in ToSet(rows) : x.kind # "user" => x \in ToSet(Injected(rows, f))
  <1> DEFINE all == Injected(rows, f)
             n == Len(rows)
  <1>1. n \in Nat /\ DOMAIN rows = 1 .. n /\ \A i \in 1 .. n : rows[i] \in Entry
    OBVIOUS
  <1>2. CASE rows = <<>>
    <2>1. all = rows
      BY <1>2 DEF Injected
    <2>2. DOMAIN rows = {}
      BY <1>2
    <2>3. SoundRows(rows, FALSE, t, [tk EXCEPT ![f] = t], k)
      BY <2>2 DEF SoundRows, BodyRows, BodyPaired
    <2> QED  BY <2>1, <2>3
  <1>3. CASE EndsWith(rows, "user")
    <2> DEFINE row == UserRow(rows[n].who \cup {f})
               front == SubSeq(rows, 1, n - 1)
    <2>1. n # 0 /\ Last(rows) = rows[n] /\ rows[n].kind = "user" /\ rows # <<>>
      BY <1>3 DEF EndsWith, Last
    <2>2. n \in 1 .. n /\ rows[n] \in Entry
      BY <1>1, <2>1
    <2>3. n > 1
      BY <1>1, <2>1, <2>2 DEF SoundRows, BodyRows
    <2>4. front \in Seq(Entry) /\ Len(front) = n - 1 /\ \A i \in 1 .. n - 1 : front[i] = rows[i]
      BY <1>1, <2>3
    <2>5. row \in Entry /\ row.kind = "user" /\ row.n = 0 /\ row.who = rows[n].who \cup {f}
      BY <2>2 DEF UserRow, Entry
    <2>6. all = Append(front, row)
      BY <1>3, <2>1 DEF Injected, Front
    <2> HIDE DEF all, front, row
    <2>7. /\ all \in Seq(Entry) /\ Len(all) = n /\ all[n] = row
          /\ \A i \in 1 .. n - 1 : all[i] = rows[i]
      <3>1. n - 1 + 1 = n
        BY <1>1
      <3> QED  BY <2>4, <2>5, <2>6, <3>1, AppendRows
    <2>8. SoundRows(all, FALSE, t, [tk EXCEPT ![f] = t], k)
      <3> HIDE DEF n
      <3>1. n = Len(rows)
        BY DEF n
      <3> QED  BY <1>1, <2>1, <2>3, <2>5, <2>7, <3>1, JoinSound
    <2>9. ASSUME NEW x \in ToSet(rows), x.kind # "user"
          PROVE  x \in ToSet(all)
      <3>1. PICK i \in 1 .. n : x = rows[i]
        BY <1>1 DEF ToSet
      <3>2. i \in 1 .. n - 1
        BY <1>1, <2>1, <2>9, <3>1
      <3>3. i \in DOMAIN all /\ all[i] = x
        BY <1>1, <2>7, <3>1, <3>2
      <3> QED  BY <3>3 DEF ToSet
    <2> QED  BY <2>7, <2>8, <2>9 DEF all
  <1>4. CASE rows # <<>> /\ ~EndsWith(rows, "user")
    <2> DEFINE row == UserRow({f})
               m == n + 1
    <2>1. n # 0
      BY <1>4
    <2>2. row \in Entry /\ row.kind = "user" /\ row.n = 0 /\ row.who = {f}
      BY DEF UserRow, Entry
    <2>3. all = Append(rows, row)
      BY <1>4 DEF Injected
    <2> HIDE DEF all, row
    <2>4. /\ all \in Seq(Entry) /\ Len(all) = m /\ all[m] = row /\ m \in Nat /\ m > 1
          /\ m - 1 = n /\ \A i \in 1 .. m - 1 : all[i] = rows[i]
      BY <1>1, <2>1, <2>2, <2>3, AppendRows
    <2>5. SoundRows(all, FALSE, t, [tk EXCEPT ![f] = t], k)
      <3> HIDE DEF n, m
      <3>1. n = Len(rows) /\ {f} = {} \cup {f}
        BY DEF n
      <3>2. Len(rows) = m - 1 /\ all[m].kind = "user" /\ all[m].n = 0 /\ all[m].who = {} \cup {f}
        BY <2>2, <2>4, <3>1
      <3> QED  BY <2>4, <3>2, JoinSound
    <2>6. ToSet(rows) \subseteq ToSet(all)
      BY ZenonT(60), <2>2, <2>3, AppendLast
    <2> QED  BY <2>4, <2>5, <2>6 DEF all
  <1> QED  BY <1>2, <1>3, <1>4 DEF EndsWith

-----------------------------------------------------------------------------
(* Steps *)

\* Both copies of the session after a step, and what came of the file.
Stored ==
    /\ mem' \in Session /\ disk' \in Session
    /\ Sound(mem, begun, Told, cut, Open, bare)'
    /\ Sound(disk, begun, Told, cut, Open, bare)'
    /\ Carries(mem, disk.ck)'
    /\ IsPrefix(disk.log, mem.log)'
    /\ IsPrefix(disk.log, disk'.log)
    /\ Carries(disk', disk.ck)

Grows ==
    /\ begun \subseteq begun' /\ Told \subseteq Told' /\ cut \subseteq cut'
    /\ Open \subseteq Open' /\ bare \subseteq bare'

\* A step of a turn takes at most one follow-up.
Takes ==
    \/ took' = took
    \/ \E f \in Follow : took[f] = NoTurn /\ took' = [took EXCEPT ![f] = turn]

LEMMA SelfCarried ==
    ASSUME NEW s PROVE Carries(s, s.ck)
  BY DEF Carries, Preserved

LEMMA InvTypes ==
    ASSUME IInv
    PROVE  /\ mem \in Session /\ disk \in Session
           /\ mem.log \in Seq(Entry) /\ disk.log \in Seq(Entry)
           /\ mem.ck \in Checkpoint /\ disk.ck \in Checkpoint
           /\ body \in Seq(Entry) /\ responses \in 0 .. MaxResponses
           /\ MaxResponses \in Nat
           /\ took \in [Follow -> Turn \cup {NoTurn}]
           /\ begun \subseteq Turn
           /\ stage # "idle" => turn \in Turn /\ turn \in begun /\ turn # NoTurn
           /\ stage = "idle" => turn = NoTurn
  BY Apart DEF IInv, TypeOK, Session, FreshTurn

LEMMA StoredUnchanged ==
    ASSUME IInv, Grows, UNCHANGED <<mem, disk>>
    PROVE  Stored
  <1>1. Sound(mem, begun', Told', cut', Open', bare')
    BY InvTypes, SoundMono DEF IInv, Grows
  <1>2. Sound(disk, begun', Told', cut', Open', bare')
    BY InvTypes, SoundMono DEF IInv, Grows
  <1>3. IsPrefix(disk.log, disk.log)
    BY InvTypes, PrefixDef
  <1>4. Carries(mem, disk.ck) /\ IsPrefix(disk.log, mem.log)
    BY DEF IInv
  <1> QED  BY <1>1, <1>2, <1>3, <1>4, InvTypes, SelfCarried DEF Stored

LEMMA StoredWrite ==
    ASSUME IInv, Grows, NEW s \in Session, NEW ok \in BOOLEAN, Write(s, ok),
           IsPrefix(mem.log, s.log),
           \A ck \in Checkpoint : Carries(mem, ck) => Carries(s, ck),
           Sound(s, begun', Told', cut', Open', bare')
    PROVE  Stored
  <1>1. mem' = s /\ disk' = IF ok THEN s ELSE disk
    BY DEF Write
  <1>2. Sound(disk, begun', Told', cut', Open', bare')
    BY InvTypes, SoundMono DEF IInv, Grows
  <1>3. s.log \in Seq(Entry)
    BY DEF Session
  <1>4. IsPrefix(disk.log, s.log) /\ IsPrefix(disk.log, disk.log) /\ IsPrefix(s.log, s.log)
    BY <1>3, InvTypes, PrefixDef, PrefixTrans DEF IInv
  <1>5. Carries(s, disk.ck)
    BY InvTypes DEF IInv
  <1>6. CASE ok
    <2>1. disk' = s
      BY <1>1, <1>6
    <2> QED  BY <1>1, <1>4, <1>5, <2>1, SelfCarried DEF Stored
  <1>7. CASE ~ok
    <2>1. disk' = disk
      BY <1>1, <1>7
    <2> QED  BY <1>1, <1>2, <1>4, <1>5, <2>1, InvTypes, SelfCarried DEF Stored
  <1> QED  BY <1>6, <1>7

\* What a turn that is over leaves behind.
LEMMA Idle ==
    ASSUME stage' = "idle", body' = <<>>
    PROVE  FreshTurn' /\ SoundBody' /\ CheckpointInBody'
  <1>1. DOMAIN body' = {}
    OBVIOUS
  <1>2. SoundRows(body', (stage' = "tools"), turn', took', responses')
    BY <1>1 DEF SoundRows, BodyRows, BodyPaired, IsInjective
  <1> QED  BY <1>2 DEF FreshTurn, SoundBody, CheckpointInBody

\* A turn that is cut: its rows may not be told from those of others any more.
LEMMA CutGrows ==
    ASSUME IInv, stage # "idle", CutTurn, Takes, UNCHANGED <<begun, bare>>
    PROVE  Grows /\ cut' = Open /\ Open' = Open
  <1>1. turn # NoTurn /\ turn' = NoTurn /\ cut' = cut \cup {turn}
    BY InvTypes DEF CutTurn, EndTurn
  <1>2. Told \subseteq Told'
    BY <1>1, InvTypes DEF Told, Takes
  <1> QED  BY <1>1, <1>2 DEF Grows, Open

LEMMA CutIdle ==
    ASSUME IInv, stage # "idle", CutTurn, Stored,
           Takes, responses' \in 0 .. MaxResponses,
           UNCHANGED <<begun, queued, bare>>
    PROVE  IInv'
  <1>1. stage' = "idle" /\ turn' = NoTurn /\ body' = <<>> /\ cut' = cut \cup {turn}
    BY DEF CutTurn, EndTurn
  <1>2. FreshTurn' /\ SoundBody' /\ CheckpointInBody'
    BY <1>1, Idle
  <1>4. turn \in Turn /\ turn \in begun /\ took \in [Follow -> Turn \cup {NoTurn}]
    BY InvTypes
  <1>5. took' \in [Follow -> Turn \cup {NoTurn}]
        /\ \A f \in Follow : took'[f] \in begun' \cup {NoTurn}
    BY <1>4 DEF IInv, Takes
  <1>3. TypeOK'
    <2>2. <<>> \in Seq(Entry)
      OBVIOUS
    <2> QED  BY <1>1, <1>4, <1>5, <2>2 DEF IInv, TypeOK, Stored, Stages
  <1> QED  BY <1>2, <1>3, <1>5 DEF IInv, Stored

\* A turn that goes on.
LEMMA RunGrows ==
    ASSUME IInv, stage # "idle", UNCHANGED <<turn, begun, cut>>, bare \subseteq bare', Takes
    PROVE  Grows
  <1>1. Open' = Open
    BY DEF Open
  <1>2. Told \subseteq Told'
    BY InvTypes DEF Told, Takes
  <1> QED  BY <1>1, <1>2 DEF Grows

LEMMA GoesOn ==
    ASSUME IInv, stage # "idle", UNCHANGED <<turn, begun, cut>>, Stored,
           mem'.log = mem.log,
           stage' \in Stages \ {"idle", "restored"},
           body' \in Seq(Entry), SoundBody', CheckpointInBody',
           responses' \in 0 .. MaxResponses,
           Takes,
           bare' \in {bare, bare \cup {turn}},
           queued' \subseteq Cont
    PROVE  IInv'
  <1>1. turn \in Turn /\ turn \in begun /\ took \in [Follow -> Turn \cup {NoTurn}]
    BY InvTypes
  <1>2. took' \in [Follow -> Turn \cup {NoTurn}]
        /\ \A f \in Follow : took'[f] \in begun' \cup {NoTurn}
    BY <1>1 DEF IInv, Takes
  <1>3. TypeOK'
    BY <1>1, <1>2, Apart DEF IInv, TypeOK, Stored
  <1>4. FreshTurn'
    BY DEF IInv, FreshTurn
  <1> QED  BY <1>2, <1>3, <1>4 DEF IInv, Stored

LEMMA CheckpointWrite ==
    ASSUME IInv, stage \notin {"idle", "restored"}, Grows,
           NEW phase \in Phases \ {"none"}, NEW k \in 0 .. MaxResponses,
           NEW ok \in BOOLEAN, Write(Checkpointed(phase, k), ok),
           \/ mem.ck.phase = "none"
           \/ k > mem.ck.n
           \/ RowsOfCheckpoint(mem.ck)
                \subseteq RowsOfCheckpoint([phase |-> phase, n |-> k, who |-> {turn}])
    PROVE  /\ Stored
           /\ mem'.log = mem.log
           /\ mem'.ck = [phase |-> phase, n |-> k, who |-> {turn}]
  <1> DEFINE ck == [phase |-> phase, n |-> k, who |-> {turn}]
             q == Checkpointed(phase, k)
  <1>1. turn \in Turn /\ turn \in begun /\ turn # NoTurn /\ turn \in Open
    BY InvTypes DEF Open
  <1>2. \A i \in DOMAIN mem.log : mem.log[i].kind \in Work => mem.log[i].who # {turn}
    BY DEF IInv, FreshTurn
  <1>3. Sound(mem, begun, Told, cut, Open, bare)
    BY DEF IInv
  <1>4. q = [mem EXCEPT !.ck = ck]
    BY DEF Checkpointed
  <1>5. /\ q \in Session /\ q.log = mem.log /\ q.ck = ck
        /\ Sound(q, begun, Told, cut, Open, bare)
    <2> HIDE DEF q, ck
    <2>1. ck = [phase |-> phase, n |-> k, who |-> {turn}] /\ mem \in Session
      BY InvTypes DEF ck
    <2> QED  BY <1>1, <1>2, <1>3, <1>4, <2>1, CheckpointedSound
  <1> HIDE DEF q
  <1>6. Sound(q, begun', Told', cut', Open', bare')
    BY <1>5, SoundMono DEF Grows
  <1>7. IsPrefix(mem.log, q.log)
    BY <1>5, InvTypes, PrefixDef
  <1>8. ck \in Checkpoint /\ ck.phase = phase /\ ck.n = k /\ ck.who = {turn}
    BY <1>1 DEF Checkpoint
  <1> HIDE DEF ck
  <1>9. \E x \in RowsOfCheckpoint(ck) : x.n = k /\ x.who = {turn} /\ x.n \in Nat
    <2>1. RowsOfCheckpoint(ck) # {}
      BY <1>8, RestorableHolds DEF Phases
    <2> QED  BY <1>8, <2>1, RestorableHolds
  <1>10. ASSUME NEW old \in Checkpoint, Carries(mem, old)
         PROVE  Carries(q, old)
    <2>1. mem.ck.phase # "none" => mem.ck.who = {turn}
      BY DEF IInv, CheckpointInBody
    <2>2. RowsOfCheckpoint(ck) \subseteq Preserved(q)
      BY <1>5 DEF Preserved
    <2>3. \/ mem.ck.phase = "none"
          \/ RowsOfCheckpoint(mem.ck) \subseteq Preserved(q)
          \/ \E x \in Preserved(q) : x.n > mem.ck.n /\ x.who = mem.ck.who /\ x.n \in Nat
      BY <1>9, <2>1, <2>2 DEF ck
    <2> QED  BY <1>5, <1>10, <2>3, InvTypes, CarriesOn
  <1>11. Write(q, ok)
    BY DEF q
  <1>12. Stored
    BY <1>5, <1>6, <1>7, <1>10, <1>11, StoredWrite
  <1> QED  BY <1>5, <1>11, <1>12 DEF Write, ck

-----------------------------------------------------------------------------
(* The actions *)

LEMMA InitInv == Init => IInv
  <1> SUFFICES ASSUME Init PROVE IInv
    OBVIOUS
  <1> USE DEF Init
  <1>1. NoCheckpoint \in Checkpoint /\ EmptySession \in Session
    BY DEF NoCheckpoint, EmptySession, Checkpoint, Session, Phases
  <1>2. TypeOK
    BY <1>1 DEF TypeOK, Stages
  <1>3. mem.log = <<>> /\ mem.ck.phase = "none" /\ mem.ck.who = {} /\ disk = mem /\ DOMAIN mem.log = {}
        /\ DOMAIN body = {}
    BY DEF EmptySession, NoCheckpoint
  <1>4. SoundLog(mem.log, begun, Told, cut, bare)
    BY <1>3 DEF SoundLog, PairedRows, RowsKnown, IsInjective, NotesFollow, Truthful, ClosedRows
  <1>5. Sound(mem, begun, Told, cut, Open, bare)
    BY <1>3, <1>4 DEF Sound, SoundCheckpoint, SoundMark, EndsWith
  <1>6. SoundRows(body, (stage = "tools"), turn, took, responses)
    BY <1>3 DEF SoundRows, BodyRows, BodyPaired, IsInjective
  <1>7. FreshTurn /\ SoundBody /\ CheckpointInBody
    BY <1>6 DEF FreshTurn, SoundBody, CheckpointInBody
  <1>8. IsPrefix(disk.log, mem.log)
    BY <1>1, <1>3, PrefixDef DEF Session
  <1>9. \A f \in Follow : took[f] \in begun \cup {NoTurn}
    OBVIOUS
  <1> QED  BY <1>2, <1>3, <1>5, <1>7, <1>8, <1>9, SelfCarried DEF IInv

LEMMA RestoreStep ==
    ASSUME IInv, NEW t \in Turn, Restore(t)
    PROVE  IInv' /\ Stored
  <1> DEFINE r == RestoreCheckpoint(mem)
             s == RestorePending(r)
  <1>1. /\ stage = "idle" /\ turn = NoTurn /\ t \notin begun /\ t # NoTurn
        /\ begun' = begun \cup {t} /\ Open = cut
        /\ UNCHANGED <<responses, took, queued, bare>>
    BY InvTypes, Apart DEF Restore, Open
  <1>2. /\ r \in Session /\ r.ck.phase = "none" /\ IsPrefix(mem.log, r.log)
        /\ Preserved(mem) \subseteq Preserved(r)
        /\ Sound(r, begun, Told, cut, cut, bare)
    BY <1>1, InvTypes, RestoreCheckpointSound DEF IInv
  <1> HIDE DEF r
  <1>3. /\ s \in Session /\ s.ck.phase = "none" /\ ~s.mark /\ IsPrefix(r.log, s.log)
        /\ Preserved(r) \subseteq Preserved(s)
        /\ Sound(s, begun, Told, cut, cut, bare)
    BY <1>2, RestorePendingSound
  <1> HIDE DEF s
  <1>4. IsPrefix(mem.log, s.log)
    BY <1>2, <1>3, InvTypes, PrefixTrans DEF Session
  <1>5. \A ck \in Checkpoint : Carries(mem, ck) => Carries(s, ck)
    BY <1>2, <1>3, CarriesMore
  <1>6. body = <<>>
    BY <1>1 DEF IInv, SoundBody
  <1>7. PICK ok \in BOOLEAN :
           IF s = mem \/ ok
             THEN /\ Write(s, s # mem)
                  /\ stage' = "restored"
                  /\ turn' = t
                  /\ UNCHANGED <<body, cut>>
             ELSE /\ Write(s, FALSE)
                  /\ cut' = cut \cup {t}
                  /\ UNCHANGED <<stage, turn, body>>
    BY DEF Restore, Outcomes, s, r
  <1>8. \A f \in Follow : took'[f] \in begun' \cup {NoTurn}
    BY <1>1 DEF IInv
  <1>9. CASE s = mem \/ ok
    <2>1. Write(s, (s # mem)) /\ stage' = "restored" /\ turn' = t /\ body' = body /\ cut' = cut
      BY <1>7, <1>9
    <2>2. Grows
      <3>1. Told \subseteq Told'
        BY <1>1, <2>1 DEF Told, IInv
      <3> QED  BY <1>1, <2>1, <3>1 DEF Grows, Open
    <2>3. Sound(s, begun', Told', cut', Open', bare')
      BY <1>1, <1>3, <2>2, SoundMono DEF Grows
    <2>4. (s # mem) \in BOOLEAN
      OBVIOUS
    <2>5. Stored
      BY <1>3, <1>4, <1>5, <2>1, <2>2, <2>3, <2>4, StoredWrite
    <2>6. mem' = s
      BY <2>1 DEF Write
    <2>7. FreshTurn'
      <3>1. \A i \in DOMAIN s.log : t \notin s.log[i].who
        <4>1. t \notin begun \cup Told
          BY <1>1, Apart DEF Told
        <4> QED  BY <1>3, <4>1 DEF Sound, SoundLog, RowsKnown
      <3>2. EndsWith(s.log, "user") => ~Owed(Last(s.log), bare)
        BY <1>3 DEF Sound, SoundMark
      <3>3. EndsWith(s.log, "user") => Last(s.log).who \cap (Turn \ bare) = {}
        BY <3>2 DEF Owed, EndsWith
      <3> QED  BY <1>1, <1>3, <2>1, <2>6, <3>1, <3>3 DEF FreshTurn
    <2>8. SoundBody'
      <3>1. DOMAIN body' = {}
        BY <1>6, <2>1
      <3>2. SoundRows(body', (stage' = "tools"), turn', took', responses')
        BY <2>1, <3>1 DEF SoundRows, BodyRows, BodyPaired, IsInjective
      <3> QED  BY <1>6, <2>1, <3>2 DEF SoundBody
    <2>9. CheckpointInBody'
      BY <2>1 DEF CheckpointInBody
    <2>10. TypeOK'
      BY <1>1, <2>1, <2>5 DEF IInv, TypeOK, Stored, Stages
    <2> QED  BY <1>8, <2>5, <2>7, <2>8, <2>9, <2>10 DEF IInv, Stored
  <1>10. CASE ~(s = mem \/ ok)
    <2>1. Write(s, FALSE) /\ stage' = stage /\ turn' = turn /\ body' = body /\ cut' = cut \cup {t}
      BY <1>7, <1>10
    <2>2. Grows
      BY <1>1, <2>1 DEF Grows, Told, Open
    <2>3. Sound(s, begun', Told', cut', Open', bare')
      BY <1>1, <1>3, <2>2, SoundMono DEF Grows
    <2>4. Stored
      BY <1>3, <1>4, <1>5, <2>1, <2>2, <2>3, StoredWrite
    <2>5. FreshTurn' /\ SoundBody' /\ CheckpointInBody'
      BY <1>1, <1>6, <2>1, Idle
    <2>6. TypeOK'
      BY <1>1, <2>1, <2>4 DEF IInv, TypeOK, Stored, Stages
    <2> QED  BY <1>8, <2>4, <2>5, <2>6 DEF IInv, Stored
  <1> QED  BY <1>9, <1>10

\* A response is written to the checkpoint, and the turn goes on or is cut.
LEMMA ContinueStep ==
    ASSUME IInv, stage \notin {"idle", "restored"}, Takes, UNCHANGED <<begun, queued, bare>>,
           responses' \in 0 .. MaxResponses,
           NEW ok \in BOOLEAN, NEW phase \in Phases \ {"none"},
           NEW next \in Stages \ {"idle", "restored"}, NEW rows \in Seq(Entry), rows # <<>>,
           Write(Checkpointed(phase, responses'), ok), Continue(ok, next, rows),
           \/ next = "tools" /\ SoundRows(rows, TRUE, turn, took', responses')
           \/ next # "tools" /\ SoundRows(rows, FALSE, turn, took', responses'),
           NEW ck, ck = [phase |-> phase, n |-> responses', who |-> {turn}],
           RowsOfCheckpoint(ck) \subseteq ToSet(rows),
           \/ mem.ck.phase = "none"
           \/ responses' > mem.ck.n
           \/ RowsOfCheckpoint(mem.ck) \subseteq RowsOfCheckpoint(ck)
    PROVE  IInv' /\ Stored
  <1>1. CASE ok
    <2>1. stage' = next /\ body' = rows /\ turn' = turn /\ cut' = cut
      BY <1>1 DEF Continue
    <2>2. Grows
      BY <2>1, RunGrows
    <2>3. Stored /\ mem'.log = mem.log /\ mem'.ck = ck
      BY <2>2, CheckpointWrite
    <2>4. SoundBody'
      <3>1. SoundRows(body', (stage' = "tools"), turn', took', responses')
        <4>1. CASE next = "tools"
          <5>1. (stage' = "tools") = TRUE
            BY <2>1, <4>1
          <5>2. SoundRows(rows, TRUE, turn, took', responses')
            BY <4>1
          <5> QED  BY <2>1, <5>1, <5>2
        <4>2. CASE next # "tools"
          <5>1. (stage' = "tools") = FALSE
            BY <2>1, <4>2
          <5>2. SoundRows(rows, FALSE, turn, took', responses')
            BY <4>2
          <5> QED  BY <2>1, <5>1, <5>2
        <4> QED  BY <4>1, <4>2
      <3> QED  BY <2>1, <3>1 DEF SoundBody
    <2>5. CheckpointInBody'
      <3>1. ck.who = {turn} /\ ck.n = responses' /\ responses' <= responses'
        OBVIOUS
      <3> QED  BY <2>1, <2>3, <3>1 DEF CheckpointInBody
    <2>6. stage # "idle" /\ queued' \subseteq Cont
      BY DEF IInv, TypeOK
    <2> QED  BY <2>1, <2>3, <2>4, <2>5, <2>6, GoesOn
  <1>2. CASE ~ok
    <2>1. CutTurn
      BY <1>2 DEF Continue
    <2>2. Grows
      BY <2>1, CutGrows
    <2>3. Stored
      BY <2>2, CheckpointWrite
    <2> QED  BY <2>1, <2>3, CutIdle
  <1> QED  BY <1>1, <1>2

\* What holds while the model is asked.
LEMMA Running ==
    ASSUME IInv, stage # "idle", stage # "tools"
    PROVE  /\ SoundRows(body, FALSE, turn, took, responses)
           /\ \A i \in DOMAIN body : body[i].kind # "user" => body[i].n <= responses
  <1>1. (stage = "tools") = FALSE
    OBVIOUS
  <1>2. SoundRows(body, (stage = "tools"), turn, took, responses)
    BY DEF IInv, SoundBody
  <1>3. SoundRows(body, FALSE, turn, took, responses)
    BY <1>1, <1>2
  <1> QED  BY <1>2, <1>3 DEF SoundRows, BodyRows

LEMMA FinalRow ==
    ASSUME IInv, stage = "running", Respond
    PROVE  LET rows == Append(body, Row("final", responses'))
           IN  /\ rows \in Seq(Entry) /\ rows # <<>>
               /\ Row("final", responses') = TurnRow(turn, "final", responses')
               /\ Row("final", responses') \in ToSet(rows)
               /\ SoundRows(rows, FALSE, turn, took, responses')
               /\ ToSet(body) \subseteq ToSet(rows)
               /\ responses' \in 0 .. MaxResponses
  <1>1. responses' = responses + 1 /\ responses \in 0 .. MaxResponses
        /\ responses' \in 0 .. MaxResponses
    BY InvTypes DEF Respond
  <1>2. turn \in Turn /\ body \in Seq(Entry)
    BY InvTypes
  <1>3. Row("final", responses') = TurnRow(turn, "final", responses')
    BY DEF Row, TurnRow
  <1>4. SoundRows(body, FALSE, turn, took, responses)
        /\ \A i \in DOMAIN body : body[i].kind # "user" => body[i].n <= responses
    BY Running
  <1>5. \A i \in DOMAIN body : body[i] # TurnRow(turn, "final", responses')
    <2>1. TurnRow(turn, "final", responses').n = responses + 1
          /\ TurnRow(turn, "final", responses').kind # "user"
      BY <1>1, <1>2, TurnRowType
    <2> QED  BY <1>1, <1>4, <2>1
  <1>6. SoundRows(Append(body, TurnRow(turn, "final", responses')), FALSE, turn, took, responses')
    <2>1. responses <= responses'
      BY <1>1
    <2> QED  BY <1>1, <1>2, <1>4, <1>5, <2>1, AppendTurnRow
  <1>7. TurnRow(turn, "final", responses') \in Entry
    BY <1>1, <1>2, TurnRowType
  <1> DEFINE row == TurnRow(turn, "final", responses')
             rows == Append(body, row)
  <1> HIDE DEF row
  <1>8. rows \in Seq(Entry) /\ rows # <<>> /\ ToSet(rows) = ToSet(body) \cup {row}
    BY <1>2, <1>7, AppendLast DEF row
  <1> HIDE DEF rows
  <1>9. row \in ToSet(rows) /\ ToSet(body) \subseteq ToSet(rows)
    BY <1>8
  <1> QED  BY <1>1, <1>3, <1>6, <1>8, <1>9 DEF row, rows

LEMMA CallToolsStep ==
    ASSUME IInv, CallTools
    PROVE  IInv' /\ Stored
  <1> DEFINE row == TurnRow(turn, "calls", responses')
             rows == Append(body, row)
             ck == [phase |-> "awaiting_tools", n |-> responses', who |-> {turn}]
  <1>1. stage = "running" /\ responses' = responses + 1 /\ responses \in 0 .. MaxResponses
        /\ responses' \in 0 .. MaxResponses
        /\ UNCHANGED <<begun, took, queued, bare>>
    BY InvTypes DEF CallTools, Respond
  <1>2. turn \in Turn /\ body \in Seq(Entry)
    BY <1>1, InvTypes
  <1>3. Row("calls", responses') = row
    BY DEF Row, TurnRow
  <1>4. SoundRows(rows, TRUE, turn, took, responses')
    <2>1. responses <= responses' /\ responses < responses'
      BY <1>1
    <2>2. SoundRows(body, FALSE, turn, took, responses)
      BY <1>1, Running
    <2> QED  BY <1>1, <1>2, <2>1, <2>2, AppendTurnRow
  <1>5. row \in Entry
    BY <1>1, <1>2, TurnRowType
  <1>6. ck \in Checkpoint /\ RowAt("calls", ck) = row
    BY <1>1, <1>2 DEF Checkpoint, Phases, RowAt, TurnRow
  <1>7. RowsOfCheckpoint(ck) = {row}
    <2>1. ck.phase = "awaiting_tools"
      OBVIOUS
    <2> HIDE DEF ck
    <2> QED  BY <1>6, <2>1, RestorableHolds
  <1> HIDE DEF row
  <1>8. rows \in Seq(Entry) /\ rows # <<>> /\ row \in ToSet(rows)
    <2>1. rows \in Seq(Entry) /\ rows # <<>> /\ ToSet(rows) = ToSet(body) \cup {row}
      BY <1>2, <1>5, AppendLast
    <2> QED  BY <2>1
  <1>9. PICK ok \in BOOLEAN :
           /\ Write(Checkpointed("awaiting_tools", responses'), ok)
           /\ Continue(ok, "tools", rows)
    BY <1>3 DEF CallTools, Outcomes
  <1>10. mem.ck.phase = "none" \/ responses' > mem.ck.n
    <2>1. mem.ck.n \in Nat
      BY InvTypes DEF Checkpoint
    <2> QED  BY <1>1, <2>1 DEF IInv, CheckpointInBody
  <1> HIDE DEF rows, ck
  <1>12. ck = [phase |-> "awaiting_tools", n |-> responses', who |-> {turn}]
    BY DEF ck
  <1>13. SoundRows(rows, TRUE, turn, took', responses') /\ Takes
    <2>1. took' = took
      BY <1>1
    <2>2. SoundRows(rows, TRUE, turn, took', responses')
      BY <1>4, <2>1
    <2> QED  BY <2>1, <2>2 DEF Takes
  <1>14. "awaiting_tools" \in Phases \ {"none"} /\ "tools" \in Stages \ {"idle", "restored"}
         /\ stage \notin {"idle", "restored"} /\ UNCHANGED <<begun, queued, bare>>
    BY <1>1 DEF Phases, Stages
  <1>15. RowsOfCheckpoint(ck) \subseteq ToSet(rows)
    BY <1>7, <1>8
  <1>16. responses' \in 0 .. MaxResponses
    BY <1>1
  <1>17. Write(Checkpointed("awaiting_tools", responses'), ok)
    BY <1>9
  <1>18. PICK next \in Stages \ {"idle", "restored"} : next = "tools"
    BY <1>14
  <1>19. Continue(ok, next, rows)
    BY <1>9, <1>18
  <1>20. \/ next = "tools" /\ SoundRows(rows, TRUE, turn, took', responses')
         \/ next # "tools" /\ SoundRows(rows, FALSE, turn, took', responses')
    BY <1>13, <1>18
  <1>21. rows \in Seq(Entry) /\ rows # <<>>
    BY <1>8
  <1> QED
    BY <1>10, <1>12, <1>13, <1>14, <1>15, <1>16, <1>17, <1>19, <1>20, <1>21, ContinueStep

\* The results of the last calls join the transcript.
LEMMA ResultRow ==
    ASSUME IInv, stage = "tools"
    PROVE  LET rows == Append(body, Row("result", responses))
           IN  /\ rows \in Seq(Entry) /\ rows # <<>>
               /\ Row("result", responses) = TurnRow(turn, "result", responses)
               /\ ToSet(rows) = ToSet(body) \cup {TurnRow(turn, "result", responses)}
               /\ TurnRow(turn, "calls", responses) \in ToSet(body)
               /\ SoundRows(rows, FALSE, turn, took, responses)
               /\ \A x \in ToSet(body) :
                    x.kind # "user" /\ x.n = responses => x = TurnRow(turn, "calls", responses)
  <1> DEFINE row == TurnRow(turn, "result", responses)
             rows == Append(body, row)
  <1>1. turn \in Turn /\ body \in Seq(Entry) /\ responses \in 0 .. MaxResponses
        /\ DOMAIN body = 1 .. Len(body) /\ Len(body) \in Nat
    BY InvTypes
  <1>2. Row("result", responses) = row
    BY DEF Row, TurnRow
  <1>3. SoundRows(body, TRUE, turn, took, responses)
    <2>1. (stage = "tools") = TRUE
      OBVIOUS
    <2>2. SoundRows(body, (stage = "tools"), turn, took, responses)
      BY DEF IInv, SoundBody
    <2> QED  BY <2>1, <2>2
  <1>4. SoundRows(rows, FALSE, turn, took, responses)
    <2>1. responses <= responses
      BY <1>1
    <2> QED  BY <1>1, <1>3, <2>1, AppendTurnRow
  <1>5. row \in Entry
    BY <1>1, TurnRowType
  <1> HIDE DEF row
  <1>6. rows \in Seq(Entry) /\ rows # <<>> /\ ToSet(rows) = ToSet(body) \cup {row}
    BY <1>1, <1>5, AppendLast
  <1>7. body # <<>> /\ body[Len(body)] = TurnRow(turn, "calls", responses)
    BY <1>3 DEF SoundRows, Last
  <1>8. Len(body) \in DOMAIN body
    BY <1>1, <1>7
  <1>9. TurnRow(turn, "calls", responses) \in ToSet(body)
    BY <1>7, <1>8 DEF ToSet
  <1>10. ASSUME NEW x \in ToSet(body), x.kind # "user", x.n = responses
         PROVE  x = TurnRow(turn, "calls", responses)
    <2>1. PICK i \in DOMAIN body : x = body[i]
      BY DEF ToSet
    <2>2. i < Len(body) => body[i].n < responses
      BY <1>10, <2>1 DEF IInv, SoundBody, SoundRows, BodyRows
    <2>3. ~(i < Len(body))
      BY <1>1, <1>10, <2>1, <2>2
    <2>4. i = Len(body)
      BY <1>1, <2>3
    <2> QED  BY <1>7, <2>1, <2>4
  <1> HIDE DEF rows
  <1> QED  BY <1>2, <1>4, <1>6, <1>9, <1>10 DEF row, rows

LEMMA ToolsDoneStep ==
    ASSUME IInv, ToolsDone
    PROVE  IInv' /\ Stored
  <1> DEFINE calls == TurnRow(turn, "calls", responses)
             result == TurnRow(turn, "result", responses)
             rows == Append(body, Row("result", responses))
             ck == [phase |-> "tools_completed", n |-> responses, who |-> {turn}]
  <1>1. stage = "tools" /\ responses' = responses /\ responses \in 0 .. MaxResponses
        /\ UNCHANGED <<begun, took, queued, bare>>
    BY InvTypes DEF ToolsDone
  <1>2. turn \in Turn
    BY <1>1, InvTypes
  <1>3. /\ rows \in Seq(Entry) /\ rows # <<>>
        /\ ToSet(rows) = ToSet(body) \cup {result}
        /\ calls \in ToSet(body)
        /\ SoundRows(rows, FALSE, turn, took, responses)
        /\ \A x \in ToSet(body) : x.kind # "user" /\ x.n = responses => x = calls
    BY <1>1, ResultRow
  <1>4. ck \in Checkpoint /\ RowAt("calls", ck) = calls /\ RowAt("result", ck) = result
    BY <1>1, <1>2 DEF Checkpoint, Phases, RowAt, TurnRow
  <1>5. RowsOfCheckpoint(ck) = {calls, result}
    <2>1. ck.phase = "tools_completed"
      OBVIOUS
    <2> HIDE DEF ck
    <2> QED  BY <1>4, <2>1, RestorableHolds
  <1>6. PICK ok \in BOOLEAN :
           /\ Write(Checkpointed("tools_completed", responses), ok)
           /\ Continue(ok, "running", rows)
    BY DEF ToolsDone, Outcomes
  <1> HIDE DEF rows, ck, calls, result
  <1>7. \/ mem.ck.phase = "none"
        \/ responses' > mem.ck.n
        \/ RowsOfCheckpoint(mem.ck) \subseteq RowsOfCheckpoint(ck)
    <2> SUFFICES ASSUME mem.ck.phase # "none", ~(responses > mem.ck.n)
                 PROVE  RowsOfCheckpoint(mem.ck) \subseteq {calls}
      BY <1>1, <1>5
    <2>1. mem.ck.n <= responses /\ RowsOfCheckpoint(mem.ck) \subseteq ToSet(body)
      BY <1>1 DEF IInv, CheckpointInBody
    <2>2. mem.ck \in Checkpoint /\ mem.ck.n \in Nat
      BY InvTypes DEF Checkpoint
    <2>3. mem.ck.n = responses
      BY <1>1, <2>1, <2>2
    <2>4. \A x \in RowsOfCheckpoint(mem.ck) : x.n = responses /\ x.kind # "user"
      BY <2>2, <2>3, RestorableHolds DEF Work
    <2> QED  BY <1>3, <2>1, <2>4
  <1>8. PICK next \in Stages \ {"idle", "restored"} : next = "running"
    BY DEF Stages
  <1>9. PICK phase \in Phases \ {"none"} : phase = "tools_completed"
    BY DEF Phases
  <1>10. ck = [phase |-> phase, n |-> responses', who |-> {turn}]
    BY <1>1, <1>9 DEF ck
  <1>11. SoundRows(rows, FALSE, turn, took', responses') /\ Takes
    <2>1. took' = took
      BY <1>1
    <2>2. SoundRows(rows, FALSE, turn, took', responses')
      BY <1>1, <1>3, <2>1
    <2> QED  BY <2>1, <2>2 DEF Takes
  <1>12. \/ next = "tools" /\ SoundRows(rows, TRUE, turn, took', responses')
         \/ next # "tools" /\ SoundRows(rows, FALSE, turn, took', responses')
    BY <1>8, <1>11
  <1>13. Write(Checkpointed(phase, responses'), ok) /\ Continue(ok, next, rows)
    BY <1>1, <1>6, <1>8, <1>9
  <1>14. RowsOfCheckpoint(ck) \subseteq ToSet(rows)
    BY <1>3, <1>5
  <1>15. stage \notin {"idle", "restored"} /\ UNCHANGED <<begun, queued, bare>>
         /\ responses' \in 0 .. MaxResponses
    BY <1>1
  <1> QED
    BY <1>3, <1>7, <1>10, <1>11, <1>12, <1>13, <1>14, <1>15, ContinueStep

\* A final answer, with a checkpoint, and with or without a follow-up behind it.
LEMMA AnsweredStep ==
    ASSUME IInv, stage = "running", Respond, Takes, UNCHANGED <<begun, queued, bare>>,
           NEW rows \in Seq(Entry), rows # <<>>,
           Row("final", responses') \in ToSet(rows),
           SoundRows(rows, FALSE, turn, took', responses'),
           NEW ok \in BOOLEAN, Write(Checkpointed("final_response", responses'), ok),
           NEW next \in {"running", "ending"}, Continue(ok, next, rows)
    PROVE  IInv' /\ Stored
  <1> DEFINE row == Row("final", responses')
             ck == [phase |-> "final_response", n |-> responses', who |-> {turn}]
  <1>1. responses' = responses + 1 /\ responses \in 0 .. MaxResponses
        /\ responses' \in 0 .. MaxResponses /\ turn \in Turn
    BY InvTypes DEF Respond
  <1>2. ck \in Checkpoint /\ RowAt("final", ck) = row
    BY <1>1 DEF Checkpoint, Phases, RowAt, Row
  <1>3. RowsOfCheckpoint(ck) = {row}
    <2>1. ck.phase = "final_response"
      OBVIOUS
    <2> HIDE DEF ck
    <2> QED  BY <1>2, <2>1, RestorableHolds
  <1> HIDE DEF ck, row
  <1>4. mem.ck.phase = "none" \/ responses' > mem.ck.n
    <2>1. mem.ck.n \in Nat
      BY InvTypes DEF Checkpoint
    <2> QED  BY <1>1, <2>1 DEF IInv, CheckpointInBody
  <1>5. PICK phase \in Phases \ {"none"} : phase = "final_response"
    BY DEF Phases
  <1>6. ck = [phase |-> phase, n |-> responses', who |-> {turn}]
    BY <1>5 DEF ck
  <1>7. Write(Checkpointed(phase, responses'), ok)
    BY <1>5
  <1>8. next # "tools" /\ next \in Stages \ {"idle", "restored"}
        /\ stage \notin {"idle", "restored"}
    BY DEF Stages
  <1>9. RowsOfCheckpoint(ck) \subseteq ToSet(rows)
    BY <1>3 DEF row
  <1> QED  BY <1>1, <1>4, <1>6, <1>7, <1>8, <1>9, ContinueStep

LEMMA AnswerStep ==
    ASSUME IInv, Answer
    PROVE  IInv' /\ Stored
  <1> DEFINE rows == Append(body, Row("final", responses'))
  <1>1. stage = "running" /\ Respond /\ UNCHANGED <<begun, took, queued, bare>>
    BY DEF Answer, Respond
  <1>2. /\ rows \in Seq(Entry) /\ rows # <<>> /\ Row("final", responses') \in ToSet(rows)
        /\ SoundRows(rows, FALSE, turn, took, responses')
    BY <1>1, FinalRow
  <1>3. PICK ok \in BOOLEAN :
           /\ Write(Checkpointed("final_response", responses'), ok)
           /\ Continue(ok, "ending", rows)
    BY DEF Answer, Outcomes
  <1> HIDE DEF rows
  <1>4. PICK next \in {"running", "ending"} : next = "ending"
    OBVIOUS
  <1>5. SoundRows(rows, FALSE, turn, took', responses') /\ Takes
    <2>1. took' = took
      BY <1>1
    <2>2. SoundRows(rows, FALSE, turn, took', responses')
      BY <1>2, <2>1
    <2> QED  BY <2>1, <2>2 DEF Takes
  <1>6. Continue(ok, next, rows)
    BY <1>3, <1>4
  <1> QED  BY <1>1, <1>2, <1>3, <1>5, <1>6, AnsweredStep

LEMMA AnswerAndFollowStep ==
    ASSUME IInv, NEW f \in Follow, AnswerAndFollow(f)
    PROVE  IInv' /\ Stored
  <1> DEFINE all == Append(body, Row("final", responses'))
             rows == Injected(all, f)
             row == Row("final", responses')
  <1>1. stage = "running" /\ Respond /\ UNCHANGED <<begun, queued, bare>>
        /\ took[f] = NoTurn /\ took' = [took EXCEPT ![f] = turn]
    BY DEF AnswerAndFollow, Respond
  <1>2. /\ all \in Seq(Entry) /\ all # <<>> /\ row \in ToSet(all)
        /\ row = TurnRow(turn, "final", responses')
        /\ SoundRows(all, FALSE, turn, took, responses')
        /\ responses' \in 0 .. MaxResponses
    BY <1>1, FinalRow
  <1>3. turn \in Turn /\ took \in [Follow -> Turn \cup {NoTurn}]
    BY <1>1, InvTypes
  <1>4. PICK ok \in BOOLEAN :
           /\ Write(Checkpointed("final_response", responses'), ok)
           /\ Continue(ok, "running", rows)
    BY DEF AnswerAndFollow, Outcomes
  <1> HIDE DEF all
  <1>5. /\ rows \in Seq(Entry)
        /\ SoundRows(rows, FALSE, turn, [took EXCEPT ![f] = turn], responses')
        /\ \A x \in ToSet(all) : x.kind # "user" => x \in ToSet(rows)
    BY <1>1, <1>2, <1>3, InjectedSound
  <1> HIDE DEF rows
  <1>6. row \in ToSet(rows) /\ rows # <<>>
    <2>1. row.kind = "final"
      BY DEF Row
    <2>2. row \in ToSet(rows)
      BY <1>2, <1>5, <2>1
    <2>3. rows = <<>> => ToSet(rows) = {}
      BY DEF ToSet
    <2> QED  BY <2>2, <2>3
  <1>7. Takes /\ SoundRows(rows, FALSE, turn, took', responses')
    BY <1>1, <1>5 DEF Takes
  <1>8. PICK next \in {"running", "ending"} : next = "running"
    OBVIOUS
  <1>9. Continue(ok, next, rows)
    BY <1>4, <1>8
  <1> QED  BY <1>1, <1>4, <1>5, <1>6, <1>7, <1>9, AnsweredStep

\* Steps of a turn that write nothing.
LEMMA QuietStep ==
    ASSUME IInv, stage \notin {"idle", "restored"},
           UNCHANGED <<mem, disk, turn, begun, cut>>, Takes,
           stage' \in {"running", "ending", "failing"}, body' \in Seq(Entry),
           SoundRows(body', FALSE, turn, took', responses'),
           responses' \in 0 .. MaxResponses, responses <= responses',
           \A x \in ToSet(body) : x.kind # "user" => x \in ToSet(body'),
           stage' = "running" \/ turn \in bare' \/ body' # <<>>,
           bare' \in {bare, bare \cup {turn}}, queued' \subseteq Cont
    PROVE  IInv' /\ Stored
  <1>1. stage # "idle" /\ bare \subseteq bare'
    OBVIOUS
  <1>2. Grows
    BY <1>1, RunGrows
  <1>3. Stored
    BY <1>2, StoredUnchanged
  <1>4. SoundBody'
    <2>1. (stage' = "tools") = FALSE
      OBVIOUS
    <2>2. SoundRows(body', (stage' = "tools"), turn', took', responses')
      BY <2>1
    <2> QED  BY <2>2 DEF SoundBody
  <1>5. CheckpointInBody'
    <2> SUFFICES ASSUME mem.ck.phase # "none"
                 PROVE  /\ mem.ck.who = {turn} /\ mem.ck.n <= responses'
                        /\ RowsOfCheckpoint(mem.ck) \subseteq ToSet(body')
      BY DEF CheckpointInBody
    <2>1. /\ mem.ck.who = {turn} /\ mem.ck.n <= responses
          /\ RowsOfCheckpoint(mem.ck) \subseteq ToSet(body)
      BY DEF IInv, CheckpointInBody
    <2>2. mem.ck \in Checkpoint /\ mem.ck.n \in Nat /\ responses \in Nat /\ responses' \in Nat
      BY InvTypes DEF Checkpoint
    <2>3. mem.ck.n <= responses'
      BY <2>1, <2>2
    <2>4. \A x \in RowsOfCheckpoint(mem.ck) : x.kind # "user"
      BY <2>2, RestorableHolds DEF Work
    <2> QED  BY <2>1, <2>3, <2>4
  <1>6. mem'.log = mem.log /\ stage' \in Stages \ {"idle", "restored"}
    BY DEF Stages
  <1> QED  BY <1>1, <1>3, <1>4, <1>5, <1>6, GoesOn

LEMMA ToolsEndStep ==
    ASSUME IInv, ToolsEnd
    PROVE  IInv' /\ Stored
  <1> DEFINE result == Row("result", responses)
             final == Row("final", responses)
             rows == Append(body, result)
             all == Append(rows, final)
  <1>1. /\ stage = "tools" /\ body' = body \o <<result, final>>
        /\ stage' \in {"ending", "failing"}
        /\ UNCHANGED <<mem, disk, turn, responses, begun, took, cut, queued, bare>>
    BY DEF ToolsEnd
  <1>2. turn \in Turn /\ responses \in 0 .. MaxResponses /\ body \in Seq(Entry)
    BY <1>1, InvTypes
  <1>3. /\ rows \in Seq(Entry) /\ rows # <<>>
        /\ result = TurnRow(turn, "result", responses)
        /\ ToSet(rows) = ToSet(body) \cup {result}
        /\ SoundRows(rows, FALSE, turn, took, responses)
        /\ \A x \in ToSet(body) :
             x.kind # "user" /\ x.n = responses => x = TurnRow(turn, "calls", responses)
    BY <1>1, ResultRow
  <1>4. final = TurnRow(turn, "final", responses)
    BY DEF Row, TurnRow
  <1>5. /\ result \in Entry /\ final \in Entry /\ result.kind = "result"
        /\ final.kind = "final" /\ final.n = responses
        /\ TurnRow(turn, "calls", responses).kind = "calls"
    BY <1>2, <1>3, <1>4, TurnRowType
  <1>6. body' = all
    <2> HIDE DEF result, final
    <2>1. body \o <<result, final>> = Append(Append(body, result), final)
      BY <1>2, <1>5
    <2> QED  BY <1>1, <2>1
  <1> HIDE DEF rows
  <1>7. \A i \in DOMAIN rows : rows[i] # TurnRow(turn, "final", responses)
    <2>1. \A i \in DOMAIN rows : rows[i] \in ToSet(body) \cup {result}
      BY <1>3 DEF ToSet
    <2>2. final \notin ToSet(body) \cup {result}
      BY <1>3, <1>5
    <2> QED  BY <1>4, <2>1, <2>2
  <1>8. SoundRows(all, FALSE, turn, took, responses)
    <2>1. responses <= responses
      BY <1>2
    <2> QED  BY <1>2, <1>3, <1>4, <1>7, <2>1, AppendTurnRow
  <1> HIDE DEF final
  <1>9. all \in Seq(Entry) /\ all # <<>> /\ ToSet(all) = ToSet(rows) \cup {final}
    BY <1>3, <1>5, AppendLast
  <1> HIDE DEF all, result
  <1>10. SoundRows(body', FALSE, turn, took', responses') /\ Takes
    BY <1>1, <1>6, <1>8 DEF Takes
  <1>11. responses' \in 0 .. MaxResponses /\ responses <= responses' /\ queued' \subseteq Cont
         /\ bare' = bare /\ stage \notin {"idle", "restored"}
    BY <1>1, <1>2 DEF IInv, TypeOK
  <1>12. \A x \in ToSet(body) : x \in ToSet(body')
    BY <1>3, <1>6, <1>9
  <1> QED  BY <1>1, <1>6, <1>9, <1>10, <1>11, <1>12, QuietStep

LEMMA InjectStep ==
    ASSUME IInv, NEW f \in Follow, Inject(f)
    PROVE  IInv' /\ Stored
  <1>1. /\ stage \in {"running", "failing"} /\ took[f] = NoTurn /\ body' = Injected(body, f)
        /\ took' = [took EXCEPT ![f] = turn] /\ stage' = "running"
        /\ UNCHANGED <<mem, disk, turn, responses, begun, cut, queued, bare>>
    BY DEF Inject
  <1>2. turn \in Turn /\ responses \in 0 .. MaxResponses /\ body \in Seq(Entry)
        /\ took \in [Follow -> Turn \cup {NoTurn}]
    BY <1>1, InvTypes
  <1>3. SoundRows(body, FALSE, turn, took, responses)
    BY <1>1, Running
  <1>4. /\ body' \in Seq(Entry)
        /\ SoundRows(body', FALSE, turn, took', responses)
        /\ \A x \in ToSet(body) : x.kind # "user" => x \in ToSet(body')
    BY <1>1, <1>2, <1>3, InjectedSound
  <1>5. SoundRows(body', FALSE, turn, took', responses')
    BY <1>1, <1>4
  <1>6. Takes /\ queued' \subseteq Cont /\ responses <= responses'
        /\ responses' \in 0 .. MaxResponses
    <2>1. Takes
      BY <1>1 DEF Takes
    <2>2. queued' \subseteq Cont
      BY <1>1 DEF IInv, TypeOK
    <2> QED  BY <1>1, <1>2, <2>1, <2>2
  <1> QED  BY <1>1, <1>4, <1>5, <1>6, QuietStep

LEMMA ConcludeStep ==
    ASSUME IInv, Conclude
    PROVE  IInv' /\ Stored
  <1>1. /\ stage = "running" /\ Respond /\ responses' = responses + 1
        /\ body' = Append(body, Row("final", responses'))
        /\ stage' \in {"ending", "failing"}
        /\ UNCHANGED <<mem, disk, turn, begun, took, cut, queued, bare>>
    BY DEF Conclude, Respond
  <1>2. /\ body' \in Seq(Entry) /\ body' # <<>> /\ ToSet(body) \subseteq ToSet(body')
        /\ SoundRows(body', FALSE, turn, took, responses')
        /\ responses' \in 0 .. MaxResponses
    BY <1>1, FinalRow
  <1>3. took' = took
    BY <1>1
  <1>4. SoundRows(body', FALSE, turn, took', responses')
    BY <1>2, <1>3
  <1>5. Takes /\ queued' \subseteq Cont /\ responses <= responses'
    BY <1>1, InvTypes DEF Takes, IInv, TypeOK
  <1> QED  BY <1>1, <1>2, <1>4, <1>5, QuietStep

LEMMA BareStep ==
    ASSUME IInv, CreditsExhausted \/ \E c \in Cont : Yield(c)
    PROVE  IInv' /\ Stored
  <1>1. /\ stage = "running" /\ stage' = "ending" /\ bare' = bare \cup {turn}
        /\ UNCHANGED <<mem, disk, body, turn, responses, begun, took, cut>>
        /\ queued' \subseteq Cont
    BY DEF CreditsExhausted, Yield, IInv, TypeOK
  <1>2. SoundRows(body, FALSE, turn, took, responses)
    BY <1>1, Running
  <1>3. SoundRows(body', FALSE, turn, took', responses')
    <2>1. body' = body /\ took' = took /\ responses' = responses
      BY <1>1
    <2> QED  BY <1>2, <2>1
  <1>4. Takes /\ responses <= responses' /\ body' \in Seq(Entry)
        /\ responses' \in 0 .. MaxResponses
    BY <1>1, InvTypes DEF Takes
  <1>5. \A x \in ToSet(body) : x \in ToSet(body')
    BY <1>1
  <1> QED  BY <1>1, <1>3, <1>4, <1>5, QuietStep

LEMMA BuildStep ==
    ASSUME IInv, Build
    PROVE  IInv' /\ Stored
  <1>1. stage = "restored" /\ UNCHANGED <<responses, begun, took, queued, bare>>
    BY DEF Build
  <1>2. body = <<>> /\ turn \in Turn /\ turn \in begun /\ turn # NoTurn
        /\ took \in [Follow -> Turn \cup {NoTurn}] /\ responses \in 0 .. MaxResponses
    BY <1>1, InvTypes DEF IInv, SoundBody
  <1>3. /\ mem.ck.phase = "none" /\ ~mem.mark
        /\ \A i \in DOMAIN mem.log : turn \notin mem.log[i].who
        /\ \A i \in DOMAIN mem.log : mem.log[i].kind \in Work => mem.log[i].who # {turn}
    BY <1>1 DEF IInv, FreshTurn
  <1>4. ASSUME stage' = "running", body' = <<>>, turn' = turn, mem'.ck.phase = "none"
        PROVE  SoundBody' /\ CheckpointInBody'
    <2>1. DOMAIN body' = {} /\ (stage' = "tools") = FALSE
      BY <1>4
    <2>2. SoundRows(body', (stage' = "tools"), turn', took', responses')
      BY <2>1 DEF SoundRows, BodyRows, BodyPaired, IsInjective
    <2> QED  BY <1>4, <2>2 DEF SoundBody, CheckpointInBody
  <1>5. \A f \in Follow : took'[f] \in begun' \cup {NoTurn}
    BY <1>1 DEF IInv
  <1>6. Takes
    BY <1>1 DEF Takes
  <1>7. CASE turn \in Ask
    <2> DEFINE s == PersistedEarly(mem, turn)
    <2>1. PICK ok \in BOOLEAN : Write(s, ok) /\ Continue(ok, "running", <<>>)
      BY <1>7 DEF Build, Outcomes
    <2>2. turn \in Open
      BY <1>2 DEF Open
    <2>3. Sound(mem, begun, Told, cut, Open, bare) /\ mem \in Session
      BY InvTypes DEF IInv
    <2>4. /\ s \in Session /\ s.ck = mem.ck /\ IsPrefix(mem.log, s.log)
          /\ Preserved(mem) \subseteq Preserved(s)
          /\ Sound(s, begun, Told, cut, Open, bare)
          /\ Last(s.log) = UserRow({turn})
          /\ \A i \in DOMAIN s.log :
               s.log[i].kind \in Work => i \in DOMAIN mem.log /\ s.log[i] = mem.log[i]
      BY <1>2, <1>3, <2>2, <2>3, PersistedEarlySound
    <2> HIDE DEF s
    <2>5. \A ck \in Checkpoint : Carries(mem, ck) => Carries(s, ck)
      BY <2>4, CarriesMore
    <2>6. Grows => Stored
      <3> SUFFICES ASSUME Grows PROVE Stored
        OBVIOUS
      <3>1. Sound(s, begun', Told', cut', Open', bare')
        BY <2>4, SoundMono DEF Grows
      <3> QED  BY <2>1, <2>4, <2>5, <3>1, StoredWrite
    <2>7. CASE ok
      <3>1. stage' = "running" /\ body' = <<>> /\ turn' = turn /\ cut' = cut /\ mem' = s
        BY <2>1, <2>7 DEF Continue, Write
      <3>2. Grows
        BY <1>1, <1>6, <3>1, RunGrows
      <3>3. Stored
        BY <2>6, <3>2
      <3>4. SoundBody' /\ CheckpointInBody'
        BY <1>3, <1>4, <2>4, <3>1
      <3>5. FreshTurn'
        <4>1. \A i \in DOMAIN s.log : s.log[i].kind \in Work => s.log[i].who # {turn}
          BY <1>3, <2>4
        <4>2. Last(s.log).who = {turn}
          BY <2>4 DEF UserRow
        <4> QED  BY <1>1, <1>2, <3>1, <4>1, <4>2 DEF FreshTurn
      <3>6. TypeOK'
        <4>1. <<>> \in Seq(Entry)
          OBVIOUS
        <4> QED  BY <1>1, <1>2, <3>1, <3>3, <4>1 DEF IInv, TypeOK, Stored, Stages
      <3> QED  BY <1>5, <3>3, <3>4, <3>5, <3>6 DEF IInv, Stored
    <2>8. CASE ~ok
      <3>1. CutTurn
        BY <2>1, <2>8 DEF Continue
      <3>2. stage # "idle"
        BY <1>1
      <3>3. Grows
        BY <1>1, <1>6, <3>1, <3>2, CutGrows
      <3>4. Stored
        BY <2>6, <3>3
      <3>5. responses' \in 0 .. MaxResponses
        BY <1>1, <1>2
      <3> QED  BY <1>1, <1>6, <3>1, <3>2, <3>4, <3>5, CutIdle
    <2> QED  BY <2>7, <2>8
  <1>8. CASE turn \notin Ask
    <2>1. stage' = "running" /\ UNCHANGED <<mem, disk, body, turn, cut>>
      BY <1>8 DEF Build
    <2>2. Grows
      BY <1>1, <1>6, <2>1, RunGrows
    <2>3. Stored
      BY <2>1, <2>2, StoredUnchanged
    <2>4. SoundBody' /\ CheckpointInBody'
      BY <1>2, <1>3, <1>4, <2>1
    <2>5. FreshTurn'
      BY <1>1, <2>1 DEF IInv, FreshTurn
    <2>6. TypeOK'
      BY <1>1, <1>2, <2>1 DEF IInv, TypeOK, Stages
    <2> QED  BY <1>5, <2>3, <2>4, <2>5, <2>6 DEF IInv, Stored
  <1> QED  BY <1>7, <1>8

LEMMA PersistStep ==
    ASSUME IInv, Persist
    PROVE  IInv' /\ Stored
  <1> DEFINE s == Saved(mem)
             told == {f \in Follow : took[f] # NoTurn}
  <1>1. /\ stage \in {"ending", "failing"} /\ stage' = "idle" /\ turn' = NoTurn /\ body' = <<>>
        /\ UNCHANGED <<responses, begun, took, queued, bare>>
    BY DEF Persist, EndTurn
  <1>2. PICK ok \in BOOLEAN : Write(s, ok) /\ cut' = IF ok THEN cut ELSE cut \cup {turn}
    BY DEF Persist, Outcomes
  <1>3. /\ s \in Session /\ IsPrefix(mem.log, s.log)
        /\ Sound(s, begun, told, cut, cut, bare)
        /\ \A ck \in Checkpoint : Carries(mem, ck) => Carries(s, ck)
    BY <1>1, SavedSound
  <1> HIDE DEF s
  <1>4. Told' = told /\ Open' = cut'
    BY <1>1 DEF Told, Open
  <1>5. Sound(s, begun', Told', cut', Open', bare')
    <2>1. cut \subseteq cut'
      BY <1>2
    <2> QED  BY <1>1, <1>3, <1>4, <2>1, SoundMono
  <1> HIDE DEF told
  <1>6. turn \in Turn /\ stage # "idle"
    BY <1>1, InvTypes
  <1>7. CASE ok
    <2>1. mem' = s /\ disk' = s /\ cut' = cut
      BY <1>2, <1>7 DEF Write
    <2>2. s.log \in Seq(Entry)
      BY <1>3 DEF Session
    <2>3. IsPrefix(disk.log, s.log) /\ IsPrefix(s.log, s.log)
      BY <1>3, <2>2, InvTypes, PrefixDef, PrefixTrans DEF IInv
    <2>4. Carries(s, disk.ck) /\ Carries(s, s.ck)
      BY <1>3, InvTypes, SelfCarried DEF IInv
    <2>5. Stored
      BY <1>3, <1>5, <2>1, <2>3, <2>4 DEF Stored
    <2>6. FreshTurn' /\ SoundBody' /\ CheckpointInBody'
      BY <1>1, Idle
    <2>7. TypeOK'
      <3>1. <<>> \in Seq(Entry)
        OBVIOUS
      <3> QED  BY <1>1, <2>1, <2>5, <3>1 DEF IInv, TypeOK, Stored, Stages
    <2>8. \A f \in Follow : took'[f] \in begun' \cup {NoTurn}
      BY <1>1 DEF IInv
    <2> QED  BY <2>5, <2>6, <2>7, <2>8 DEF IInv, Stored
  <1>8. CASE ~ok
    <2>1. CutTurn
      BY <1>1, <1>2, <1>8 DEF CutTurn, EndTurn
    <2>2. Takes
      BY <1>1 DEF Takes
    <2>3. Grows
      BY <1>1, <1>6, <2>1, <2>2, CutGrows
    <2>4. Stored
      BY <1>2, <1>3, <1>5, <2>3, StoredWrite
    <2>5. responses' \in 0 .. MaxResponses
      BY <1>1, InvTypes
    <2> QED  BY <1>1, <1>6, <2>1, <2>2, <2>4, <2>5, CutIdle
  <1> QED  BY <1>7, <1>8

LEMMA CancelStep ==
    ASSUME IInv, Cancel
    PROVE  IInv' /\ Stored
  <1> DEFINE s == RestoreCheckpoint(mem)
  <1>1. stage # "idle" /\ CutTurn /\ UNCHANGED <<responses, begun, took, queued, bare>>
    BY DEF Cancel
  <1>2. PICK ok \in BOOLEAN : Write(s, ok)
    <2>1. PICK o \in BOOLEAN : Write(s, (o /\ s # mem))
      BY DEF Cancel, Outcomes
    <2>2. (o /\ s # mem) \in BOOLEAN
      OBVIOUS
    <2> QED  BY <2>1, <2>2
  <1>3. Takes /\ responses' \in 0 .. MaxResponses
    BY <1>1, InvTypes DEF Takes
  <1>4. Grows /\ cut' = Open /\ Open' = Open
    BY <1>1, <1>3, CutGrows
  <1>5. /\ s \in Session /\ IsPrefix(mem.log, s.log) /\ Preserved(mem) \subseteq Preserved(s)
        /\ Sound(s, begun, Told, Open, Open, bare)
    <2>1. cut \subseteq Open
      BY DEF Open
    <2> QED  BY <2>1, InvTypes, RestoreCheckpointSound DEF IInv
  <1> HIDE DEF s
  <1>6. Sound(s, begun', Told', cut', Open', bare')
    BY <1>4, <1>5, SoundMono DEF Grows
  <1>7. \A ck \in Checkpoint : Carries(mem, ck) => Carries(s, ck)
    BY <1>5, CarriesMore
  <1>8. Stored
    BY <1>2, <1>4, <1>5, <1>6, <1>7, StoredWrite
  <1> QED  BY <1>1, <1>3, <1>8, CutIdle

LEMMA FailStep ==
    ASSUME IInv, Fail
    PROVE  IInv' /\ Stored
  <1>1. stage # "idle" /\ CutTurn /\ UNCHANGED <<mem, disk, responses, begun, took, queued, bare>>
    BY DEF Fail
  <1>2. Takes /\ responses' \in 0 .. MaxResponses
    BY <1>1, InvTypes DEF Takes
  <1>3. Grows
    BY <1>1, <1>2, CutGrows
  <1>4. Stored
    BY <1>1, <1>3, StoredUnchanged
  <1> QED  BY <1>1, <1>2, <1>4, CutIdle

LEMMA CrashStep ==
    ASSUME IInv, Crash
    PROVE  IInv' /\ Stored
  <1>1. /\ mem' = disk /\ disk' = disk /\ queued' = {}
        /\ stage' = "idle" /\ turn' = NoTurn /\ body' = <<>>
        /\ cut' = IF turn = NoTurn THEN cut ELSE cut \cup {turn}
        /\ UNCHANGED <<responses, begun, took, bare>>
    BY DEF Crash, EndTurn
  <1>2. Grows
    BY <1>1 DEF Grows, Told, Open
  <1>3. Sound(disk, begun', Told', cut', Open', bare')
    BY <1>2, InvTypes, SoundMono DEF IInv, Grows
  <1>4. IsPrefix(disk.log, disk.log)
    BY InvTypes, PrefixDef
  <1>5. Stored
    BY <1>1, <1>3, <1>4, InvTypes, SelfCarried DEF Stored
  <1>6. FreshTurn' /\ SoundBody' /\ CheckpointInBody'
    BY <1>1, Idle
  <1>7. TypeOK'
    <2>1. <<>> \in Seq(Entry)
      OBVIOUS
    <2> QED  BY <1>1, <1>5, <2>1 DEF IInv, TypeOK, Stored, Stages
  <1>8. \A f \in Follow : took'[f] \in begun' \cup {NoTurn}
    BY <1>1 DEF IInv
  <1> QED  BY <1>5, <1>6, <1>7, <1>8 DEF IInv, Stored

LEMMA FlushStep ==
    ASSUME IInv, Flush
    PROVE  IInv' /\ Stored
  <1>1. /\ disk' = mem
        /\ UNCHANGED <<mem, body, stage, turn, responses, begun, took, cut, queued, bare>>
    BY DEF Flush
  <1>2. IsPrefix(mem.log, mem.log)
    BY InvTypes, PrefixDef
  <1>3. Told' = Told /\ Open' = Open
    BY <1>1 DEF Told, Open
  <1>4. Stored
    BY <1>1, <1>2, <1>3, InvTypes, SelfCarried DEF Stored, IInv
  <1>5. FreshTurn' /\ CheckpointInBody'
    BY <1>1 DEF IInv, FreshTurn, CheckpointInBody
  <1>6. SoundBody'
    BY <1>1 DEF IInv, SoundBody
  <1>7. TypeOK'
    BY <1>1, InvTypes DEF IInv, TypeOK
  <1>8. \A f \in Follow : took'[f] \in begun' \cup {NoTurn}
    BY <1>1 DEF IInv
  <1> QED  BY <1>4, <1>5, <1>6, <1>7, <1>8 DEF IInv, Stored

LEMMA Step ==
    ASSUME IInv, [Next]_vars
    PROVE  IInv' /\ Stored
  <1>1. ASSUME NEW t \in Turn, Restore(t) PROVE IInv' /\ Stored
    BY <1>1, RestoreStep
  <1>2. CASE Build
    BY <1>2, BuildStep
  <1>3. CASE CallTools
    BY <1>3, CallToolsStep
  <1>4. CASE ToolsDone
    BY <1>4, ToolsDoneStep
  <1>5. CASE ToolsEnd
    BY <1>5, ToolsEndStep
  <1>6. ASSUME NEW f \in Follow, Inject(f) PROVE IInv' /\ Stored
    BY <1>6, InjectStep
  <1>7. ASSUME NEW f \in Follow, AnswerAndFollow(f) PROVE IInv' /\ Stored
    BY <1>7, AnswerAndFollowStep
  <1>8. CASE Answer
    BY <1>8, AnswerStep
  <1>9. CASE Conclude
    BY <1>9, ConcludeStep
  <1>10. CASE CreditsExhausted \/ \E c \in Cont : Yield(c)
    BY <1>10, BareStep
  <1>11. CASE Persist
    BY <1>11, PersistStep
  <1>12. CASE Cancel
    BY <1>12, CancelStep
  <1>13. CASE Fail
    BY <1>13, FailStep
  <1>14. CASE Crash
    BY <1>14, CrashStep
  <1>15. CASE Flush
    BY <1>15, FlushStep
  <1>16. CASE UNCHANGED vars
    <2>1. UNCHANGED <<mem, disk, body, stage, turn, responses, begun, took, cut, queued, bare>>
      BY <1>16 DEF vars
    <2>2. Told' = Told /\ Open' = Open
      BY <2>1 DEF Told, Open
    <2>3. Grows
      BY <2>1, <2>2 DEF Grows
    <2>4. Stored
      BY <2>1, <2>3, StoredUnchanged
    <2>5. FreshTurn' /\ CheckpointInBody'
      BY <2>1 DEF IInv, FreshTurn, CheckpointInBody
    <2>6. SoundBody'
      BY <2>1 DEF IInv, SoundBody
    <2>7. TypeOK'
      BY <2>1 DEF IInv, TypeOK
    <2>8. \A f \in Follow : took'[f] \in begun' \cup {NoTurn}
      BY <2>1 DEF IInv
    <2> QED  BY <2>4, <2>5, <2>6, <2>7, <2>8 DEF IInv, Stored
  <1> QED
    BY <1>1, <1>2, <1>3, <1>4, <1>5, <1>6, <1>7, <1>8, <1>9, <1>10, <1>11, <1>12, <1>13, <1>14,
       <1>15, <1>16 DEF Next

-----------------------------------------------------------------------------
(* Theorems *)

LEMMA Invariance == Spec => []IInv
  <1>1. IInv /\ [Next]_vars => IInv'
    BY Step
  <1> QED  BY InitInv, <1>1, PTL DEF Spec

\* Every variable keeps its type, however many turns, responses and follow-ups
\* there are.
THEOREM TypeCorrect == Spec => []TypeOK
  <1>1. IInv => TypeOK
    BY DEF IInv
  <1> QED  BY Invariance, <1>1, PTL

\* The calls of a history are always followed by their results, so that it can
\* be sent to a provider: after every crash, /stop, exception and failed write.
THEOREM HistoryIsValid == Spec => []CallsArePaired
  <1>1. IInv => CallsArePaired
    BY DEF IInv, Sound, SoundLog, PairedRows, CallsArePaired
  <1> QED  BY Invariance, <1>1, PTL

\* No row is written twice, neither by a checkpoint that is restored nor by the
\* transcript of the turn that it was taken from.
THEOREM RowsAreUnique == Spec => []NoRowTwice
  <1>1. IInv => NoRowTwice
    BY DEF IInv, Sound, SoundLog, NoRowTwice
  <1> QED  BY Invariance, <1>1, PTL

\* A turn that was cut is closed before the next message of the user.
THEOREM InterruptedTurnsClose == Spec => []CutTurnIsClosed
  <1>1. IInv => CutTurnIsClosed
    <2> SUFFICES ASSUME IInv, NEW i \in 1 .. Len(mem.log) - 1, mem.log[i].kind = "user",
                        mem.log[i].who \cap (cut \ bare) # {}
                 PROVE  mem.log[i+1].kind # "user"
      BY DEF CutTurnIsClosed
    <2>1. cut \subseteq Turn
      BY DEF IInv, TypeOK
    <2>2. Owed(mem.log[i], bare)
      BY <2>1 DEF Owed
    <2> QED  BY <2>2 DEF IInv, Sound, SoundLog, ClosedRows
  <1> QED  BY Invariance, <1>1, PTL

\* The history tells of an interruption only where a turn was cut.
THEOREM InterruptionsAreTrue == Spec => []NoFalseInterruption
  <1>1. IInv => NoFalseInterruption
    BY DEF IInv, Sound, SoundLog, Truthful, NoFalseInterruption
  <1> QED  BY Invariance, <1>1, PTL

\* The file is never ahead of the cached session, and neither loses or rewrites
\* a row.
THEOREM AppendOnly == Spec => HistoryGrows
  <1>1. IInv /\ [Next]_vars => [IsPrefix(disk.log, disk'.log) /\ IsPrefix(disk'.log, mem'.log)]_vars
    BY Step DEF Stored
  <1> QED  BY Invariance, <1>1, PTL DEF Spec, HistoryGrows

\* What the checkpoint on disk preserves is given up only for later work of its
\* turn.
THEOREM CheckpointsHold == Spec => CheckpointSurvives
  <1>1. IInv /\ [Next]_vars =>
          [\/ RowsOfCheckpoint(disk.ck) \subseteq Preserved(disk')
           \/ \E r \in Preserved(disk') : r.n > disk.ck.n /\ r.who = disk.ck.who]_vars
    BY Step DEF Stored, Carries
  <1> QED  BY Invariance, <1>1, PTL DEF Spec, CheckpointSurvives

=============================================================================
