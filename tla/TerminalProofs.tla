--------------------------- MODULE TerminalProofs ---------------------------
(***************************************************************************)
(* Proofs about Terminal for every pane height, tail and command length    *)
(* limit, wait bound and set of commands: the waits, the captures and what *)
(* they account for, and what reaches the shell of the commands that are   *)
(* typed.  How keystrokes are cut is in ChunkProofs.  The facts about      *)
(* captures hold for rows of any type (IsSeq); the types themselves need   *)
(* to know what is being typed, and are proved together with it.           *)
(***************************************************************************)
EXTENDS ChunkProofs

IsSeq(s) == \E S : s \in Seq(S)

-----------------------------------------------------------------------------
(* Sequences of rows.                                                      *)

(* A sequence and one more element belong to the sequences over some set.  *)
LEMMA Widen ==
  ASSUME NEW s, NEW e, IsSeq(s)
  PROVE  \E S : s \in Seq(S) /\ e \in S
<1>1. PICK S : s \in Seq(S)
  BY DEF IsSeq
<1>2. s \in Seq(S \cup {e})
  BY <1>1
<1> QED BY <1>2

(* A sequence over some set has a length, and empty ones have length 0.    *)
LEMMA IsSeqFacts ==
  ASSUME NEW s, IsSeq(s)
  PROVE  /\ Len(s) \in Nat
         /\ DOMAIN s = 1 .. Len(s)
         /\ s = <<>> <=> Len(s) = 0
<1>1. PICK S : s \in Seq(S)
  BY DEF IsSeq
<1> QED BY <1>1, LenProperties, EmptySeq

(* A row is added (AppendRow).                                             *)
LEMMA AppendFacts ==
  ASSUME NEW s, NEW e, IsSeq(s)
  PROVE  /\ IsSeq(Append(s, e))
         /\ Len(Append(s, e)) = Len(s) + 1
         /\ \A i \in 1 .. Len(s) : Append(s, e)[i] = s[i]
<1>1. PICK S : s \in Seq(S) /\ e \in S
  BY Widen
<1> QED BY <1>1, AppendProperties DEF IsSeq

(* A row is replaced (RedrawRow).                                          *)
LEMMA ExceptFacts ==
  ASSUME NEW s, NEW e, IsSeq(s), s # <<>>
  PROVE  /\ IsSeq([s EXCEPT ![Len(s)] = e])
         /\ [s EXCEPT ![Len(s)] = e] # <<>>
<1>1. PICK S : s \in Seq(S) /\ e \in S
  BY Widen
<1>2. Len(s) \in 1 .. Len(s)
  BY IsSeqFacts
<1>3. /\ [s EXCEPT ![Len(s)] = e] \in Seq(S)
      /\ Len([s EXCEPT ![Len(s)] = e]) = Len(s)
  BY <1>1, <1>2, ExceptSeq
<1> QED BY <1>2, <1>3, EmptySeq DEF IsSeq

(* A part of a sequence.                                                   *)
LEMMA SubSeqFacts ==
  ASSUME NEW s, IsSeq(s), NEW m \in Nat \ {0}
  PROVE  LET t == SubSeq(s, m, Len(s))
         IN /\ IsSeq(t)
            /\ Len(t) = IF m <= Len(s) THEN Len(s) - m + 1 ELSE 0
            /\ \A i \in 1 .. Len(s) - m + 1 : t[i] = s[m + i - 1]
<1>1. PICK S : s \in Seq(S)
  BY DEF IsSeq
<1>2. Len(s) \in Nat /\ \A i \in m .. Len(s) : s[i] \in S
  <2>1. Len(s) \in Nat
    BY IsSeqFacts
  <2> QED BY <1>1, <2>1, ElementOfSeq
<1> QED BY <1>2, SubSeqProperties DEF IsSeq

(* What IsPrefix of the community modules means, element by element.       *)
LEMMA PrefixMeans ==
  ASSUME NEW s, NEW t, IsSeq(s), IsSeq(t)
  PROVE  IsPrefix(s, t) <=>
           Len(s) <= Len(t) /\ \A i \in 1 .. Len(s) : s[i] = t[i]
<1>1. PICK S : s \in Seq(S)
  BY DEF IsSeq
<1>2. PICK T : t \in Seq(T)
  BY DEF IsSeq
<1> DEFINE U == S \cup T
           p == SubSeq(s, 1, Len(s))
           q == SubSeq(t, 1, Len(s))
<1>3. s \in Seq(U) /\ t \in Seq(U)
  BY <1>1, <1>2
<1>4. Len(s) \in Nat /\ Len(t) \in Nat
  BY IsSeqFacts
<1> SUFFICES ASSUME Len(s) <= Len(t)
             PROVE  p = q <=> \A i \in 1 .. Len(s) : s[i] = t[i]
  BY DEF IsPrefix
<1>5. \A i \in 1 .. Len(s) : s[i] \in U /\ t[i] \in U
  <2>1. \A i \in 1 .. Len(s) : i \in 1 .. Len(t)
    BY <1>4
  <2> QED BY <1>3, <2>1, ElementOfSeq
<1>6. /\ p \in Seq(U) /\ Len(p) = Len(s)
      /\ \A i \in 1 .. Len(s) : p[i] = s[i]
  <2>1. /\ p \in Seq(U) /\ Len(p) = IF 1 <= Len(s) THEN Len(s) - 1 + 1 ELSE 0
        /\ \A i \in 1 .. Len(s) - 1 + 1 : p[i] = s[1 + i - 1]
    BY <1>4, <1>5, SubSeqProperties
  <2> QED BY <2>1, <1>4
<1>7. /\ q \in Seq(U) /\ Len(q) = Len(s)
      /\ \A i \in 1 .. Len(s) : q[i] = t[i]
  <2>1. /\ q \in Seq(U) /\ Len(q) = IF 1 <= Len(s) THEN Len(s) - 1 + 1 ELSE 0
        /\ \A i \in 1 .. Len(s) - 1 + 1 : q[i] = t[1 + i - 1]
    BY <1>4, <1>5, SubSeqProperties
  <2> QED BY <2>1, <1>4
<1> HIDE DEF p, q, U
<1>8. p = q => \A i \in 1 .. Len(s) : s[i] = t[i]
  BY <1>6, <1>7
<1>9. (\A i \in 1 .. Len(s) : s[i] = t[i]) => p = q
  BY <1>6, <1>7, SeqEqual
<1> QED BY <1>8, <1>9

(* The rows after a prefix are all there is beside it                      *)
(* (pane_content[len(previous_buffer):]).                                  *)
LEMMA PrefixAndRest ==
  ASSUME NEW s, NEW t, IsSeq(s), IsSeq(t), IsPrefix(s, t)
  PROVE  Numbers(t) \subseteq
           Numbers(s) \cup Numbers(SubSeq(t, Len(s) + 1, Len(t)))
<1> DEFINE rest == SubSeq(t, Len(s) + 1, Len(t))
<1>1. Len(s) \in Nat /\ Len(t) \in Nat /\ Len(s) <= Len(t)
        /\ \A i \in 1 .. Len(s) : s[i] = t[i]
  BY IsSeqFacts, PrefixMeans
<1>2. /\ Len(rest) = IF Len(s) + 1 <= Len(t) THEN Len(t) - (Len(s) + 1) + 1 ELSE 0
      /\ \A i \in 1 .. Len(t) - (Len(s) + 1) + 1 :
           rest[i] = t[(Len(s) + 1) + i - 1]
  BY <1>1, SubSeqFacts
<1> HIDE DEF rest
<1> SUFFICES ASSUME NEW i \in 1 .. Len(t)
             PROVE  \/ i \in 1 .. Len(s) /\ t[i] = s[i]
                    \/ \E j \in 1 .. Len(rest) : t[i] = rest[j]
  BY DEF Numbers, rest
<1>3. CASE i <= Len(s)
  BY <1>1, <1>3
<1>4. CASE i > Len(s)
  <2>1. /\ i - Len(s) \in 1 .. Len(rest)
        /\ rest[i - Len(s)] = t[(Len(s) + 1) + (i - Len(s)) - 1]
        /\ (Len(s) + 1) + (i - Len(s)) - 1 = i
    BY <1>1, <1>2, <1>4
  <2> QED BY <2>1
<1> QED BY <1>1, <1>3, <1>4

(* Cutting the buffer to its tail adds nothing to it (_limit_bytes).       *)
LEMMA TailFacts ==
  ASSUME NEW s, IsSeq(s)
  PROVE  /\ IsSeq(LastRows(s, TailLimit))
         /\ Numbers(LastRows(s, TailLimit)) \subseteq Numbers(s)
         /\ Len(s) <= TailLimit => LastRows(s, TailLimit) = s
<1>1. Len(s) \in Nat /\ TailLimit \in Nat \ {0}
  BY IsSeqFacts, TerminalAssumption
<1>2. CASE Len(s) <= TailLimit
  BY <1>2 DEF LastRows
<1>3. CASE ~(Len(s) <= TailLimit)
  <2> DEFINE m == Len(s) - TailLimit + 1
             t == SubSeq(s, m, Len(s))
  <2>1. m \in Nat \ {0} /\ m <= Len(s) /\ Len(s) - m + 1 = TailLimit
    BY <1>1, <1>3
  <2>2. /\ IsSeq(t) /\ Len(t) = TailLimit
        /\ \A i \in 1 .. TailLimit : t[i] = s[m + i - 1]
    <3> HIDE DEF m
    <3> QED BY <2>1, SubSeqFacts
  <2>3. \A i \in 1 .. TailLimit : m + i - 1 \in 1 .. Len(s)
    BY <1>1, <2>1
  <2>4. LastRows(s, TailLimit) = t
    BY <1>3 DEF LastRows
  <2> HIDE DEF m, t
  <2>5. Numbers(t) \subseteq Numbers(s)
    BY <2>2, <2>3 DEF Numbers
  <2> QED BY <1>3, <2>2, <2>4, <2>5
<1> QED BY <1>2, <1>3

(* The history is the pane, filled up with blank rows (capture-pane -S -). *)
LEMMA HistoryFacts ==
  ASSUME IsSeq(rows)
  PROVE  /\ IsSeq(History)
         /\ Len(rows) >= Height => History = rows
<1> DEFINE blanks == [i \in 1 .. Height - Len(rows) |-> Blank]
<1>1. PICK S : rows \in Seq(S) /\ Blank \in S
  BY Widen
<1>2. Len(rows) \in Nat /\ Height \in Nat
  BY IsSeqFacts, TerminalAssumption
<1>3. CASE Len(rows) < Height
  <2>1. Height - Len(rows) \in Nat
    BY <1>2, <1>3
  <2>2. blanks \in Seq(S)
    BY <1>1, <2>1
  <2> QED BY <1>1, <1>2, <1>3, <2>2, ConcatProperties DEF History, IsSeq
<1>4. CASE ~(Len(rows) < Height)
  <2>1. 1 .. Height - Len(rows) = {}
    BY <1>2, <1>4
  <2>2. blanks = <<>>
    BY <2>1
  <2>3. History = rows
    BY <1>1, <2>2, ConcatEmptySeq DEF History
  <2> QED BY <2>3
<1> QED BY <1>2, <1>3, <1>4

(* A full scrollback loses its oldest rows, and never all of them          *)
(* (tmux's grid_collect_history).                                          *)
LEMMA ScrolledFacts ==
  ASSUME IsSeq(rows), rows # <<>>
  PROVE  /\ IsSeq(Scrolled) /\ Scrolled # <<>>
         /\ ~Full => Scrolled = rows
         /\ \A S : rows \in Seq(S) => Scrolled \in Seq(S)
<1>1. /\ Len(rows) \in Nat /\ Height \in Nat \ {0}
      /\ HistoryLimit \in Nat \ {0}
  BY IsSeqFacts, TerminalAssumption
<1>2. Collected \in 1 .. HistoryLimit
  BY <1>1 DEF Collected
<1>3. CASE ~Full
  BY <1>3 DEF Scrolled
<1>4. CASE Full
  <2> DEFINE m == Collected + 1
             t == SubSeq(rows, m, Len(rows))
  <2>1. m \in Nat \ {0} /\ m <= Len(rows)
    BY <1>1, <1>2, <1>4 DEF Full
  <2>2. Scrolled = t
    BY <1>4 DEF Scrolled
  <2> HIDE DEF m
  <2>3. IsSeq(t) /\ Len(t) = Len(rows) - m + 1
    BY <2>1, SubSeqFacts
  <2>4. t # <<>>
    <3>1. Len(t) # 0
      BY <1>1, <2>1, <2>3
    <3> HIDE DEF t
    <3> QED BY <2>3, <3>1, IsSeqFacts
  <2>5. ASSUME NEW S, rows \in Seq(S) PROVE t \in Seq(S)
    <3>1. \A i \in m .. Len(rows) : i \in 1 .. Len(rows)
      BY <1>1, <2>1
    <3>2. \A i \in m .. Len(rows) : rows[i] \in S
      BY <2>5, <3>1, ElementOfSeq
    <3> QED BY <1>1, <2>1, <3>2, SubSeqProperties
  <2> QED BY <1>4, <2>2, <2>3, <2>4, <2>5
<1> QED BY <1>3, <1>4

-----------------------------------------------------------------------------
(* The invariants.                                                         *)

(* A poll that adds to the wait began within its budget, and only          *)
(* send_and_wait_idle sets one.                                            *)
WaitInv ==
  /\ DOMAIN command = {"no", "acked", "widths", "newlines", "chunks", "asked",
                       "budget", "waited"}
  /\ command.asked \in Int
  /\ command.budget \in Int
  /\ command.waited \in Nat
  /\ \/ command.waited = 0
     \/ /\ command.budget > 0
        /\ command.waited < command.budget + MaxExec + PollInterval
  /\ \/ command.budget = 0
     \/ command.budget = ClampCommandWait(ParsedDuration(command.asked))

PaneInv == IsSeq(rows) /\ rows # <<>>

(* What a capture in hand and the buffer hold.  Between the two calls of a *)
(* screen capture the history taken first shows nothing the buffer lacks.  *)
AccountInv ==
  /\ IsSeq(buffer) /\ IsSeq(capture.history)
  /\ pc = "capturing" /\ capture.kind # "reset" /\ buffer # <<>> =>
       Numbers(capture.history) \subseteq Numbers(buffer)
  /\ NoSilentGap

\* Undisturbed, what was captured is still at the start of the history.
PrefixInv ==
  /\ disturbed \in BOOLEAN /\ whole \in BOOLEAN
  /\ pc = "capturing" /\ ~disturbed => IsPrefix(capture.history, History)
  /\ pc \notin {"capturing", "raised"} /\ ~disturbed /\ whole /\ buffer # <<>>
       => IsPrefix(buffer, History)

\* The place of the next key of a command.
Place(cmd) == IF cmd.chunks = <<>> THEN Len(cmd.widths) + 1
              ELSE First(cmd.chunks[1])

\* While a command is sent, the chunks left are the rest of it.
Sending(at, cmd) ==
  /\ at = "typing" => cmd.chunks # <<>>
  /\ at # "typing" => cmd.chunks = <<>>
  /\ at \in {"typing", "entering"} =>
       /\ cmd.widths \in Seq(Nat) /\ cmd.widths # <<>>
       /\ CutFrom(cmd.chunks, cmd.no, cmd.widths, Place(cmd))

\* A line of one command, after the key before it.
LineOK(before, line) ==
  /\ Follows(before, line[1])
  /\ \A i \in 1 .. Len(line) - 1 :
       ~EndsLine(line[i]) /\ Follows(line[i], line[i + 1])
  /\ EndsLine(line[Len(line)])

\* The last key the shell has taken, and the last one typed.
Taken(running, last) == IF running = <<>> THEN last ELSE running[Len(running)]
Tip(line, running, last) ==
  IF line = <<>> THEN Taken(running, last) ELSE line[Len(line)]

\* What the shell runs and what is typed ahead are the keys in order.
InOrder(line, running, last) ==
  /\ EndsLine(last)
  /\ running # <<>> => LineOK(last, running)
  /\ line # <<>> => Follows(Taken(running, last), line[1])
  /\ \A i \in 1 .. Len(line) - 1 : Follows(line[i], line[i + 1])

\* They are of commands up to no.
Known(no, line, running, last) ==
  /\ last.command <= no
  /\ running # <<>> => running[Len(running)].command <= no
  /\ \A i \in 1 .. Len(line) : line[i].command <= no

\* The last key typed is the one before the next of the command being sent, or
\* it ended a command.
Ready(at, cmd, tip) ==
  IF at \in {"typing", "entering"} /\ Place(cmd) # 1
  THEN tip.command = cmd.no /\ tip.place = Place(cmd) - 1
  ELSE EndsLine(tip) /\ (at = "typing" => tip.command < cmd.no)

\* All of this, as long as nothing was lost.
Clean(at, cmd, line, running, last) ==
  /\ InOrder(line, running, last)
  /\ Known(cmd.no, line, running, last)
  /\ Ready(at, cmd, Tip(line, running, last))

TypingInv ==
  /\ Sending(pc, command)
  /\ ~spoiled => Clean(pc, command, input, job, read)

TerminalInv == WaitInv /\ PaneInv /\ AccountInv /\ PrefixInv

-----------------------------------------------------------------------------
(* Steps.                                                                  *)

\* What happens to the pane in any step but those of an observation.
Drawn ==
  \/ rows' = rows /\ disturbed' = disturbed
  \/ \E mark : AppendRow(mark)
  \/ \E mark : RedrawRow(mark) \/ EchoLines(mark)
  \/ rows' = <<NewRow(0)>> /\ disturbed' = TRUE

\* A step that captures nothing.
Elsewhere ==
  /\ Drawn
  /\ UNCHANGED <<buffer, capture, accounted, whole>>
  /\ pc' = "raised" \/ (pc' = "capturing" <=> pc = "capturing")
  /\ pc = "raised" => pc' = "raised"

(* A step captures, draws, or leaves the pane and the buffer alone.        *)
LEMMA StepCases ==
  ASSUME [Next \/ Stopped]_vars
  PROVE  ObserveNew \/ TakeHistory \/ TakeVisible \/ Elsewhere
<1>1. ASSUME NEW text \in Texts, NEW duration \in Durations,
             BeginSend(text, duration)
      PROVE  Elsewhere
  BY <1>1 DEF BeginSend, pane, history, Elsewhere, Drawn
<1>2. CASE TypeChunk
  <2>1. CASE raw
    BY <1>2, <2>1 DEF TypeChunk, pane, Elsewhere, Drawn
  <2>2. CASE ~raw
    <3>1. \E mark : RedrawRow(mark) \/ EchoLines(mark)
      BY <1>2, <2>2 DEF TypeChunk, Echo
    <3> QED BY <1>2, <3>1 DEF TypeChunk, Elsewhere, Drawn
  <2> QED BY <2>1, <2>2
<1>3. CASE PressEnter \/ SendEnter
  <2>1. /\ \E key : EnterKey(key)
        /\ pc' = "raised" \/ (pc' = "capturing" <=> pc = "capturing")
        /\ pc # "raised"
    BY <1>3 DEF PressEnter, SendEnter, SpecialKey
  <2>2. (rows' = rows /\ disturbed' = disturbed) \/ \E mark : AppendRow(mark)
    BY <2>1 DEF EnterKey, pane
  <2> QED BY <2>1, <2>2 DEF EnterKey, Elsewhere, Drawn
<1>4. CASE PollSees \/ PollExpires
  BY <1>4 DEF PollSees, PollExpires, Acknowledge, pane, history, Elsewhere, Drawn
<1>5. CASE PollAgain
  BY <1>5 DEF PollAgain, pane, history, Elsewhere, Drawn
<1>6. CASE SendFails \/ SendInterrupt \/ ShellReads
  BY <1>6 DEF SendFails, SendInterrupt, ShellReads, pane, client, history,
     Elsewhere, Drawn
<1>7. CASE ObserveRaises
  BY <1>7 DEF ObserveRaises, pane, history, Elsewhere, Drawn
<1>8. CASE PrintRow \/ JobEnds
  <2>1. \E mark : AppendRow(mark)
    BY <1>8 DEF PrintRow, JobEnds
  <2> QED BY <1>8, <2>1 DEF PrintRow, JobEnds, client, Elsewhere, Drawn
<1>9. CASE Redraw
  <2>1. \E mark : RedrawRow(mark)
    BY <1>9 DEF Redraw
  <2> QED BY <1>9, <2>1 DEF Redraw, client, Elsewhere, Drawn
<1>10. CASE Clear \/ RawStarts \/ ProgramReads
  BY <1>10 DEF Clear, RawStarts, ProgramReads, client, pane, Elsewhere, Drawn
<1>11. CASE UNCHANGED vars
  BY <1>11 DEF vars, pane, client, history, Elsewhere, Drawn
<1>12. CASE SendEdit
  <2>1. (rows' = rows /\ disturbed' = disturbed) \/ \E mark : RedrawRow(mark)
    BY <1>12 DEF SendEdit, pane
  <2> QED BY <1>12, <2>1 DEF SendEdit, SpecialKey, Elsewhere, Drawn
<1> QED
  BY <1>1, <1>2, <1>3, <1>4, <1>5, <1>6, <1>7, <1>8, <1>9, <1>10, <1>11, <1>12
     DEF Next, Stopped, Send, Observe, Programs

(* A pane that was only added to still starts with what it started with.   *)
LEMMA DrawnEffect ==
  ASSUME PaneInv, disturbed \in BOOLEAN, Drawn
  PROVE  /\ PaneInv'
         /\ disturbed' \in BOOLEAN
         /\ ~disturbed' =>
              /\ ~disturbed
              /\ \A s : IsSeq(s) /\ IsPrefix(s, History) => IsPrefix(s, History)'
<1>1. CASE rows' = rows /\ disturbed' = disturbed
  BY <1>1 DEF PaneInv, IsSeq, History, IsPrefix
<1>2. ASSUME NEW mark, AppendRow(mark)
      PROVE  /\ PaneInv' /\ disturbed' \in BOOLEAN
             /\ ~disturbed' =>
                  /\ ~disturbed
                  /\ \A s : IsSeq(s) /\ IsPrefix(s, History)
                       => IsPrefix(s, History)'
  <2>1. rows' = Append(Scrolled, NewRow(mark))
          /\ disturbed' = (disturbed \/ Len(rows) < Height \/ Full)
    BY <1>2 DEF AppendRow
  <2>2. /\ IsSeq(rows) /\ Len(rows) \in Nat /\ Height \in Nat
        /\ IsSeq(Scrolled) /\ Len(Scrolled) \in Nat
        /\ IsSeq(rows') /\ Len(rows') = Len(Scrolled) + 1
        /\ \A i \in 1 .. Len(Scrolled) : rows'[i] = Scrolled[i]
    <3>1. IsSeq(rows) /\ IsSeq(Scrolled)
      BY ScrolledFacts DEF PaneInv
    <3> QED BY <2>1, <3>1, AppendFacts, IsSeqFacts, TerminalAssumption
  <2>3. PaneInv'
    BY <2>2, IsSeqFacts DEF PaneInv
  <2>4. ASSUME ~disturbed', NEW s, IsSeq(s), IsPrefix(s, History)
        PROVE  IsPrefix(s, History)'
    <3>1. Len(rows) >= Height /\ Scrolled = rows
      <4>1. ~(Len(rows) < Height) /\ ~Full
        BY <2>1, <2>4, Zenon
      <4> QED BY <2>2, <4>1, ScrolledFacts DEF PaneInv
    <3>2. History = rows
      BY <2>2, <3>1, HistoryFacts
    <3>3. History' = rows'
      <4>1. IsSeq(rows') /\ Len(rows') >= Height /\ Len(rows') \in Nat
        BY <2>2, <3>1
      <4> DEFINE blanks == [i \in 1 .. Height - Len(rows') |-> Blank]
      <4>2. PICK S : rows' \in Seq(S)
        BY <4>1 DEF IsSeq
      <4>3. 1 .. Height - Len(rows') = {}
        BY <2>2, <4>1
      <4>4. blanks = <<>>
        BY <4>3
      <4>5. History' = rows' \o blanks
        BY DEF History, Blank
      <4> QED BY <4>2, <4>4, <4>5, ConcatEmptySeq
    <3>4. Len(s) \in Nat /\ Len(s) <= Len(rows)
            /\ \A i \in 1 .. Len(s) : s[i] = rows[i]
      BY <2>2, <2>4, <3>2, PrefixMeans, IsSeqFacts
    <3>5. Len(s) <= Len(rows') /\ \A i \in 1 .. Len(s) : s[i] = rows'[i]
      BY <2>2, <3>1, <3>4
    <3>6. IsPrefix(s, rows')
      BY <2>2, <2>4, <3>5, PrefixMeans
    <3> QED BY <3>3, <3>6 DEF IsPrefix
  <2> QED BY <2>1, <2>3, <2>4
<1>3. ASSUME NEW mark, RedrawRow(mark)
      PROVE  PaneInv' /\ disturbed' = TRUE
  BY <1>3, ExceptFacts DEF RedrawRow, PaneInv
<1>4. ASSUME NEW mark, EchoLines(mark)
      PROVE  PaneInv' /\ disturbed' = TRUE
  <2> DEFINE s == [Scrolled EXCEPT ![Len(Scrolled)] = NewRow(Last(rows).mark)]
             e == [no |-> drawn + 2, mark |-> mark]
  <2>1. IsSeq(s)
    BY ScrolledFacts, ExceptFacts DEF PaneInv
  <2>2. rows' = Append(s, e) /\ disturbed' = TRUE
    BY <1>4 DEF EchoLines
  <2> HIDE DEF s, e
  <2>3. IsSeq(rows') /\ Len(rows') = Len(s) + 1 /\ Len(s) \in Nat
    BY <2>1, <2>2, AppendFacts, IsSeqFacts
  <2> QED BY <2>2, <2>3, IsSeqFacts DEF PaneInv
<1>5. CASE rows' = <<NewRow(0)>> /\ disturbed' = TRUE
  <2>1. rows' \in Seq({NewRow(0)}) /\ rows' # <<>>
    BY <1>5
  <2> QED BY <1>5, <2>1 DEF PaneInv, IsSeq
<1> QED BY <1>1, <1>2, <1>3, <1>4, <1>5 DEF Drawn

-----------------------------------------------------------------------------
(* The waits.                                                              *)

(* Every step keeps a wait within its budget (send_and_wait_idle).         *)
LEMMA WaitKept ==
  ASSUME WaitInv, [Next \/ Stopped]_vars
  PROVE  WaitInv'
<1> USE DEF WaitInv
<1>1. ASSUME NEW text \in Texts, NEW duration \in Durations,
             BeginSend(text, duration)
      PROVE  WaitInv'
  <2> DEFINE no == command.no + 1
             chunks == SplitKeys(Chars(no, text.widths), text.widths)
             budget == ClampCommandWait(ParsedDuration(duration))
  <2>1. command' = [no |-> no, acked |-> FALSE, widths |-> text.widths,
                    newlines |-> text.newlines, chunks |-> chunks,
                    asked |-> duration, budget |-> budget, waited |-> 0]
    BY <1>1 DEF BeginSend
  <2>2. duration \in Int /\ budget \in Int
    BY TerminalAssumption DEF ClampCommandWait, ParsedDuration
  <2>3. budget = ClampCommandWait(ParsedDuration(duration))
    OBVIOUS
  <2> HIDE DEF no, chunks, budget
  <2>4. /\ DOMAIN command' = {"no", "acked", "widths", "newlines", "chunks",
                              "asked", "budget", "waited"}
        /\ command'.asked = duration /\ command'.budget = budget
        /\ command'.waited = 0
    BY <2>1
  <2>5. command'.budget = ClampCommandWait(ParsedDuration(command'.asked))
    BY <2>3, <2>4
  <2> QED BY <2>2, <2>4, <2>5 DEF ClampCommandWait, ParsedDuration
<1>2. CASE TypeChunk
  <2>1. /\ DOMAIN command' = DOMAIN command /\ command'.asked = command.asked
        /\ command'.budget = command.budget /\ command'.waited = command.waited
    BY <1>2 DEF TypeChunk
  <2> QED BY <2>1 DEF ClampCommandWait, ParsedDuration
<1>3. ASSUME NEW no, NEW acked, command' = Sent(no, acked)
      PROVE  WaitInv'
  BY <1>3 DEF Sent
<1>4. CASE PollSees \/ PollExpires \/ SendFails \/ SendEnter \/ SendEdit
  BY <1>3, <1>4 DEF PollSees, PollExpires, SendFails, Acknowledge, SendEnter,
     SendEdit, SpecialKey
<1>5. CASE PollAgain
  <2>1. PICK exec \in 0 .. MaxExec :
          command' = [command EXCEPT !.waited = @ + exec + PollInterval]
    BY <1>5 DEF PollAgain
  <2> DEFINE waited == command.waited + exec + PollInterval
  <2>2. /\ DOMAIN command' = DOMAIN command /\ command'.asked = command.asked
        /\ command'.budget = command.budget /\ command'.waited = waited
    BY <2>1
  <2>3. /\ waited \in Nat /\ command.budget > 0
        /\ waited < command.budget + MaxExec + PollInterval
    <3>1. MaxExec \in Nat /\ PollInterval \in Nat
      BY TerminalAssumption
    <3>2. /\ command.waited \in Nat /\ command.budget \in Int
          /\ command.waited < command.budget
      BY <1>5 DEF PollAgain
    <3> QED BY <3>1, <3>2
  <2>4. command.budget = ClampCommandWait(ParsedDuration(command.asked))
    BY <2>3
  <2> HIDE DEF waited
  <2> QED BY <2>2, <2>3, <2>4 DEF ClampCommandWait, ParsedDuration
<1>6. CASE command' = command
  BY <1>6 DEF ClampCommandWait, ParsedDuration
<1>7. CASE PressEnter \/ SendInterrupt \/ Observe \/ Programs
  <2>1. command' = command
    BY <1>7 DEF PressEnter, SendInterrupt, Observe, ObserveNew, TakeHistory,
       TakeVisible, Captured, ObserveRaises, Programs, PrintRow, Redraw, Clear,
       ShellReads, JobEnds, ProgramReads, RawStarts, client
  <2> QED BY <1>6, <2>1
<1>8. CASE UNCHANGED vars
  BY <1>6, <1>8 DEF vars, client
<1> QED
  BY <1>1, <1>2, <1>4, <1>5, <1>7, <1>8 DEF Next, Stopped, Send

(* The budget is what clamp_command_wait makes of the duration.            *)
LEMMA WaitIsBoundedByInv == WaitInv => WaitIsBounded
<1> SUFFICES ASSUME WaitInv PROVE WaitIsBounded
  OBVIOUS
<1>1. /\ command.asked \in Int /\ command.waited \in Nat
      /\ BlockingMax \in Nat \ {0} /\ MaxDuration \in Nat \ {0}
      /\ MaxExec \in Nat /\ PollInterval \in Nat
  BY TerminalAssumption DEF WaitInv
<1> SUFFICES ASSUME command.waited > 0 PROVE WaitIsBounded
  BY DEF WaitIsBounded
<1>2. /\ command.budget \in Int /\ command.budget > 0
      /\ command.waited - (MaxExec + PollInterval) < command.budget
      /\ command.budget = ClampCommandWait(ParsedDuration(command.asked))
  BY <1>1 DEF WaitInv
<1>3. CASE command.asked = 0
  BY <1>1, <1>2, <1>3 DEF WaitIsBounded, ClampCommandWait
<1>4. CASE command.asked # 0
  <2>1. command.asked > 0 /\ command.budget <= command.asked
          /\ command.budget <= MaxDuration
    BY <1>1, <1>2, <1>4 DEF ClampCommandWait, ParsedDuration
  <2> QED BY <1>1, <1>2, <1>4, <2>1 DEF WaitIsBounded
<1> QED BY <1>3, <1>4

-----------------------------------------------------------------------------
(* The captures.                                                           *)

(* Every step keeps account of the rows in the buffer.                     *)
LEMMA AccountKept ==
  ASSUME PaneInv, AccountInv, [Next \/ Stopped]_vars
  PROVE  AccountInv'
<1>1. IsSeq(History) /\ IsSeq(rows) /\ IsSeq(buffer) /\ IsSeq(capture.history)
        /\ Numbers(buffer) \subseteq accounted
  BY HistoryFacts DEF PaneInv, AccountInv, NoSilentGap
<1>2. CASE ObserveNew
  <2>1. /\ pc' = "ready" /\ capture' = NoCapture
        /\ buffer' = LastRows(History, TailLimit)
        /\ Numbers(Rest(History)) \subseteq accounted'
        /\ accounted \subseteq accounted'
        /\ buffer # <<>> /\ IsPrefix(buffer, History)
    BY <1>2 DEF ObserveNew, Captured, Extends
  <2>2. Numbers(History) \subseteq accounted'
    BY <1>1, <2>1, PrefixAndRest DEF Rest
  <2>3. IsSeq(buffer') /\ Numbers(buffer') \subseteq accounted'
    BY <1>1, <2>1, <2>2, TailFacts
  <2>4. IsSeq(capture'.history)
    <3>1. capture'.history = <<>>
      BY <2>1 DEF NoCapture
    <3> QED BY <3>1, EmptySeq DEF IsSeq
  <2> QED BY <2>1, <2>3, <2>4 DEF AccountInv, NoSilentGap, Numbers
<1>3. CASE TakeHistory
  <2>1. /\ capture'.history = History
        /\ capture'.kind = IF buffer = <<>> \/ Extends(History) THEN "screen"
                           ELSE "reset"
        /\ Extends(History) => Numbers(Rest(History)) = {}
        /\ buffer' = buffer /\ accounted' = accounted
    BY <1>3 DEF TakeHistory
  <2>2. capture'.kind # "reset" /\ buffer # <<>>
          => Numbers(History) \subseteq Numbers(buffer)
    BY <1>1, <2>1, PrefixAndRest DEF Extends, Rest
  <2> QED BY <1>1, <2>1, <2>2 DEF AccountInv, NoSilentGap, Numbers
<1>4. CASE TakeVisible
  <2>1. /\ pc = "capturing" /\ pc' = "ready" /\ capture' = NoCapture
        /\ buffer' = LastRows(capture.history, TailLimit)
        /\ accounted \subseteq accounted'
        /\ capture.kind = "reset" \/ buffer = <<>>
             => Numbers(capture.history) \subseteq accounted'
    BY <1>4 DEF TakeVisible, Captured
  <2>2. Numbers(capture.history) \subseteq accounted'
    BY <1>1, <2>1 DEF AccountInv
  <2>3. IsSeq(buffer') /\ Numbers(buffer') \subseteq accounted'
    BY <1>1, <2>1, <2>2, TailFacts
  <2>4. IsSeq(capture'.history)
    <3>1. capture'.history = <<>>
      BY <2>1 DEF NoCapture
    <3> QED BY <3>1, EmptySeq DEF IsSeq
  <2> QED BY <2>1, <2>3, <2>4 DEF AccountInv, NoSilentGap, Numbers
<1>5. CASE Elsewhere
  BY <1>5 DEF Elsewhere, AccountInv, NoSilentGap, Numbers, IsSeq
<1> QED BY <1>2, <1>3, <1>4, <1>5, StepCases

(* Every step keeps an undisturbed capture a prefix of the history.        *)
LEMMA PrefixKept ==
  ASSUME PaneInv, AccountInv, PrefixInv, [Next \/ Stopped]_vars
  PROVE  PaneInv' /\ PrefixInv'
<1>1. IsSeq(History) /\ IsSeq(rows) /\ IsSeq(buffer) /\ IsSeq(capture.history)
        /\ disturbed \in BOOLEAN /\ whole \in BOOLEAN
  BY HistoryFacts DEF PaneInv, AccountInv, PrefixInv
<1>2. IsPrefix(History, History)
  BY <1>1, PrefixMeans, IsSeqFacts
<1>3. ASSUME rows' = rows
      PROVE  History' = History /\ PaneInv'
  BY <1>3, <1>1 DEF History, Blank, PaneInv, IsSeq
<1>4. CASE ObserveNew
  <2>1. /\ rows' = rows /\ pc' = "ready" /\ disturbed' = FALSE
        /\ buffer' = LastRows(History, TailLimit)
        /\ whole' = (Len(History) <= TailLimit)
    BY <1>4 DEF ObserveNew, Captured, pane
  <2>2. whole' => buffer' = History
    BY <1>1, <2>1, TailFacts
  <2>3. History' = History /\ PaneInv'
    BY <1>3, <2>1
  <2>4. whole' => IsPrefix(buffer', History')
    BY <1>2, <2>2, <2>3
  <2>5. whole' \in BOOLEAN
    BY <2>1
  <2> QED BY <2>1, <2>3, <2>4, <2>5 DEF PrefixInv, IsPrefix
<1>5. CASE TakeHistory
  <2>1. /\ rows' = rows /\ pc' = "capturing" /\ disturbed' = FALSE
        /\ capture'.history = History /\ whole' = whole
    BY <1>5 DEF TakeHistory, pane
  <2>2. History' = History /\ PaneInv'
    BY <1>3, <2>1
  <2> QED BY <1>1, <1>2, <2>1, <2>2 DEF PrefixInv, IsPrefix
<1>6. CASE TakeVisible
  <2>1. /\ rows' = rows /\ pc = "capturing" /\ pc' = "ready"
        /\ disturbed' = disturbed
        /\ buffer' = LastRows(capture.history, TailLimit)
        /\ whole' = (Len(capture.history) <= TailLimit)
    BY <1>6 DEF TakeVisible, Captured, pane
  <2>2. whole' => buffer' = capture.history
    BY <1>1, <2>1, TailFacts
  <2>3. History' = History /\ PaneInv'
    BY <1>3, <2>1
  <2>4. ~disturbed => IsPrefix(capture.history, History)
    BY <2>1 DEF PrefixInv
  <2>5. whole' \in BOOLEAN
    BY <2>1
  <2> QED BY <1>1, <2>1, <2>2, <2>3, <2>4, <2>5 DEF PrefixInv, IsPrefix
<1>7. CASE Elsewhere
  <2>1. /\ UNCHANGED <<buffer, capture, accounted, whole>>
        /\ pc' = "raised" \/ (pc' = "capturing" <=> pc = "capturing")
        /\ pc = "raised" => pc' = "raised"
    BY <1>7 DEF Elsewhere
  <2>2. /\ PaneInv' /\ disturbed' \in BOOLEAN
        /\ ~disturbed' =>
             /\ ~disturbed
             /\ \A s : IsSeq(s) /\ IsPrefix(s, History) => IsPrefix(s, History)'
    BY <1>1, <1>7, DrawnEffect DEF Elsewhere
  <2>3. pc' = "capturing" /\ ~disturbed' => IsPrefix(capture'.history, History')
    <3> SUFFICES ASSUME pc' = "capturing", ~disturbed'
                 PROVE  IsPrefix(capture'.history, History')
      OBVIOUS
    <3>1. IsPrefix(capture.history, History)
      BY <2>1, <2>2 DEF PrefixInv
    <3>2. IsPrefix(capture.history, History')
      BY <1>1, <2>2, <3>1 DEF IsPrefix
    <3> QED BY <2>1, <3>2
  <2>4. pc' \notin {"capturing", "raised"} /\ ~disturbed' /\ whole'
            /\ buffer' # <<>> => IsPrefix(buffer', History')
    <3> SUFFICES ASSUME pc' \notin {"capturing", "raised"}, ~disturbed', whole',
                        buffer' # <<>>
                 PROVE  IsPrefix(buffer', History')
      OBVIOUS
    <3>1. IsPrefix(buffer, History)
      BY <2>1, <2>2 DEF PrefixInv
    <3>2. IsPrefix(buffer, History')
      BY <1>1, <2>2, <3>1 DEF IsPrefix
    <3> QED BY <2>1, <3>2
  <2> QED BY <1>1, <2>1, <2>2, <2>3, <2>4 DEF PrefixInv, IsPrefix
<1> QED BY <1>4, <1>5, <1>6, <1>7, StepCases

(* The first state satisfies the invariants.                               *)
LEMMA InitTerminalInv == Init => TerminalInv
<1> SUFFICES ASSUME Init PROVE TerminalInv
  OBVIOUS
<1>1. WaitInv
  BY DEF Init, WaitInv, Sent
<1>2. PaneInv
  <2>1. rows \in Seq({[no |-> 1, mark |-> 0]}) /\ rows # <<>>
    BY DEF Init
  <2> QED BY <2>1 DEF PaneInv, IsSeq
<1>3. AccountInv
  <2>1. IsSeq(<<>>)
    BY EmptySeq DEF IsSeq
  <2>2. Numbers(<<>>) = {}
    BY DEF Numbers
  <2> QED BY <2>1, <2>2 DEF Init, AccountInv, NoSilentGap, NoCapture
<1>4. PrefixInv
  BY DEF Init, PrefixInv
<1> QED BY <1>1, <1>2, <1>3, <1>4 DEF TerminalInv

(* The invariants hold in every behaviour.                                 *)
LEMMA TerminalInvHolds == Spec => []TerminalInv
<1>1. TerminalInv /\ [Next \/ Stopped]_vars => TerminalInv'
  BY WaitKept, AccountKept, PrefixKept DEF TerminalInv
<1> QED BY <1>1, InitTerminalInv, PTL DEF Spec

-----------------------------------------------------------------------------
(* The types.                                                              *)

Commands == [no : 0 .. MaxCommands, acked : BOOLEAN, widths : Seq(Nat),
             newlines : SUBSET Nat, chunks : Seq(Seq(Char)), asked : Int,
             budget : Int, waited : Nat]

PaneTypes ==
  /\ rows \in Seq(Row) /\ rows # <<>>
  /\ drawn \in Nat
  /\ output \in 0 .. MaxOutput
  /\ disturbed \in BOOLEAN

ShellTypes ==
  /\ input \in Seq(Key)
  /\ job \in Seq(Key)
  /\ raw \in BOOLEAN
  /\ raw => job # <<>> /\ input = <<>>
  /\ read \in Key
  /\ spoiled \in BOOLEAN

ClientTypes ==
  /\ pc \in {"ready", "typing", "entering", "polling", "capturing", "raised"}
  /\ command \in Commands

CaptureTypes ==
  /\ buffer \in Seq(Row) /\ Len(buffer) <= TailLimit
  /\ capture \in [kind : {"none", "screen", "reset"}, history : Seq(Row)]
  /\ pc = "capturing" => capture.kind # "none"
  /\ accounted \subseteq Nat
  /\ whole \in BOOLEAN

TypeInv == PaneTypes /\ ShellTypes /\ ClientTypes /\ CaptureTypes

(* The fields of a command have their types.                               *)
LEMMA CommandFields ==
  ASSUME command \in Commands
  PROVE  /\ command.no \in 0 .. MaxCommands /\ command.no \in Nat
         /\ command.acked \in BOOLEAN
         /\ command.widths \in Seq(Nat) /\ command.chunks \in Seq(Seq(Char))
         /\ command.asked \in Int /\ command.budget \in Int
         /\ command.waited \in Nat
BY TerminalAssumption DEF Commands

(* A row is printed or redrawn, or both.                                   *)
LEMMA DrawTypes ==
  ASSUME PaneTypes, NEW mark \in Nat,
         AppendRow(mark) \/ RedrawRow(mark) \/ EchoLines(mark)
  PROVE  /\ rows' \in Seq(Row) /\ rows' # <<>>
         /\ drawn' \in Nat /\ disturbed' \in BOOLEAN
<1>1. /\ drawn + 1 \in Nat /\ drawn + 2 \in Nat
      /\ \A n, m \in Nat : [no |-> n, mark |-> m] \in Row
  BY DEF PaneTypes, Row
<1>2. \A m \in Nat : NewRow(m) \in Row
  BY <1>1 DEF NewRow
<1>3. Scrolled \in Seq(Row) /\ Scrolled # <<>> /\ rows \in Seq(Row)
        /\ Last(rows).mark \in Nat
  <2>1. IsSeq(rows) /\ rows # <<>> /\ rows \in Seq(Row)
    BY DEF PaneTypes, IsSeq
  <2>2. Len(rows) \in 1 .. Len(rows)
    BY <2>1, EmptySeq
  <2>3. rows[Len(rows)] \in Row
    BY <2>1, <2>2, ElementOfSeq
  <2> QED BY <2>1, <2>3, ScrolledFacts DEF Last, Row
<1>4. CASE AppendRow(mark)
  BY <1>1, <1>2, <1>3, <1>4, AppendProperties DEF AppendRow, PaneTypes
<1>5. ASSUME NEW s \in Seq(Row), s # <<>>, NEW row \in Row
      PROVE  /\ [s EXCEPT ![Len(s)] = row] \in Seq(Row)
             /\ [s EXCEPT ![Len(s)] = row] # <<>>
  <2>1. Len(s) \in 1 .. Len(s)
    BY <1>5, EmptySeq
  <2>2. /\ [s EXCEPT ![Len(s)] = row] \in Seq(Row)
        /\ Len([s EXCEPT ![Len(s)] = row]) = Len(s)
    BY <1>5, <2>1, ExceptSeq
  <2> QED BY <2>1, <2>2, EmptySeq
<1>6. CASE RedrawRow(mark)
  <2>1. rows' = [rows EXCEPT ![Len(rows)] = NewRow(mark)] /\ drawn' = drawn + 1
          /\ disturbed' = TRUE
    BY <1>6 DEF RedrawRow
  <2>2. rows' \in Seq(Row) /\ rows' # <<>>
    <3>1. rows # <<>>
      BY DEF PaneTypes
    <3> QED BY <1>2, <1>3, <1>5, <2>1, <3>1
  <2> QED BY <1>1, <2>1, <2>2
<1>7. CASE EchoLines(mark)
  <2> DEFINE ended == NewRow(Last(rows).mark)
             begun == [no |-> drawn + 2, mark |-> mark]
             s == [Scrolled EXCEPT ![Len(Scrolled)] = ended]
  <2>1. ended \in Row /\ begun \in Row /\ drawn + 2 \in Nat
    BY <1>1, <1>2, <1>3
  <2>2. rows' = Append(s, begun) /\ drawn' = drawn + 2 /\ disturbed' = TRUE
    BY <1>7 DEF EchoLines
  <2> HIDE DEF ended, begun
  <2>3. s \in Seq(Row)
    BY <1>3, <1>5, <2>1
  <2> HIDE DEF s
  <2>4. rows' \in Seq(Row) /\ Len(rows') = Len(s) + 1 /\ Len(s) \in Nat
    BY <2>1, <2>2, <2>3, AppendProperties
  <2>5. rows' # <<>>
    BY <2>4, EmptySeq
  <2> QED BY <2>1, <2>2, <2>4, <2>5
<1> QED BY <1>4, <1>6, <1>7

(* Only printing and redrawing touch the pane.                             *)
LEMMA PaneTypesKept ==
  ASSUME TypeInv, TypingInv, [Next \/ Stopped]_vars
  PROVE  PaneTypes'
<1>1. /\ PaneTypes /\ disturbed \in BOOLEAN /\ command.no \in Nat
      /\ job \in Seq(Key) /\ command.chunks \in Seq(Seq(Char))
  BY CommandFields DEF TypeInv, PaneTypes, ShellTypes, ClientTypes
<1>2. ASSUME UNCHANGED pane, disturbed' \in BOOLEAN PROVE PaneTypes'
  BY <1>1, <1>2 DEF PaneTypes, pane
<1>3. ASSUME NEW mark \in Nat,
             AppendRow(mark) \/ RedrawRow(mark) \/ EchoLines(mark),
             \/ output' = output
             \/ output < MaxOutput /\ output' = output + 1
      PROVE  PaneTypes'
  <2>1. output' \in 0 .. MaxOutput
    BY <1>1, <1>3, TerminalAssumption DEF PaneTypes
  <2>2. /\ rows' \in Seq(Row) /\ rows' # <<>>
        /\ drawn' \in Nat /\ disturbed' \in BOOLEAN
    BY <1>1, <1>3, DrawTypes
  <2> QED BY <2>1, <2>2 DEF PaneTypes
<1>4. CASE TypeChunk
  <2>1. CASE raw
    BY <1>1, <1>2, <1>4, <2>1 DEF TypeChunk
  <2>2. CASE ~raw
    <3> DEFINE shown == IF Last(Head(command.chunks)).final THEN command.no
                        ELSE 0
               mark == IF shown = 0 THEN Last(rows).mark ELSE shown
    <3>1. Last(rows).mark \in Nat
      <4>1. Len(rows) \in 1 .. Len(rows)
        BY <1>1, EmptySeq DEF PaneTypes
      <4>2. rows[Len(rows)] \in Row
        BY <1>1, <4>1, ElementOfSeq DEF PaneTypes
      <4> QED BY <4>2 DEF Last, Row
    <3>2. shown \in Nat
      BY <1>1
    <3>3. mark \in Nat
      <4> HIDE DEF shown
      <4> QED BY <3>1, <3>2
    <3>4. (RedrawRow(mark) \/ EchoLines(shown)) /\ output' = output
      BY <1>4, <2>2 DEF TypeChunk, Echo
    <3> HIDE DEF mark, shown
    <3> QED BY <1>3, <3>2, <3>3, <3>4
  <2> QED BY <2>1, <2>2
<1>5. CASE PressEnter \/ SendEnter
  <2>1. \/ UNCHANGED pane /\ disturbed' = disturbed
        \/ AppendRow(0) /\ output' = output
    BY <1>5 DEF PressEnter, SendEnter, EnterKey
  <2> QED BY <1>1, <1>2, <1>3, <2>1
<1>6. CASE PrintRow \/ Redraw
  BY <1>3, <1>6 DEF PrintRow, Redraw
<1>7. CASE Clear
  <2>1. NewRow(0) \in Row /\ drawn + 1 \in Nat
    BY <1>1 DEF PaneTypes, NewRow, Row
  <2>2. <<NewRow(0)>> \in Seq(Row) /\ <<NewRow(0)>> # <<>>
    BY <2>1
  <2>3. output' \in 0 .. MaxOutput
    BY <1>1, <1>7, TerminalAssumption DEF Clear, PaneTypes
  <2> QED BY <1>7, <2>1, <2>2, <2>3 DEF Clear, PaneTypes
<1>8. CASE JobEnds
  <2>1. Last(job).command \in Nat
    <3>1. Len(job) \in 1 .. Len(job)
      BY <1>1, <1>8, EmptySeq DEF JobEnds
    <3>2. job[Len(job)] \in Key
      BY <1>1, <3>1, ElementOfSeq
    <3> QED BY <3>2 DEF Last, Key
  <2>2. PICK mark \in {0, Last(job).command} : AppendRow(mark)
    BY <1>8 DEF JobEnds
  <2>3. mark \in Nat /\ output' = output
    BY <1>8, <2>1 DEF JobEnds
  <2> QED BY <1>3, <2>2, <2>3
<1>9. ASSUME NEW text \in Texts, NEW duration \in Durations,
             BeginSend(text, duration)
      PROVE  PaneTypes'
  BY <1>1, <1>2, <1>9 DEF BeginSend, history
<1>10. CASE PollSees \/ PollAgain \/ PollExpires \/ SendFails \/ SendInterrupt
  BY <1>1, <1>2, <1>10 DEF PollSees, PollAgain, PollExpires, Acknowledge,
     SendFails, SendInterrupt, history
<1>11. CASE SendEdit
  <2>1. \/ UNCHANGED pane /\ disturbed' = disturbed
        \/ RedrawRow(0) /\ output' = output
    BY <1>11 DEF SendEdit
  <2> QED BY <1>1, <1>2, <1>3, <2>1
<1>12. CASE Observe
  BY <1>1, <1>2, <1>12 DEF Observe, ObserveNew, TakeHistory, TakeVisible,
     Captured, ObserveRaises, history
<1>13. CASE RawStarts \/ ShellReads \/ ProgramReads
  BY <1>1, <1>2, <1>13 DEF RawStarts, ShellReads, ProgramReads, history
<1>14. CASE UNCHANGED vars
  BY <1>1, <1>2, <1>14 DEF vars, history
<1> QED
  BY <1>4, <1>5, <1>6, <1>7, <1>8, <1>9, <1>10, <1>11, <1>12, <1>13, <1>14
     DEF Next, Stopped, Send, Programs

(* What the tty reads of a chunk are keys (KeyOf).                         *)
LEMMA KeysTyped ==
  ASSUME NEW chunk \in Seq(Char)
  PROVE  [i \in 1 .. Len(chunk) |-> KeyOf(chunk[i])] \in Seq(Key)
<1>1. ASSUME NEW c \in Char PROVE KeyOf(c) \in Key
  BY DEF KeyOf, Char, Key
<1>2. Len(chunk) \in Nat /\ \A i \in 1 .. Len(chunk) : KeyOf(chunk[i]) \in Key
  BY <1>1, ElementOfSeq
<1> QED BY <1>2

(* The first keys of a line, and the rest.                                 *)
LEMMA PartTypes ==
  ASSUME NEW S, NEW s \in Seq(S), NEW n \in 0 .. Len(s)
  PROVE  /\ SubSeq(s, 1, n) \in Seq(S) /\ Len(SubSeq(s, 1, n)) = n
         /\ \A i \in 1 .. n : SubSeq(s, 1, n)[i] = s[i]
         /\ SubSeq(s, n + 1, Len(s)) \in Seq(S)
         /\ Len(SubSeq(s, n + 1, Len(s))) = Len(s) - n
         /\ \A i \in 1 .. Len(s) - n : SubSeq(s, n + 1, Len(s))[i] = s[n + i]
<1>1. Len(s) \in Nat /\ n \in Nat /\ n <= Len(s)
  OBVIOUS
<1>2. \A i \in 1 .. Len(s) : s[i] \in S
  BY ElementOfSeq
<1>3. \A i \in 1 .. n : s[i] \in S
  BY <1>1, <1>2
<1>4. \A i \in n + 1 .. Len(s) : s[i] \in S
  BY <1>1, <1>2
<1>5. /\ SubSeq(s, 1, n) \in Seq(S)
      /\ Len(SubSeq(s, 1, n)) = IF 1 <= n THEN n - 1 + 1 ELSE 0
      /\ \A i \in 1 .. n - 1 + 1 : SubSeq(s, 1, n)[i] = s[1 + i - 1]
  BY <1>1, <1>3, SubSeqProperties
<1>6. /\ SubSeq(s, n + 1, Len(s)) \in Seq(S)
      /\ Len(SubSeq(s, n + 1, Len(s))) =
           IF n + 1 <= Len(s) THEN Len(s) - (n + 1) + 1 ELSE 0
      /\ \A i \in 1 .. Len(s) - (n + 1) + 1 :
           SubSeq(s, n + 1, Len(s))[i] = s[(n + 1) + i - 1]
  <2>1. n + 1 \in Int /\ Len(s) \in Int
    BY <1>1
  <2> QED BY <1>4, <2>1, SubSeqProperties
<1>7. /\ (IF 1 <= n THEN n - 1 + 1 ELSE 0) = n
      /\ (IF n + 1 <= Len(s) THEN Len(s) - (n + 1) + 1 ELSE 0) = Len(s) - n
  BY <1>1
<1>8. /\ SubSeq(s, 1, n) \in Seq(S) /\ Len(SubSeq(s, 1, n)) = n
      /\ SubSeq(s, n + 1, Len(s)) \in Seq(S)
      /\ Len(SubSeq(s, n + 1, Len(s))) = Len(s) - n
  <2>1. SubSeq(s, 1, n) \in Seq(S) /\ SubSeq(s, n + 1, Len(s)) \in Seq(S)
    BY <1>5, <1>6, Zenon
  <2>2. Len(SubSeq(s, 1, n)) = n
    BY <1>1, <1>5
  <2>3. Len(SubSeq(s, n + 1, Len(s))) = Len(s) - n
    BY <1>1, <1>6
  <2> QED BY <2>1, <2>2, <2>3, Zenon
<1>9. ASSUME NEW i \in 1 .. n PROVE SubSeq(s, 1, n)[i] = s[i]
  <2>1. i \in 1 .. n - 1 + 1
    BY <1>1
  <2>2. SubSeq(s, 1, n)[i] = s[1 + i - 1]
    BY <1>5, <2>1, Zenon
  <2>3. 1 + i - 1 = i
    OBVIOUS
  <2> QED BY <2>2, <2>3
<1>10. ASSUME NEW i \in 1 .. Len(s) - n
       PROVE  SubSeq(s, n + 1, Len(s))[i] = s[n + i]
  <2>1. i \in 1 .. Len(s) - (n + 1) + 1
    BY <1>1
  <2>2. SubSeq(s, n + 1, Len(s))[i] = s[(n + 1) + i - 1]
    BY <1>6, <2>1, Zenon
  <2>3. (n + 1) + i - 1 = n + i
    BY <1>1
  <2> QED BY <2>2, <2>3
<1> QED BY <1>8, <1>9, <1>10

(* What is typed, entered, taken, finished and read by other programs.     *)
LEMMA ShellTypesKept ==
  ASSUME TypeInv, TypingInv, [Next \/ Stopped]_vars
  PROVE  ShellTypes'
<1>1. /\ ShellTypes /\ input \in Seq(Key) /\ job \in Seq(Key)
      /\ raw \in BOOLEAN /\ spoiled \in BOOLEAN
      /\ raw => job # <<>> /\ input = <<>>
      /\ read \in Key
      /\ command \in Commands /\ command.no \in Nat
  BY CommandFields DEF TypeInv, ShellTypes, ClientTypes
<1>2. \A S : <<>> \in Seq(S)
  BY EmptySeq
<1>3. ASSUME UNCHANGED <<shell, read>>, spoiled' \in BOOLEAN PROVE ShellTypes'
  BY <1>1, <1>3 DEF ShellTypes, shell
<1>4. CASE TypeChunk
  <2> DEFINE chunk == Head(command.chunks)
             keys == [i \in 1 .. Len(chunk) |-> KeyOf(chunk[i])]
  <2>1. chunk \in Seq(Char)
    <3>1. command.chunks \in Seq(Seq(Char)) /\ command.chunks # <<>>
      BY <1>4, CommandFields DEF TypeInv, ClientTypes, TypingInv, Sending,
           TypeChunk
    <3> QED BY <3>1, HeadTailProperties
  <2>2. keys \in Seq(Key)
    <3> HIDE DEF chunk
    <3> QED BY <2>1, KeysTyped
  <2>3. input \o keys \in Seq(Key)
    BY <1>1, <2>2, ConcatProperties
  <2>4. /\ raw => input' = input /\ spoiled' = TRUE
        /\ ~raw => input' = input \o keys /\ spoiled' = spoiled
        /\ job' = job /\ raw' = raw /\ read' = read
    BY <1>4 DEF TypeChunk
  <2> HIDE DEF keys
  <2> QED BY <1>1, <2>3, <2>4 DEF ShellTypes
<1>5. ASSUME NEW key \in Key, EnterKey(key) PROVE ShellTypes'
  <2>1. /\ raw => input' = input
        /\ ~raw => input' = Append(input, key)
        /\ job' = job /\ raw' = raw /\ read' = read /\ spoiled' = spoiled
    BY <1>5 DEF EnterKey
  <2>2. Append(input, key) \in Seq(Key)
    BY <1>1, AppendProperties
  <2> QED BY <1>1, <2>1, <2>2 DEF ShellTypes
<1>6. CASE PressEnter
  <2>1. command.widths \in Seq(Nat)
    BY <1>1, CommandFields
  <2>2. [command |-> command.no, place |-> Len(command.widths) + 1,
         kind |-> "enter"] \in Key
    BY <1>1, <2>1 DEF Key
  <2> QED BY <1>5, <1>6, <2>2 DEF PressEnter
<1>7. CASE SendEnter
  <2>1. [command |-> command.no + 1, place |-> 1, kind |-> "newline"] \in Key
    BY <1>1 DEF Key
  <2> QED BY <1>5, <1>7, <2>1 DEF SendEnter
<1>8. CASE SendEdit
  <2> DEFINE key == [command |-> command.no + 1, place |-> 1, kind |-> "char"]
  <2>1. PICK n \in 0 .. Len(input) :
          input' \in {SubSeq(input, 1, n), Append(SubSeq(input, 1, n), key)}
    BY <1>8 DEF SendEdit
  <2>2. key \in Key
    BY <1>1 DEF Key
  <2>3. SubSeq(input, 1, n) \in Seq(Key)
    BY <1>1, PartTypes
  <2>4. input' \in Seq(Key)
    <3> DEFINE kept == SubSeq(input, 1, n)
    <3>1. input' = kept \/ input' = Append(kept, key)
      BY <2>1
    <3> HIDE DEF key, kept
    <3>2. kept \in Seq(Key)
      BY <2>3 DEF kept
    <3>3. Append(kept, key) \in Seq(Key)
      BY <2>2, <3>2, AppendProperties
    <3> QED BY <3>1, <3>2, <3>3
  <2>5. /\ ~raw /\ job' = job /\ raw' = raw /\ read' = read
        /\ spoiled' = (spoiled \/ input' # input)
    BY <1>8 DEF SendEdit
  <2> QED BY <1>1, <2>4, <2>5 DEF ShellTypes
<1>9. CASE SendInterrupt
  <2>1. /\ job' = job \/ job' = <<>>
        /\ input' = <<>>
        /\ raw' = (raw /\ job' # <<>>) /\ spoiled' = spoiled /\ read' = read
    BY <1>9 DEF SendInterrupt, history
  <2> QED BY <1>1, <1>2, <2>1 DEF ShellTypes
<1>10. CASE ShellReads
  <2>1. PICK n \in 1 .. Len(input) :
          job' = SubSeq(input, 1, n) /\ input' = SubSeq(input, n + 1, Len(input))
    BY <1>10 DEF ShellReads
  <2>2. /\ job = <<>> /\ raw' = raw /\ read' = read /\ spoiled' = spoiled
    BY <1>10 DEF ShellReads, history
  <2> QED BY <1>1, <2>1, <2>2, PartTypes DEF ShellTypes
<1>11. CASE ProgramReads
  <2>1. PICK n \in 1 .. Len(input) : input' = SubSeq(input, n + 1, Len(input))
    BY <1>11 DEF ProgramReads
  <2>2. ~raw
    <3>1. Len(input) # 0
      BY <1>1, <2>1
    <3> QED BY <1>1, <3>1, EmptySeq
  <2>3. job' = job /\ raw' = raw /\ read' = read /\ spoiled' = TRUE
    BY <1>11 DEF ProgramReads
  <2> QED BY <1>1, <2>1, <2>2, <2>3, PartTypes DEF ShellTypes
<1>12. CASE JobEnds
  <2>1. /\ job # <<>> /\ job' = <<>> /\ read' = Last(job) /\ raw' = FALSE
        /\ UNCHANGED <<input, spoiled>>
    BY <1>12 DEF JobEnds
  <2>2. Last(job) \in Key
    <3>1. Len(job) \in 1 .. Len(job)
      BY <1>1, <2>1, EmptySeq
    <3> QED BY <1>1, <3>1, ElementOfSeq DEF Last
  <2> QED BY <1>1, <1>2, <2>1, <2>2 DEF ShellTypes
<1>13. CASE RawStarts
  <2>1. /\ job' = job /\ job # <<>> /\ raw' = TRUE /\ input' = <<>>
        /\ spoiled' = (spoiled \/ input # <<>>) /\ read' = read
    BY <1>13 DEF RawStarts
  <2> QED BY <1>1, <1>2, <2>1 DEF ShellTypes
<1>14. ASSUME NEW text \in Texts, NEW duration \in Durations,
              BeginSend(text, duration)
       PROVE  ShellTypes'
  BY <1>1, <1>3, <1>14 DEF BeginSend, history
<1>15. CASE PollSees \/ PollAgain \/ PollExpires \/ SendFails
  BY <1>1, <1>3, <1>15 DEF PollSees, PollAgain, PollExpires, Acknowledge,
     SendFails, history
<1>16. CASE Observe
  BY <1>1, <1>3, <1>16 DEF Observe, ObserveNew, TakeHistory, TakeVisible,
     Captured, ObserveRaises, history
<1>17. CASE PrintRow \/ Redraw \/ Clear
  BY <1>1, <1>3, <1>17 DEF PrintRow, Redraw, Clear
<1>18. CASE UNCHANGED vars
  BY <1>1, <1>3, <1>18 DEF vars, history
<1> QED
  BY <1>4, <1>6, <1>7, <1>8, <1>9, <1>10, <1>11, <1>12, <1>13, <1>14, <1>15,
     <1>16, <1>17, <1>18
     DEF Next, Stopped, Send, Programs

(* The command a send begins with.                                         *)
LEMMA BeginFacts ==
  ASSUME TypeInv, NEW text \in Texts, NEW duration \in Durations,
         BeginSend(text, duration)
  PROVE  LET no == command.no + 1
             w == text.widths
             chunks == SplitKeys(Chars(no, w), w)
         IN /\ command' = [no |-> no, acked |-> FALSE, widths |-> w,
                           newlines |-> text.newlines, chunks |-> chunks,
                           asked |-> duration,
                           budget |-> ClampCommandWait(ParsedDuration(duration)),
                           waited |-> 0]
            /\ no \in 0 .. MaxCommands /\ no \in Nat
            /\ w \in Seq(Nat) /\ w # <<>>
            /\ text.newlines \in SUBSET Nat
            /\ CutFrom(chunks, no, w, 1)
            /\ chunks # <<>> /\ chunks \in Seq(Seq(Char))
<1> DEFINE no == command.no + 1
           w == text.widths
           chunks == SplitKeys(Chars(no, w), w)
<1>1. no \in 0 .. MaxCommands /\ no \in Nat
  BY CommandFields, TerminalAssumption DEF TypeInv, ClientTypes, BeginSend
<1>2. w \in Seq(Nat) /\ w # <<>> /\ text.newlines \in SUBSET Nat
  <2>1. /\ w \in Seq(Nat \ {0}) /\ w # <<>>
        /\ text.newlines \subseteq 1 .. Len(w) - 1
    BY TerminalAssumption
  <2>2. Nat \ {0} \subseteq Nat /\ \A n \in Int : 1 .. n \subseteq Nat
    OBVIOUS
  <2>3. w \in Seq(Nat)
    BY <2>1, <2>2, SeqMonotonic
  <2>4. Len(w) - 1 \in Int
    BY <2>3
  <2> QED BY <2>1, <2>2, <2>3, <2>4
<1>3. CutFrom(chunks, no, w, 1)
  <2> HIDE DEF no, w
  <2> QED BY <1>1, <1>2, CutIsTheCommand
<1>4. chunks # <<>> /\ chunks \in Seq(Seq(Char))
  <2> HIDE DEF no, w, chunks
  <2>1. 1 # Len(w) + 1
    <3>1. Len(w) \in Nat \ {0}
      BY <1>2, EmptySeq
    <3> QED BY <3>1
  <2> QED BY <1>3, <2>1 DEF CutFrom
<1>5. command' = [no |-> no, acked |-> FALSE, widths |-> w,
                  newlines |-> text.newlines, chunks |-> chunks,
                  asked |-> duration,
                  budget |-> ClampCommandWait(ParsedDuration(duration)),
                  waited |-> 0]
  BY DEF BeginSend
<1> QED BY <1>1, <1>2, <1>3, <1>4, <1>5

(* The main thread and the command it sends keep their types.              *)
LEMMA ClientTypesKept ==
  ASSUME TypeInv, TypingInv, [Next \/ Stopped]_vars
  PROVE  ClientTypes'
<1> DEFINE Places_ == {"ready", "typing", "entering", "polling", "capturing",
                       "raised"}
<1>1. command \in Commands /\ pc \in Places_
  BY DEF TypeInv, ClientTypes
<1>2. ASSUME NEW text \in Texts, NEW duration \in Durations,
             BeginSend(text, duration)
      PROVE  ClientTypes'
  <2> DEFINE no == command.no + 1
             w == text.widths
             chunks == SplitKeys(Chars(no, w), w)
             budget == ClampCommandWait(ParsedDuration(duration))
  <2>1. command' = [no |-> no, acked |-> FALSE, widths |-> w,
                    newlines |-> text.newlines, chunks |-> chunks,
                    asked |-> duration, budget |-> budget, waited |-> 0]
    BY <1>2 DEF BeginSend
  <2>2. duration \in Int /\ budget \in Int
    BY TerminalAssumption DEF ClampCommandWait, ParsedDuration
  <2>3. no \in 0 .. MaxCommands /\ w \in Seq(Nat) /\ text.newlines \in SUBSET Nat
          /\ chunks \in Seq(Seq(Char))
    BY <1>2, BeginFacts
  <2> HIDE DEF no, w, chunks, budget
  <2>4. command' \in Commands
    BY <2>1, <2>2, <2>3 DEF Commands
  <2> QED BY <1>2, <2>4 DEF BeginSend, ClientTypes
<1>3. CASE TypeChunk
  <2>1. command.chunks # <<>> /\ command.chunks \in Seq(Seq(Char))
    BY <1>3, <1>1, CommandFields DEF TypingInv, Sending, TypeChunk
  <2>2. Tail(command.chunks) \in Seq(Seq(Char))
    BY <2>1, HeadTailProperties
  <2>3. command' = [command EXCEPT !.chunks = Tail(command.chunks)]
          /\ pc' \in Places_
    BY <1>3 DEF TypeChunk
  <2>4. command' \in Commands
    BY <1>1, <2>2, <2>3 DEF Commands
  <2> QED BY <2>3, <2>4 DEF ClientTypes
<1>4. ASSUME NEW no \in 0 .. MaxCommands, NEW acked \in BOOLEAN,
             command' = Sent(no, acked)
      PROVE  command' \in Commands
  <2>1. <<>> \in Seq(Nat) /\ <<>> \in Seq(Seq(Char)) /\ {} \in SUBSET Nat
    BY EmptySeq
  <2> QED BY <1>4, <2>1 DEF Sent, Commands
<1>5. CASE PollSees \/ PollExpires \/ SendFails \/ SendEnter \/ SendEdit
  <2>1. command.no \in 0 .. MaxCommands
    BY <1>1, CommandFields
  <2>2. pc' \in Places_
          /\ \E no \in 0 .. MaxCommands, acked \in BOOLEAN :
               command' = Sent(no, acked)
    <3>1. CASE PollSees \/ PollExpires \/ SendFails
      BY <2>1, <3>1 DEF PollSees, PollExpires, SendFails, Acknowledge
    <3>2. CASE SendEnter \/ SendEdit
      <4>1. /\ pc' = pc /\ command.no < MaxCommands
            /\ command' = Sent(command.no + 1, FALSE)
        BY <3>2 DEF SendEnter, SendEdit, SpecialKey
      <4>2. command.no + 1 \in 0 .. MaxCommands
        BY <2>1, <4>1, TerminalAssumption
      <4> QED BY <1>1, <4>1, <4>2
    <3> QED BY <1>5, <3>1, <3>2
  <2> QED BY <1>4, <2>2 DEF ClientTypes
<1>6. CASE PollAgain
  <2>1. PICK exec \in 0 .. MaxExec :
          command' = [command EXCEPT !.waited = @ + exec + PollInterval]
    BY <1>6 DEF PollAgain
  <2>2. command.waited + exec + PollInterval \in Nat
    BY <1>1, CommandFields, TerminalAssumption
  <2>3. command' \in Commands /\ pc' = pc
    BY <1>1, <1>6, <2>1, <2>2 DEF Commands, PollAgain
  <2> QED BY <1>1, <2>3 DEF ClientTypes
<1>7. CASE PressEnter \/ SendInterrupt \/ Observe \/ Programs
  <2>1. command' = command /\ pc' \in Places_
    BY <1>1, <1>7 DEF PressEnter, SendInterrupt, Observe, ObserveNew, TakeHistory,
       TakeVisible, Captured, ObserveRaises, Programs, PrintRow, Redraw, Clear,
       ShellReads, JobEnds, ProgramReads, RawStarts, client
  <2> QED BY <1>1, <2>1 DEF ClientTypes
<1>8. CASE UNCHANGED vars
  BY <1>1, <1>8 DEF vars, client, ClientTypes
<1> QED
  BY <1>2, <1>3, <1>5, <1>6, <1>7, <1>8 DEF Next, Stopped, Send

(* What a capture takes and keeps.                                         *)
LEMMA TakenTypes ==
  ASSUME PaneTypes
  PROVE  History \in Seq(Row)
<1>1. rows \in Seq(Row) /\ Len(rows) \in Nat /\ Height \in Nat
  BY TerminalAssumption DEF PaneTypes
<1>2. Blank \in Row
  BY DEF Blank, Row
<1>3. CASE Len(rows) < Height
  <2>1. [i \in 1 .. Height - Len(rows) |-> Blank] \in Seq(Row)
    <3>1. Height - Len(rows) \in Nat
      BY <1>1, <1>3
    <3> QED BY <1>2, <3>1
  <2> QED BY <1>1, <2>1, ConcatProperties DEF History
<1>4. CASE ~(Len(rows) < Height)
  <2>1. IsSeq(rows) /\ Len(rows) >= Height
    BY <1>1, <1>4 DEF IsSeq
  <2> QED BY <1>1, <2>1, HistoryFacts
<1> QED BY <1>3, <1>4

(* What is left of a capture as the buffer (_limit_bytes).                 *)
LEMMA KeptTypes ==
  ASSUME NEW s \in Seq(Row)
  PROVE  /\ LastRows(s, TailLimit) \in Seq(Row)
         /\ Len(LastRows(s, TailLimit)) <= TailLimit
         /\ Numbers(s) \subseteq Nat
<1>1. Len(s) \in Nat /\ TailLimit \in Nat \ {0}
        /\ \A i \in 1 .. Len(s) : s[i] \in Row
  BY TerminalAssumption, ElementOfSeq
<1>2. Numbers(s) \subseteq Nat
  BY <1>1 DEF Numbers, Row
<1>3. CASE Len(s) <= TailLimit
  BY <1>2, <1>3 DEF LastRows
<1>4. CASE ~(Len(s) <= TailLimit)
  <2> DEFINE m == Len(s) - TailLimit + 1
             t == SubSeq(s, m, Len(s))
  <2>1. m \in Nat \ {0} /\ m <= Len(s) /\ Len(s) - m + 1 = TailLimit
    BY <1>1, <1>4
  <2>2. t \in Seq(Row) /\ Len(t) = TailLimit
    <3>1. m \in Int /\ Len(s) \in Int /\ \A i \in m .. Len(s) : s[i] \in Row
      BY <1>1, <2>1
    <3> HIDE DEF m
    <3> QED BY <2>1, <3>1, SubSeqProperties
  <2>3. LastRows(s, TailLimit) = t
    BY <1>4 DEF LastRows
  <2> HIDE DEF t
  <2> QED BY <1>1, <1>2, <2>2, <2>3
<1> QED BY <1>3, <1>4

(* The buffer and the capture keep their types.                            *)
LEMMA CaptureTypesKept ==
  ASSUME TypeInv, [Next \/ Stopped]_vars
  PROVE  CaptureTypes'
<1>1. /\ CaptureTypes /\ History \in Seq(Row) /\ rows \in Seq(Row)
      /\ buffer \in Seq(Row) /\ capture.history \in Seq(Row)
      /\ accounted \subseteq Nat
  BY TakenTypes DEF TypeInv, CaptureTypes, PaneTypes
<1>2. ASSUME NEW kind, NEW seen, NEW taken \in Seq(Row),
             Captured(kind, seen, taken), Numbers(seen) \subseteq Nat
      PROVE  CaptureTypes'
  <2>1. /\ pc' = "ready" /\ capture' = NoCapture
        /\ buffer' = LastRows(taken, TailLimit)
        /\ whole' \in BOOLEAN
        /\ accounted' \subseteq accounted \cup Numbers(seen) \cup Numbers(taken)
    BY <1>2 DEF Captured
  <2>2. capture' \in [kind : {"none", "screen", "reset"}, history : Seq(Row)]
    <3>1. <<>> \in Seq(Row)
      BY EmptySeq
    <3> QED BY <2>1, <3>1 DEF NoCapture
  <2>3. accounted' \subseteq Nat
    BY <1>1, <1>2, <2>1, KeptTypes
  <2>4. buffer' \in Seq(Row) /\ Len(buffer') <= TailLimit
    BY <2>1, KeptTypes
  <2> QED BY <2>1, <2>2, <2>3, <2>4 DEF CaptureTypes
<1>3. ASSUME NEW s \in Seq(Row), NEW m \in Nat \ {0}
      PROVE  Numbers(SubSeq(s, m, Len(s))) \subseteq Nat
  <2>1. m \in Int /\ Len(s) \in Int /\ \A i \in m .. Len(s) : s[i] \in Row
    <3>1. \A i \in m .. Len(s) : i \in 1 .. Len(s)
      OBVIOUS
    <3> QED BY <3>1, ElementOfSeq
  <2>2. SubSeq(s, m, Len(s)) \in Seq(Row)
    BY <2>1, SubSeqProperties
  <2> QED BY <2>2, KeptTypes
<1>4. CASE ObserveNew
  <2>1. Captured("new", Rest(History), History)
    BY <1>4 DEF ObserveNew
  <2>2. Numbers(Rest(History)) \subseteq Nat
    <3>1. Len(buffer) + 1 \in Nat \ {0}
      BY <1>1
    <3> QED BY <1>1, <1>3, <3>1 DEF Rest
  <2> QED BY <1>1, <1>2, <2>1, <2>2
<1>5. CASE TakeHistory
  <2>1. /\ pc' = "capturing" /\ capture'.kind # "none"
        /\ capture' \in [kind : {"none", "screen", "reset"}, history : Seq(Row)]
        /\ UNCHANGED <<buffer, accounted, whole>>
    BY <1>1, <1>5 DEF TakeHistory
  <2> QED BY <1>1, <2>1 DEF CaptureTypes
<1>6. CASE TakeVisible
  <2>1. Captured(capture.kind, Visible, capture.history)
    BY <1>6 DEF TakeVisible
  <2>2. Numbers(Visible) \subseteq Nat
    <3> DEFINE m == IF Len(rows) > Height THEN Len(rows) - Height + 1 ELSE 1
    <3>1. m \in Nat \ {0}
      BY <1>1, TerminalAssumption
    <3>2. Visible = SubSeq(rows, m, Len(rows))
      BY DEF Visible
    <3> HIDE DEF m
    <3> QED BY <1>1, <1>3, <3>1, <3>2
  <2> QED BY <1>1, <1>2, <2>1, <2>2
<1>7. CASE Elsewhere
  BY <1>1, <1>7 DEF Elsewhere, CaptureTypes
<1> QED BY <1>4, <1>5, <1>6, <1>7, StepCases

-----------------------------------------------------------------------------
(* What is typed.                                                          *)

(* The invariant in the next state, part by part.                          *)
LEMMA TypingNext ==
  TypingInv' <=> /\ Sending(pc', command')
                 /\ ~spoiled' => Clean(pc', command', input', job', read')
BY DEF TypingInv

(* The last key is one of the known.                                       *)
LEMMA TipFacts ==
  ASSUME NEW no \in Nat, NEW line \in Seq(Key), NEW running \in Seq(Key),
         NEW last \in Key, Known(no, line, running, last)
  PROVE  /\ Taken(running, last) \in Key /\ Taken(running, last).command <= no
         /\ Tip(line, running, last) \in Key
         /\ Tip(line, running, last).command <= no
<1>1. ASSUME NEW s \in Seq(Key), s # <<>>
      PROVE  s[Len(s)] \in Key /\ Len(s) \in 1 .. Len(s)
  <2>1. Len(s) \in 1 .. Len(s)
    BY <1>1, EmptySeq
  <2> QED BY <2>1, ElementOfSeq
<1>2. /\ Taken(running, last) \in Key /\ Taken(running, last).command <= no
  BY <1>1 DEF Taken, Known
<1>3. CASE line = <<>>
  BY <1>2, <1>3 DEF Tip
<1>4. CASE line # <<>>
  BY <1>1, <1>2, <1>4 DEF Tip, Known
<1> QED BY <1>2, <1>3, <1>4

(* What is known stays known when the commands are more.                   *)
LEMMA KnownGrows ==
  ASSUME NEW no \in Nat, NEW more \in Nat, no <= more,
         NEW line \in Seq(Key), NEW running \in Seq(Key), NEW last \in Key,
         Known(no, line, running, last)
  PROVE  Known(more, line, running, last)
<1>1. ASSUME NEW key \in Key, key.command <= no PROVE key.command <= more
  BY <1>1 DEF Key
<1>2. \A i \in 1 .. Len(line) : line[i] \in Key
  BY ElementOfSeq
<1>3. running # <<>> => running[Len(running)] \in Key
  <2>1. running # <<>> => Len(running) \in 1 .. Len(running)
    BY EmptySeq
  <2> QED BY <2>1, ElementOfSeq
<1> QED BY <1>1, <1>2, <1>3 DEF Known

(* Keys typed in order after the last one keep the order.                  *)
LEMMA TypedInOrder ==
  ASSUME NEW line \in Seq(Key), NEW running \in Seq(Key), NEW last \in Key,
         NEW longer \in Seq(Key), Len(longer) > Len(line),
         InOrder(line, running, last),
         \A i \in 1 .. Len(line) : longer[i] = line[i],
         Follows(Tip(line, running, last), longer[Len(line) + 1]),
         \A i \in Len(line) + 1 .. Len(longer) - 1 :
           Follows(longer[i], longer[i + 1])
  PROVE  /\ InOrder(longer, running, last)
         /\ Tip(longer, running, last) = longer[Len(longer)]
<1>1. Len(line) \in Nat /\ Len(longer) \in Nat /\ longer # <<>>
  BY EmptySeq
<1>2. line = <<>> <=> Len(line) = 0
  BY EmptySeq
<1>3. Follows(Taken(running, last), longer[1])
  <2>1. CASE line = <<>>
    <3>1. Len(line) + 1 = 1 /\ Tip(line, running, last) = Taken(running, last)
      BY <1>2, <2>1 DEF Tip
    <3> QED BY <3>1, Zenon
  <2>2. CASE line # <<>>
    <3>1. 1 \in 1 .. Len(line)
      BY <1>1, <1>2, <2>2
    <3> QED BY <2>2, <3>1 DEF InOrder
  <2> QED BY <2>1, <2>2
<1>4. ASSUME NEW i \in 1 .. Len(longer) - 1
      PROVE  Follows(longer[i], longer[i + 1])
  <2>1. CASE i > Len(line)
    <3>1. i \in Len(line) + 1 .. Len(longer) - 1
      BY <1>1, <2>1
    <3> QED BY <3>1
  <2>2. CASE i = Len(line)
    <3>1. line # <<>> /\ i \in 1 .. Len(line)
      BY <1>1, <1>2, <2>2
    <3>2. Tip(line, running, last) = longer[i]
      BY <2>2, <3>1 DEF Tip
    <3> QED BY <2>2, <3>2
  <2>3. CASE i < Len(line)
    <3>1. i \in 1 .. Len(line) /\ i + 1 \in 1 .. Len(line)
            /\ i \in 1 .. Len(line) - 1
      BY <1>1, <2>3
    <3>2. Follows(line[i], line[i + 1])
      BY <3>1 DEF InOrder
    <3> QED BY <3>1, <3>2
  <2> QED BY <1>1, <2>1, <2>2, <2>3
<1> QED BY <1>1, <1>3, <1>4 DEF InOrder, Tip

(* One key typed.                                                          *)
LEMMA KeyInOrder ==
  ASSUME NEW line \in Seq(Key), NEW running \in Seq(Key), NEW last \in Key,
         NEW no \in Nat, NEW more \in Nat, no <= more, NEW key \in Key,
         InOrder(line, running, last), Known(no, line, running, last),
         Follows(Tip(line, running, last), key), key.command = more
  PROVE  /\ InOrder(Append(line, key), running, last)
         /\ Known(more, Append(line, key), running, last)
         /\ Tip(Append(line, key), running, last) = key
<1> DEFINE longer == Append(line, key)
<1>1. /\ longer \in Seq(Key) /\ Len(longer) = Len(line) + 1 /\ Len(line) \in Nat
      /\ \A i \in 1 .. Len(line) : longer[i] = line[i]
      /\ longer[Len(line) + 1] = key
  BY AppendProperties
<1> HIDE DEF longer
<1>2. \A i \in Len(line) + 1 .. Len(longer) - 1 :
        Follows(longer[i], longer[i + 1])
  BY <1>1
<1>3. Len(longer) > Len(line) /\ longer[Len(longer)] = key
  BY <1>1
<1>4. InOrder(longer, running, last) /\ Tip(longer, running, last) = key
  BY <1>1, <1>2, <1>3, TypedInOrder
<1>5. Known(more, line, running, last)
  BY KnownGrows
<1>6. \A i \in 1 .. Len(longer) : longer[i].command <= more
  <2>1. \A i \in 1 .. Len(longer) : i \in 1 .. Len(line) \/ i = Len(line) + 1
    BY <1>1
  <2> QED BY <1>1, <1>5, <2>1 DEF Known
<1>7. Known(more, longer, running, last)
  BY <1>5, <1>6 DEF Known
<1> USE DEF longer
<1> QED BY <1>4, <1>7

(* Steps that leave the keys and the command alone.                        *)
LEMMA TypingFrame ==
  ASSUME TypingInv,
         /\ command'.chunks = command.chunks /\ command'.no = command.no
         /\ command'.widths = command.widths,
         \/ pc' = pc
         \/ /\ pc \notin {"typing", "entering"}
            /\ pc' \notin {"typing", "entering"},
         ~spoiled' => ~spoiled /\ UNCHANGED <<input, job, read>>
  PROVE  TypingInv'
<1>1. Place(command') = Place(command)
  BY DEF Place
<1>2. Sending(pc', command')
  BY <1>1 DEF TypingInv, Sending
<1>3. ASSUME ~spoiled' PROVE Clean(pc', command', input', job', read')
  <2>1. Clean(pc, command, input, job, read)
          /\ UNCHANGED <<input, job, read>>
    BY <1>3 DEF TypingInv
  <2> QED BY <1>1, <2>1 DEF Clean, Ready
<1> QED BY <1>2, <1>3, TypingNext

(* Steps at the prompt or in a wait, that leave the last key at the end    *)
(* of a line.                                                              *)
LEMMA IdleFrame ==
  ASSUME TypingInv,
         pc \notin {"typing", "entering"}, pc' \notin {"typing", "entering"},
         command'.chunks = <<>>,
         ~spoiled' =>
           /\ InOrder(input', job', read')
           /\ Known(command'.no, input', job', read')
           /\ EndsLine(Tip(input', job', read'))
  PROVE  TypingInv'
<1>1. Sending(pc', command')
  BY DEF Sending
<1>2. ASSUME ~spoiled' PROVE Clean(pc', command', input', job', read')
  <2>1. Ready(pc', command', Tip(input', job', read'))
    <3> DEFINE tip == Tip(input', job', read')
    <3>1. EndsLine(tip)
      BY <1>2
    <3> HIDE DEF tip
    <3>2. Ready(pc', command', tip)
      BY <3>1 DEF Ready
    <3> QED BY <3>2 DEF tip
  <2> QED BY <1>2, <2>1 DEF Clean
<1> QED BY <1>1, <1>2, TypingNext

(* A chunk typed is the next part of the command (send_keys).              *)
LEMMA TypeChunkKeeps ==
  ASSUME TypeInv, TypingInv, TypeChunk
  PROVE  TypingInv'
<1> DEFINE no == command.no
           w == command.widths
           chunks == command.chunks
           head == Head(chunks)
           tail == Tail(chunks)
           keys == [i \in 1 .. Len(head) |-> KeyOf(head[i])]
           p == Place(command)
           q == p + Len(head)
           tip == Tip(input, job, read)
<1>1. /\ no \in Nat /\ w \in Seq(Nat) /\ w # <<>>
      /\ chunks # <<>> /\ chunks \in Seq(Seq(Char))
      /\ CutFrom(chunks, no, w, p)
      /\ input \in Seq(Key) /\ job \in Seq(Key) /\ read \in Key
  BY CommandFields DEF TypeInv, ClientTypes, ShellTypes, TypingInv, Sending,
     TypeChunk
<1>2. ~spoiled => /\ InOrder(input, job, read) /\ Known(no, input, job, read)
                  /\ IF p # 1 THEN tip.command = no /\ tip.place = p - 1
                     ELSE EndsLine(tip) /\ tip.command < no
  <2>1. pc = "typing"
    BY DEF TypeChunk
  <2> QED BY <2>1 DEF TypingInv, Clean, Ready
<1>3. /\ command'.chunks = tail /\ command'.no = no /\ command'.widths = w
      /\ pc' = IF Len(chunks) = 1 THEN "entering" ELSE "typing"
      /\ job' = job /\ read' = read
      /\ raw => spoiled' = TRUE
      /\ ~raw => input' = input \o keys /\ spoiled' = spoiled
  BY CommandFields DEF TypeInv, ClientTypes, Commands, TypeChunk
<1>4. /\ ChunkOf(head, no, w) /\ p = First(head) /\ head \in Seq(Char)
      /\ CutFrom(tail, no, w, q)
      /\ Len(tail) = Len(chunks) - 1 /\ tail \in Seq(Seq(Char))
      /\ Len(chunks) \in Nat
  <2> HIDE DEF no, w, chunks, p
  <2> QED BY <1>1, CutShrinks, HeadTailProperties
<1>5. keys \in Seq(Key)
  <2> HIDE DEF head
  <2> QED BY <1>4, KeysTyped
<1>6. /\ p \in 1 .. Len(w) /\ Len(head) \in Nat \ {0} /\ Len(w) \in Nat
      /\ p + Len(head) - 1 <= Len(w)
      /\ \A j \in 1 .. Len(head) : head[j] = Chars(no, w)[p + j - 1]
  <2> HIDE DEF no, w, chunks, head, p
  <2> QED BY <1>1, <1>4, EmptySeq DEF ChunkOf
<1>7. /\ Len(keys) = Len(head)
      /\ \A j \in 1 .. Len(head) :
           /\ keys[j].command = no /\ keys[j].place = p + j - 1
  <2> HIDE DEF no, w, chunks, head, p
  <2>1. ASSUME NEW j \in 1 .. Len(head)
        PROVE  head[j].command = no /\ head[j].place = p + j - 1
    <3>1. p + j - 1 \in 1 .. Len(w)
      BY <1>6
    <3> DEFINE i == p + j - 1
    <3>2. head[j] = Chars(no, w)[i]
      BY <1>6
    <3> HIDE DEF i
    <3>3. Chars(no, w)[i].command = no /\ Chars(no, w)[i].place = i
      BY <3>1 DEF Chars, i
    <3> QED BY <3>2, <3>3 DEF i
  <2>2. ASSUME NEW j \in 1 .. Len(head)
        PROVE  keys[j].command = no /\ keys[j].place = p + j - 1
    <3>1. keys[j] = KeyOf(head[j])
      BY <1>6
    <3> HIDE DEF keys
    <3>2. keys[j].command = head[j].command /\ keys[j].place = head[j].place
      BY <3>1 DEF KeyOf
    <3> QED BY <2>1, <3>2
  <2> QED BY <1>6, <2>2
<1> HIDE DEF no, w, chunks, head, tail, keys, p, tip
<1>8. tail = <<>> <=> Len(chunks) = 1
  <2>1. tail = <<>> <=> Len(tail) = 0
    BY <1>4, EmptySeq
  <2> QED BY <1>4, <2>1
<1>9. q = IF tail = <<>> THEN Len(w) + 1 ELSE First(tail[1])
  BY <1>4 DEF CutFrom
<1>10. Place(command') = q
  BY <1>3, <1>9 DEF Place
<1>11. Sending(pc', command')
  <2> HIDE DEF q
  <2> QED BY <1>1, <1>3, <1>4, <1>8, <1>10 DEF Sending
<1>12. ASSUME ~spoiled' PROVE Clean(pc', command', input', job', read')
  <2> DEFINE longer == input \o keys
  <2>1. /\ input' = longer /\ InOrder(input, job, read)
        /\ Known(no, input, job, read)
        /\ IF p # 1 THEN tip.command = no /\ tip.place = p - 1
           ELSE EndsLine(tip) /\ tip.command < no
    BY <1>2, <1>3, <1>12
  <2>2. /\ longer \in Seq(Key) /\ Len(longer) = Len(input) + Len(keys)
        /\ \A j \in 1 .. Len(input) + Len(keys) :
             longer[j] = IF j <= Len(input) THEN input[j]
                         ELSE keys[j - Len(input)]
    BY <1>1, <1>5, ConcatProperties
  <2>3. Len(input) \in Nat /\ Len(keys) \in Nat \ {0}
    BY <1>1, <1>6, <1>7
  <2> HIDE DEF longer
  <2>4. \A j \in 1 .. Len(input) : longer[j] = input[j]
    BY <2>2, <2>3
  <2>5. ASSUME NEW j \in Len(input) + 1 .. Len(longer)
        PROVE  /\ longer[j].command = no
               /\ longer[j].place = p + (j - Len(input)) - 1
    <3> DEFINE i == j - Len(input)
    <3>1. i \in 1 .. Len(keys) /\ longer[j] = keys[i]
      BY <2>2, <2>3
    <3> HIDE DEF i
    <3>2. keys[i].command = no /\ keys[i].place = p + i - 1
      BY <1>7, <3>1
    <3>3. longer[j].command = no /\ longer[j].place = p + i - 1
      BY <3>1, <3>2
    <3> QED BY <3>3 DEF i
  <2>6. Follows(tip, longer[Len(input) + 1])
    <3> DEFINE key == longer[Len(input) + 1]
    <3>1. key.command = no /\ key.place = p
      <4>1. Len(input) + 1 \in Len(input) + 1 .. Len(longer)
        BY <2>2, <2>3
      <4>2. key.command = no
              /\ key.place = p + ((Len(input) + 1) - Len(input)) - 1
        BY <2>5, <4>1
      <4>3. p + ((Len(input) + 1) - Len(input)) - 1 = p
        BY <1>6, <2>3
      <4> QED BY <4>2, <4>3
    <3> HIDE DEF key
    <3>2. p \in Int /\ no \in Int
      BY <1>1, <1>6
    <3>3. Follows(tip, key)
      BY <2>1, <3>1, <3>2 DEF Follows
    <3> QED BY <3>3 DEF key
  <2>7. ASSUME NEW j \in Len(input) + 1 .. Len(longer) - 1
        PROVE  Follows(longer[j], longer[j + 1])
    <3>1. /\ j \in Len(input) + 1 .. Len(longer)
          /\ j + 1 \in Len(input) + 1 .. Len(longer)
      BY <2>2, <2>3
    <3>2. /\ longer[j].command = no /\ longer[j + 1].command = no
          /\ longer[j].place = p + (j - Len(input)) - 1
          /\ longer[j + 1].place = p + ((j + 1) - Len(input)) - 1
      BY <2>5, <3>1
    <3>3. p + ((j + 1) - Len(input)) - 1 = (p + (j - Len(input)) - 1) + 1
      BY <1>6, <2>2, <2>3
    <3> QED BY <3>2, <3>3 DEF Follows
  <2>8. /\ InOrder(longer, job, read)
        /\ Tip(longer, job, read) = longer[Len(longer)]
    <3>1. Len(longer) > Len(input)
      BY <2>2, <2>3
    <3> QED BY <1>1, <2>1, <2>2, <2>4, <2>6, <2>7, <3>1, TypedInOrder DEF tip
  <2>9. Known(no, longer, job, read)
    <3>1. ASSUME NEW j \in 1 .. Len(longer) PROVE longer[j].command <= no
      <4>1. CASE j <= Len(input)
        <5>1. j \in 1 .. Len(input)
          BY <2>3, <4>1
        <5> QED BY <2>1, <2>4, <5>1 DEF Known
      <4>2. CASE ~(j <= Len(input))
        <5>1. j \in Len(input) + 1 .. Len(longer)
          BY <2>2, <2>3, <4>2
        <5>2. longer[j].command = no
          BY <2>5, <5>1
        <5> QED BY <1>1, <5>2
      <4> QED BY <4>1, <4>2
    <3> QED BY <2>1, <3>1 DEF Known
  <2>10. Ready(pc', command', Tip(longer, job, read))
    <3> DEFINE key == longer[Len(longer)]
    <3>1. key.command = no /\ key.place = q - 1
      <4>1. Len(longer) \in Len(input) + 1 .. Len(longer)
        BY <2>2, <2>3
      <4>2. key.command = no
              /\ key.place = p + (Len(longer) - Len(input)) - 1
        BY <2>5, <4>1
      <4>3. p + (Len(longer) - Len(input)) - 1 = q - 1
        BY <1>6, <1>7, <2>2, <2>3
      <4> QED BY <4>2, <4>3
    <3>2. q # 1
      BY <1>6
    <3> HIDE DEF key, q
    <3>3. Ready(pc', command', key)
      BY <1>3, <1>10, <3>1, <3>2 DEF Ready
    <3> QED BY <2>8, <3>3 DEF key
  <2>11. job' = job /\ read' = read /\ command'.no = no
    BY <1>3
  <2> QED BY <2>1, <2>8, <2>9, <2>10, <2>11 DEF Clean
<1> QED BY <1>11, <1>12, TypingNext

(* Enter is pressed when all the command is on the line (PressEnter).      *)
LEMMA PressEnterKeeps ==
  ASSUME TypeInv, TypingInv, PressEnter
  PROVE  TypingInv'
<1> DEFINE no == command.no
           key == [command |-> no, place |-> Len(command.widths) + 1,
                   kind |-> "enter"]
<1>1. /\ no \in Nat /\ command.widths \in Seq(Nat) /\ command.widths # <<>>
      /\ command.chunks = <<>>
      /\ input \in Seq(Key) /\ job \in Seq(Key) /\ read \in Key
      /\ raw => input = <<>>
      /\ pc = "entering"
  BY CommandFields DEF TypeInv, ClientTypes, ShellTypes, TypingInv, Sending,
     PressEnter
<1>2. /\ command' = command /\ pc' = "polling"
      /\ job' = job /\ read' = read /\ spoiled' = spoiled
      /\ raw => input' = input
      /\ ~raw => input' = Append(input, key)
  BY DEF PressEnter, EnterKey
<1>3. Place(command) = Len(command.widths) + 1 /\ Place(command) # 1
        /\ Place(command) \in Nat
  BY <1>1, EmptySeq DEF Place
<1>4. Sending(pc', command')
  BY <1>1, <1>2 DEF Sending
<1>5. ASSUME ~spoiled' PROVE Clean(pc', command', input', job', read')
  <2> DEFINE tip == Tip(input, job, read)
  <2>1. /\ InOrder(input, job, read) /\ Known(no, input, job, read)
        /\ tip.command = no /\ tip.place = Place(command) - 1
    <3>1. Clean(pc, command, input, job, read)
      BY <1>2, <1>5 DEF TypingInv
    <3> QED BY <1>1, <1>3, <3>1 DEF Clean, Ready
  <2>2. CASE raw
    <3>1. input = <<>> /\ input' = input
      BY <1>1, <1>2, <2>2
    <3>2. tip = Taken(job, read)
      BY <3>1 DEF Tip
    <3>3. EndsLine(Taken(job, read))
      BY <2>1 DEF InOrder, LineOK, Taken
    <3>4. Ready(pc', command', tip)
      <4> HIDE DEF tip
      <4> QED BY <1>2, <3>2, <3>3 DEF Ready
    <3> QED BY <1>2, <2>1, <3>1, <3>4 DEF Clean
  <2>3. CASE ~raw
    <3>1. key \in Key /\ EndsLine(key) /\ key.command = no
            /\ key.place = Place(command)
      BY <1>1, <1>3 DEF Key, EndsLine
    <3> HIDE DEF key
    <3>2. Follows(tip, key)
      <4> HIDE DEF tip
      <4>1. key.place = (Place(command) - 1) + 1
        BY <1>3, <3>1
      <4> QED BY <2>1, <3>1, <4>1 DEF Follows
    <3>3. /\ InOrder(Append(input, key), job, read)
          /\ Known(no, Append(input, key), job, read)
          /\ Tip(Append(input, key), job, read) = key
      <4>1. no <= no
        BY <1>1
      <4> QED BY <1>1, <2>1, <3>1, <3>2, <4>1, KeyInOrder
    <3>4. Ready(pc', command', key)
      BY <1>2, <3>1 DEF Ready
    <3> QED BY <1>2, <2>3, <3>3, <3>4 DEF Clean
  <2> QED BY <2>2, <2>3
<1> QED BY <1>4, <1>5, TypingNext

(* A bare Enter is the first key of a command of its own (send_keys).      *)
LEMMA SendEnterKeeps ==
  ASSUME TypeInv, TypingInv, SendEnter
  PROVE  TypingInv'
<1> DEFINE no == command.no
           more == no + 1
           key == [command |-> more, place |-> 1, kind |-> "newline"]
<1>1. /\ no \in Nat /\ more \in Nat /\ no <= more
      /\ input \in Seq(Key) /\ job \in Seq(Key) /\ read \in Key
      /\ pc = "ready" /\ pc' = "ready"
  BY CommandFields DEF TypeInv, ClientTypes, ShellTypes, SendEnter, SpecialKey
<1>2. /\ command'.no = more /\ command'.chunks = <<>>
      /\ job' = job /\ read' = read /\ spoiled' = spoiled
      /\ raw => input' = input
      /\ ~raw => input' = Append(input, key)
  BY DEF SendEnter, SpecialKey, EnterKey, Sent
<1>3. key \in Key /\ EndsLine(key) /\ key.command = more /\ key.place = 1
  BY <1>1 DEF Key, EndsLine
<1> HIDE DEF key
<1>4. ASSUME ~spoiled'
      PROVE  /\ InOrder(input', job', read')
             /\ Known(command'.no, input', job', read')
             /\ EndsLine(Tip(input', job', read'))
  <2> DEFINE tip == Tip(input, job, read)
  <2>1. /\ InOrder(input, job, read) /\ Known(no, input, job, read)
        /\ EndsLine(tip)
    BY <1>1, <1>2, <1>4 DEF TypingInv, Clean, Ready
  <2>2. CASE raw
    <3>1. Known(more, input, job, read)
      <4> HIDE DEF more
      <4> QED BY <1>1, <2>1, KnownGrows
    <3> QED BY <1>2, <2>1, <2>2, <3>1
  <2>3. CASE ~raw
    <3>1. tip.command < more
      <4>1. tip \in Key /\ tip.command <= no
        BY <1>1, <2>1, TipFacts
      <4> HIDE DEF tip
      <4> QED BY <1>1, <4>1 DEF Key
    <3>2. Follows(tip, key)
      <4> HIDE DEF tip, more
      <4> QED BY <1>3, <2>1, <3>1 DEF Follows
    <3>3. /\ InOrder(Append(input, key), job, read)
          /\ Known(more, Append(input, key), job, read)
          /\ Tip(Append(input, key), job, read) = key
      <4> HIDE DEF more
      <4> QED BY <1>1, <1>3, <2>1, <3>2, KeyInOrder
    <3> QED BY <1>2, <1>3, <2>3, <3>3
  <2> QED BY <2>2, <2>3
<1> QED BY <1>1, <1>2, <1>4, IdleFrame

(* The shell takes the first line whole (the tty's line discipline).       *)
LEMMA ShellReadsKeeps ==
  ASSUME TypeInv, TypingInv, ShellReads
  PROVE  TypingInv'
<1> DEFINE no == command.no
<1>1. /\ no \in Nat /\ input \in Seq(Key) /\ read \in Key
      /\ job = <<>> /\ pc' = pc /\ command' = command
      /\ read' = read /\ spoiled' = spoiled
  BY CommandFields DEF TypeInv, ClientTypes, ShellTypes, ShellReads, client,
     history
<1>2. PICK n \in 1 .. Len(input) :
        /\ FirstLine(n)
        /\ job' = SubSeq(input, 1, n)
        /\ input' = SubSeq(input, n + 1, Len(input))
  BY DEF ShellReads
<1>3. /\ EndsLine(input[n]) /\ \A i \in 1 .. n - 1 : ~EndsLine(input[i])
      /\ n \in 1 .. Len(input) /\ Len(input) \in Nat
  BY <1>1, <1>2 DEF FirstLine
<1>4. /\ job' \in Seq(Key) /\ Len(job') = n
      /\ \A i \in 1 .. n : job'[i] = input[i]
      /\ input' \in Seq(Key) /\ Len(input') = Len(input) - n
      /\ \A i \in 1 .. Len(input) - n : input'[i] = input[n + i]
  <2>1. n \in 0 .. Len(input)
    BY <1>3
  <2> QED BY <1>1, <1>2, <2>1, PartTypes
<1>5. Sending(pc', command')
  BY <1>1 DEF TypingInv
<1>6. ASSUME ~spoiled' PROVE Clean(pc', command', input', job', read')
  <2>1. /\ InOrder(input, job, read) /\ Known(no, input, job, read)
        /\ Ready(pc, command, Tip(input, job, read))
    BY <1>1, <1>6 DEF TypingInv, Clean
  <2>2. Taken(job, read) = read /\ input # <<>> /\ job' # <<>>
    <3>1. Len(job') # 0 /\ Len(input) # 0
      BY <1>3, <1>4
    <3> QED BY <1>1, <1>4, <3>1, EmptySeq DEF Taken
  <2>3. /\ EndsLine(read) /\ Follows(read, input[1])
        /\ \A i \in 1 .. Len(input) - 1 : Follows(input[i], input[i + 1])
    BY <2>1, <2>2 DEF InOrder
  <2>4. LineOK(read, job')
    <3>1. job'[1] = input[1] /\ job'[n] = input[n]
      BY <1>3, <1>4
    <3>2. ASSUME NEW i \in 1 .. Len(job') - 1
          PROVE  ~EndsLine(job'[i]) /\ Follows(job'[i], job'[i + 1])
      <4>1. /\ i \in 1 .. n - 1 /\ i \in 1 .. n /\ i + 1 \in 1 .. n
            /\ i \in 1 .. Len(input) - 1
        BY <1>3, <1>4
      <4>2. job'[i] = input[i] /\ job'[i + 1] = input[i + 1]
        BY <1>4, <4>1
      <4> QED BY <1>3, <2>3, <4>1, <4>2
    <3> QED BY <1>3, <1>4, <2>3, <3>1, <3>2 DEF LineOK
  <2>5. Taken(job', read) = input[n]
    BY <1>3, <1>4, <2>2 DEF Taken
  <2>6. ASSUME input' # <<>> PROVE n < Len(input) /\ input'[1] = input[n + 1]
    <3>1. Len(input') # 0
      BY <1>4, <2>6, EmptySeq
    <3> QED BY <1>3, <1>4, <3>1
  <2>7. input' # <<>> => Follows(Taken(job', read), input'[1])
    <3> SUFFICES ASSUME input' # <<>> PROVE Follows(input[n], input'[1])
      BY <2>5
    <3>1. n \in 1 .. Len(input) - 1
      BY <1>3, <2>6
    <3> QED BY <2>3, <2>6, <3>1
  <2>8. ASSUME NEW i \in 1 .. Len(input') - 1
        PROVE  Follows(input'[i], input'[i + 1])
    <3>1. /\ i \in 1 .. Len(input) - n /\ i + 1 \in 1 .. Len(input) - n
          /\ n + i \in 1 .. Len(input) - 1 /\ n + (i + 1) = (n + i) + 1
      BY <1>3, <1>4
    <3>2. input'[i] = input[n + i] /\ input'[i + 1] = input[(n + i) + 1]
      BY <1>4, <3>1
    <3> QED BY <2>3, <3>1, <3>2
  <2>9. InOrder(input', job', read)
    BY <2>3, <2>4, <2>7, <2>8 DEF InOrder
  <2>10. Known(no, input', job', read)
    <3>1. \A i \in 1 .. Len(input) : input[i].command <= no
      BY <2>1 DEF Known
    <3>2. \A i \in 1 .. Len(input') :
            i \in 1 .. Len(input) - n /\ n + i \in 1 .. Len(input)
      BY <1>3, <1>4
    <3>3. \A i \in 1 .. Len(input') : input'[i].command <= no
      BY <1>4, <3>1, <3>2
    <3>4. job'[Len(job')].command <= no
      BY <1>3, <1>4, <3>1
    <3> QED BY <2>1, <3>3, <3>4 DEF Known
  <2>11. Tip(input', job', read) = Tip(input, job, read)
    <3>1. Tip(input, job, read) = input[Len(input)]
      BY <2>2 DEF Tip
    <3>2. CASE input' = <<>>
      <4>1. n = Len(input)
        BY <1>3, <1>4, <3>2, EmptySeq
      <4> QED BY <2>5, <3>1, <3>2, <4>1 DEF Tip
    <3>3. CASE input' # <<>>
      <4>1. /\ Len(input) - n \in 1 .. Len(input) - n
            /\ n + (Len(input) - n) = Len(input)
        BY <1>3, <2>6, <3>3
      <4>2. input'[Len(input')] = input[Len(input)]
        BY <1>4, <4>1
      <4> QED BY <3>1, <3>3, <4>2 DEF Tip
    <3> QED BY <3>2, <3>3
  <2>12. Ready(pc', command', Tip(input', job', read))
    BY <1>1, <2>1, <2>11
  <2> QED BY <1>1, <2>9, <2>10, <2>12 DEF Clean
<1> QED BY <1>5, <1>6, TypingNext

(* Every step keeps the keys in order.                                     *)
LEMMA TypingKept ==
  ASSUME TypeInv, TypingInv, [Next \/ Stopped]_vars
  PROVE  TypingInv'
<1>1. /\ Sending(pc, command)
      /\ ~spoiled => Clean(pc, command, input, job, read)
      /\ spoiled \in BOOLEAN /\ command.no \in Nat
      /\ input \in Seq(Key) /\ job \in Seq(Key) /\ read \in Key
      /\ raw => input = <<>>
  BY CommandFields DEF TypingInv, TypeInv, ShellTypes, ClientTypes
<1>2. ASSUME NEW text \in Texts, NEW duration \in Durations,
             BeginSend(text, duration)
      PROVE  TypingInv'
  <2> DEFINE no == command.no + 1
             w == text.widths
             chunks == SplitKeys(Chars(no, w), w)
             tip == Tip(input, job, read)
  <2>1. /\ command'.no = no /\ command'.widths = w
        /\ command'.chunks = chunks
        /\ no \in Nat /\ w \in Seq(Nat) /\ w # <<>>
        /\ CutFrom(chunks, no, w, 1) /\ chunks # <<>>
    BY <1>2, BeginFacts
  <2>2. /\ pc = "ready" /\ pc' = "typing"
        /\ UNCHANGED <<input, job, read, spoiled>>
    BY <1>2 DEF BeginSend, shell, history
  <2>3. command.no <= no /\ command.no < no
    BY <1>1
  <2> HIDE DEF no, w, chunks
  <2>4. Place(command') = 1
    BY <2>1 DEF Place, CutFrom
  <2>5. Sending(pc', command')
    BY <2>1, <2>2, <2>4 DEF Sending
  <2>6. ASSUME ~spoiled' PROVE Clean(pc', command', input', job', read')
    <3>1. /\ InOrder(input, job, read) /\ Known(command.no, input, job, read)
          /\ EndsLine(tip)
      BY <1>1, <2>2, <2>6 DEF Clean, Ready
    <3>2. Known(no, input, job, read)
      BY <1>1, <2>1, <2>3, <3>1, KnownGrows
    <3>3. tip.command < no
      <4>1. tip \in Key /\ tip.command <= command.no
        BY <1>1, <3>1, TipFacts
      <4> HIDE DEF tip
      <4> QED BY <1>1, <2>1, <2>3, <4>1 DEF Key
    <3>4. Ready(pc', command', tip)
      <4> HIDE DEF tip
      <4> QED BY <2>1, <2>2, <2>4, <3>1, <3>3 DEF Ready
    <3> QED BY <2>1, <2>2, <3>1, <3>2, <3>4 DEF Clean
  <2> QED BY <2>5, <2>6, TypingNext
<1>3. CASE TypeChunk
  BY <1>3, TypeChunkKeeps
<1>4. CASE PressEnter
  BY <1>4, PressEnterKeeps
<1>5. CASE SendEnter
  BY <1>5, SendEnterKeeps
<1>6. CASE ShellReads
  BY <1>6, ShellReadsKeeps
<1>7. CASE PollSees \/ PollExpires \/ SendFails \/ ProgramReads
  <2>1. CASE PollSees \/ PollExpires
    <3>1. /\ pc = "polling" /\ pc' = "ready"
          /\ command'.chunks = <<>> /\ command'.no = command.no
          /\ UNCHANGED <<input, job, read, spoiled>>
      BY <2>1 DEF PollSees, PollExpires, Acknowledge, Sent, shell, history
    <3> QED BY <1>1, <3>1, IdleFrame DEF Clean, Ready
  <2>2. CASE SendFails
    <3>1. pc' = "ready" /\ command'.chunks = <<>> /\ spoiled'
      BY <2>2 DEF SendFails, Sent
    <3> QED BY <3>1, TypingNext DEF Sending
  <2>3. CASE ProgramReads
    <3>1. UNCHANGED <<pc, command>> /\ spoiled'
      BY <2>3 DEF ProgramReads, client
    <3> QED BY <1>1, <3>1, TypingNext
  <2> QED BY <1>7, <2>1, <2>2, <2>3
<1>8. CASE PollAgain
  <2>1. PICK exec \in 0 .. MaxExec :
          command' = [command EXCEPT !.waited = @ + exec + PollInterval]
    BY <1>8 DEF PollAgain
  <2>2. /\ command'.chunks = command.chunks /\ command'.no = command.no
        /\ command'.widths = command.widths /\ pc' = pc
        /\ UNCHANGED <<input, job, read, spoiled>>
    BY <1>8, <2>1 DEF PollAgain, shell, history, TypeInv, ClientTypes, Commands
  <2> QED BY <2>2, TypingFrame
<1>9. CASE SendEdit
  <2>1. /\ pc = "ready" /\ pc' = pc
        /\ command'.no = command.no + 1 /\ command'.chunks = <<>>
        /\ UNCHANGED <<job, read>>
        /\ ~spoiled' => ~spoiled /\ input' = input
    BY <1>1, <1>9 DEF SendEdit, SpecialKey, Sent
  <2>2. Known(command.no, input, job, read)
          => Known(command'.no, input, job, read)
    <3>1. command'.no \in Nat /\ command.no <= command'.no
      BY <1>1, <2>1
    <3> QED BY <1>1, <3>1, KnownGrows
  <2>3. ~spoiled' => /\ InOrder(input', job', read')
                     /\ Known(command'.no, input', job', read')
                     /\ EndsLine(Tip(input', job', read'))
    BY <1>1, <2>1, <2>2 DEF Clean, Ready
  <2> QED BY <2>1, <2>3, IdleFrame
<1>10. CASE SendInterrupt
  <2>1. /\ pc = "ready" /\ pc' = pc /\ command' = command
        /\ spoiled' = spoiled /\ read' = read
        /\ job' = job \/ job' = <<>>
        /\ input' = <<>>
    BY <1>10 DEF SendInterrupt, client, history
  <2>2. command'.chunks = <<>>
    BY <1>1, <2>1 DEF Sending
  <2>3. ASSUME ~spoiled'
        PROVE  /\ InOrder(input', job', read')
               /\ Known(command'.no, input', job', read')
               /\ EndsLine(Tip(input', job', read'))
    <3>1. InOrder(input, job, read) /\ Known(command.no, input, job, read)
      BY <1>1, <2>1, <2>3 DEF Clean
    <3>2. Len(<<>>) = 0 /\ 1 .. 0 = {} /\ 1 .. 0 - 1 = {}
      BY EmptySeq
    <3>3. InOrder(<<>>, job', read)
      BY <2>1, <3>1, <3>2 DEF InOrder
    <3>4. Known(command.no, <<>>, job', read)
      BY <2>1, <3>1, <3>2 DEF Known
    <3>5. EndsLine(Tip(<<>>, job', read))
      BY <3>3 DEF InOrder, LineOK, Tip, Taken
    <3> QED BY <2>1, <3>3, <3>4, <3>5
  <2> QED BY <2>1, <2>2, <2>3, IdleFrame
<1>11. CASE Observe
  <2>1. /\ pc \in {"ready", "capturing"}
        /\ pc' \in {"ready", "capturing", "raised"} /\ command' = command
        /\ UNCHANGED <<input, job, read, spoiled>>
    BY <1>11 DEF Observe, ObserveNew, TakeHistory, TakeVisible, Captured,
       ObserveRaises, shell, history
  <2> QED BY <2>1, TypingFrame
<1>12. CASE JobEnds
  <2>1. /\ job # <<>> /\ job' = <<>> /\ read' = job[Len(job)]
        /\ UNCHANGED <<pc, command, input, spoiled>>
    BY <1>12 DEF JobEnds, client, Last
  <2>2. ASSUME ~spoiled' PROVE Clean(pc', command', input', job', read')
    <3> DEFINE last == job[Len(job)]
    <3>1. /\ InOrder(input, job, read) /\ Known(command.no, input, job, read)
          /\ Ready(pc, command, Tip(input, job, read))
      BY <1>1, <2>1, <2>2 DEF Clean
    <3>2. Taken(job, read) = last /\ Taken(<<>>, last) = last
      BY <2>1 DEF Taken
    <3>3. EndsLine(last) /\ last.command <= command.no
      BY <2>1, <3>1 DEF InOrder, LineOK, Known
    <3> HIDE DEF last
    <3>4. InOrder(input, <<>>, last)
      BY <3>1, <3>2, <3>3 DEF InOrder
    <3>5. Known(command.no, input, <<>>, last)
      BY <3>1, <3>3 DEF Known
    <3>6. Tip(input, <<>>, last) = Tip(input, job, read)
      BY <3>2 DEF Tip
    <3>7. Clean(pc, command, input, <<>>, last)
      BY <3>1, <3>4, <3>5, <3>6 DEF Clean
    <3> QED BY <2>1, <3>7 DEF last
  <2> QED BY <1>1, <2>1, <2>2, TypingNext
<1>13. CASE RawStarts
  <2>1. /\ input' = <<>>
        /\ UNCHANGED <<pc, command, job, read>>
        /\ spoiled' = (spoiled \/ input # <<>>)
    BY <1>13 DEF RawStarts, client
  <2> QED BY <1>1, <2>1, TypingFrame
<1>14. CASE PrintRow \/ Redraw \/ Clear \/ UNCHANGED vars
  <2>1. UNCHANGED <<pc, command, input, job, read, spoiled>>
    BY <1>14 DEF PrintRow, Redraw, Clear, vars, shell, client, history
  <2> QED BY <1>1, <2>1, TypingFrame
<1> QED
  BY <1>2, <1>3, <1>4, <1>5, <1>6, <1>7, <1>8, <1>9, <1>10, <1>11, <1>12,
     <1>13, <1>14
     DEF Next, Stopped, Send, Programs

-----------------------------------------------------------------------------
(* The types and what is typed, from the first state on.                   *)

(* The first state has the types, and nothing is typed.                    *)
LEMMA InitTypes == Init => TypeInv /\ TypingInv
<1> SUFFICES ASSUME Init PROVE TypeInv /\ TypingInv
  OBVIOUS
<1>1. PaneTypes
  <2>1. [no |-> 1, mark |-> 0] \in Row
    BY DEF Row
  <2>2. rows \in Seq(Row) /\ rows # <<>>
    <3> DEFINE r == [no |-> 1, mark |-> 0]
    <3>1. rows = <<r>> /\ r \in Row
      BY <2>1 DEF Init
    <3> HIDE DEF r
    <3> QED BY <3>1
  <2>3. drawn \in Nat /\ output \in 0 .. MaxOutput /\ disturbed \in BOOLEAN
    <3>1. drawn = 1 /\ output = 0 /\ disturbed = FALSE
      BY Zenon DEF Init
    <3>2. 0 \in 0 .. MaxOutput /\ 1 \in Nat /\ FALSE \in BOOLEAN
      BY TerminalAssumption
    <3> QED BY <3>1, <3>2, Zenon
  <2> QED BY <2>2, <2>3 DEF PaneTypes
<1>2. ShellTypes
  BY EmptySeq DEF Init, ShellTypes, Key
<1>3. ClientTypes
  BY EmptySeq, TerminalAssumption DEF Init, ClientTypes, Commands, Sent
<1>4. CaptureTypes
  BY EmptySeq, TerminalAssumption DEF Init, CaptureTypes, NoCapture
<1>5. TypingInv
  <2>1. /\ input = <<>> /\ job = <<>> /\ pc = "ready" /\ command.no = 0
        /\ read.command = 0 /\ read.kind = "enter" /\ command.chunks = <<>>
    BY DEF Init, Sent
  <2>2. EndsLine(read) /\ Tip(input, job, read) = read
    BY <2>1 DEF EndsLine, Tip, Taken
  <2>3. Len(input) = 0 /\ 1 .. 0 = {} /\ 1 .. 0 - 1 = {}
    BY <2>1, EmptySeq
  <2>4. InOrder(input, job, read)
    BY <2>1, <2>2, <2>3 DEF InOrder
  <2>5. Known(command.no, input, job, read)
    BY <2>1, <2>3 DEF Known
  <2>6. Sending(pc, command) /\ Ready(pc, command, Tip(input, job, read))
    BY <2>1, <2>2 DEF Sending, Ready
  <2> QED BY <2>4, <2>5, <2>6 DEF TypingInv, Clean
<1> QED BY <1>1, <1>2, <1>3, <1>4, <1>5 DEF TypeInv

(* The types and what is typed hold in every behaviour.                    *)
LEMMA TypesHold == Spec => [](TypeInv /\ TypingInv)
<1>1. TypeInv /\ TypingInv /\ [Next \/ Stopped]_vars
        => (TypeInv /\ TypingInv)'
  BY PaneTypesKept, ShellTypesKept, ClientTypesKept, CaptureTypesKept,
     TypingKept DEF TypeInv
<1> QED BY <1>1, InitTypes, PTL DEF Spec

-----------------------------------------------------------------------------
(* The properties.                                                         *)

(* The variables of the pane, of its shell and of the client have their    *)
(* types, the buffer keeps to its tail, and keystrokes are typed only      *)
(* while there is a chunk left (container.py).                             *)
THEOREM TerminalTypesHold == Spec => []TerminalTypeOK
<1>1. TypeInv /\ TypingInv => TerminalTypeOK
  BY DEF TypeInv, TypingInv, PaneTypes, ShellTypes, ClientTypes, CaptureTypes,
     Sending, Commands, TerminalTypeOK
<1> QED BY <1>1, TypesHold, PTL

(* Unless a send failed, a program read what was meant for the shell or a  *)
(* special key left something on the line, each line the shell runs goes   *)
(* on where the one before it ended, in the same command or at the start   *)
(* of a later one, and is unbroken up to a newline of that command or its  *)
(* Enter, however the command was cut (send_and_wait_idle, send_keys,      *)
(* _split_keys).                                                           *)
THEOREM EnteredHolds == Spec => []EnteredInOrder
<1>1. TypingInv => EnteredInOrder
  <2> SUFFICES ASSUME TypingInv, job # <<>>, ~spoiled
               PROVE  EnteredInOrder
    BY DEF EnteredInOrder
  <2>1. LineOK(read, job)
    BY DEF TypingInv, Clean, InOrder
  <2> QED BY <2>1 DEF LineOK, EnteredInOrder
<1> QED BY <1>1, TypesHold, PTL

(* No chunk is longer than tmux takes, a single wider character excepted,  *)
(* and none could have taken one more character (_find_max_chunk_size).    *)
THEOREM ChunksHold == Spec => []ChunksAreTight
<1>1. TypeInv /\ TypingInv => ChunksAreTight
  <2> SUFFICES ASSUME TypeInv, TypingInv PROVE ChunksAreTight
    OBVIOUS
  <2>1. command.no \in Nat /\ command.widths \in Seq(Nat)
    BY CommandFields DEF TypeInv, ClientTypes
  <2>2. CASE pc = "typing"
    BY <2>1, <2>2, CutIsTight DEF TypingInv, Sending
  <2>3. CASE pc # "typing"
    <3>1. command.chunks = <<>>
      BY <2>3 DEF TypingInv, Sending
    <3>2. Len(command.chunks) = 0
      BY <3>1, EmptySeq
    <3> QED BY <3>2 DEF ChunksAreTight
  <2> QED BY <2>2, <2>3
<1> QED BY <1>1, TypesHold, PTL

(* A wait outlives the planner's duration, _MAX_DURATION or, for a         *)
(* duration of 0, blocking_max_seconds by less than one iteration, the     *)
(* docker exec and the sleep that were begun before the deadline           *)
(* (clamp_command_wait, send_and_wait_idle).                               *)
THEOREM WaitsAreBounded == Spec => []WaitIsBounded
BY TerminalInvHolds, WaitIsBoundedByInv, PTL DEF TerminalInv

(* What the buffer holds was observed, or passed over by the first         *)
(* observation or an announced reset, whatever runs between two captures   *)
(* (get_incremental_output, decide._on_observation).                       *)
THEOREM NoGapIsSilent == Spec => []NoSilentGap
<1>1. TerminalInv => NoSilentGap
  BY DEF TerminalInv, AccountInv
<1> QED BY <1>1, TerminalInvHolds, PTL

(* A reset is announced only when the rows captured last have changed, the *)
(* full scrollback dropping its oldest ones included, or were more than    *)
(* the buffer keeps (get_incremental_output).                              *)
THEOREM ResetsHaveACause == Spec => ResetHasCause
<1>1. TerminalInv /\ [Next \/ Stopped]_vars =>
        [pc = "ready" /\ pc' = "capturing" /\ capture'.kind = "reset"
           => disturbed \/ ~whole]_vars
  <2> SUFFICES ASSUME TerminalInv, [Next \/ Stopped]_vars, pc = "ready",
                      pc' = "capturing", capture'.kind = "reset",
                      ~disturbed, whole
               PROVE  FALSE
    BY DEF TerminalInv, PrefixInv
  <2>1. TakeHistory
    BY StepCases DEF Elsewhere, ObserveNew, TakeVisible, Captured
  <2>2. buffer # <<>> /\ ~Extends(History)
    BY <2>1 DEF TakeHistory
  <2>3. IsPrefix(buffer, History)
    BY <2>2 DEF TerminalInv, PrefixInv
  <2> QED BY <2>2, <2>3 DEF Extends
<1> QED BY <1>1, TerminalInvHolds, PTL DEF Spec, ResetHasCause
=============================================================================
