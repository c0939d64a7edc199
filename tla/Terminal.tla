------------------------------ MODULE Terminal ------------------------------
(***************************************************************************)
(* The terminal as termiclaw/container.py sees it: keys typed through      *)
(* `docker exec tmux send-keys`, the wait for an echo marker, and the      *)
(* captures that are compared to say what is new.  The main thread is one  *)
(* client; the shell, the programs under it and the pane are environment.  *)
(*                                                                         *)
(* Abstractions.                                                           *)
(*  - A row of the pane has a number of its own, a new one whenever its    *)
(*    text changes: two rows never have the same text.  The rows below the *)
(*    cursor are blank; tmux captures them as empty lines.  mark names the *)
(*    command whose marker the row shows (0: none).                        *)
(*  - buffers are counted in rows, not in characters.                      *)
(*  - A character is its command, its place in it, and whether it is the   *)
(*    last; widths says how many bytes each takes, newlines which of them  *)
(*    end a line.  The last characters of a command are the suffix that    *)
(*    echoes its marker, none of them a newline.                           *)
(*  - The special keys are C-c, an Enter (C-m and C-j are others), and     *)
(*    those that put something on the line being edited or erase of it; a  *)
(*    key that changes how the next one is read (C-v, C-r, Escape) leaves  *)
(*    something on the line too.  A key that only moves the cursor, or     *)
(*    suspends or ends a program, is the program's own output or end.      *)
(*  - Clearing the pane clears its scrollback.                             *)
(*  - The client sends and observes in any order; the order the queue of   *)
(*    AgentLoop allows is one of them.                                     *)
(***************************************************************************)
EXTENDS Integers, Sequences, FiniteSets, SequencesExt

CONSTANTS Height,        \* rows of the pane
          HistoryLimit,  \* rows kept above the screen: tmux's own limit,
                         \* history_limit being set after the pane exists
          TailLimit,     \* Config.capture_tail_bytes, in rows
          MaxLength,     \* Config.max_command_length, in bytes
          BlockingMax,   \* Config.blocking_max_seconds
          MaxDuration,   \* planner._MAX_DURATION
          PollInterval,  \* Config.blocking_poll_interval
          MaxExec,       \* bound: how long the docker exec of a poll takes
          Durations,     \* durations the planner may give
          Texts,         \* commands: the widths of their characters and
                         \* the places of the newlines among them
          MaxCommands,   \* bound: commands sent in a behaviour
          MaxOutput      \* bound: rows the programs print or redraw

ASSUME TerminalAssumption ==
  /\ Height \in Nat \ {0}
  /\ HistoryLimit \in Nat \ {0}
  /\ TailLimit \in Nat \ {0}
  /\ MaxLength \in Nat \ {0}
  /\ BlockingMax \in Nat \ {0}
  /\ MaxDuration \in Nat \ {0}
  /\ PollInterval \in Nat \ {0}
  /\ MaxExec \in Nat
  /\ Durations \subseteq Int
  /\ \A text \in Texts :
       /\ text.widths \in Seq(Nat \ {0}) \ {<<>>}
       /\ text.newlines \subseteq 1 .. Len(text.widths) - 1
  /\ MaxCommands \in Nat
  /\ MaxOutput \in Nat

Row == [no : Nat, mark : Nat]
Char == [command : Nat, place : Nat, final : BOOLEAN]

\* What the tty reads: a character, a newline among them or from a bare Enter,
\* or the Enter after a command.
Key == [command : Nat, place : Nat, kind : {"char", "newline", "enter"}]

VARIABLES rows,       \* the pane with its scrollback, the cursor's row last
          drawn,      \* row numbers used so far
          output,     \* rows the programs printed or redrew (the bound)
          input,      \* keys typed that nothing has read: lines entered,
                      \* then the one being edited
          job,        \* the line the shell runs, <<>> at the prompt
          raw,        \* the running program reads keys without echo
          pc,         \* where the main thread is
          command,    \* the command being sent, its chunks and its wait
          buffer,     \* State.previous_buffer
          capture,    \* get_incremental_output between its two captures
          accounted,  \* history: rows in an observation, or passed over by the
                      \* first one or by a reset
          whole,      \* history: buffer is all of the history it was cut from
          disturbed,  \* history: rows of that capture changed since, blank
                      \* ones filled and the oldest dropped included
          read,       \* history: the last key of the last line that ended
          spoiled     \* history: a send failed, a program took the keys, or a
                      \* special key changed the line

pane == <<rows, drawn, output>>
shell == <<input, job, raw>>
client == <<pc, command, buffer, capture>>
history == <<accounted, whole, disturbed, read, spoiled>>
vars == <<pane, shell, client, history>>

-----------------------------------------------------------------------------
(* Cutting keystrokes.                                                     *)

Bytes(widths) == FoldSeq(LAMBDA width, sum : width + sum, 0, widths)

\* A wrong variant: a prefix of exactly max_length bytes does not fit.
NarrowUnder(widths, span) ==
  LET mid == (span[1] + span[2]) \div 2
  IN IF Bytes(SubSeq(widths, 1, mid)) < MaxLength
     THEN <<mid + 1, span[2], mid>>
     ELSE <<span[1], mid - 1, span[3]>>

\* One round of the binary search; a span is <<low, high, result>>.
Narrow(widths, span) ==
  LET mid == (span[1] + span[2]) \div 2
  IN IF Bytes(SubSeq(widths, 1, mid)) <= MaxLength
     THEN <<mid + 1, span[2], mid>>
     ELSE <<span[1], mid - 1, span[3]>>

Spans(n) == (0 .. n + 1) \X (-1 .. n) \X (0 .. n)

\* Binary search for the longest prefix that fits.
FindMaxChunkSize(widths) ==
  LET search[span \in Spans(Len(widths))] ==
        IF span[1] > span[2] THEN span[3] ELSE search[Narrow(widths, span)]
  IN search[<<0, Len(widths), 0>>]

\* A wrong variant: a character that does not fit is skipped.
SplitSkipping(keys, widths) ==
  LET from[i \in 1 .. Len(keys) + 1] ==
        LET size == FindMaxChunkSize(SubSeq(widths, i, Len(widths)))
        IN IF i > Len(keys) THEN <<>>
           ELSE IF size = 0 THEN from[i + 1]
           ELSE <<SubSeq(keys, i, i + size - 1)>> \o from[i + size]
  IN IF Bytes(widths) <= MaxLength THEN <<keys>> ELSE from[1]

\* A character wider than the limit is a chunk of its own.
SplitKeys(keys, widths) ==
  LET from[i \in 1 .. Len(keys) + 1] ==
        LET size == FindMaxChunkSize(SubSeq(widths, i, Len(widths)))
            step == IF size = 0 THEN 1 ELSE size
        IN IF i > Len(keys) THEN <<>>
           ELSE <<SubSeq(keys, i, i + step - 1)>> \o from[i + step]
  IN IF Bytes(widths) <= MaxLength THEN <<keys>> ELSE from[1]

Chars(number, widths) ==
  [i \in 1 .. Len(widths) |->
     [command |-> number, place |-> i, final |-> i = Len(widths)]]

EndsLine(key) == key.kind # "char"

\* The next key of the same command, or the first of a later one.
Follows(before, key) ==
  \/ key.command = before.command /\ key.place = before.place + 1
  \/ EndsLine(before) /\ key.command > before.command /\ key.place = 1

-----------------------------------------------------------------------------
(* How long a command is waited for.                                       *)

\* A wrong variant: the planner's duration as it is.
AnyDuration(duration) == duration

ParsedDuration(duration) ==
  IF duration < MaxDuration THEN duration ELSE MaxDuration

\* `cmd.duration or blocking_max_seconds`: 0 asks for the longest wait.
ClampCommandWait(duration) ==
  IF duration = 0 \/ duration > BlockingMax THEN BlockingMax ELSE duration

-----------------------------------------------------------------------------
(* The state, and rows.                                                    *)

Visible == SubSeq(rows, IF Len(rows) > Height THEN Len(rows) - Height + 1 ELSE 1,
                  Len(rows))

\* A wrong variant: the buffer is kept whole.
KeepRows(seq, n) == seq

\* A wrong variant: a history of exactly n rows is cut as well.
CutEarly(seq, n) ==
  IF Len(seq) < n THEN seq ELSE SubSeq(seq, Len(seq) - n + 2, Len(seq))

LastRows(seq, n) ==
  IF Len(seq) <= n THEN seq ELSE SubSeq(seq, Len(seq) - n + 1, Len(seq))

\* What capture-pane -S - prints: the cursor's row is followed by blank ones
\* until the pane is full.
Blank == [no |-> 0, mark |-> 0]
History == rows \o [i \in 1 .. Height - Len(rows) |-> Blank]

\* The rows of a text that show something.
Numbers(seq) == {seq[i].no : i \in 1 .. Len(seq)} \ {0}

\* Between two sends only the last command's number matters, and whether its
\* marker was seen.
Sent(no, acked) == [no |-> no, acked |-> acked, widths |-> <<>>,
                    newlines |-> {}, chunks |-> <<>>, asked |-> 0,
                    budget |-> 0, waited |-> 0]
NoCapture == [kind |-> "none", history |-> <<>>]

Init ==
  /\ rows = <<[no |-> 1, mark |-> 0]>>
  /\ drawn = 1
  /\ output = 0
  /\ input = <<>>
  /\ job = <<>>
  /\ raw = FALSE
  /\ pc = "ready"
  /\ command = Sent(0, FALSE)
  /\ buffer = <<>>
  /\ capture = NoCapture
  /\ accounted = {}
  /\ whole = TRUE
  /\ disturbed = FALSE
  /\ read = [command |-> 0, place |-> 0, kind |-> "enter"]
  /\ spoiled = FALSE

NewRow(mark) == [no |-> drawn + 1, mark |-> mark]

\* A pane that scrolls with its scrollback full drops a tenth of it first
\* (tmux's grid_collect_history).
Collected == IF HistoryLimit < 10 THEN 1 ELSE HistoryLimit \div 10
Full == Len(rows) >= Height + HistoryLimit
Scrolled == IF Full THEN SubSeq(rows, Collected + 1, Len(rows)) ELSE rows

\* The row below the cursor is a blank one, or the pane scrolls.
AppendRow(mark) ==
  /\ rows' = Append(Scrolled, NewRow(mark))
  /\ drawn' = drawn + 1
  /\ disturbed' = (disturbed \/ Len(rows) < Height \/ Full)

RedrawRow(mark) ==
  /\ rows' = [rows EXCEPT ![Len(rows)] = NewRow(mark)]
  /\ drawn' = drawn + 1
  /\ disturbed' = TRUE

-----------------------------------------------------------------------------
(* send_and_wait_idle.                                                     *)

\* The augmented keys are cut; nothing has been typed yet.
BeginSend(text, duration) ==
  /\ pc = "ready"
  /\ command.no < MaxCommands
  /\ pc' = "typing"
  /\ command' =
       LET no == command.no + 1
       IN [no |-> no, acked |-> FALSE, widths |-> text.widths,
           newlines |-> text.newlines,
           chunks |-> SplitKeys(Chars(no, text.widths), text.widths),
           asked |-> duration,
           budget |-> ClampCommandWait(ParsedDuration(duration)), waited |-> 0]
  /\ UNCHANGED <<pane, shell, buffer, capture, history>>

KeyOf(char) ==
  [command |-> char.command, place |-> char.place,
   kind |-> IF char.place \in command.newlines THEN "newline" ELSE "char"]

\* A line ends on the cursor's row, and the next one begins below it.
EchoLines(mark) ==
  /\ rows' = Append([Scrolled EXCEPT ![Len(Scrolled)] = NewRow(Last(rows).mark)],
                    [no |-> drawn + 2, mark |-> mark])
  /\ drawn' = drawn + 2
  /\ disturbed' = TRUE

\* The tty echoes what it reads, marker included; one row stands for all of a
\* chunk's lines but the first.
Echo(chunk) ==
  LET shown == IF Last(chunk).final THEN command.no ELSE 0
  IN IF \E i \in 1 .. Len(chunk) : EndsLine(KeyOf(chunk[i])) THEN EchoLines(shown)
     ELSE RedrawRow(IF shown = 0 THEN Last(rows).mark ELSE shown)

\* One docker exec; a program in raw mode reads the keys itself.
TypeChunk ==
  LET chunk == Head(command.chunks)
  IN /\ pc = "typing"
     /\ command' = [command EXCEPT !.chunks = Tail(@)]
     /\ pc' = IF Len(command.chunks) = 1 THEN "entering" ELSE "typing"
     /\ IF raw
        THEN /\ spoiled' = TRUE
             /\ UNCHANGED <<pane, input, disturbed>>
        ELSE /\ input' = input \o [i \in 1 .. Len(chunk) |-> KeyOf(chunk[i])]
             /\ Echo(chunk)
             /\ UNCHANGED <<output, spoiled>>
     /\ UNCHANGED <<job, raw, buffer, capture, accounted, whole, read>>

\* The Enter key, as a chunk of its own or as a command.
EnterKey(key) ==
  /\ IF raw
     THEN UNCHANGED <<pane, input, disturbed>>
     ELSE /\ input' = Append(input, key)
          /\ AppendRow(0)
          /\ UNCHANGED output
  /\ UNCHANGED <<job, raw, buffer, capture, accounted, whole, read, spoiled>>

PressEnter ==
  /\ pc = "entering"
  /\ pc' = "polling"
  /\ EnterKey([command |-> command.no, place |-> Len(command.widths) + 1,
               kind |-> "enter"])
  /\ UNCHANGED command

MarkerSeen == \E i \in 1 .. Len(Visible) : Visible[i].mark = command.no

\* The end of the wait: CommandAcked(blocked_ok).
Acknowledge(blocked_ok) ==
  /\ pc' = "ready"
  /\ command' = Sent(command.no, blocked_ok)
  /\ UNCHANGED <<pane, shell, buffer, capture, history>>

PollSees ==
  /\ pc = "polling"
  /\ command.waited < command.budget
  /\ MarkerSeen
  /\ Acknowledge(TRUE)

\* An iteration that began before the deadline: a docker exec and a sleep, both
\* over before the clock is read again.
PollAgain ==
  /\ pc = "polling"
  /\ command.waited < command.budget
  /\ ~MarkerSeen
  /\ \E exec \in 0 .. MaxExec :
       command' = [command EXCEPT !.waited = @ + exec + PollInterval]
  /\ UNCHANGED <<pane, shell, pc, buffer, capture, history>>

PollExpires ==
  /\ pc = "polling"
  /\ command.waited >= command.budget
  /\ Acknowledge(FALSE)

\* docker or tmux failed: SessionDeadError, and SendKeysFailed in the loop.
SendFails ==
  /\ pc \in {"typing", "entering", "polling"}
  /\ pc' = "ready"
  /\ command' = Sent(command.no, FALSE)
  /\ spoiled' = TRUE
  /\ UNCHANGED <<pane, shell, buffer, capture, accounted, whole, disturbed,
                 read>>

\* A special key is sent as it is, with no marker, and returns at once.
SpecialKey ==
  /\ pc = "ready"
  /\ command.no < MaxCommands
  /\ command' = Sent(command.no + 1, FALSE)
  /\ UNCHANGED pc

\* A bare Enter enters what is on the line.
SendEnter ==
  /\ SpecialKey
  /\ EnterKey([command |-> command.no + 1, place |-> 1, kind |-> "newline"])

\* Up, Tab, Space, BSpace, C-u...: the end of the line being edited is erased,
\* and something may be put in its place.
SendEdit ==
  /\ SpecialKey
  /\ ~raw
  /\ \E n \in 0 .. Len(input) :
       LET kept == SubSeq(input, 1, n)
       IN /\ \A i \in n + 1 .. Len(input) : ~EndsLine(input[i])
          /\ input' \in {kept, Append(kept, [command |-> command.no + 1,
                                             place |-> 1, kind |-> "char"])}
  /\ IF input' = input THEN UNCHANGED <<pane, disturbed>>
     ELSE RedrawRow(0) /\ UNCHANGED output
  /\ spoiled' = (spoiled \/ input' # input)
  /\ UNCHANGED <<job, raw, buffer, capture, accounted, whole, read>>

\* C-c, of the planner or of ForceInterruptCmd: the tty drops what was typed.
SendInterrupt ==
  /\ pc = "ready"
  /\ job # <<>> \/ input # <<>>
  /\ job' \in {job, <<>>}
  /\ raw' = (raw /\ job' # <<>>)
  /\ input' = <<>>
  /\ UNCHANGED <<pane, client, history>>

-----------------------------------------------------------------------------
(* get_incremental_output, and what decide makes of it.                    *)

\* The history taken becomes previous_buffer, cut to its tail.
Captured(kind, seen, taken) ==
  /\ pc' = "ready"
  /\ capture' = NoCapture
  /\ buffer' = LastRows(taken, TailLimit)
  /\ whole' = (Len(taken) <= TailLimit)
  /\ accounted' = accounted \cup Numbers(seen) \cup
                  IF kind = "reset" \/ buffer = <<>> THEN Numbers(taken) ELSE {}
  /\ UNCHANGED <<pane, shell, command, read, spoiled>>

Rest(taken) == SubSeq(taken, Len(buffer) + 1, Len(taken))

Extends(taken) == buffer # <<>> /\ IsPrefix(buffer, taken)

\* New Terminal Output, if what follows is not all blank.
ObserveNew ==
  /\ pc = "ready"
  /\ Extends(History)
  /\ Numbers(Rest(History)) # {}
  /\ Captured("new", Rest(History), History)
  /\ disturbed' = FALSE

\* Nothing new, or no prefix: the screen is captured too, in a second call.
TakeHistory ==
  /\ pc = "ready"
  /\ Extends(History) => Numbers(Rest(History)) = {}
  /\ pc' = "capturing"
  /\ capture' = [kind |-> IF buffer = <<>> \/ Extends(History) THEN "screen"
                          ELSE "reset",
                 history |-> History]
  /\ disturbed' = FALSE
  /\ UNCHANGED <<pane, shell, command, buffer, accounted, whole, read, spoiled>>

\* A wrong variant: the buffer is what the pane holds at the second capture.
TakeLate ==
  /\ pc = "capturing"
  /\ Captured(capture.kind, Visible, History)
  /\ UNCHANGED disturbed

TakeVisible ==
  /\ pc = "capturing"
  /\ Captured(capture.kind, Visible, capture.history)
  /\ UNCHANGED disturbed

\* SessionDeadError leaves the loop: no handler around an observation.
ObserveRaises ==
  /\ pc \in {"ready", "capturing"}
  /\ pc' = "raised"
  /\ UNCHANGED <<pane, shell, command, buffer, capture, history>>

-----------------------------------------------------------------------------
(* The shell and its programs.                                             *)

PrintRow ==
  /\ output < MaxOutput
  /\ AppendRow(0)
  /\ output' = output + 1
  /\ UNCHANGED <<shell, client, accounted, whole, read, spoiled>>

\* A progress bar, a prompt that is edited, a full-screen program.
Redraw ==
  /\ output < MaxOutput
  /\ RedrawRow(0)
  /\ output' = output + 1
  /\ UNCHANGED <<shell, client, accounted, whole, read, spoiled>>

Clear ==
  /\ output < MaxOutput
  /\ rows' = <<NewRow(0)>>
  /\ drawn' = drawn + 1
  /\ output' = output + 1
  /\ disturbed' = TRUE
  /\ UNCHANGED <<shell, client, accounted, whole, read, spoiled>>

\* The first line of what was typed.
FirstLine(n) ==
  /\ n \in 1 .. Len(input)
  /\ EndsLine(input[n])
  /\ \A i \in 1 .. n - 1 : ~EndsLine(input[i])

ShellReads ==
  /\ job = <<>>
  /\ \E n \in 1 .. Len(input) :
       /\ FirstLine(n)
       /\ job' = SubSeq(input, 1, n)
       /\ input' = SubSeq(input, n + 1, Len(input))
  /\ UNCHANGED <<pane, raw, client, history>>

\* The suffix at the end of a command prints its marker, unless the shell will
\* not have the line.
JobEnds ==
  /\ job # <<>>
  /\ job' = <<>>
  /\ read' = Last(job)
  /\ raw' = FALSE
  /\ \/ AppendRow(0)
     \/ Last(job).kind = "enter" /\ AppendRow(Last(job).command)
  /\ UNCHANGED <<output, input, client, accounted, whole, spoiled>>

\* The running program reads a line typed ahead.
ProgramReads ==
  /\ job # <<>>
  /\ \E n \in 1 .. Len(input) :
       /\ FirstLine(n)
       /\ input' = SubSeq(input, n + 1, Len(input))
  /\ spoiled' = TRUE
  /\ UNCHANGED <<pane, job, raw, client, accounted, whole, disturbed, read>>

\* The running program turns echo off and reads what was typed ahead.
RawStarts ==
  /\ job # <<>>
  /\ ~raw
  /\ raw' = TRUE
  /\ input' = <<>>
  /\ spoiled' = (spoiled \/ input # <<>>)
  /\ UNCHANGED <<pane, job, client, accounted, whole, disturbed, read>>

Send ==
  \/ \E text \in Texts, duration \in Durations : BeginSend(text, duration)
  \/ TypeChunk \/ PressEnter
  \/ PollSees \/ PollAgain \/ PollExpires
  \/ SendFails
  \/ SendEnter \/ SendEdit \/ SendInterrupt

Observe == ObserveNew \/ TakeHistory \/ TakeVisible \/ ObserveRaises

Programs ==
  \/ PrintRow \/ Redraw \/ Clear
  \/ ShellReads \/ JobEnds \/ ProgramReads \/ RawStarts

Next == pc # "raised" /\ (Send \/ Observe \/ Programs)

Stopped == pc = "raised" /\ UNCHANGED vars

Spec == Init /\ [][Next \/ Stopped]_vars

-----------------------------------------------------------------------------
(* Properties.                                                             *)

(* The variables have their types, the buffer keeps to its limit, and a    *)
(* capture is under way exactly between the two calls of an observation.   *)
TerminalTypeOK ==
  /\ rows \in Seq(Row) /\ rows # <<>>
  /\ drawn \in Nat
  /\ output \in 0 .. MaxOutput
  /\ input \in Seq(Key)
  /\ job \in Seq(Key)
  /\ raw => job # <<>> /\ input = <<>>
  /\ raw \in BOOLEAN
  /\ pc \in {"ready", "typing", "entering", "polling", "capturing", "raised"}
  /\ command \in [no : 0 .. MaxCommands, acked : BOOLEAN, widths : Seq(Nat),
                  newlines : SUBSET Nat, chunks : Seq(Seq(Char)), asked : Int,
                  budget : Int, waited : Nat]
  /\ pc = "typing" => command.chunks # <<>>
  /\ buffer \in Seq(Row) /\ Len(buffer) <= TailLimit
  /\ capture \in [kind : {"none", "screen", "reset"}, history : Seq(Row)]
  /\ pc = "capturing" => capture.kind # "none"
  /\ accounted \subseteq Nat
  /\ whole \in BOOLEAN /\ disturbed \in BOOLEAN
  /\ read \in Key /\ spoiled \in BOOLEAN

(* No output is skipped in silence.  A row in previous_buffer will never   *)
(* be called new again: it has been in an observation, or it was passed    *)
(* over by the first one or by one announced as a reset, whatever the      *)
(* programs print or clear between the two captures.                       *)
NoSilentGap == Numbers(buffer) \subseteq accounted

(* "[TERMINAL RESET]" has a cause: since the last history capture a row of *)
(* it was redrawn, a blank one was filled, the pane was cleared or its     *)
(* full scrollback dropped the oldest rows, or that capture was longer     *)
(* than capture_tail_bytes, so that a buffer which is no prefix of         *)
(* anything was kept of it.  On a full pane that only scrolls, is short    *)
(* and has room in its scrollback there is none.                           *)
ResetHasCause ==
  [][ pc = "ready" /\ pc' = "capturing" /\ capture'.kind = "reset"
        => disturbed \/ ~whole ]_vars

(* Every line the shell runs is a whole line of one command: it begins     *)
(* where the line before it ended, with the next key of that command or    *)
(* the first of a later one, goes on with that command key by key, and     *)
(* ends at a newline of it or its Enter, wherever the command was cut and  *)
(* however far the typing is ahead of the shell.  (A command with newlines *)
(* is several lines, which an interrupt may cut short.)  It holds as long  *)
(* as no send has failed, no program has read keys meant for the shell,    *)
(* and no special key has left anything on the line.                       *)
EnteredInOrder ==
  job # <<>> /\ ~spoiled =>
    /\ Follows(read, job[1])
    /\ \A i \in 1 .. Len(job) - 1 :
         ~EndsLine(job[i]) /\ Follows(job[i], job[i + 1])
    /\ EndsLine(job[Len(job)])

\* The bytes of a chunk of the current command.
ChunkBytes(chunk) ==
  Bytes([i \in 1 .. Len(chunk) |-> command.widths[chunk[i].place]])

(* The chunks still to type fit max_command_length, one character wider    *)
(* than that excepted, and the binary search found the longest: no chunk   *)
(* could have taken the first character of the next one.                   *)
ChunksAreTight ==
  LET chunks == command.chunks
  IN /\ \A i \in 1 .. Len(chunks) :
          Len(chunks[i]) = 1 \/ ChunkBytes(chunks[i]) <= MaxLength
     /\ \A i \in 1 .. Len(chunks) - 1 :
          ChunkBytes(Append(chunks[i], chunks[i + 1][1])) > MaxLength

(* No poll begins past the deadline: a wait outlives the planner's         *)
(* duration, _MAX_DURATION and, for a duration of 0, blocking_max_seconds, *)
(* by less than one iteration, a docker exec and a sleep.  A duration that *)
(* is negative is not waited for at all.                                   *)
WaitIsBounded ==
  command.waited > 0 =>
    LET late == command.waited - (MaxExec + PollInterval)
    IN IF command.asked = 0 THEN late < BlockingMax
       ELSE command.asked > 0 /\ late < command.asked /\ late < MaxDuration

(* A command acknowledged by its marker has run to its end.                *)
AckedMeansFinished ==
  command.acked =>
    \A i \in 1 .. Len(job) : job[i].command # command.no
=============================================================================
