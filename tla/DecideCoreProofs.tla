--------------------------- MODULE DecideCoreProofs ---------------------------
(***************************************************************************)
(* Facts about the handlers of DecideCore: each returns a State and typed  *)
(* commands, and what it leaves as it was.  Nearly every handler only      *)
(* redirects the run; three change what the loop's invariants speak of,    *)
(* and have lemmas of their own: OnPlannerResponded (the completion        *)
(* claim), OnStepLogged (the step counter) and OnLoopTick (the             *)
(* submission).                                                            *)
(***************************************************************************)
EXTENDS DecideCore, SequenceTheorems, TLAPS

\* A State whose ring buffer is within its bound.
BoundedState == {s \in State : Len(s.recent_steps) <= MaxRecent}

\* A handler's result.
TypedTransition(t) ==
  /\ t.state \in BoundedState
  /\ t.commands \in Seq(Command)

SubmitsNothing(commands) ==
  \A i \in 1 .. Len(commands) : commands[i].op # "submit_summarization"

\* What all handlers but the three above leave alone.
Redirects(s, t) ==
  /\ t.state.current_step = s.current_step
  /\ t.state.recent_steps \in {s.recent_steps, <<>>}
  /\ t.state.pending_completion = s.pending_completion
  /\ t.state.status \in {s.status, "failed"}
  /\ SubmitsNothing(t.commands)

\* And all of these but OnSummarizationDone the recent steps too.
KeepsRecent(s, t) == t.state.recent_steps = s.recent_steps

-----------------------------------------------------------------------------

\* Every command a handler builds is a Command.
LEMMA CommandTypes ==
  /\ ObserveCmd \in Command
  /\ SendKeysCmd \in Command
  /\ RefreshArtifactsCmd \in Command
  /\ \A shows \in Nat, first \in BOOLEAN, parent \in BOOLEAN :
       QueryPlannerCmd(shows, first, parent) \in Command
  /\ \A covers \in SUBSET Nat : SubmitSummarizationCmd(covers) \in Command
  /\ \A source \in {"agent", "error", "system"}, observation \in Nat,
        done \in BOOLEAN, shown \in Nat :
       LogStepCmd(source, observation, done, shown) \in Command
BY DEF Command, StepRecord, ObserveCmd, SendKeysCmd, RefreshArtifactsCmd,
       QueryPlannerCmd, SubmitSummarizationCmd, LogStepCmd

\* Only SubmitSummarizationCmd builds a submission.
LEMMA CommandOps ==
  /\ ObserveCmd.op = "observe"
  /\ SendKeysCmd.op = "send_keys"
  /\ RefreshArtifactsCmd.op = "refresh_artifacts"
  /\ \A shows, first, parent :
       QueryPlannerCmd(shows, first, parent).op = "query_planner"
  /\ \A source, observation, done, shown :
       LogStepCmd(source, observation, done, shown).op = "log_step"
BY DEF ObserveCmd, SendKeysCmd, RefreshArtifactsCmd, QueryPlannerCmd,
       LogStepCmd

\* A handler that asks for one effect, and not for a summarization.
LEMMA OneCommand ==
  ASSUME NEW c \in Command, c.op # "submit_summarization"
  PROVE  <<c>> \in Seq(Command) /\ SubmitsNothing(<<c>>)
BY DEF SubmitsNothing

\* The ring buffer of with_step keeps the last n elements, in order.
LEMMA LastOfProperties ==
  ASSUME NEW S, NEW seq \in Seq(S), NEW n \in Nat
  PROVE  LET last == LastOf(seq, n)
         IN /\ last \in Seq(S)
            /\ Len(last) = IF Len(seq) <= n THEN Len(seq) ELSE n
            /\ \A i \in 1 .. Len(last) :
                 last[i] = seq[Len(seq) - Len(last) + i]
<1>1. Len(seq) \in Nat /\ \A i \in 1 .. Len(seq) : seq[i] \in S
  BY LenProperties, ElementOfSeq
<1>2. CASE Len(seq) <= n
  BY <1>1, <1>2 DEF LastOf
<1>3. CASE ~(Len(seq) <= n)
  <2> DEFINE from == Len(seq) - n + 1
             last == SubSeq(seq, from, Len(seq))
  <2>1. LastOf(seq, n) = last
    BY <1>3 DEF LastOf
  <2>2. from \in 1 .. Len(seq) + 1 /\ Len(seq) - from + 1 = n
    BY <1>1, <1>3
  <2>3. /\ last \in Seq(S)
        /\ Len(last) = IF from <= Len(seq) THEN Len(seq) - from + 1 ELSE 0
        /\ \A i \in 1 .. Len(seq) - from + 1 : last[i] = seq[from + i - 1]
    <3>1. \A i \in from .. Len(seq) : seq[i] \in S
      BY <1>1, <2>2
    <3> HIDE DEF from
    <3> QED BY <1>1, <2>2, <3>1, SubSeqProperties
  <2>4. Len(last) = n
    BY <1>1, <1>3, <2>2, <2>3
  <2>5. ASSUME NEW i \in 1 .. n
        PROVE  last[i] = seq[Len(seq) - n + i]
    <3>1. last[i] = seq[from + i - 1] /\ from + i - 1 = Len(seq) - n + i
      BY <1>1, <1>3, <2>2, <2>3
    <3> QED BY <3>1
  <2> QED BY <1>3, <2>1, <2>3, <2>4, <2>5
<1> QED BY <1>2, <1>3

-----------------------------------------------------------------------------
\* One lemma per handler that only redirects the run.

LEMMA OnObservationRedirects ==
  ASSUME NEW s \in BoundedState, NEW observation \in Nat
  PROVE  LET t == OnObservation(s, observation)
         IN TypedTransition(t) /\ Redirects(s, t) /\ KeepsRecent(s, t)
<1> DEFINE t == OnObservation(s, observation)
           first == s.is_first_call
           parent == s.fork /\ s.is_first_call
           query == QueryPlannerCmd(observation, first, parent)
<1>1. t.state = [s EXCEPT !.pending_blocking_timeout = FALSE,
                          !.last_observation = observation]
  BY DEF OnObservation, Transition
<1>2. t.commands = <<query>>
  BY DEF OnObservation, Transition
<1>3. query \in Command /\ query.op = "query_planner"
  <2>1. first \in BOOLEAN /\ parent \in BOOLEAN
    BY DEF BoundedState, State
  <2> HIDE DEF first, parent
  <2> QED BY <2>1, CommandTypes, CommandOps
<1>4. t.commands \in Seq(Command) /\ SubmitsNothing(t.commands)
  BY <1>2, <1>3, OneCommand
<1>5. /\ t.state \in BoundedState
      /\ t.state.current_step = s.current_step
      /\ t.state.recent_steps = s.recent_steps
      /\ t.state.pending_completion = s.pending_completion
      /\ t.state.status = s.status
  <2>1. [s EXCEPT !.pending_blocking_timeout = FALSE,
                  !.last_observation = observation] \in State
    BY DEF BoundedState, State
  <2> QED BY <1>1, <2>1 DEF BoundedState, State
<1> QED BY <1>4, <1>5 DEF TypedTransition, Redirects, KeepsRecent

LEMMA OnPlannerFailedRedirects ==
  ASSUME NEW s \in BoundedState
  PROVE  LET t == OnPlannerFailed(s)
         IN TypedTransition(t) /\ Redirects(s, t) /\ KeepsRecent(s, t)
<1> DEFINE t == OnPlannerFailed(s)
           failures == s.consecutive_planner_failures + 1
           counted == [s EXCEPT !.consecutive_planner_failures = failures,
                                !.is_first_call = FALSE]
<1>1. /\ t.state \in {counted, WithStatus(counted, "failed")}
      /\ t.commands = <<LogStepCmd("error", 0, FALSE, 0)>>
  BY DEF OnPlannerFailed, Transition
<1>2. counted \in BoundedState /\ counted.status = s.status
  <2>1. failures \in Nat
    BY DEF BoundedState, State
  <2> HIDE DEF failures
  <2>2. counted \in State
    BY <2>1 DEF BoundedState, State
  <2> QED BY <2>2 DEF BoundedState, State
<1>3. /\ t.state \in BoundedState
      /\ t.state.current_step = s.current_step
      /\ t.state.recent_steps = s.recent_steps
      /\ t.state.pending_completion = s.pending_completion
      /\ t.state.status \in {s.status, "failed"}
  BY <1>1, <1>2 DEF WithStatus, BoundedState, State, RunStatus
<1>4. t.commands \in Seq(Command) /\ SubmitsNothing(t.commands)
  BY <1>1, CommandTypes, CommandOps, OneCommand
<1> QED BY <1>3, <1>4 DEF TypedTransition, Redirects, KeepsRecent

LEMMA OnCommandAckedRedirects ==
  ASSUME NEW s \in BoundedState, NEW blocked_ok \in BOOLEAN
  PROVE  LET t == OnCommandAcked(s, blocked_ok)
         IN TypedTransition(t) /\ Redirects(s, t) /\ KeepsRecent(s, t)
<1> DEFINE t == OnCommandAcked(s, blocked_ok)
<1>1. /\ t.state \in BoundedState
      /\ t.state.current_step = s.current_step
      /\ t.state.recent_steps = s.recent_steps
      /\ t.state.pending_completion = s.pending_completion
      /\ t.state.status = s.status
  BY DEF OnCommandAcked, Transition, BoundedState, State
<1>2. t.commands = <<ObserveCmd>>
  BY DEF OnCommandAcked, Transition
<1>3. t.commands \in Seq(Command) /\ SubmitsNothing(t.commands)
  BY <1>2, CommandTypes, CommandOps, OneCommand
<1> QED BY <1>1, <1>3 DEF TypedTransition, Redirects, KeepsRecent

\* The handlers of a failure that ends the run.
LEMMA FailingRedirects ==
  ASSUME NEW s \in BoundedState
  PROVE  LET t == Transition(WithStatus(s, "failed"), <<>>)
         IN TypedTransition(t) /\ Redirects(s, t) /\ KeepsRecent(s, t)
<1> DEFINE failed == [s EXCEPT !.status = "failed"]
           t      == Transition(WithStatus(s, "failed"), <<>>)
<1>1. s \in State /\ "failed" \in RunStatus
  BY DEF BoundedState, RunStatus
<1>2. /\ failed \in State
      /\ failed.current_step = s.current_step
      /\ failed.recent_steps = s.recent_steps
      /\ failed.pending_completion = s.pending_completion
      /\ failed.status = "failed"
  BY <1>1 DEF State
<1>3. t.state = failed /\ t.commands = <<>>
  BY DEF Transition, WithStatus
<1>4. <<>> \in Seq(Command) /\ SubmitsNothing(<<>>)
  BY DEF SubmitsNothing
<1> HIDE DEF failed, t
<1>5. TypedTransition(t) /\ Redirects(s, t) /\ KeepsRecent(s, t)
  BY <1>2, <1>3, <1>4
     DEF TypedTransition, Redirects, KeepsRecent, BoundedState
<1> QED BY <1>5 DEF t

LEMMA OnSendKeysFailedRedirects ==
  ASSUME NEW s \in BoundedState
  PROVE  LET t == OnSendKeysFailed(s)
         IN TypedTransition(t) /\ Redirects(s, t) /\ KeepsRecent(s, t)
BY FailingRedirects DEF OnSendKeysFailed

LEMMA OnSummarizationDoneRedirects ==
  ASSUME NEW s \in BoundedState, NEW covers \in SUBSET Nat
  PROVE  LET t == OnSummarizationDone(s, covers)
         IN /\ TypedTransition(t)
            /\ Redirects(s, t)
            /\ t.state.recent_steps = <<>>
<1> DEFINE t == OnSummarizationDone(s, covers)
<1>1. /\ t.state \in BoundedState
      /\ t.state.current_step = s.current_step
      /\ t.state.recent_steps = <<>>
      /\ t.state.pending_completion = s.pending_completion
      /\ t.state.status = s.status
  <2> DEFINE none == <<>>
             zero == 0
             done == [s EXCEPT !.summary = covers,
                               !.total_prompt_tokens = zero,
                               !.recent_steps = none]
  <2>1. t.state = done
    BY DEF OnSummarizationDone, WithSummarization, Transition
  <2>2. none \in Seq(Nat) /\ Len(none) <= MaxRecent /\ zero \in Nat
    BY ConfigAssumption
  <2>3. s \in State
    BY DEF BoundedState
  <2> HIDE DEF none, zero
  <2>4. done \in State
    BY <2>2, <2>3 DEF State
  <2>5. /\ done.current_step = s.current_step
        /\ done.recent_steps = none
        /\ done.pending_completion = s.pending_completion
        /\ done.status = s.status
    BY <2>3 DEF State
  <2> QED BY <2>1, <2>2, <2>4, <2>5 DEF BoundedState, none
<1>2. t.commands = <<LogStepCmd("system", 0, FALSE, 0)>>
  BY DEF OnSummarizationDone, Transition
<1>3. t.commands \in Seq(Command) /\ SubmitsNothing(t.commands)
  BY <1>2, CommandTypes, CommandOps, OneCommand
<1> QED BY <1>1, <1>3 DEF TypedTransition, Redirects

LEMMA OnSummarizationFailedRedirects ==
  ASSUME NEW s \in BoundedState
  PROVE  LET t == OnSummarizationFailed(s)
         IN TypedTransition(t) /\ Redirects(s, t) /\ KeepsRecent(s, t)
BY FailingRedirects DEF OnSummarizationFailed

LEMMA OnArtifactsRefreshedRedirects ==
  ASSUME NEW s \in BoundedState
  PROVE  LET t == OnArtifactsRefreshed(s)
         IN TypedTransition(t) /\ Redirects(s, t) /\ KeepsRecent(s, t)
<1> DEFINE t == OnArtifactsRefreshed(s)
<1>1. /\ t.state \in BoundedState
      /\ t.state.current_step = s.current_step
      /\ t.state.recent_steps = s.recent_steps
      /\ t.state.pending_completion = s.pending_completion
      /\ t.state.status = s.status
  BY DEF OnArtifactsRefreshed, Transition, BoundedState, State
<1>2. t.commands = <<LogStepCmd("system", 0, FALSE, 0)>>
  BY DEF OnArtifactsRefreshed, Transition
<1>3. t.commands \in Seq(Command) /\ SubmitsNothing(t.commands)
  BY <1>2, CommandTypes, CommandOps, OneCommand
<1> QED BY <1>1, <1>3 DEF TypedTransition, Redirects, KeepsRecent

-----------------------------------------------------------------------------
\* The three handlers that change what the invariants speak of.

(* A tick submits a summarization only if the worker was said to be ready, *)
(* and only as its first command.                                          *)
LEMMA OnLoopTickProperties ==
  ASSUME NEW s \in BoundedState, NEW ready \in BOOLEAN, NEW alive \in BOOLEAN
  PROVE  LET t == OnLoopTick(s, ready, alive)
         IN /\ TypedTransition(t)
            /\ t.state \in {s, WithStatus(s, "failed")}
            /\ \A i \in 1 .. Len(t.commands) :
                 t.commands[i].op = "submit_summarization" => i = 1 /\ ready
<1> DEFINE t == OnLoopTick(s, ready, alive)
           job == BuildSummarizationJob(s)
<1>1. s \in BoundedState /\ WithStatus(s, "failed") \in BoundedState
  BY DEF WithStatus, BoundedState, State, RunStatus
<1>2. job \in Command
  <2>1. Range(s.recent_steps) \in SUBSET Nat
    BY RangeOfSeq DEF BoundedState, State
  <2> QED BY <2>1, CommandTypes DEF BuildSummarizationJob
<1>3. CASE ~alive
  BY <1>1, <1>3 DEF OnLoopTick, Transition, TypedTransition
<1>4. CASE alive /\ ArtifactRefreshDue(s)
  <2>1. t = [state |-> s, commands |-> <<RefreshArtifactsCmd>>]
    BY <1>4 DEF OnLoopTick, Transition
  <2> QED BY <1>1, <2>1, CommandTypes, CommandOps, OneCommand
          DEF TypedTransition, SubmitsNothing
<1>5. CASE alive /\ ~ArtifactRefreshDue(s) /\ ready /\ ShouldSummarize(s)
  <2> DEFINE both == <<job, ObserveCmd>>
  <2>1. t.state = s /\ t.commands = both
    BY <1>5 DEF OnLoopTick, Transition
  <2>2. both \in Seq(Command)
    <3> HIDE DEF job
    <3> QED BY <1>2, CommandTypes
  <2>3. \A i \in 1 .. Len(both) : both[i].op = "submit_summarization" => i = 1
    <3> HIDE DEF job
    <3> QED BY CommandOps
  <2> HIDE DEF both
  <2> QED BY <1>1, <1>5, <2>1, <2>2, <2>3 DEF TypedTransition
<1>6. CASE alive /\ ~ArtifactRefreshDue(s) /\ ~(ready /\ ShouldSummarize(s))
  <2>1. t = [state |-> s, commands |-> <<ObserveCmd>>]
    BY <1>6 DEF OnLoopTick, Transition
  <2> QED BY <1>1, <2>1, CommandTypes, CommandOps, OneCommand
          DEF TypedTransition, SubmitsNothing
<1> QED BY <1>3, <1>4, <1>5, <1>6

\* recent_steps is the run of steps that ends with the newest.
RecentEndsAtNewest(s) ==
  \A i \in 1 .. Len(s.recent_steps) :
    s.recent_steps[i] = s.current_step - Len(s.recent_steps) + i

(* A logged step is counted once, and enters the ring buffer at its end.   *)
LEMMA OnStepLoggedProperties ==
  ASSUME NEW s \in BoundedState
  PROVE  LET t == OnStepLogged(s)
         IN /\ TypedTransition(t)
            /\ t.state.current_step = s.current_step + 1
            /\ t.state.pending_completion = s.pending_completion
            /\ t.state.status = s.status
            /\ SubmitsNothing(t.commands)
            /\ Len(t.state.recent_steps)
                 = IF Len(s.recent_steps) + 1 <= MaxRecent
                   THEN Len(s.recent_steps) + 1 ELSE MaxRecent
            /\ RecentEndsAtNewest(s) => RecentEndsAtNewest(t.state)
<1> DEFINE t == OnStepLogged(s)
           step == s.current_step + 1
           longer == Append(s.recent_steps, step)
           last == LastOf(longer, MaxRecent)
           logged == [s EXCEPT !.current_step = step, !.recent_steps = last]
<1>1. t.state = logged /\ t.commands = <<>>
  BY DEF OnStepLogged, WithStep, Transition
<1>2. /\ s \in State
      /\ s.current_step \in Nat
      /\ step \in Nat
      /\ s.recent_steps \in Seq(Nat)
      /\ MaxRecent \in Nat
  BY ConfigAssumption DEF BoundedState, State
<1>3. /\ longer \in Seq(Nat)
      /\ Len(longer) = Len(s.recent_steps) + 1
      /\ \A i \in 1 .. Len(s.recent_steps) : longer[i] = s.recent_steps[i]
      /\ longer[Len(s.recent_steps) + 1] = step
  <2> HIDE DEF step
  <2> QED BY <1>2, AppendProperties
<1>4. /\ last \in Seq(Nat)
      /\ Len(last) = IF Len(longer) <= MaxRecent THEN Len(longer)
                     ELSE MaxRecent
      /\ \A i \in 1 .. Len(last) :
           last[i] = longer[Len(longer) - Len(last) + i]
  <2>1. longer \in Seq(Nat) /\ MaxRecent \in Nat
    BY <1>2, <1>3
  <2> HIDE DEF longer
  <2> QED BY <2>1, LastOfProperties
<1>5. Len(s.recent_steps) \in Nat /\ Len(last) \in Nat
  BY <1>2, <1>4, LenProperties
<1>6. /\ logged \in BoundedState
      /\ logged.current_step = step
      /\ logged.recent_steps = last
      /\ logged.pending_completion = s.pending_completion
      /\ logged.status = s.status
  <2>1. Len(last) <= MaxRecent
    BY <1>2, <1>3, <1>4, <1>5
  <2> HIDE DEF step, last
  <2>2. logged \in State
    BY <1>2, <1>4 DEF State
  <2>3. /\ logged.current_step = step
        /\ logged.recent_steps = last
        /\ logged.pending_completion = s.pending_completion
        /\ logged.status = s.status
    BY <1>2 DEF State
  <2> QED BY <2>1, <2>2, <2>3 DEF BoundedState
<1>7. ASSUME RecentEndsAtNewest(s), NEW i \in 1 .. Len(last)
      PROVE  last[i] = step - Len(last) + i
  <2> DEFINE j == Len(longer) - Len(last) + i
  <2> HIDE DEF longer, last, step
  <2>1. last[i] = longer[j]
    BY <1>4
  <2>2. Len(last) <= Len(longer) /\ Len(longer) = Len(s.recent_steps) + 1
    BY <1>2, <1>3, <1>4, <1>5
  <2>3. j \in 1 .. Len(s.recent_steps) + 1
    BY <1>5, <2>2
  <2> HIDE DEF j
  <2>4. CASE j <= Len(s.recent_steps)
    <3>0. j \in 1 .. Len(s.recent_steps)
      BY <1>5, <2>3, <2>4
    <3>1. j \in 1 .. Len(s.recent_steps) /\ longer[j] = s.recent_steps[j]
      BY <1>3, <3>0
    <3>2. s.recent_steps[j] = s.current_step - Len(s.recent_steps) + j
      BY <1>7, <3>1 DEF RecentEndsAtNewest
    <3>3. j = Len(s.recent_steps) + 1 - Len(last) + i
      BY <2>2 DEF j
    <3>4. last[i] = s.current_step - Len(s.recent_steps) + j
      BY <2>1, <3>1, <3>2
    <3>5. /\ s.current_step \in Nat
          /\ Len(s.recent_steps) \in Nat
          /\ Len(last) \in Nat
      BY <1>2, <1>5
    <3> QED BY <3>3, <3>4, <3>5 DEF step
  <2>5. CASE j = Len(s.recent_steps) + 1
    <3>1. longer[j] = step
      BY <1>3, <2>5
    <3>2. i = Len(last)
      BY <1>5, <2>2, <2>5 DEF j
    <3> QED BY <1>2, <1>5, <2>1, <3>1, <3>2
  <2> QED BY <1>5, <2>3, <2>4, <2>5
<1>8. RecentEndsAtNewest(s) => RecentEndsAtNewest(logged)
  <2> HIDE DEF last, step, logged
  <2> QED BY <1>6, <1>7 DEF RecentEndsAtNewest
<1>l. Len(logged.recent_steps) = IF Len(s.recent_steps) + 1 <= MaxRecent
                                 THEN Len(s.recent_steps) + 1 ELSE MaxRecent
  <2> HIDE DEF longer, last, logged
  <2> QED BY <1>3, <1>4, <1>6
<1>9. <<>> \in Seq(Command) /\ SubmitsNothing(<<>>)
  BY DEF SubmitsNothing
<1> HIDE DEF logged
<1> QED BY <1>1, <1>6, <1>8, <1>9, <1>l DEF TypedTransition, step

\* The answers of OnPlannerResponded, whatever a configuration allows of them.
PlannerAnswer ==
  [task_complete : BOOLEAN, commands : Nat, tokens : Nat,
   reports_session : BOOLEAN]

LEMMA AdoptAnswerProperties ==
  ASSUME NEW s \in BoundedState, NEW answer \in PlannerAnswer
  PROVE  LET adopted == AdoptAnswer(s, answer)
         IN /\ adopted \in BoundedState
            /\ adopted.current_step = s.current_step
            /\ adopted.recent_steps = s.recent_steps
            /\ adopted.pending_completion = s.pending_completion
            /\ adopted.last_observation = s.last_observation
            /\ adopted.status = s.status
<1> DEFINE tokens == s.total_prompt_tokens + answer.tokens
           session == IF s.is_first_call /\ answer.reports_session
                      THEN "reported" ELSE s.claude_session_id
           zero == 0
           adopted == [s EXCEPT !.total_prompt_tokens = tokens,
                                !.claude_session_id = session,
                                !.is_first_call = FALSE,
                                !.fork = FALSE,
                                !.consecutive_planner_failures = zero]
<1>1. AdoptAnswer(s, answer) = adopted
  BY DEF AdoptAnswer
<1>2. tokens \in Nat /\ session \in {"minted", "reported"} /\ zero \in Nat
  BY DEF BoundedState, State, PlannerAnswer
<1>3. s \in State /\ Len(s.recent_steps) <= MaxRecent
  BY DEF BoundedState
<1> HIDE DEF tokens, session, zero
<1>4. adopted \in State
  BY <1>2, <1>3 DEF State
<1>5. /\ adopted.current_step = s.current_step
      /\ adopted.recent_steps = s.recent_steps
      /\ adopted.pending_completion = s.pending_completion
      /\ adopted.last_observation = s.last_observation
      /\ adopted.status = s.status
  BY <1>3 DEF State
<1> HIDE DEF adopted
<1> QED BY <1>1, <1>3, <1>4, <1>5 DEF BoundedState

(* The completion claim: only a task_complete answer raises it, only a     *)
(* second one turns it into success.                                       *)
LEMMA HandleCompletionProperties ==
  ASSUME NEW s \in BoundedState, NEW shown \in Nat
  PROVE  LET t == HandleCompletion(s, shown)
         IN /\ TypedTransition(t)
            /\ t.state.current_step = s.current_step
            /\ t.state.recent_steps = s.recent_steps
            /\ t.state.status = "succeeded"
                 => s.status = "succeeded" \/ s.pending_completion
            /\ SubmitsNothing(t.commands)
<1> DEFINE t == HandleCompletion(s, shown)
           zero == 0
           log == LogStepCmd("agent", s.last_observation, TRUE, shown)
           ask == QueryPlannerCmd(0, FALSE, FALSE)
           confirmed == [s EXCEPT !.status = "succeeded",
                                  !.last_observation = zero]
           claimed == [s EXCEPT !.pending_completion = TRUE]
<1>1. /\ log \in Command /\ log.op = "log_step"
      /\ ask \in Command /\ ask.op = "query_planner"
  <2>1. s.last_observation \in Nat
    BY DEF BoundedState, State
  <2> QED BY <2>1, CommandTypes, CommandOps
<1>2. s \in State /\ Len(s.recent_steps) <= MaxRecent
  BY DEF BoundedState
<1>3. CASE s.pending_completion
  <2>1. t.state = confirmed /\ t.commands = <<log>>
    BY <1>3 DEF HandleCompletion, Transition
  <2>2. zero \in Nat /\ "succeeded" \in RunStatus
    BY DEF RunStatus
  <2> HIDE DEF zero, log
  <2>3. confirmed \in State
    BY <1>2, <2>2 DEF State
  <2>4. /\ confirmed.current_step = s.current_step
        /\ confirmed.recent_steps = s.recent_steps
    BY <1>2 DEF State
  <2> HIDE DEF confirmed
  <2> QED BY <1>1, <1>2, <1>3, <2>1, <2>3, <2>4, OneCommand
          DEF TypedTransition, BoundedState
<1>4. CASE ~s.pending_completion
  <2>1. t.state = claimed /\ t.commands = <<ask>>
    BY <1>4 DEF HandleCompletion, Transition
  <2>2. claimed \in State
    BY <1>2 DEF State
  <2>3. /\ claimed.current_step = s.current_step
        /\ claimed.recent_steps = s.recent_steps
        /\ claimed.status = s.status
    BY <1>2 DEF State
  <2> HIDE DEF claimed, ask
  <2> QED BY <1>1, <1>2, <2>1, <2>2, <2>3, OneCommand
          DEF TypedTransition, BoundedState
<1> QED BY <1>3, <1>4

LEMMA OnPlannerRespondedProperties ==
  ASSUME NEW s \in BoundedState, NEW answer \in PlannerAnswer, NEW shown \in Nat
  PROVE  LET t == OnPlannerResponded(s, answer, shown)
         IN /\ TypedTransition(t)
            /\ t.state.current_step = s.current_step
            /\ t.state.recent_steps = s.recent_steps
            /\ t.state.pending_completion => answer.task_complete
            /\ t.state.status = "succeeded"
                 => \/ s.status = "succeeded"
                    \/ s.pending_completion /\ answer.task_complete
            /\ SubmitsNothing(t.commands)
<1> DEFINE t == OnPlannerResponded(s, answer, shown)
           adopted == AdoptAnswer(s, answer)
           zero == 0
           working == [adopted EXCEPT !.pending_completion = FALSE,
                                      !.last_observation = zero]
           sends == [i \in 1 .. answer.commands |-> SendKeysCmd]
           log == LogStepCmd("agent", s.last_observation, FALSE, shown)
<1>1. /\ adopted \in BoundedState
      /\ adopted.current_step = s.current_step
      /\ adopted.recent_steps = s.recent_steps
      /\ adopted.pending_completion = s.pending_completion
      /\ adopted.status = s.status
  BY AdoptAnswerProperties
<1>2. CASE answer.task_complete
  <2>1. t = HandleCompletion(adopted, shown)
    BY <1>2 DEF OnPlannerResponded
  <2> HIDE DEF adopted, t
  <2>2. /\ TypedTransition(t)
        /\ t.state.current_step = adopted.current_step
        /\ t.state.recent_steps = adopted.recent_steps
        /\ t.state.status = "succeeded"
             => adopted.status = "succeeded" \/ adopted.pending_completion
        /\ SubmitsNothing(t.commands)
    BY <1>1, <2>1, HandleCompletionProperties
  <2> QED BY <1>1, <1>2, <2>2 DEF t
<1>3. CASE ~answer.task_complete
  <2>1. t.state = working /\ t.commands = Append(sends, log)
    BY <1>3 DEF OnPlannerResponded, Transition
  <2>2. log \in Command /\ log.op = "log_step"
    <3>1. s.last_observation \in Nat
      BY DEF BoundedState, State
    <3> QED BY <3>1, CommandTypes, CommandOps
  <2>3. sends \in Seq(Command) /\ Len(sends) = answer.commands
    BY CommandTypes DEF PlannerAnswer
  <2>4. /\ Append(sends, log) \in Seq(Command)
        /\ SubmitsNothing(Append(sends, log))
    <3>1. \A i \in 1 .. Len(sends) : sends[i].op = "send_keys"
      BY <2>3, CommandOps
    <3> HIDE DEF sends, log
    <3>2. /\ Append(sends, log) \in Seq(Command)
          /\ Len(Append(sends, log)) = Len(sends) + 1
          /\ \A i \in 1 .. Len(sends) : Append(sends, log)[i] = sends[i]
          /\ Append(sends, log)[Len(sends) + 1] = log
      BY <2>2, <2>3, AppendProperties
    <3>3. Len(sends) \in Nat
      BY <2>3, LenProperties
    <3> QED BY <2>2, <3>1, <3>2, <3>3 DEF SubmitsNothing
  <2>5. adopted \in State /\ zero \in Nat
    BY <1>1 DEF BoundedState
  <2> HIDE DEF adopted, zero
  <2>6. working \in State
    BY <2>5 DEF State
  <2>7. /\ working.current_step = adopted.current_step
        /\ working.recent_steps = adopted.recent_steps
        /\ working.status = adopted.status
        /\ working.pending_completion = FALSE
    BY <2>5 DEF State
  <2> HIDE DEF working, sends, log, t
  <2>8. TypedTransition(t)
    BY <1>1, <2>1, <2>4, <2>6, <2>7 DEF TypedTransition, BoundedState
  <2> QED BY <1>1, <2>1, <2>4, <2>7, <2>8 DEF t
<1> QED BY <1>2, <1>3

-----------------------------------------------------------------------------
(* What the loop's invariants on completion and checkpoints need.          *)

\* A step that records the confirmed completion is among the commands.
LogsCompletion(commands) ==
  \E i \in 1 .. Len(commands) :
    commands[i].op = "log_step" /\ commands[i].step.task_complete

(* The answer that makes a run succeed also asks for its step to be logged *)
(* (_handle_completion).                                                   *)
LEMMA SuccessIsLogged ==
  ASSUME NEW s \in BoundedState, NEW answer \in PlannerAnswer, NEW shown \in Nat,
         s.status # "succeeded",
         OnPlannerResponded(s, answer, shown).state.status = "succeeded"
  PROVE  LogsCompletion(OnPlannerResponded(s, answer, shown).commands)
<1> DEFINE t == OnPlannerResponded(s, answer, shown)
           adopted == AdoptAnswer(s, answer)
           log == LogStepCmd("agent", adopted.last_observation, TRUE, shown)
<1>1. adopted \in State /\ adopted.status = s.status
  BY AdoptAnswerProperties DEF BoundedState
<1>2. answer.task_complete
  <2> SUFFICES ASSUME ~answer.task_complete PROVE FALSE
    OBVIOUS
  <2> DEFINE zero == 0
             working == [adopted EXCEPT !.pending_completion = FALSE,
                                        !.last_observation = zero]
  <2>1. t.state = working
    BY DEF OnPlannerResponded, Transition
  <2> HIDE DEF adopted, zero
  <2>2. working.status = adopted.status
    BY <1>1 DEF State
  <2> HIDE DEF working
  <2> QED BY <1>1, <2>1, <2>2
<1>3. t = HandleCompletion(adopted, shown)
  BY <1>2 DEF OnPlannerResponded
<1>4. adopted.pending_completion
  <2> SUFFICES ASSUME ~adopted.pending_completion PROVE FALSE
    OBVIOUS
  <2> HIDE DEF adopted
  <2>1. t.state = [adopted EXCEPT !.pending_completion = TRUE]
    BY <1>3 DEF HandleCompletion, Transition
  <2>2. t.state.status = adopted.status
    BY <1>1, <2>1 DEF State
  <2> QED BY <1>1, <2>2
<1>5. t.commands = <<log>>
  <2> DEFINE confirmed == [adopted EXCEPT !.status = "succeeded",
                                          !.last_observation = 0]
  <2> HIDE DEF adopted
  <2>1. t = Transition(confirmed, <<log>>)
    BY <1>3, <1>4 DEF HandleCompletion
  <2> HIDE DEF confirmed, log, t
  <2> QED BY <2>1 DEF Transition
<1>6. log.op = "log_step" /\ log.step.task_complete = TRUE
  BY DEF LogStepCmd
<1> HIDE DEF t, log
<1>7. Len(t.commands) = 1 /\ t.commands[1] = log
  BY <1>5
<1> QED BY <1>6, <1>7 DEF LogsCompletion, t

(* The job a tick submits is of all recent steps, and the State stays as   *)
(* it was (_build_summarization_job).                                      *)
LEMMA JobCoversRecent ==
  ASSUME NEW s \in BoundedState, NEW ready \in BOOLEAN, NEW alive \in BOOLEAN,
         NEW i \in 1 .. Len(OnLoopTick(s, ready, alive).commands),
         OnLoopTick(s, ready, alive).commands[i].op = "submit_summarization"
  PROVE  /\ OnLoopTick(s, ready, alive).state = s
         /\ OnLoopTick(s, ready, alive).commands[i].covers
              = Range(s.recent_steps)
<1> DEFINE t == OnLoopTick(s, ready, alive)
           job == BuildSummarizationJob(s)
<1>1. CASE ~alive
  BY <1>1 DEF OnLoopTick, Transition
<1>2. CASE alive /\ ArtifactRefreshDue(s)
  <2>1. t.commands = <<RefreshArtifactsCmd>>
    BY <1>2 DEF OnLoopTick, Transition
  <2> QED BY <2>1, CommandOps
<1>3. CASE alive /\ ~ArtifactRefreshDue(s) /\ ready /\ ShouldSummarize(s)
  <2>1. t.state = s /\ t.commands = <<job, ObserveCmd>>
    BY <1>3 DEF OnLoopTick, Transition
  <2>2. job.covers = Range(s.recent_steps)
    BY DEF BuildSummarizationJob, SubmitSummarizationCmd
  <2> HIDE DEF job, t
  <2>3. t.commands[i] = job
    BY <2>1, CommandOps DEF t
  <2> QED BY <2>1, <2>2, <2>3 DEF t
<1>4. CASE alive /\ ~ArtifactRefreshDue(s) /\ ~(ready /\ ShouldSummarize(s))
  <2>1. t.commands = <<ObserveCmd>>
    BY <1>4 DEF OnLoopTick, Transition
  <2> QED BY <2>1, CommandOps
<1> QED BY <1>1, <1>2, <1>3, <1>4
=============================================================================
