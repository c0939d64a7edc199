----------------------------- MODULE DecideCore -----------------------------
(***************************************************************************)
(* The functional core of the agent (termiclaw/decide.py with the State of *)
(* termiclaw/state.py): pure operators from a state and an event to a new  *)
(* state and the commands the shell is to apply next.  One operator stands *)
(* for each event handler; the module has no variables.                    *)
(*                                                                         *)
(* Data abstractions.                                                      *)
(*  - A step is its index in the run (1, 2, ...); recent_steps is a        *)
(*    sequence of such indices and summary the set of indices the text of  *)
(*    the last checkpoint was written from.                                *)
(*  - An observation is the number of the terminal capture it came from    *)
(*    (captures always carry a heading, so their text is never empty);     *)
(*    0 is the empty string.                                               *)
(*  - Keystrokes, prompts' wording, step ids and clocks are left out.      *)
(*  - claude_session_id is "minted" (the uuid the run invented) or         *)
(*    "reported" (the id the first answer carried); fork says whether the  *)
(*    ForkContext is present.                                              *)
(***************************************************************************)
EXTENDS Naturals, Sequences, Functions

CONSTANTS SummarizeThreshold,  \* Config.summarization_token_threshold
          DumpInterval,        \* Config.state_dump_interval_turns
          DumpThreshold,       \* Config.state_dump_token_threshold
          MaxRecent            \* max_recent of with_step

ASSUME ConfigAssumption ==
  /\ SummarizeThreshold \in Nat \ {0}
  /\ DumpInterval \in Nat \ {0}
  /\ DumpThreshold \in Nat \ {0}
  /\ MaxRecent \in Nat \ {0}

MaxConsecutivePlannerFailures == 3

RunStatus == {"active", "succeeded", "failed", "cancelled"}

State ==
  [ status                       : RunStatus,
    claude_session_id            : {"minted", "reported"},
    fork                         : BOOLEAN,
    current_step                 : Nat,
    summary                      : SUBSET Nat,
    total_prompt_tokens          : Nat,
    recent_steps                 : Seq(Nat),
    pending_completion           : BOOLEAN,
    pending_blocking_timeout     : BOOLEAN,
    is_first_call                : BOOLEAN,
    consecutive_planner_failures : Nat,
    last_observation             : Nat ]

\* The State agent.run builds; forked says whether a parent run was given.
InitialState(forked) ==
  [ status                       |-> "active",
    claude_session_id            |-> "minted",
    fork                         |-> forked,
    current_step                 |-> 0,
    summary                      |-> {},
    total_prompt_tokens          |-> 0,
    recent_steps                 |-> <<>>,
    pending_completion           |-> FALSE,
    pending_blocking_timeout     |-> FALSE,
    is_first_call                |-> TRUE,
    consecutive_planner_failures |-> 0,
    last_observation             |-> 0 ]

-----------------------------------------------------------------------------
(* Commands (termiclaw/commands.py).                                       *)

\* The part of a StepRecord the properties read.  shown is a history field:
\* the observation in the prompt that this step's answer replied to.
StepRecord ==
  [ source        : {"agent", "error", "system"},
    observation   : Nat,
    task_complete : BOOLEAN,
    shown         : Nat ]

Command ==
       [op : {"observe", "send_keys", "refresh_artifacts"}]
  \cup [op : {"query_planner"}, shows : Nat, first_call : BOOLEAN,
        resume_parent : BOOLEAN]
  \cup [op : {"submit_summarization"}, covers : SUBSET Nat]
  \cup [op : {"log_step"}, step : StepRecord]

ObserveCmd == [op |-> "observe"]
SendKeysCmd == [op |-> "send_keys"]
RefreshArtifactsCmd == [op |-> "refresh_artifacts"]

\* shows is the observation in the prompt, 0 for the confirmation prompt.
QueryPlannerCmd(shows, first, parent) ==
  [op |-> "query_planner", shows |-> shows, first_call |-> first,
   resume_parent |-> parent]

SubmitSummarizationCmd(covers) ==
  [op |-> "submit_summarization", covers |-> covers]

LogStepCmd(source, observation, done, shown) ==
  [op |-> "log_step",
   step |-> [source |-> source, observation |-> observation,
             task_complete |-> done, shown |-> shown]]

Transition(state, commands) == [state |-> state, commands |-> commands]

-----------------------------------------------------------------------------
(* State helpers (termiclaw/state.py, termiclaw/agent_core.py).            *)

WithStatus(s, status) == [s EXCEPT !.status = status]

\* A wrong variant (the properties must tell it apart): nothing is evicted.
KeepAll(seq, n) == seq

\* A wrong variant: the newest step is evicted instead of the oldest.
FirstOf(seq, n) == IF Len(seq) <= n THEN seq ELSE SubSeq(seq, 1, n)

LastOf(seq, n) ==
  IF Len(seq) <= n THEN seq ELSE SubSeq(seq, Len(seq) - n + 1, Len(seq))

WithStep(s) ==
  [s EXCEPT !.current_step = @ + 1,
            !.recent_steps = LastOf(Append(@, s.current_step + 1), MaxRecent)]

WithSummarization(s, covers) ==
  [s EXCEPT !.summary = covers,
            !.total_prompt_tokens = 0,
            !.recent_steps = <<>>]

ShouldSummarize(s) == s.total_prompt_tokens >= SummarizeThreshold

ArtifactRefreshDue(s) ==
  /\ s.current_step # 0
  /\ \/ s.current_step % DumpInterval = 0
     \/ s.total_prompt_tokens >= DumpThreshold

-----------------------------------------------------------------------------
(* Event handlers (termiclaw/decide.py).                                   *)

\* A wrong variant: the job is of the newest MaxRecent - 1 steps only.
JobOfFewer(s) ==
  SubmitSummarizationCmd(Range(LastOf(s.recent_steps, MaxRecent - 1)))

BuildSummarizationJob(s) == SubmitSummarizationCmd(Range(s.recent_steps))

OnLoopTick(s, ready, alive) ==
  IF ~alive THEN Transition(WithStatus(s, "failed"), <<>>)
  ELSE IF ArtifactRefreshDue(s) THEN Transition(s, <<RefreshArtifactsCmd>>)
  ELSE IF ready /\ ShouldSummarize(s)
       THEN Transition(s, <<BuildSummarizationJob(s), ObserveCmd>>)
       ELSE Transition(s, <<ObserveCmd>>)

\* A pending timeout puts a banner in front of the text and is consumed.
OnObservation(s, observation) ==
  Transition([s EXCEPT !.pending_blocking_timeout = FALSE,
                       !.last_observation = observation],
             <<QueryPlannerCmd(observation, s.is_first_call,
                               s.fork /\ s.is_first_call)>>)

\* Two-phase task_complete confirmation.
HandleCompletion(s, shown) ==
  IF s.pending_completion
  THEN Transition([s EXCEPT !.status = "succeeded", !.last_observation = 0],
                  <<LogStepCmd("agent", s.last_observation, TRUE, shown)>>)
  ELSE Transition([s EXCEPT !.pending_completion = TRUE],
                  <<QueryPlannerCmd(0, FALSE, FALSE)>>)

\* What an answer changes whatever it asks for: tokens, session adoption,
\* the fork context, the failure streak.
AdoptAnswer(s, answer) ==
  [s EXCEPT !.total_prompt_tokens = @ + answer.tokens,
            !.claude_session_id = IF s.is_first_call /\ answer.reports_session
                                  THEN "reported" ELSE @,
            !.is_first_call = FALSE,
            !.fork = FALSE,
            !.consecutive_planner_failures = 0]

\* A wrong variant: a working answer does not withdraw an earlier claim.
KeepsClaim(s, answer, shown) ==
  LET adopted == AdoptAnswer(s, answer)
      sends   == [i \in 1 .. answer.commands |-> SendKeysCmd]
  IN IF answer.task_complete
     THEN HandleCompletion(adopted, shown)
     ELSE Transition([adopted EXCEPT !.last_observation = 0],
                     Append(sends, LogStepCmd("agent", s.last_observation,
                                              FALSE, shown)))

\* An answer to the prompt that showed observation shown.
OnPlannerResponded(s, answer, shown) ==
  LET adopted == AdoptAnswer(s, answer)
      working == [adopted EXCEPT !.pending_completion = FALSE,
                                 !.last_observation = 0]
      sends   == [i \in 1 .. answer.commands |-> SendKeysCmd]
  IN IF answer.task_complete
     THEN HandleCompletion(adopted, shown)
     ELSE Transition(working,
                     Append(sends, LogStepCmd("agent", s.last_observation,
                                              FALSE, shown)))

OnPlannerFailed(s) ==
  LET failures == s.consecutive_planner_failures + 1
      counted  == [s EXCEPT !.consecutive_planner_failures = failures,
                            !.is_first_call = FALSE]
  IN Transition(IF failures >= MaxConsecutivePlannerFailures
                THEN WithStatus(counted, "failed") ELSE counted,
                <<LogStepCmd("error", 0, FALSE, 0)>>)

OnCommandAcked(s, blocked_ok) ==
  Transition([s EXCEPT !.pending_blocking_timeout = ~blocked_ok],
             <<ObserveCmd>>)

OnSendKeysFailed(s) == Transition(WithStatus(s, "failed"), <<>>)

OnSummarizationDone(s, covers) ==
  Transition(WithSummarization(s, covers),
             <<LogStepCmd("system", 0, FALSE, 0)>>)

OnSummarizationFailed(s) == Transition(WithStatus(s, "failed"), <<>>)

\* A wrong variant: no marker step, so the same turn number stays due.
RefreshUnlogged(s) == Transition(s, <<>>)

OnArtifactsRefreshed(s) ==
  Transition(s, <<LogStepCmd("system", 0, FALSE, 0)>>)

\* A wrong variant: a logged step is not folded into the state.
StepUncounted(s) == Transition(s, <<>>)

OnStepLogged(s) == Transition(WithStep(s), <<>>)
=============================================================================
