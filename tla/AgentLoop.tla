----------------------------- MODULE AgentLoop ------------------------------
(***************************************************************************)
(* The turn loop of termiclaw: _run_turns and _drive of agent.py, the      *)
(* effects of shell.py, and the two actors beside the main thread: the     *)
(* summarization thread and the tmux session, which may die at any time.   *)
(*                                                                         *)
(* A turn starts at pc = "top" with one event (the worker's result if it   *)
(* has one, else a LoopTick) and drains the command queue at pc = "drive": *)
(* pop the head, apply it, decide on the event it returns, append the new  *)
(* commands.  One action below is one iteration of that drain.  The loop   *)
(* stops "returned" (a status is set), "interrupted" (Ctrl-C) or "raised"  *)
(* (an exception no handler catches).                                      *)
(*                                                                         *)
(* The planner, docker and the disk are environment: Faults lists which of *)
(* their failures a configuration allows.  MaxAnswers bounds the planner:  *)
(* once it has given that many answers every later call fails.             *)
(***************************************************************************)
EXTENDS DecideCore

CONSTANTS MaxTurns,      \* Config.max_turns
          MaxAnswers,    \* bound: answers the planner gives in a behaviour
          MaxCommands,   \* bound: commands in one answer
          TokenCosts,    \* what one answer may add to total_prompt_tokens
          Faults         \* the failures that may happen

FaultKinds == {"session_dies", "send_fails", "planner_fails", "refresh_fails",
               "summary_fails", "store_fails", "interrupt"}

ASSUME LoopAssumption ==
  /\ MaxTurns \in Nat
  /\ MaxAnswers \in Nat
  /\ MaxCommands \in Nat
  /\ TokenCosts \subseteq Nat
  /\ Faults \subseteq FaultKinds

VARIABLES st,             \* State: what decide reads and returns
          queue,          \* the deque `pending` of _drive
          pc,             \* where the main thread is
          turn,           \* turns started so far
          worker,         \* the SummarizationWorker's future and its result
          session_alive,  \* the tmux session in the container
          trajectory,     \* StepRecords in trajectory.jsonl
          rows,           \* step_index of each row of the steps table
          observed,       \* history: terminal captures so far
          answered,       \* history: planner answers so far (the bound)
          claims,         \* history: task_complete answers in a row
          blind,          \* history: active turns in a row with no ObserveCmd
          epoch,          \* history: current_step at the last checkpoint
          outcome         \* history: the first status that was not "active"

loopVars == <<st, queue, pc, turn, worker, session_alive, trajectory, rows,
              observed, answered, claims, blind, epoch, outcome>>
stores == <<trajectory, rows>>
history == <<observed, answered, claims, blind, epoch, outcome>>

WorkerPhase == {"idle", "running", "done", "failed"}
IdleWorker == [phase |-> "idle", covers |-> {}]

\* task_complete answers may carry commands too; decide ignores them.
Answer(first) ==
  LET reports == IF first THEN BOOLEAN ELSE {FALSE}
  IN [task_complete : {TRUE}, commands : {0}, tokens : TokenCosts,
      reports_session : reports]
     \cup
     [task_complete : {FALSE}, commands : 0 .. MaxCommands,
      tokens : TokenCosts, reports_session : reports]

LoopInit ==
  /\ \E forked \in BOOLEAN : st = InitialState(forked)
  /\ queue = <<>>
  /\ pc = "top"
  /\ turn = 0
  /\ worker = IdleWorker
  /\ session_alive = TRUE
  /\ trajectory = <<>>
  /\ rows = <<>>
  /\ observed = 0
  /\ answered = 0
  /\ claims = 0
  /\ blind = 0
  /\ epoch = 0
  /\ outcome = "active"

-----------------------------------------------------------------------------
(* Start of a turn: poll the worker, then the first decide of _drive.      *)

Settle(status) == outcome' = IF outcome = "active" THEN status ELSE outcome

StartTurn(t) ==
  /\ pc = "top"
  /\ turn < MaxTurns
  /\ turn' = turn + 1
  /\ st' = t.state
  /\ queue' = t.commands
  /\ pc' = "drive"
  /\ blind' = IF ObserveCmd \in Range(t.commands) THEN 0
              ELSE IF t.state.status = "active" THEN blind + 1 ELSE blind
  /\ Settle(t.state.status)
  /\ UNCHANGED <<session_alive, stores, observed, answered, claims>>

TickSummarized ==
  /\ worker.phase = "done"
  /\ StartTurn(OnSummarizationDone(st, worker.covers))
  /\ worker' = IdleWorker
  /\ epoch' = st.current_step

TickSummaryFailed ==
  /\ worker.phase = "failed"
  /\ StartTurn(OnSummarizationFailed(st))
  /\ worker' = IdleWorker
  /\ UNCHANGED epoch

TickLoop ==
  /\ worker.phase \in {"idle", "running"}
  /\ StartTurn(OnLoopTick(st, worker.phase = "idle" /\ session_alive,
                          session_alive))
  /\ UNCHANGED <<worker, epoch>>

EndTurn ==
  /\ pc = "drive"
  /\ queue = <<>>
  /\ pc' = IF st.status = "active" THEN "top" ELSE "returned"
  /\ UNCHANGED <<st, queue, turn, worker, session_alive, stores, history>>

TurnsExhausted ==
  /\ pc = "top"
  /\ turn = MaxTurns
  /\ st' = WithStatus(st, "failed")
  /\ pc' = "returned"
  /\ Settle("failed")
  /\ UNCHANGED <<queue, turn, worker, session_alive, stores, observed, answered,
                 claims, blind, epoch>>

-----------------------------------------------------------------------------
(* One iteration of the drain: apply the head of the queue, decide again.  *)

Applying(op) == pc = "drive" /\ queue # <<>> /\ Head(queue).op = op

\* New commands go to the back, and only if the run was active before.
Enqueue(rest, was_active, commands) ==
  IF was_active THEN rest \o commands ELSE rest

\* A wrong variant: gated on the status after the decision, not before it.
RedecideTerminal(t) ==
  /\ st' = t.state
  /\ queue' = Enqueue(Tail(queue), t.state.status = "active", t.commands)
  /\ Settle(t.state.status)
  /\ UNCHANGED <<pc, turn, session_alive, blind, epoch>>

Redecide(t) ==
  /\ st' = t.state
  /\ queue' = Enqueue(Tail(queue), st.status = "active", t.commands)
  /\ Settle(t.state.status)
  /\ UNCHANGED <<pc, turn, session_alive, blind, epoch>>

\* An exception shell.apply does not catch: nothing is decided any more.
Raise ==
  /\ pc' = "raised"
  /\ UNCHANGED <<st, queue, turn, worker, session_alive, history>>

ApplyObserve ==
  /\ Applying("observe")
  /\ session_alive
  /\ observed' = observed + 1
  /\ Redecide(OnObservation(st, observed + 1))
  /\ UNCHANGED <<worker, stores, answered, claims>>

ObserveEscapes ==
  /\ Applying("observe")
  /\ ~session_alive
  /\ Raise
  /\ UNCHANGED stores

ApplySendKeys ==
  /\ Applying("send_keys")
  /\ session_alive
  /\ \E blocked_ok \in BOOLEAN : Redecide(OnCommandAcked(st, blocked_ok))
  /\ UNCHANGED <<worker, stores, observed, answered, claims>>

SendKeysFails ==
  /\ Applying("send_keys")
  /\ ~session_alive \/ "send_fails" \in Faults
  /\ Redecide(OnSendKeysFailed(st))
  /\ UNCHANGED <<worker, stores, observed, answered, claims>>

QueryAnswered ==
  /\ Applying("query_planner")
  /\ answered < MaxAnswers
  /\ answered' = answered + 1
  /\ \E answer \in Answer(st.is_first_call) :
       /\ Redecide(OnPlannerResponded(st, answer, Head(queue).shows))
       /\ claims' = IF answer.task_complete THEN claims + 1 ELSE 0
  /\ UNCHANGED <<worker, stores, observed>>

QueryFails ==
  /\ Applying("query_planner")
  /\ answered = MaxAnswers \/ "planner_fails" \in Faults
  /\ Redecide(OnPlannerFailed(st))
  /\ UNCHANGED <<worker, stores, observed, answered, claims>>

\* A wrong variant: the tick after a submit says the worker is ready.
ReadyTick(s) == OnLoopTick(s, TRUE, TRUE)

\* shell.apply answers a submit with LoopTick(FALSE, TRUE).
SubmitTick(s) == OnLoopTick(s, FALSE, TRUE)

ApplySubmit ==
  /\ Applying("submit_summarization")
  /\ worker.phase = "idle"
  /\ worker' = [phase |-> "running", covers |-> Head(queue).covers]
  /\ Redecide(SubmitTick(st))
  /\ UNCHANGED <<stores, observed, answered, claims>>

ApplyRefreshArtifacts ==
  /\ Applying("refresh_artifacts")
  /\ session_alive
  /\ Redecide(OnArtifactsRefreshed(st))
  /\ UNCHANGED <<worker, stores, observed, answered, claims>>

\* A dead session, a failed planner call or a reply that is not a JSON
\* object: none of them is an ArtifactRefreshError.
RefreshEscapes ==
  /\ Applying("refresh_artifacts")
  /\ ~session_alive \/ "refresh_fails" \in Faults
  /\ Raise
  /\ UNCHANGED stores

ApplyLogStep ==
  /\ Applying("log_step")
  /\ trajectory' = Append(trajectory, Head(queue).step)
  /\ rows' = Append(rows, st.current_step)
  /\ Redecide(OnStepLogged(st))
  /\ UNCHANGED <<worker, observed, answered, claims>>

\* append_step or, after it, insert_step raises.
LogStepEscapes ==
  /\ Applying("log_step")
  /\ "store_fails" \in Faults
  /\ trajectory' \in {trajectory, Append(trajectory, Head(queue).step)}
  /\ UNCHANGED rows
  /\ Raise

-----------------------------------------------------------------------------
(* Beside the main thread.                                                 *)

\* Ctrl-C between two effects.
Interrupt ==
  /\ "interrupt" \in Faults
  /\ pc \in {"top", "drive"}
  /\ pc' = "interrupted"
  /\ UNCHANGED <<st, queue, turn, worker, session_alive, stores, history>>

\* Ctrl-C inside a LogStepCmd, before or after its row is written.
InterruptLogStep ==
  /\ "interrupt" \in Faults
  /\ Applying("log_step")
  /\ pc' = "interrupted"
  /\ trajectory' = Append(trajectory, Head(queue).step)
  /\ rows' \in {rows, Append(rows, st.current_step)}
  /\ UNCHANGED <<st, queue, turn, worker, session_alive, history>>

SessionDies ==
  /\ "session_dies" \in Faults
  /\ session_alive
  /\ session_alive' = FALSE
  /\ UNCHANGED <<st, queue, pc, turn, worker, stores, history>>

WorkerFinishes ==
  /\ worker.phase = "running"
  /\ \E phase \in {"done"} \cup (IF "summary_fails" \in Faults
                                 THEN {"failed"} ELSE {}) :
       worker' = [worker EXCEPT !.phase = phase]
  /\ UNCHANGED <<st, queue, pc, turn, session_alive, stores, history>>

MainStep ==
  \/ TickSummarized \/ TickSummaryFailed \/ TickLoop
  \/ EndTurn \/ TurnsExhausted
  \/ ApplyObserve \/ ObserveEscapes
  \/ ApplySendKeys \/ SendKeysFails
  \/ QueryAnswered \/ QueryFails
  \/ ApplySubmit
  \/ ApplyRefreshArtifacts \/ RefreshEscapes
  \/ ApplyLogStep \/ LogStepEscapes

BesideStep ==
  \/ Interrupt \/ InterruptLogStep
  \/ SessionDies \/ WorkerFinishes

Stopped == pc \in {"returned", "interrupted", "raised"}

LoopNext == MainStep \/ BesideStep

\* The main thread has left the loop: termination, not deadlock.
Finished == Stopped /\ UNCHANGED loopVars

Next == LoopNext \/ Finished

Spec == LoopInit /\ [][Next]_loopVars

-----------------------------------------------------------------------------
(* Properties.                                                             *)

(* The variables have their types, and the ring buffer of with_step never  *)
(* outgrows max_recent.                                                    *)
TypeOK ==
  /\ st \in State
  /\ Len(st.recent_steps) <= MaxRecent
  /\ queue \in Seq(Command)
  /\ pc \in {"top", "drive", "returned", "interrupted", "raised"}
  /\ turn \in 0 .. MaxTurns
  /\ worker \in [phase : WorkerPhase, covers : SUBSET Nat]
  /\ session_alive \in BOOLEAN
  /\ trajectory \in Seq(StepRecord)
  /\ rows \in Seq(Nat)
  /\ observed \in Nat
  /\ answered \in 0 .. MaxAnswers
  /\ claims \in Nat
  /\ blind \in Nat
  /\ epoch \in Nat
  /\ outcome \in RunStatus

(* The step counter of the State, the trajectory file and the steps table  *)
(* tell the same story: the table's step_index column is 0, 1, 2, ...      *)
(* without gap or repeat; while the loop runs and when it returns, all     *)
(* three have the same length (BUG-38, BUG-39 and BUG-41 each broke this); *)
(* a failure or Ctrl-C inside a LogStepCmd leaves the file at most one     *)
(* step ahead of the table and the table at most one ahead of the State.   *)
StepAccounting ==
  /\ \A i \in 1 .. Len(rows) : rows[i] = i - 1
  /\ st.current_step <= Len(rows)
  /\ Len(rows) <= Len(trajectory)
  /\ Len(trajectory) <= st.current_step + 1
  /\ pc \in {"top", "drive", "returned"} =>
       st.current_step = Len(rows) /\ Len(rows) = Len(trajectory)

(* recent_steps, from which the summarization job and the artifact prompt  *)
(* are written, is an unbroken run of steps that ends with the newest one, *)
(* whatever order checkpoints, errors and answers were logged in.          *)
RecentIsSuffix ==
  \A i \in 1 .. Len(st.recent_steps) :
    st.recent_steps[i] = st.current_step - Len(st.recent_steps) + i

(* The worker is never handed a job while it holds one: submit would raise *)
(* "summarization already in flight", which shell.apply does not catch.    *)
(* The re-tick that answers a submit is the step that could queue another. *)
NoDoubleSubmit == Applying("submit_summarization") => worker.phase = "idle"

\* The steps logged since the last checkpoint, up to step n, that with_step
\* has not evicted from recent_steps by then.
Uncovered(n) == {step \in epoch + 1 .. n : step + MaxRecent > n}

(* What a checkpoint covers.  A job is of every step logged between the    *)
(* last checkpoint and the submit but those a full recent_steps evicted    *)
(* before it (with_step): these are in no checkpoint, and no others are    *)
(* missing from the job.  The recent steps that applying it throws away    *)
(* uncovered (with_summarization) are those logged while it ran, however   *)
(* long it took and whatever was logged meanwhile.                         *)
CheckpointSkipsOnlyEvicted ==
  /\ Applying("submit_summarization") =>
       Head(queue).covers = Uncovered(st.current_step)
  /\ worker.phase # "idle" =>
       \E submitted \in epoch .. st.current_step :
         /\ worker.covers = Uncovered(submitted)
         /\ Range(st.recent_steps) \ worker.covers
              \subseteq submitted + 1 .. st.current_step

(* A run succeeds only on a second task_complete answer in a row: a        *)
(* working answer between two claims withdraws the first one.              *)
SuccessNeedsTwoClaims ==
  [][ st.status # "succeeded" /\ st'.status = "succeeded"
        => claims' >= 2 ]_loopVars

(* A loop that ends in success has written the confirming step to the      *)
(* trajectory: the command the terminal decision queued was still applied  *)
(* (BUG-39 and BUG-41 lost the step).                                      *)
CompletionIsLogged ==
  pc = "returned" /\ outcome = "succeeded" =>
    \E i \in 1 .. Len(trajectory) : trajectory[i].task_complete

(* The loop keeps looking at the terminal: refreshing artifacts and        *)
(* applying checkpoints never takes more than three turns in a row away    *)
(* from observing.                                                         *)
LoopNeverBlind == blind <= 3

(* A run that has failed or succeeded keeps that status, although commands *)
(* still queued are applied and decided on.                                *)
OutcomeIsFinal == st.status = outcome

(* The trajectory's agent step shows the observation its planner answer    *)
(* replied to (shown = 0: the confirmation prompt showed none).            *)
StepShowsItsObservation ==
  \A i \in 1 .. Len(trajectory) :
    trajectory[i].shown # 0 => trajectory[i].observation = trajectory[i].shown
=============================================================================
