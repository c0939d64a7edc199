# Verification of termiclaw

termiclaw runs a coding agent in a tmux session inside a docker container: it
captures the terminal, asks a planner (`claude -p`) what to type, types it, and
repeats until the planner has said twice that the task is done. This directory
holds TLA+ models of that program, the TLC configurations that check them, and
machine-checked (TLAPS) proofs about them. Definitions are translated from
`src/termiclaw/`; `PROJECT.json` gives the lines each one stands for.

## 1. The system

| Part | Source | State it keeps | Operations | Interacts by |
|---|---|---|---|---|
| Functional core | `decide.py`, `state.py`, `agent_core.py` | none (`State` is passed) | one handler per event | returns a new `State` and commands |
| Turn loop and effects | `agent.py` (`_run_turns`, `_drive`), `shell.py` | the command queue, the `State` in hand | start a turn, pop-apply-decide | calls every port |
| Run lifecycle | `agent.py` (`run`) | the outer `state`, the container | image, container, session, row; loop; teardown | docker, files, sqlite |
| Summarization worker | `summarize_worker.py`, `summarizer.py` | one future | submit, poll, idle, shutdown | a thread that calls the planner itself |
| Planner client | `planner.py`, `validate.py` | none; the claude sessions are outside | query with retries, parse, usage | subprocess |
| Terminal | `container.py` | none; the tmux session is outside | send keys, wait for a marker, capture, diff | `docker exec` |
| Persistence | `trajectory.py`, `db.py` | `trajectory.jsonl`, `run.json`, sqlite | append a step, insert and update rows | files, one connection per run |
| Artifacts | `artifacts.py` | four markdown files | refresh | planner, files |
| MCTS | `mcts.py`, `verifier.py` | a tree under a lock, rows | select, simulate, record, back-propagate | threads that call `agent.run` |
| Stall detection | `stall.py` | streaks in the `State` | detect, classify | called by nobody in production |
| Command line, export | `cli.py`, `atif.py`, ... | none | argument parsing, printing | calls the above |

What is hard in this code:

* **The queue.** `_drive` appends what a decision asks for *behind* what was
  queued before. Commands decided on in one state are applied in another, one
  answer's commands interleave with another's, and everything queued is still
  applied after the run has ended. The history of defects (BUG-38 to BUG-41 and
  BUG-43 in `BUGS.md`) is a history of this queue.
* **Three records of the same thing.** The State's counter, the trajectory file
  and the steps table are written one after the other and must agree, also when
  a write fails or Ctrl-C falls between them.
* **The worker thread**, whose result arrives turns after the steps it was
  written from, which resumes the session the main thread is using, and which
  may be running when the run is torn down.
* **Sessions nobody owns.** Which conversation a planner call goes to is decided
  by an id in the State, one in a database row, three flags and the number of
  the attempt; a lost answer leaves claude one step ahead of the program.
* **A terminal that is only ever looked at.** What a command did is inferred from
  captures, of a pane that programs scroll, redraw and clear in the meantime.
* **Failure of everything outside**: a session that dies at any time, a planner
  that times out, a disk that fails, Ctrl-C at any point.
* **Teardown in a `finally` block** that works on a State which may be stale and
  whose own statements may raise.

What makes each part correct:

* *core and loop*: steps are counted once and agree in all three records; the
  recent steps are the newest ones; success takes two claims in a row and is
  logged; a terminal status is final; the loop keeps observing; the worker is
  not handed two jobs.
* *lifecycle*: every run ends, records what it did and releases its container,
  whichever call failed; no ended run is left `active`.
* *worker*: of the steps logged since the last checkpoint, the next one misses
  only those a full `recent_steps` evicted before the submit and those logged
  while the job ran; a job stays in one conversation.
* *planner client*: the session a call resumes exists and holds what the run was
  answered; a fork does not write to its parent; an answer is judged by its shape.
* *terminal*: no output is passed over in silence; the shell runs the lines that
  were asked for, in order; a wait outlives what was agreed by less than one
  poll, and ends when the command has ended.
* *MCTS*: counters add up, the tree's breadth follows the search's policy, and
  the reward is of the container that was worked in.
* *artifacts*: the four files belong to one answer.

## 2. The modules

| Module | Models | Role |
|---|---|---|
| `DecideCore` | `decide.py` and its helpers | pure operators: one per event handler, no variables |
| `AgentLoop` | `_run_turns`, `_drive`, `shell.apply`, the worker, the session | state machine; EXTENDS `DecideCore` |
| `RunLedger` | nothing in particular: what a run promises | abstract specification |
| `AgentRun` | `agent.run`, `_provision_failure` | composes start-up, `AgentLoop` and teardown; implements `RunLedger` |
| `Terminal` | `container.py` and the pane it drives | state machine of one terminal: sender, observer, shell, programs |
| `PlannerReply` | `parse_response`, `extract_usage`, `validate.py` | pure operators over JSON values, with a reference definition |
| `PlannerSessions` | `query_planner`, the other callers of claude, forks | state machine of several runs over claude's sessions; EXTENDS `PlannerReply` |
| `Mcts` | `mcts.py`, what it uses of `verifier.py` and `db.py` | state machine of one search, by itself; implements `SearchLedger` |
| `SearchLedger` | nothing in particular: what a search promises | abstract specification |
| `MCAgentLoop`, `MCAgentRun`, `MCTerminal`, `MCPlannerSessions`, `MCMcts` | - | values of the constants for TLC |
| `DecideCoreProofs`, `AgentLoopProofs`, `AgentRunProofs`, `TerminalProofs`, `PlannerSessionsProofs`, `MctsProofs` | - | theorems and proofs about the module of that name |
| `ChunkProofs` | - | proofs about how `Terminal` cuts keystrokes; `TerminalProofs` EXTENDS it |
| `InductionLemmas` | - | what a recursive function computes, by the least element of a set of naturals |

### DecideCore

`OnLoopTick` is `_on_loop_tick`, `OnObservation` is `_on_observation`, and so on;
each returns `Transition(state, commands)`. `State` keeps the fields of the
dataclass that decisions or records read. A step is its index; a terminal
capture is a number (0: the empty string); a checkpoint is the set of steps
its text was written from. Wording, keystrokes and clocks are left out. Not
translated: `previous_buffer` and the waits (they are in `Terminal`), `stall`
(never written), and the handlers of `SessionDiedEvent` and
`ArtifactsRefreshFailedEvent`, which no production code can reach: nothing
constructs the first and nothing raises the `ArtifactRefreshError` behind the
second.

### AgentLoop

| Variable | In the code |
|---|---|
| `st` | `state` in `_drive` (and `holder.state`) |
| `queue` | `pending` in `_drive` |
| `pc` | `top`: head of the for loop in `_run_turns`; `drive`: head of the while loop in `_drive`; `returned`, `interrupted`, `raised`: how the loop was left |
| `turn` | the loop variable of `_run_turns` |
| `worker` | `_future` of the worker, and its result |
| `session_alive` | what `is_session_alive` would say |
| `trajectory`, `rows` | lines of `trajectory.jsonl`; the `step_index` of each row of `steps` |

`observed`, `answered`, `claims`, `blind`, `epoch` and `outcome` are history
variables that no guard of the code reads (`answered` bounds the planner; `epoch`
is the step counter when the last checkpoint was applied).

`TickSummarized`, `TickSummaryFailed` and `TickLoop` start a turn: poll the
worker, build the event, first `decide`. Each `Apply...` action is one iteration
of the drain: pop the head, do the effect, decide on the event, append the new
commands if the run was active *before* (`Enqueue`). `...Fails` are failures that
become an event; `...Escapes` those that leave the loop as an exception.
`Interrupt` is Ctrl-C between effects and `InterruptLogStep` inside the one effect
that writes two stores. `SessionDies` and `WorkerFinishes` are the other actors.

### AgentRun

`phase` is the statement of `run` the main thread is at, `outer` its local
variable `state`, which `_run_turns` assigns only by returning, `ending` how the
loop was left. `Abort` is `_provision_failure`, whose teardown differs in what it
destroys (`Destroys`). `run` ends `returned`, `raised` (the loop's exception, after
the whole finally block) or `escaped` (an exception of a statement before the
try or in the finally block: the statements after it are skipped). Left out:
Ctrl-C during the finally block, which has the effect of `FinalStoreRaises` at
more places, and the sum of token usage.

### RunLedger

Start a container, append steps, write one final record, release the container.
An orderly record counts exactly the steps in the ledger; the record of an
interrupted or crashed run never counts more. `AgentRun` maps the ledger to
`Len(trajectory)` and the record to `run_json`.

### Terminal

| Variable | In the code |
|---|---|
| `rows` | the pane with its scrollback; a row is a number, a new one each time its text changes, and the command whose marker it shows |
| `input` | the tty: keys typed that nothing has read, lines entered first, the line being edited last |
| `job`, `raw` | the line the shell runs (none at the prompt); whether its program reads keys itself, without echo |
| `pc` | in `send_and_wait_idle`: `typing`, `entering`, `polling`; in `get_incremental_output`: `capturing` between its two captures; else `ready` |
| `command` | the command in hand: its chunks, its wait and, after it, `blocked_ok` |
| `buffer` | `State.previous_buffer` |
| `capture` | the locals of `get_incremental_output` between its captures |

`accounted`, `whole`, `disturbed`, `read` and `spoiled` are history variables.

*Sending.* `BeginSend` cuts the keys with `SplitKeys` and `FindMaxChunkSize`, the
loops of the code as recursive functions; `Narrow` is one round of the binary
search, over the triples of its three local variables (`Spans`). `TypeChunk` and
`PressEnter` are one `docker exec` each; the tty echoes what is typed, marker
included (`Echo`). `keys.rstrip()` strips only what is at the end, so a newline
inside the keystrokes is a key that ends a line (`KeyOf`, `EchoLines`), and one
command may be several lines of which the last carries the marker. `PollSees`,
`PollAgain` and `PollExpires` are the wait. An iteration that begins before the
deadline takes its `docker exec` (at most `MaxExec`, a bound: the code gives it no
timeout) and a whole `PollInterval`, so `PollAgain` may carry the wait past its
budget. `SendFails` is a dead session at any of these.

*Special keys.* They are sent as they are, without marker or wait. `SendEnter` is
a bare Enter (C-m and C-j are others): it enters what is on the line. `SendEdit`
is every key that leaves something on the line being edited or erases from its
end (Up, Down, Tab, Space, BSpace, C-u, ...). `SendInterrupt` is C-c, of the planner
or of `ForceInterruptCmd`. A key that only moves the cursor is the program's own
redraw, one that ends or suspends it (C-d, C-z) its own end.

*The shell.* `ShellReads` takes the first line of what was typed when no program
runs; `JobEnds` prints the marker only for a line that ended with the command's
Enter, and not even then if the shell would not have the line. `ProgramReads` is a
program that reads a line typed ahead, `RawStarts` one that turns echo off and
takes all of it. `PrintRow`, `Redraw` and `Clear` are programs writing, free to act
between any two steps of the client.

*The pane.* A pane whose scrollback is full drops a tenth of it before it scrolls
(`Scrolled`, tmux's own way). `HistoryLimit` is tmux's default and not
`Config.history_limit`: `provision_session` sets the option after `new-session`, and
a window keeps the limit it was made with.

*Observing.* `ObserveNew`, `TakeHistory` and `TakeVisible` are
`get_incremental_output`, of which only the first returns after one capture;
`Captured` includes what `_on_observation` makes of the result. Rows stand for
characters in `capture_tail_bytes`.

### PlannerReply and PlannerSessions

`PlannerReply` translates the parser combinator by combinator (`RequireDict`,
`Required`, `Optional`, `ParseCommand`, ..., `ParseResponse`) over records that
tag each JSON value with its type. `Acceptable` is the reference: what an answer
must look like, said without a parser; `JudgedByShape` compares the two and
relates each parsed command to its place in the answer. `WellFormed` says that
these records stand for JSON: an array is a sequence, a duration a number.

| Variable of `PlannerSessions` | In the code |
|---|---|
| `sessions`, `log` | claude's sessions and the main prompts each one's conversation holds (external) |
| `row` | `claude_session_id` in the `runs` table, written once by `insert_run` |
| `st` | the session fields of each run's `State` |
| `call`, `stdout` | a `query_planner` call: its attempt, its parameters; its result until it is parsed |
| `worker` | the summarization thread: calls left, and the conversation the job was submitted in |

`asked`, `jobs` (the bounds), `answered`, `wrote` and `opening` are history
variables. `StartRun` and `ForkRun` are `agent.run` up to the row, the latter with
the parent session that `cli._fork` and `mcts._parent_state_for_fork` read.
An attempt ends in one of three ways: `AttemptMisses` (claude recorded nothing),
`AttemptLost` (it recorded the prompt, the answer is lost: a timeout) or
`AttemptReplies`; `Retry` and `BuildSessionArgs` say what the next one passes.
`ParseReply` is the success and the failure half of `_apply_query_planner` with
the handler that follows. `WorkerCall` is one of the three calls of a job; it goes
on after `EndRun`, as the thread does.

### Mcts

| Variable | In the code |
|---|---|
| `phase` | where `MctsSearch.run` is: in the pool, returned, or raised |
| `started`, `crashed` | playouts taken from the pool's queue; some future holds an exception |
| `worker` | for each thread: its place in `_playout`, the leaf or the new node, the reward, the nodes still to persist, the counters read for the next row |
| `path` | the parent pointers, as the walk from each node to the root |
| `children`, `visits`, `total`, `best_leaf` | the fields of `Node` (`best_reward` is 1 exactly where `best_leaf` is set) |
| `rows`, `finish` | `mcts_nodes` and the final columns of `mcts_searches` |
| `result` | what `run` returns |

`Select`, `RecordNewNode` and `Backprop` hold the lock and are one step each.
`Simulate` is `agent.run` and the verifier; `ReadVisits`, `ReadReward` and `WriteRow`
are `_persist_node`, which holds none. `PlayoutFails` is the `TermiclawError` that
`_playout` swallows, `PlayoutCrashes` and `PersistCrashes` are exceptions that wait
in a future until `Raise`; `FinishCrashes` is one of `_persist_search_finish`. `scored` and `won` are history variables. UCB1 is a real
number, so `Promising` allows any visited child and forces the first unvisited
one: it has every behaviour of the code and some more. Left out: the variant of a
playout, which does not reach the tree, its fork context (see `PlannerSessions`),
and Ctrl-C in the main thread.

### SearchLedger

Score one run after another, each at most once; close the search with one outcome,
which counts the scored runs and names successful ones if there are any. `Mcts`
maps the outcome to `phase`, `finish` and the best leaf below `result`.

### How the modules fit together

`AgentRun` is the whole of a run, with the planner and the terminal reduced to
what the loop can tell of them: an answer or a failure, an observation, an
acknowledgement. `Terminal` and `PlannerSessions` open these two boxes. They are
not conjoined with the loop: a client of `Terminal` may send and observe in any
order, a run of `PlannerSessions` may query and summarize in any order, so that
each allows every order the loop produces, and what holds of them holds of it.

## 3. What is checked

| Run | Configuration | Expectation | Question |
|---|---|---|---|
| `agent_loop` | `MCAgentLoop` | holds | Does the queue keep the records, the worker and the outcome in order, with every failure at every effect? |
| `agent_run` | `MCAgentRun` | holds | Does every run end, release its container and record what it did? |
| `terminal` | `MCTerminal` | holds | Is output ever skipped or a reset announced for nothing? Do lines reach the shell whole and in order, and waits end? |
| `planner_sessions` | `MCPlannerSessions` | holds | Does every call go to the right conversation, whatever is lost and retried? |
| `mcts` | `MCMcts` | holds | Do threads that share a tree lose or misplace a result? |
| `outcome_is_final` | `OutcomeIsFinal` | violated | Is a failed run failed for good? |
| `step_observation` | `StepObservation` | violated | Does a step carry the observation its answer was to? |
| `loop_starves` | `LoopStarves` | violated | Does a long task go on being observed? |
| `abandoned_record` | `AbandonedRecord` | violated | Is a run that was interrupted or crashed recorded as it was? |
| `final_snapshot` | `FinalSnapshot` | violated | Is the last artifact snapshot best-effort? |
| `marker_echo` | `MarkerEcho` | violated | Does the marker show that a command has finished? |
| `fork_of_fork` | `ForkOfFork` | violated | Does a fork find the conversation of its parent? |

What the passing runs establish, besides a type invariant each:

* `agent_loop`. `StepAccounting`: counter, trajectory and steps table agree while
  the loop runs, and differ by at most the one step under way when it is cut
  short. `RecentIsSuffix`: `recent_steps` is the newest steps without a gap.
  `SuccessNeedsTwoClaims`; `CompletionIsLogged`: and the confirmation is in the
  trajectory. `NoDoubleSubmit`: the worker gets no job while it has one, although
  a submit is answered by a re-tick. `CheckpointSkipsOnlyEvicted`: a job covers the
  steps logged since the last checkpoint, except those that a full `recent_steps`
  evicted before the submit (they are in no checkpoint); what applying it throws
  away uncovered was logged while it ran.
  `LoopNeverBlind`: while the token trigger of the artifact dump is not reached,
  at most three turns in a row pass without an observation.
* `agent_run`. `ReleasedAtEnd`: the container is destroyed however the run ended,
  the exceptions of the finally block itself apart. `RecordMatchesLedger`: after
  an orderly end the four records agree. `EventuallyReleased`: a run ends.
  `ImplementsLedger`: the refinement of `RunLedger`.
* `terminal`. `NoSilentGap`: what the buffer marks as seen was shown, or passed
  over by an announced reset or the first observation. `ResetHasCause`: a reset
  is announced only after a redraw, a clear, a blank row that was filled, the
  oldest rows dropped from a full scrollback, or a capture longer than the tail
  kept. `EnteredInOrder`: every line the shell runs is a whole line of one
  command, the next one of it or the first of a later command, as long as no send
  failed, no program took the keys and no special key edited the line.
  `ChunksAreTight`: what the binary search finds is the longest chunk that fits.
  `WaitIsBounded`: no poll begins past the deadline, so a wait overruns what was
  agreed by less than one iteration, however the planner's duration was given.
* `planner_sessions`. `NoIdReuse`: no session is created twice (BUG-35).
  `ParentIntact`: only a fork whose branching attempt brought no answer writes in
  its parent's conversation. `OneConversation`: the session a run will resume
  holds every prompt the run was answered. `WorkerStaysHome`: the session does
  not move under a job, whose turns read it afresh. `LostStartIsFatal`: a run
  whose first query fails without leaving a session is never answered again.
  `ReplyJudgedByShape`: the parser accepts what `Acceptable` describes, no more
  and no less, and its commands are those of the answer, in order.
* `mcts`. `CountersAddUp`: no reward is lost, doubled or misplaced.
  `BreadthBounded`: a node has at most as many children as the pool has threads,
  because selection never returns to an inner node to widen it; one thread grows
  a chain. `EveryNodePersisted`, `SuccessIsReturned`, `SearchEnds`.
  `ImplementsSearch`: the refinement of `SearchLedger`; no run is scored twice or
  behind the outcome.

Each of these properties has a mutant in `PROJECT.json`: a definition changed as a
plausible bug would change it, under which the same configuration finds the
property violated.

### Bounds

* `agent_loop`: 5 turns, 3 answers of at most 2 commands; a token cost of 0 or 2
  against a threshold of 2; `MaxRecent` 2, so that the ring buffer drops;
  `DumpInterval` 2. Three answers are two claims and something between; five
  turns are submit, run, apply and two more. The dump threshold is out of reach
  (100), as with the default settings on a short run. 2.1 million states.
* `agent_run`: 3 turns, 2 answers of one command: enough for each way of leaving
  the loop to meet each way of leaving the teardown.
* `terminal`: a pane of 2 rows with a scrollback of 2 and a tail of 3, so that it
  scrolls, fills its scrollback, drops from it, and exceeds what is kept; 2
  commands of one text, whose four characters hold a newline and make two chunks
  under `MaxLength` 3, the second a single character wider than a chunk may be; 1
  output of the programs besides echo and markers; durations negative, zero and
  above `MaxDuration`; a poll interval of 2 and an exec of up to 1, against budgets
  of 1 and 3, so that waits overrun. `marker_echo` uses a text that is sent in one
  piece. 7.4 million states.
* `planner_sessions`: 2 runs, each of which may fork the other; 2 retries, 2
  queries, a limit of 2 failures where the code has 3, one job, and one reply of
  each of the 13 kinds the parser tells apart. Runs are interchangeable
  (`SYMMETRY`), which is sound as only safety is checked. `fork_of_fork` has 3 runs
  in a chain. 540 thousand states.
* `mcts`: 2 threads and 3 playouts, so that a thread selects while the other
  records and persists, and a node of depth 2 exists. Containers are kept, for
  otherwise no run earns a reward with the exit code the tasks expect.

Every counter is bounded by a constant, named where it is declared. `Replies`
carry the name of the session that answered, as claude's envelopes do; a reply
without one leaves the State's id alone. They are JSON (`WellFormed`). Both are in
`ReplyAssumption`, which TLC evaluates.

### Fairness

* `AgentRun`: weak fairness of `MainThread`, the disjunction of the steps of the
  one thread that runs `run`. It never waits for a condition another actor must
  make true: `poll` does not block and `shutdown(wait=False)` returns at once.
  That each effect returns is an assumption: planner calls have a timeout, the
  docker commands have none. Nothing is assumed of the worker, of the session's
  death or of Ctrl-C. `EventuallyReleased` is about the end of `run`; the
  interpreter still waits for the worker's thread afterwards.
* `Mcts`: weak fairness of each thread, and of `run` when its futures are done.
  `agent.run` is bounded by its turns, the verifier and sqlite by timeouts.
* `Terminal` and `PlannerSessions` state safety only and assume nothing.

## 4. What is proved

Theorems hold for every value of the constants that satisfies the modules'
assumptions (thresholds and bounds are naturals, sets of faults are subsets of
the kinds, and the like). They say nothing of runs whose calls the model leaves
out (see "Not modelled").

| Module | Theorem | Property |
|---|---|---|
| `AgentLoopProofs` | `TypeCorrect` | `TypeOK` |
| | `StepAccountingHolds` | `StepAccounting` |
| | `RecentIsSuffixHolds` | `RecentIsSuffix` |
| | `SuccessNeedsTwoClaimsHolds` | `SuccessNeedsTwoClaims` |
| | `NoDoubleSubmitHolds` | `NoDoubleSubmit` |
| | `CompletionIsLoggedHolds` | `CompletionIsLogged` |
| | `CheckpointSkipsOnlyEvictedHolds` | `CheckpointSkipsOnlyEvicted` |
| | `LoopNeverBlindHolds` | `LoopNeverBlind`, under two conditions |
| `DecideCoreProofs` | `LastOfProperties` | what the ring buffer keeps |
| `AgentRunProofs` | `RunTypesHold` | `RunTypeOK` |
| | `ContainersAreReleased` | `ReleasedAtEnd` |
| | `RunStepAccountingHolds` | `StepAccounting`, of the whole run |
| | `RecordsMatchLedgers` | `RecordMatchesLedger` |
| | `RunImplementsLedger` | `ImplementsLedger` |
| `TerminalProofs` | `WaitsAreBounded` | `WaitIsBounded` |
| | `NoGapIsSilent` | `NoSilentGap` |
| | `ResetsHaveACause` | `ResetHasCause` |
| | `TerminalTypesHold` | `TerminalTypeOK` |
| | `EnteredHolds` | `EnteredInOrder` |
| | `ChunksHold` | `ChunksAreTight` |
| `ChunkProofs` | `LargestIsFound` | the binary search finds the largest prefix that fits |
| | `CutIsTheCommand` | the chunks are the command, cut where they must be |
| `PlannerSessionsProofs` | `SessionsTypesHold` | `SessionsTypeOK` |
| | `IdsAreNotReused` | `NoIdReuse` |
| | `ParentsAreIntact` | `ParentIntact` |
| | `ConversationIsOne` | `OneConversation` |
| | `JobsStayHome` | `WorkerStaysHome` |
| | `LostStartsAreFatal` | `LostStartIsFatal` |
| | `RepliesAreJudgedByShape` | `ReplyJudgedByShape` |
| `MctsProofs` | `MctsTypeCorrect` | `MctsTypeOK` |
| | `CountersHold` | `CountersAddUp` |
| | `BreadthIsBounded` | `BreadthBounded` |
| | `NodesPersisted` | `EveryNodePersisted` |
| | `SuccessReturned` | `SuccessIsReturned` |
| | `SearchImplementsLedger` | `ImplementsSearch` |

### The loop

Most actions are "apply the head of the queue and decide on the event", so
`DecideCoreProofs` states once what each handler returns and
`AgentLoopProofs` reduces the steps of `Next` to a few cases that the
invariants distinguish (`StepCases`, `QuietStep`).

* `StepAccounting` and `RecentIsSuffix` are nearly inductive: the first needs the
  type invariant, the second the first.
* `SuccessNeedsTwoClaims` is not: `PendingIsClaimed` adds that a pending
  confirmation was claimed by the last answer.
* `NoDoubleSubmit` follows from `SubmitIsNext`: a queued submit is at the head of
  the queue, the worker still idle; `RedecideDrainsSubmit` shows
  that the re-tick never queues a second one.
* `CompletionIsLogged` follows from `CompletionInv`: in a loop that has succeeded
  the confirming step is written or still queued, and the queue is empty when the
  loop is left. It is here that what is decided *while* a run is active, and
  drained afterwards, matters.
* `CheckpointSkipsOnlyEvicted` follows from `CheckpointInv`: a queued job is the
  recent steps of this moment, since nothing is logged between the decision and
  the submit; `recent_steps` holds all that was logged since the last checkpoint,
  or `MaxRecent` of it (`RingInv`), which with `RecentIsSuffix` makes it the
  uncovered steps (`RecentIsUncovered`); and a job in flight is the uncovered steps
  of an earlier moment since then (`JobInv`).
* `LoopNeverBlind` is not true for all values of the constants (`loop_starves`).
  The theorem asks for an interval of at least 2 and tokens that stay below the
  dump threshold. `BlindInv` then says what may lie behind a turn: a refresh
  moves on to a step that is not due, a checkpoint leaves the worker idle until
  a turn observes, so refresh, checkpoint, refresh is the longest row.

### The run

`RunInv` is the loop's invariant, kept for the steps of the loop and frozen by
those around it, together with what holds at each statement of `run`: before the
loop nothing is recorded (`StartInv`), in the teardown the outer State is the
loop's exactly if it returned (`EndingInv`), and the row repeats the file once
both are written (`RecordInv`). The refinement theorem maps initial states to
initial states and every step of `AgentRun` to a step of `RunLedger` or a
stutter.

### The terminal

`TerminalInv` says that the budget is the clamped duration and that a wait began
its last iteration within it (`WaitInv`), that between the two captures of a screen
the history taken first shows nothing the buffer lacks (`AccountInv`), and that as
long as nothing was disturbed the capture in hand, and then the buffer, is a prefix
of the history (`PrefixInv`), which is what `get_incremental_output` compares.
These need no types: rows may be anything.

What the shell is given is a second invariant, `TypeInv /\ TypingInv`. The types of
the pane depend on what is typed, since a finished line prints its marker, so
they are proved together. `Sending` says that the chunks left are the command
from its p-th character on (`CutFrom`). `Clean`, which holds until something was
lost (`spoiled`), is about the keys in a row from the last one the shell has done
with (`read`), over the line it runs (`job`), to the ones nobody has read (`input`):
each follows the one before it (`InOrder`, `LineOK`), none is of a command not sent
yet (`Known`), and the last is the key before the p-th, or ends a line of an
earlier command (`Ready`). A chunk typed takes the head of the cut (`CutShrinks`)
and carries the row on by its characters (`TypedInOrder`); Enter finds p past the
end. `EnteredInOrder` and `ChunksAreTight` follow.

### The cut

`CutFrom(chunks, no, w, p)`: each chunk is characters of the command in a row, fits
or is a single one, starts where the one before it ends, and could not have been
longer. `SplitKeys` and `FindMaxChunkSize` are recursive functions, and as such a
CHOOSE: nothing is known of them until a function is shown to satisfy the
equation. `RecursionDefined` in `InductionLemmas` does that for every loop whose
state decreases in a measure. The library's induction theorems take an operator
and cannot be used here, so it rests on `Least`: a set of naturals has a least
element, which the library states of a relation, without an operator.
`MeasureInduction` then proves that all of the domain is in the set of states for
which the loop does what it should. The invariant of the binary search is
`SpanInv`: what has been tried and fits is the result so far, what is above the
span does not fit. At its end the span is empty and the two meet, so the proof
never needs that longer prefixes are larger; of a sum it needs that it is a number,
and what it is for at most two widths (`BytesFacts`), for a character that is wider
than a chunk makes one by itself.

### The sessions

`SessionsInv` is one invariant of the shared sessions (`ClaudeInv`) and one of each
run: its call, its streak of failures, its first query, what it has not opened
yet, whether it writes abroad, its log and its worker. A step is of one run and
only adds to what claude holds (`RecordEffect`), which is why the other runs keep
theirs (`OthersKeep`); there is one lemma for each action.

How an answer is judged is a fact about every JSON value, and is proved function
by function from the combinators up (`RequiredFacts`, `ParseItemFacts`,
`ExtractFacts`, `BodyFacts`, `ResponseFacts`); `FirstErr` returns the first error,
which exists by `Least`. The assumption it needs is that `Replies` are JSON
(`WellFormed`).

### The search

`TypeInv` makes the pointers of each recorded node a walk to the root; `CountInv`
adds the nodes a thread is about to record or score; `BreadthInv` says that
the children of a node and the threads still heading for it are together at most
as many as there are threads (each thread counts once, `OneThread`); `RowInv` that a node without a row is on the list
of some thread; `SuccessInv` that the best leaf of a node is below it.
`BelowAdd` is the step of the counters: one more run below each node of a path.
The refinement of `SearchLedger` needs all of them: `Backprop` scores a run no
thread has scored (`CountInv`), `Finish` counts them all, since the pool is idle and
every recorded run is scored (`RowInv`), and names successes (`SuccessInv`); every
other step is a stutter.

### Only model-checked

Every invariant and every action property of the passing runs, and both
refinements, are theorems (`LoopNeverBlind` with the conditions above).
`EventuallyReleased` and `SearchEnds` are left to TLC:
liveness under fairness is outside the prover's reach.

## 5. Where code and documents differ

Each has a run that ends in a violation of what the document says; `PROJECT.json`
quotes the lines.

1. A run that failed on a keystroke send can still become succeeded, as its queue
   is drained (`outcome_is_final`).
2. After a summarization submit a turn observes twice, and its steps carry
   another answer's observation, or none (`step_observation`).
3. Past the token threshold of the artifact dump each turn only refreshes
   artifacts, until `max_turns` (`loop_starves`).
4. A loop that does not return is recorded from the State of before the loop:
   Ctrl-C records zero steps, an exception leaves the run `active`
   (`abandoned_record`).
5. A reply to the final snapshot that is no JSON object leaves the finally block:
   no record, and the container keeps running (`final_snapshot`).
6. The marker is found in the echo of the command line that prints it, before the
   command has run (`marker_echo`).
7. A fork of a fork branches from an id that was minted and never created
   (`fork_of_fork`).

Seen while translating, without a run:

* New commands are appended to the queue; SPEC.md:84 says they are prepended.
* A turn may query the planner several times; SPEC.md:91 says once.
* Stall detection (SPEC.md:94, SPEC.md:171) is called by nobody.
* The first `task_complete` claim is never logged as a step of its own.
* A run whose provisioning fails leaves a `run.json` but no row.
* `get_incremental_output` also announces a reset past `capture_tail_bytes`, on a
  pane that is not yet full, and when a prompt line is redrawn; its docstring
  (container.py:361-364) gives fewer causes.
* The timeout notice names `blocking_max_seconds` while the wait was the command's
  own duration (agent_core.py:80-87, agent_core.py:130-136, planner.py:79).
* The comments at decide.py:367 and decide.py:372 say that the shell fills in the
  job's full trajectory text and screen before the submit; it does not.
* `history_limit` is set after the window exists (container.py:143-173) and has no
  effect on it: the pane keeps tmux's 2000 lines, drops the oldest beyond, and
  the next observation of a short-rowed pane is a reset.
* A wait overruns its duration by up to one iteration (container.py:339-343): the
  prompt's 0.1 s is at least the poll interval of 0.5 s.
* Newlines inside keystrokes are entered one by one, without a marker of their own
  (container.py:330), and the shell may begin the first line while the rest is
  still being typed.
* The special keys edit or enter the line without a marker (container.py:320-328),
  so that what the next command is typed behind is not always a prompt.
* A line the shell rejects with the suffix on it (empty keystrokes, a heredoc's
  end) prints no marker at all; what the poll finds is its echo.
* A failed send leaves what was typed on the line, for the next command to follow.
* Steps that a full `recent_steps` evicts before a submit (state.py:94) are in no
  checkpoint.
* With a schema the envelope's `result` is empty, so the texts of a summary are too.
* A fork's retry writes in the parent's conversation and the child adopts its id;
  a lost first attempt leaves the run unanswerable.
* `total_prompt_tokens` in the `runs` row is what a checkpoint's reset has left
  (agent.py:170).
* The export reads `claude_session_id` from `run.json` (atif.py:105), where
  `write_run_metadata` never puts it.
* The root row of an MCTS search has the same key in every search, a row may be
  overwritten by an overtaken thread's older counters (mcts.py:205), and a
  playout is scored in a container that `run` has destroyed (mcts.py:274).

### Not modelled

* **Artifacts.** A refresh is one step. The four files are replaced one by one, but
  nothing in the program compares them.
* **Stall detection.** A pure function that no production code calls.
* **Ports and default adapters.** Protocols and delegation of one line each; their
  effects are in the actions that apply them.
* **Command line.** Except for the session a `run` or `fork` starts from: argument
  parsing, printing, read-only queries.
* **Export and logging.** Data layout.
* **Database**: listings, tags, failure queries and the schema's migration, none of
  which the loop reads.
* **Verifier**: reading the task file. Its verdict is an input of `Mcts`.
* **Terminal**: `attach`, which gives the terminal to a person, and
  `truncate_output`, which shortens a text.
* **Ctrl-C** in the finally block of `run` and in the main thread of a search.

## 6. Plan

* Two searches over one `mcts_nodes` table, and Ctrl-C in the main thread of one.
* The partial writes of an artifact refresh, should a document come to promise
  that the files belong together.
