--------------------------- MODULE AgentRunProofs ---------------------------
(***************************************************************************)
(* Proofs about AgentRun: the loop's theorems carry over to the run around *)
(* it, the run's record agrees with its ledgers and its container is       *)
(* released, and the run implements RunLedger.                             *)
(***************************************************************************)
EXTENDS AgentRun, AgentLoopProofs

Starting == {"image", "container", "session", "insert"}
Closing == {"shutdown", "snapshot", "metadata", "update", "destroy"}
LoopEnds == {"returned", "interrupted", "raised"}

\* No handler cancels a run, and a loop returns only with a final status.
StatusInv ==
  /\ st.status # "cancelled"
  /\ pc = "returned" => st.status # "active"

LoopInv == TypeOK /\ StepAccounting /\ StatusInv

StartInv ==
  /\ phase \in Starting => /\ ending = "none"
                           /\ run_json = NoRecord /\ db_row = NoRecord
                           /\ trajectory = <<>>
  /\ phase \in {"image", "container"} => container = "none"
  /\ phase \in {"session", "insert"} => container = "running"

\* What is torn down, and which State the record is written from.
EndingInv ==
  /\ phase = "loop" => ending = "none"
  /\ phase \in {"shutdown", "snapshot"} => ending \in LoopEnds
  /\ phase \in Closing \cup {"returned", "raised"} => ending # "none"
  /\ ending # "returned" => outer.current_step = 0
  /\ ending \in {"none", "raised"} => outer.status = "active"
  /\ ending = "interrupted" => outer.status = "cancelled"
  /\ ending = "aborted" => outer.status = "failed" /\ trajectory = <<>>
  /\ ending = "returned" => pc = "returned" /\ outer = st

RecordInv ==
  /\ phase \in {"shutdown", "snapshot", "metadata"} => run_json = NoRecord
  /\ phase \in {"update", "destroy", "returned", "raised"}
       => run_json = FinalRecord(outer)
  /\ phase \in Closing /\ ending # "aborted"
       => container = "running" /\ db_row # NoRecord
  /\ phase \in {"destroy", "returned", "raised"} /\ ending # "aborted"
       => db_row = FinalRecord(outer)

RunInv ==
  /\ LoopInv
  /\ RunTypeOK
  /\ StartInv
  /\ EndingInv
  /\ RecordInv
  /\ ReleasedAtEnd

-----------------------------------------------------------------------------
(* What the loop's steps do to the run.                                    *)

(* A planner answer never cancels a run (decide._on_planner_responded).    *)
LEMMA AnswerStatus ==
  ASSUME NEW s \in State, NEW answer, NEW shown
  PROVE  OnPlannerResponded(s, answer, shown).state.status
           \in {s.status, "succeeded"}
<1> DEFINE a == AdoptAnswer(s, answer)
<1>1. a.status = s.status /\ a.pending_completion = s.pending_completion
        /\ "status" \in DOMAIN a /\ "pending_completion" \in DOMAIN a
  BY DEF AdoptAnswer, State
<1> HIDE DEF a
<1>2. HandleCompletion(a, shown).state.status \in {a.status, "succeeded"}
  BY <1>1 DEF HandleCompletion, Transition
<1>3. [a EXCEPT !.pending_completion = FALSE, !.last_observation = 0].status
        = a.status
  BY <1>1
<1> QED BY <1>1, <1>2, <1>3 DEF OnPlannerResponded, Transition, a

LEMMA StatusStep ==
  ASSUME TypeOK, StatusInv, [Next]_loopVars
  PROVE  StatusInv'
<1>1. st \in State /\ st \in BoundedState
  BY DEF TypeOK, BoundedState
<1>2. st'.status \in {st.status, "failed", "succeeded"}
  <2>1. CASE QuietStep
    BY <2>1 DEF QuietStep
  <2>2. CASE QueryAnswered
    BY <2>2, <1>1, AnswerStatus DEF QueryAnswered, Redecide
  <2>3. CASE ApplyLogStep
    BY <2>3, <1>1, OnStepLoggedProperties DEF ApplyLogStep, Redecide
  <2>4. CASE LogStepEscapes \/ InterruptLogStep
    BY <2>4 DEF LogStepEscapes, Raise, InterruptLogStep
  <2> QED BY <2>1, <2>2, <2>3, <2>4, StepCases
<1>3. pc' = "returned" => st'.status # "active"
  <2>1. CASE EndTurn
    BY <2>1 DEF EndTurn
  <2>2. CASE TurnsExhausted
    <3>1. st'.status = "failed"
      BY <1>1, <2>2 DEF TurnsExhausted, WithStatus, State
    <3> QED BY <3>1
  <2>3. CASE TickSummarized \/ TickSummaryFailed \/ TickLoop
    BY <2>3 DEF TickSummarized, TickSummaryFailed, TickLoop, StartTurn
  <2>4. CASE \/ ApplyObserve \/ ApplySendKeys \/ SendKeysFails \/ QueryAnswered
             \/ QueryFails \/ ApplySubmit \/ ApplyRefreshArtifacts
             \/ ApplyLogStep
    BY <2>4 DEF ApplyObserve, ApplySendKeys, SendKeysFails, QueryAnswered,
       QueryFails, ApplySubmit, ApplyRefreshArtifacts, ApplyLogStep, Redecide,
       Applying
  <2>5. CASE ObserveEscapes \/ RefreshEscapes \/ LogStepEscapes
    BY <2>5 DEF ObserveEscapes, RefreshEscapes, LogStepEscapes, Raise
  <2>6. CASE Interrupt \/ InterruptLogStep
    BY <2>6 DEF Interrupt, InterruptLogStep
  <2>7. CASE SessionDies \/ WorkerFinishes \/ UNCHANGED loopVars
    BY <2>7 DEF SessionDies, WorkerFinishes, loopVars, StatusInv
  <2> QED BY <2>1, <2>2, <2>3, <2>4, <2>5, <2>6, <2>7
          DEF Next, LoopNext, MainStep, BesideStep, Finished
<1> QED BY <1>2, <1>3 DEF StatusInv

LEMMA LoopInvStep ==
  ASSUME LoopInv, [Next]_loopVars
  PROVE  LoopInv'
BY NextType, StepAccountingNext, StatusStep DEF LoopInv

(* Outside the loop only the summarization thread is still let go.         *)
LEMMA LoopInvFrame ==
  ASSUME LoopInv,
         UNCHANGED <<st, queue, pc, turn, session_alive, stores, history>>,
         worker' \in {worker, IdleWorker}
  PROVE  LoopInv'
<1>1. worker' \in [phase : WorkerPhase, covers : SUBSET Nat]
  BY DEF LoopInv, TypeOK, IdleWorker, WorkerPhase
<1>2. TypeOK'
  BY <1>1 DEF LoopInv, TypeOK, stores, history
<1>3. StepAccounting' /\ StatusInv'
  BY DEF LoopInv, StepAccounting, StatusInv, stores
<1> QED BY <1>2, <1>3 DEF LoopInv

(* One step of the loop writes at most one StepRecord.                     *)
LEMMA LedgerStep ==
  ASSUME TypeOK, [Next]_loopVars
  PROVE  \/ trajectory' = trajectory
         \/ Len(trajectory') = Len(trajectory) + 1
<1>1. CASE QuietStep
  BY <1>1 DEF QuietStep
<1>2. CASE QueryAnswered
  BY <1>2 DEF QueryAnswered, stores
<1>3. CASE ApplyLogStep \/ LogStepEscapes \/ InterruptLogStep
  <2>1. queue # <<>> /\ Head(queue).op = "log_step"
    BY <1>3 DEF ApplyLogStep, LogStepEscapes, InterruptLogStep, Applying
  <2>2. Head(queue).step \in StepRecord
    BY <2>1, HeadOfQueue
  <2>3. Len(Append(trajectory, Head(queue).step)) = Len(trajectory) + 1
    BY <2>2, AppendProperties DEF TypeOK
  <2>4. trajectory' \in {trajectory, Append(trajectory, Head(queue).step)}
    BY <1>3 DEF ApplyLogStep, LogStepEscapes, InterruptLogStep
  <2> QED BY <2>3, <2>4
<1> QED BY <1>1, <1>2, <1>3, StepCases

-----------------------------------------------------------------------------
(* The invariant.                                                          *)

LEMMA WithStatusFacts ==
  ASSUME NEW s \in State, NEW status \in RunStatus
  PROVE  /\ WithStatus(s, status) \in State
         /\ WithStatus(s, status).status = status
         /\ WithStatus(s, status).current_step = s.current_step
BY DEF WithStatus, State

LEMMA FinalRecordFacts ==
  ASSUME NEW s \in State
  PROVE  /\ FinalRecord(s) \in [status : RunStatus \cup {"none"},
                                total_steps : Nat]
         /\ FinalRecord(s).status = s.status
         /\ FinalRecord(s) # NoRecord
<1>1. s.status \in RunStatus /\ s.current_step \in Nat
  BY DEF State
<1>2. FinalRecord(s).status = s.status
  BY DEF FinalRecord
<1>3. s.status # "none" /\ NoRecord.status = "none"
  BY <1>1 DEF RunStatus, NoRecord
<1> QED BY <1>1, <1>2, <1>3 DEF FinalRecord

LEMMA InitRunInv == RunInit => RunInv
<1> SUFFICES ASSUME RunInit PROVE RunInv
  OBVIOUS
<1>1. PICK forked \in BOOLEAN : st = InitialState(forked)
  BY DEF RunInit, LoopInit
<1>2. /\ st \in State /\ st.status = "active" /\ st.current_step = 0
      /\ outer = st /\ pc = "top" /\ trajectory = <<>>
  BY <1>1, InitialStateType DEF RunInit, LoopInit, InitialState, BoundedState
<1>3. LoopInv
  <2>1. StepAccounting
    BY <1>2 DEF RunInit, LoopInit, StepAccounting
  <2>2. StatusInv
    BY <1>2 DEF StatusInv
  <2> QED BY <2>1, <2>2, InitType DEF LoopInv, RunInit
<1>4. RunTypeOK
  BY <1>2 DEF RunInit, RunTypeOK, NoRecord
<1>5. StartInv /\ EndingInv /\ RecordInv /\ ReleasedAtEnd
  BY <1>2 DEF RunInit, StartInv, EndingInv, RecordInv, ReleasedAtEnd, Starting,
              Closing, LoopEnds
<1> QED BY <1>3, <1>4, <1>5 DEF RunInv

(* A step of the loop happens only in the loop, where nothing is recorded. *)
LEMMA LoopStepKeeps ==
  ASSUME RunInv, LoopStep
  PROVE  RunInv'
<1>1. /\ phase = "loop" /\ LoopNext
      /\ UNCHANGED <<phase, ending, outer, container, run_json, db_row>>
  BY DEF LoopStep, ownVars
<1>2. LoopInv'
  BY <1>1, LoopInvStep DEF RunInv, Next
<1>3. RunTypeOK' /\ StartInv' /\ EndingInv' /\ RecordInv' /\ ReleasedAtEnd'
  BY <1>1 DEF RunInv, RunTypeOK, StartInv, EndingInv, RecordInv, ReleasedAtEnd,
              Starting, Closing
<1> QED BY <1>2, <1>3 DEF RunInv

LEMMA StartupKeeps ==
  ASSUME RunInv, Startup \/ InsertRaises \/ InterruptStartup
  PROVE  RunInv'
<1>0. /\ LoopInv /\ RunTypeOK /\ StartInv /\ EndingInv /\ RecordInv
      /\ ReleasedAtEnd /\ outer \in State
  BY DEF RunInv, RunTypeOK
<1>1. loopVars' = loopVars
  BY DEF Startup, InsertRaises, InterruptStartup, EnsureImage, ImageFails,
     ProvisionContainer, ProvisionFails, ProvisionSession, SessionFails,
     InsertRun, Proceed, Abort
<1>2. /\ UNCHANGED <<st, queue, pc, turn, session_alive, stores, history>>
      /\ worker' = worker
  BY <1>1 DEF loopVars, stores, history
<1>3. LoopInv' /\ st' = st /\ pc' = pc /\ trajectory' = trajectory
  <2>1. LoopInv'
    BY <1>0, <1>2, LoopInvFrame
  <2> QED BY <1>2, <2>1 DEF stores
<1>4. CASE EnsureImage \/ ProvisionContainer \/ ProvisionSession
  <2>1. /\ phase' \in Starting /\ phase \in Starting
        /\ UNCHANGED <<ending, outer, run_json, db_row>>
        /\ container' \in {"none", "running"} \cup {container}
        /\ phase' \in {"image", "container"} => container' = "none"
        /\ phase' \in {"session", "insert"} => container' = "running"
    BY <1>0, <1>4 DEF EnsureImage, ProvisionContainer, ProvisionSession, Proceed,
       Starting, StartInv
  <2>2. RunTypeOK'
    BY <1>0, <2>1 DEF RunTypeOK, Starting
  <2>3. StartInv' /\ EndingInv'
    BY <1>0, <1>3, <2>1 DEF StartInv, EndingInv, Starting, Closing
  <2>4. RecordInv' /\ ReleasedAtEnd'
    BY <2>1 DEF RecordInv, ReleasedAtEnd, Starting, Closing
  <2> QED BY <1>3, <2>2, <2>3, <2>4 DEF RunInv
<1>5. CASE InsertRun
  <2>1. /\ phase = "insert" /\ phase' = "loop"
        /\ UNCHANGED <<ending, outer, run_json, container>>
        /\ db_row' = [status |-> outer.status, total_steps |-> 0]
    BY <1>5 DEF InsertRun, Proceed
  <2>2. ending = "none" /\ container = "running" /\ run_json = NoRecord
    BY <1>0, <2>1 DEF StartInv, Starting
  <2>3. outer.status = "active"
    BY <1>0, <2>2 DEF EndingInv
  <2>4. /\ db_row' = [status |-> "active", total_steps |-> 0]
        /\ db_row' \in [status : RunStatus \cup {"none"}, total_steps : Nat]
    BY <2>1, <2>3 DEF RunStatus
  <2>5. RunTypeOK'
    BY <1>0, <2>1, <2>2, <2>4 DEF RunTypeOK
  <2>6. StartInv' /\ EndingInv'
    BY <1>0, <1>3, <2>1, <2>2 DEF StartInv, EndingInv, Starting, Closing
  <2>7. RecordInv' /\ ReleasedAtEnd'
    BY <2>1 DEF RecordInv, ReleasedAtEnd, Closing
  <2> QED BY <1>3, <2>5, <2>6, <2>7 DEF RunInv
<1>6. CASE ImageFails \/ ProvisionFails \/ SessionFails
  <2>1. /\ phase \in Starting /\ phase' = "metadata" /\ ending' = "aborted"
        /\ outer' = WithStatus(outer, "failed")
        /\ UNCHANGED <<container, run_json, db_row>>
    BY <1>6 DEF ImageFails, ProvisionFails, SessionFails, Abort, Starting
  <2>2. /\ outer' \in State /\ outer'.status = "failed"
        /\ outer'.current_step = outer.current_step
    BY <1>0, <2>1, WithStatusFacts DEF RunStatus
  <2>3. ending = "none" /\ run_json = NoRecord /\ trajectory = <<>>
    BY <1>0, <2>1 DEF StartInv
  <2>4. outer.current_step = 0
    BY <1>0, <2>3 DEF EndingInv
  <2>5. RunTypeOK'
    BY <1>0, <2>1, <2>2 DEF RunTypeOK
  <2>6. StartInv' /\ EndingInv'
    BY <1>3, <2>1, <2>2, <2>3, <2>4 DEF StartInv, EndingInv, Starting, Closing
  <2>7. RecordInv' /\ ReleasedAtEnd'
    BY <2>1, <2>3 DEF RecordInv, ReleasedAtEnd, Closing
  <2> QED BY <1>3, <2>5, <2>6, <2>7 DEF RunInv
<1>7. CASE InsertRaises \/ InterruptStartup
  <2>1. /\ phase \in Starting /\ phase' = "escaped"
        /\ UNCHANGED <<ending, outer, run_json, db_row>>
        /\ container' \in {container, "running"}
    BY <1>7 DEF InsertRaises, InterruptStartup, Proceed, Starting
  <2>2. ending = "none"
    BY <1>0, <2>1 DEF StartInv
  <2>3. RunTypeOK'
    BY <1>0, <2>1 DEF RunTypeOK
  <2>4. StartInv' /\ EndingInv'
    BY <1>0, <1>3, <2>1, <2>2 DEF StartInv, EndingInv, Starting, Closing
  <2>5. RecordInv' /\ ReleasedAtEnd'
    BY <2>1 DEF RecordInv, ReleasedAtEnd, Closing
  <2> QED BY <1>3, <2>3, <2>4, <2>5 DEF RunInv
<1> QED BY <1>4, <1>5, <1>6, <1>7 DEF Startup

LEMMA LeaveLoopKeeps ==
  ASSUME RunInv, LeaveLoop
  PROVE  RunInv'
<1>0. /\ LoopInv /\ RunTypeOK /\ StartInv /\ EndingInv /\ RecordInv
      /\ outer \in State /\ st \in State
  BY DEF RunInv, RunTypeOK, LoopInv, TypeOK
<1>1. /\ phase = "loop" /\ phase' = "shutdown" /\ Stopped
      /\ ending' = pc
      /\ outer' = CASE pc = "returned"    -> st
                    [] pc = "interrupted" -> WithStatus(outer, "cancelled")
                    [] pc = "raised"      -> outer
      /\ UNCHANGED <<loopVars, container, run_json, db_row>>
  BY DEF LeaveLoop
<1>2. /\ UNCHANGED <<st, queue, pc, turn, session_alive, stores, history>>
      /\ worker' = worker
  BY <1>1 DEF loopVars, stores, history
<1>3. LoopInv' /\ st' = st /\ pc' = pc
  <2>1. LoopInv'
    BY <1>0, <1>2, LoopInvFrame
  <2> QED BY <1>2, <2>1
<1>4. /\ container = "running" /\ run_json = NoRecord /\ ending = "none"
      /\ db_row = [status |-> "active", total_steps |-> 0]
      /\ outer.status = "active" /\ outer.current_step = 0
  BY <1>0, <1>1 DEF RunTypeOK, EndingInv
<1>5. pc \in LoopEnds
  BY <1>1 DEF Stopped, LoopEnds
<1>6. /\ outer' \in State
      /\ pc = "returned" => outer' = st
      /\ pc # "returned" => outer'.current_step = 0
      /\ pc = "interrupted" => outer'.status = "cancelled"
      /\ pc = "raised" => outer'.status = "active"
  <2>1. CASE pc = "returned"
    BY <1>0, <1>1, <2>1
  <2>2. CASE pc = "interrupted"
    <3>1. outer' = WithStatus(outer, "cancelled")
      BY <1>1, <2>2
    <3> QED BY <1>0, <1>4, <2>2, <3>1, WithStatusFacts DEF RunStatus
  <2>3. CASE pc = "raised"
    <3>1. outer' = outer
      BY <1>1, <2>3
    <3> QED BY <1>0, <1>4, <2>3, <3>1
  <2> QED BY <1>5, <2>1, <2>2, <2>3 DEF LoopEnds
<1>7. RunTypeOK'
  BY <1>0, <1>1, <1>5, <1>6 DEF RunTypeOK, LoopEnds
<1>8. StartInv' /\ EndingInv'
  BY <1>1, <1>3, <1>5, <1>6 DEF StartInv, EndingInv, Starting, Closing, LoopEnds
<1>9. RecordInv'
  <2>1. db_row # NoRecord
    BY <1>4 DEF NoRecord
  <2> QED BY <1>1, <1>4, <2>1 DEF RecordInv, Closing
<1>10. ReleasedAtEnd'
  BY <1>1 DEF ReleasedAtEnd
<1> QED BY <1>3, <1>7, <1>8, <1>9, <1>10 DEF RunInv

LEMMA TeardownKeeps ==
  ASSUME RunInv, Teardown
  PROVE  RunInv'
<1>0. /\ LoopInv /\ RunTypeOK /\ StartInv /\ EndingInv /\ RecordInv
      /\ ReleasedAtEnd /\ outer \in State
  BY DEF RunInv, RunTypeOK
<1>1. CASE LeaveLoop
  BY <1>1, LeaveLoopKeeps
<1>2. SUFFICES ASSUME ~LeaveLoop PROVE RunInv'
  BY <1>1
<1>3. /\ UNCHANGED <<st, queue, pc, turn, session_alive, stores, history>>
      /\ worker' \in {worker, IdleWorker}
      /\ UNCHANGED <<ending, outer>>
      /\ phase \in Closing
      /\ phase' \in Closing \cup {"returned", "raised", "escaped"}
  BY <1>2 DEF Teardown, ShutdownWorker, FinalSnapshot, FinalSnapshotRaises,
     WriteRunMetadata, UpdateRun, FinalStoreRaises, DestroyContainer, Proceed,
     loopVars, stores, history, Closing
<1>4. LoopInv' /\ st' = st /\ pc' = pc /\ trajectory' = trajectory
  <2>1. LoopInv'
    BY <1>0, <1>3, LoopInvFrame
  <2> QED BY <1>3, <2>1 DEF stores
<1>5. ending # "none"
  BY <1>0, <1>3 DEF EndingInv
<1>6. StartInv'
  BY <1>3 DEF StartInv, Starting, Closing
<1>7. FinalRecord(outer) \in [status : RunStatus \cup {"none"}, total_steps : Nat]
        /\ FinalRecord(outer) # NoRecord
  BY <1>0, FinalRecordFacts
<1>8. CASE ShutdownWorker
  <2>1. /\ phase = "shutdown" /\ phase' = "snapshot"
        /\ UNCHANGED <<container, run_json, db_row>>
    BY <1>8 DEF ShutdownWorker
  <2>2. RunTypeOK'
    BY <1>0, <1>3, <2>1 DEF RunTypeOK
  <2>3. EndingInv'
    BY <1>0, <1>3, <1>4, <2>1 DEF EndingInv, Closing
  <2>4. RecordInv' /\ ReleasedAtEnd'
    BY <1>0, <1>3, <2>1 DEF RecordInv, ReleasedAtEnd, Closing
  <2> QED BY <1>4, <1>6, <2>2, <2>3, <2>4 DEF RunInv
<1>9. CASE FinalSnapshot
  <2>1. /\ phase = "snapshot" /\ phase' = "metadata"
        /\ UNCHANGED <<container, run_json, db_row>>
    BY <1>9 DEF FinalSnapshot, Proceed
  <2>2. RunTypeOK'
    BY <1>0, <1>3, <2>1 DEF RunTypeOK
  <2>3. EndingInv'
    BY <1>0, <1>3, <1>4, <1>5, <2>1 DEF EndingInv, Closing
  <2>4. RecordInv' /\ ReleasedAtEnd'
    BY <1>0, <1>3, <2>1 DEF RecordInv, ReleasedAtEnd, Closing
  <2> QED BY <1>4, <1>6, <2>2, <2>3, <2>4 DEF RunInv
<1>10. CASE FinalSnapshotRaises \/ FinalStoreRaises
  <2>1. /\ phase' = "escaped" /\ UNCHANGED <<container, run_json, db_row>>
    BY <1>10 DEF FinalSnapshotRaises, FinalStoreRaises, Proceed
  <2>2. RunTypeOK'
    BY <1>0, <1>3, <2>1 DEF RunTypeOK
  <2>3. EndingInv'
    BY <1>0, <1>3, <1>4, <2>1 DEF EndingInv, Closing
  <2>4. RecordInv' /\ ReleasedAtEnd'
    BY <2>1 DEF RecordInv, ReleasedAtEnd, Closing
  <2> QED BY <1>4, <1>6, <2>2, <2>3, <2>4 DEF RunInv
<1>11. CASE WriteRunMetadata
  <2>1. /\ phase = "metadata" /\ phase' = "update"
        /\ run_json' = FinalRecord(outer)
        /\ UNCHANGED <<container, db_row>>
    BY <1>11 DEF WriteRunMetadata
  <2>2. RunTypeOK'
    BY <1>0, <1>3, <1>7, <2>1 DEF RunTypeOK
  <2>3. EndingInv'
    BY <1>0, <1>3, <1>4, <1>5, <2>1 DEF EndingInv, Closing
  <2>4. RecordInv' /\ ReleasedAtEnd'
    BY <1>0, <1>3, <2>1 DEF RecordInv, ReleasedAtEnd, Closing, FinalRecord
  <2> QED BY <1>4, <1>6, <2>2, <2>3, <2>4 DEF RunInv
<1>12. CASE UpdateRun
  <2>1. /\ phase = "update" /\ phase' = "destroy"
        /\ db_row' = IF db_row = NoRecord THEN db_row ELSE FinalRecord(outer)
        /\ UNCHANGED <<container, run_json>>
    BY <1>12 DEF UpdateRun, Proceed
  <2>2. ending # "aborted" => db_row' = FinalRecord(outer)
    BY <1>0, <2>1 DEF RecordInv, Closing
  <2>3. RunTypeOK'
    BY <1>0, <1>3, <1>7, <2>1 DEF RunTypeOK
  <2>4. EndingInv'
    BY <1>0, <1>3, <1>4, <1>5, <2>1 DEF EndingInv, Closing
  <2>5. RecordInv'
    <3>1. ending # "aborted" => container = "running" /\ db_row' # NoRecord
      BY <1>0, <1>7, <2>1, <2>2 DEF RecordInv, Closing
    <3>2. run_json = FinalRecord(outer)
      BY <1>0, <2>1 DEF RecordInv
    <3> QED BY <1>3, <2>1, <2>2, <3>1, <3>2 DEF RecordInv, Closing, FinalRecord
  <2>6. ReleasedAtEnd'
    BY <2>1 DEF ReleasedAtEnd
  <2> QED BY <1>4, <1>6, <2>3, <2>4, <2>5, <2>6 DEF RunInv
<1>13. CASE DestroyContainer
  <2>1. /\ phase = "destroy" /\ phase' \in {"returned", "raised"}
        /\ container' = IF Destroys THEN "destroyed" ELSE container
        /\ UNCHANGED <<run_json, db_row>>
    BY <1>13 DEF DestroyContainer, Proceed
  <2>2. RunTypeOK'
    BY <1>0, <1>3, <2>1 DEF RunTypeOK
  <2>3. EndingInv'
    BY <1>0, <1>3, <1>4, <1>5, <2>1 DEF EndingInv, Closing
  <2>4. RecordInv'
    <3>1. /\ run_json = FinalRecord(outer)
          /\ ending # "aborted" => db_row = FinalRecord(outer)
      BY <1>0, <2>1 DEF RecordInv
    <3> QED BY <1>3, <2>1, <3>1 DEF RecordInv, Closing, FinalRecord
  <2>5. ReleasedAtEnd'
    BY <2>1 DEF ReleasedAtEnd, Destroys
  <2> QED BY <1>4, <1>6, <2>2, <2>3, <2>4, <2>5 DEF RunInv
<1> QED BY <1>2, <1>8, <1>9, <1>10, <1>11, <1>12, <1>13 DEF Teardown

LEMMA NextRunInv ==
  ASSUME RunInv, [RunNext]_runVars
  PROVE  RunInv'
<1>1. CASE UNCHANGED runVars
  <2>1. /\ UNCHANGED <<st, queue, pc, turn, worker, session_alive, stores, history>>
        /\ UNCHANGED <<phase, ending, outer, container, run_json, db_row>>
    BY <1>1 DEF runVars, loopVars, ownVars, stores, history
  <2>2. LoopInv'
    BY <2>1, LoopInvFrame DEF RunInv
  <2>3. RunTypeOK' /\ StartInv' /\ EndingInv' /\ RecordInv' /\ ReleasedAtEnd'
    BY <2>1 DEF RunInv, RunTypeOK, StartInv, EndingInv, RecordInv, ReleasedAtEnd,
                stores, FinalRecord
  <2> QED BY <2>2, <2>3 DEF RunInv
<1> QED
  BY <1>1, StartupKeeps, LoopStepKeeps, TeardownKeeps DEF RunNext

LEMMA RunInvHolds == RunSpec => []RunInv
BY InitRunInv, NextRunInv, PTL DEF RunSpec

-----------------------------------------------------------------------------
(* The properties.                                                         *)

(* The lifecycle's variables keep their types, and the loop runs only with *)
(* its container and its row, and before any record (agent.run).           *)
THEOREM RunTypesHold == RunSpec => []RunTypeOK
<1>1. RunInv => RunTypeOK
  BY DEF RunInv
<1> QED BY <1>1, RunInvHolds, PTL

(* A run that gets through its finally block leaves no container, unless   *)
(* it is told to keep it (agent.run, _provision_failure).                  *)
THEOREM ContainersAreReleased == RunSpec => []ReleasedAtEnd
<1>1. RunInv => ReleasedAtEnd
  BY DEF RunInv
<1> QED BY <1>1, RunInvHolds, PTL

(* The step counter, the trajectory and the steps table agree also in the  *)
(* whole run, its teardown and its aborted starts (BUG-38, BUG-39,         *)
(* BUG-41).                                                                *)
THEOREM RunStepAccountingHolds == RunSpec => []StepAccounting
<1>1. RunInv => StepAccounting
  BY DEF RunInv, LoopInv
<1> QED BY <1>1, RunInvHolds, PTL

(* When the loop returned, run.json, the runs row, the trajectory and the  *)
(* steps table agree (write_run_metadata, update_run).                     *)
THEOREM RecordsMatchLedgers == RunSpec => []RecordMatchesLedger
<1>1. RunInv => RecordMatchesLedger
  <2> SUFFICES ASSUME RunInv, phase = "returned", ending = "returned"
               PROVE  /\ run_json = db_row
                      /\ run_json.status \in {"succeeded", "failed"}
                      /\ run_json.total_steps = Len(trajectory)
                      /\ Len(rows) = Len(trajectory)
    BY DEF RecordMatchesLedger
  <2>1. run_json = FinalRecord(outer) /\ db_row = FinalRecord(outer)
    BY DEF RunInv, RecordInv
  <2>2. pc = "returned" /\ outer = st
    BY DEF RunInv, EndingInv
  <2>3. st.status \in {"succeeded", "failed"}
    BY <2>2 DEF RunInv, LoopInv, StatusInv, TypeOK, State, RunStatus
  <2>4. st.current_step = Len(rows) /\ Len(rows) = Len(trajectory)
    BY <2>2 DEF RunInv, LoopInv, StepAccounting
  <2> QED BY <2>1, <2>2, <2>3, <2>4 DEF FinalRecord
<1> QED BY <1>1, RunInvHolds, PTL

-----------------------------------------------------------------------------
(* The refinement.                                                         *)

LEMMA InitRefines == RunInit => Ledger!Init
BY DEF RunInit, LoopInit, Ledger!Init, NoRecord, Ledger!NoRecord

LEMMA LoopRefines ==
  ASSUME RunInv, LoopStep
  PROVE  [Ledger!Next]_(Ledger!vars)
<1>1. /\ phase = "loop" /\ LoopNext
      /\ UNCHANGED <<phase, ending, outer, container, run_json, db_row>>
  BY DEF LoopStep, ownVars
<1>2. container = "running" /\ run_json = NoRecord
  BY <1>1 DEF RunInv, RunTypeOK
<1>3. CASE trajectory' = trajectory
  BY <1>1, <1>3 DEF Ledger!vars
<1>4. CASE Len(trajectory') = Len(trajectory) + 1
  <2>1. Ledger!LogStep
    BY <1>1, <1>2, <1>4 DEF Ledger!LogStep, NoRecord, Ledger!NoRecord
  <2> QED BY <2>1 DEF Ledger!Next
<1> QED BY <1>1, <1>3, <1>4, LedgerStep DEF RunInv, LoopInv, Next

\* The record stands for a run that was closed or for one abandoned.
LEMMA RecordRefines ==
  ASSUME RunInv, WriteRunMetadata
  PROVE  Ledger!Close \/ Ledger!Abandon
<1>1. /\ phase = "metadata" /\ run_json' = FinalRecord(outer)
      /\ trajectory' = trajectory /\ container' = container
  BY DEF WriteRunMetadata, loopVars, stores
<1>2. /\ LoopInv /\ RunTypeOK /\ EndingInv /\ RecordInv /\ st \in State
      /\ trajectory \in Seq(StepRecord)
  BY DEF RunInv, LoopInv, TypeOK
<1>3. run_json = Ledger!NoRecord
  BY <1>1, <1>2 DEF RecordInv, NoRecord, Ledger!NoRecord
<1>4. run_json' = [status |-> outer.status, total_steps |-> outer.current_step]
  BY <1>1 DEF FinalRecord
<1>5. ending \in {"aborted", "returned", "interrupted", "raised"}
  BY <1>1, <1>2 DEF RunTypeOK, EndingInv, Closing
<1>6. CASE ending = "returned"
  <2>1. outer = st /\ pc = "returned"
    BY <1>2, <1>6 DEF EndingInv
  <2>2. outer.status \in {"succeeded", "failed"}
    BY <1>2, <2>1 DEF LoopInv, StatusInv, State, RunStatus
  <2>3. outer.current_step = Len(trajectory)
    BY <1>2, <2>1 DEF LoopInv, StepAccounting
  <2> QED BY <1>1, <1>3, <1>4, <2>2, <2>3 DEF Ledger!Close
<1>7. CASE ending = "aborted"
  <2>1. outer.status = "failed" /\ outer.current_step = 0 /\ trajectory = <<>>
    BY <1>2, <1>7 DEF EndingInv
  <2>2. Len(trajectory) = 0
    BY <2>1
  <2> QED BY <1>1, <1>3, <1>4, <2>1, <2>2 DEF Ledger!Close
<1>8. CASE ending \in {"interrupted", "raised"}
  <2>1. outer.status \in {"cancelled", "active"} /\ outer.current_step = 0
    BY <1>2, <1>8 DEF EndingInv
  <2>2. 0 \in 0 .. Len(trajectory)
    BY <1>2, LenProperties
  <2> QED BY <1>1, <1>3, <1>4, <2>1, <2>2 DEF Ledger!Abandon
<1> QED BY <1>5, <1>6, <1>7, <1>8

LEMMA NextRefines ==
  ASSUME RunInv, [RunNext]_runVars
  PROVE  [Ledger!Next]_(Ledger!vars)
<1>1. CASE LoopStep
  BY <1>1, LoopRefines
<1>2. CASE ProvisionContainer \/ InterruptStartup
  <2>1. /\ trajectory' = trajectory /\ run_json' = run_json
        /\ phase \in Starting
        /\ container' # container => phase = "container" /\ container' = "running"
    BY <1>2 DEF ProvisionContainer, InterruptStartup, Proceed, loopVars, stores,
       Starting
  <2>2. container' # container => Ledger!Start
    BY <2>1 DEF RunInv, StartInv, Starting, Ledger!Start, NoRecord,
       Ledger!NoRecord
  <2> QED BY <2>1, <2>2 DEF Ledger!Next, Ledger!vars
<1>3. CASE WriteRunMetadata
  BY <1>3, RecordRefines DEF Ledger!Next
<1>4. CASE DestroyContainer
  <2>1. /\ trajectory' = trajectory /\ run_json' = run_json
        /\ phase = "destroy"
        /\ container' = IF Destroys THEN "destroyed" ELSE container
    BY <1>4 DEF DestroyContainer, Proceed, loopVars, stores
  <2>2. run_json # NoRecord
    <3>1. run_json = FinalRecord(outer) /\ outer \in State
      BY <2>1 DEF RunInv, RecordInv, RunTypeOK
    <3> QED BY <3>1, FinalRecordFacts
  <2>3. Destroys => container = "running"
    BY <2>1 DEF RunInv, RecordInv, Closing, Destroys
  <2>4. Destroys => Ledger!Release
    BY <2>1, <2>2, <2>3 DEF Ledger!Release, NoRecord, Ledger!NoRecord
  <2> QED BY <2>1, <2>4 DEF Ledger!Next, Ledger!vars
<1>5. CASE \/ EnsureImage \/ ProvisionSession \/ InsertRun \/ ImageFails
           \/ ProvisionFails \/ SessionFails \/ InsertRaises \/ LeaveLoop
           \/ ShutdownWorker \/ FinalSnapshot \/ FinalSnapshotRaises
           \/ UpdateRun \/ FinalStoreRaises \/ UNCHANGED runVars
  BY <1>5 DEF EnsureImage, ProvisionSession, InsertRun, ImageFails,
     ProvisionFails, SessionFails, InsertRaises, LeaveLoop, ShutdownWorker,
     FinalSnapshot, FinalSnapshotRaises, UpdateRun, FinalStoreRaises, Proceed,
     Abort, runVars, loopVars, ownVars, stores, Ledger!vars
<1> QED BY <1>1, <1>2, <1>3, <1>4, <1>5 DEF RunNext, Startup, Teardown

(* The run implements the ledger: steps are recorded only while it is      *)
(* open, one final record is written and never claims a step that is not   *)
(* in the trajectory, and the container is released after it (agent.run).  *)
THEOREM RunImplementsLedger == RunSpec => ImplementsLedger
BY InitRefines, NextRefines, RunInvHolds, PTL
   DEF RunSpec, ImplementsLedger, Ledger!Spec
=============================================================================
