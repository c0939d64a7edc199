------------------------------ MODULE AgentRun ------------------------------
(***************************************************************************)
(* agent.run from the image build to the destroyed container: start-up,    *)
(* the turn loop of AgentLoop, and the teardown in the finally block, with *)
(* the short teardown of _provision_failure beside it.                     *)
(*                                                                         *)
(* run keeps its own variable `state` (here outer), which is assigned only *)
(* when _run_turns returns: an interrupt or an exception leaves it as it   *)
(* was before the loop, and the teardown works on that.                    *)
(*                                                                         *)
(* run ends "returned", "raised" (the loop's exception, after the finally  *)
(* block has run) or "escaped" (an exception from a statement before the   *)
(* try or from the finally block itself: what follows it is not done).     *)
(***************************************************************************)
EXTENDS AgentLoop

CONSTANTS KeepSession,   \* Config.keep_session
          RunFaults      \* failures outside the loop that may happen

RunFaultKinds == {"image_fails", "provision_fails", "session_fails",
                  "insert_fails", "bad_artifact_json", "final_store_fails",
                  "interrupt_startup"}

ASSUME RunAssumption ==
  /\ KeepSession \in BOOLEAN
  /\ RunFaults \subseteq RunFaultKinds

VARIABLES phase,      \* the statement of run the main thread is at
          ending,     \* why the run is being torn down
          outer,      \* run's local variable `state`
          container,  \* the run's docker container
          run_json,   \* status and total_steps in run.json
          db_row      \* status and total_steps in the runs table

ownVars == <<phase, ending, outer, container, run_json, db_row>>
runVars == <<loopVars, ownVars>>

NoRecord == [status |-> "none", total_steps |-> 0]

\* A wrong variant: the record counts the marker of its own snapshot.
RecordPlusOne(s) == [status |-> s.status, total_steps |-> s.current_step + 1]

FinalRecord(s) == [status |-> s.status, total_steps |-> s.current_step]

Ended == phase \in {"returned", "raised", "escaped"}

RunInit ==
  /\ LoopInit
  /\ phase = "image"
  /\ ending = "none"
  /\ outer = st
  /\ container = "none"
  /\ run_json = NoRecord
  /\ db_row = NoRecord

-----------------------------------------------------------------------------
(* Start-up.                                                               *)

Proceed(from, to) ==
  /\ phase = from
  /\ phase' = to
  /\ UNCHANGED <<loopVars, ending, outer, run_json>>

\* _provision_failure: fail the run, then write what there is to write.
Abort(from) ==
  /\ phase = from
  /\ phase' = "metadata"
  /\ ending' = "aborted"
  /\ outer' = WithStatus(outer, "failed")
  /\ UNCHANGED <<loopVars, container, run_json, db_row>>

EnsureImage == Proceed("image", "container") /\ UNCHANGED <<container, db_row>>

ImageFails == "image_fails" \in RunFaults /\ Abort("image")

ProvisionContainer ==
  /\ Proceed("container", "session")
  /\ container' = "running"
  /\ UNCHANGED db_row

ProvisionFails == "provision_fails" \in RunFaults /\ Abort("container")

ProvisionSession == Proceed("session", "insert") /\ UNCHANGED <<container, db_row>>

SessionFails == "session_fails" \in RunFaults /\ Abort("session")

\* A wrong variant: the run enters the loop without its row.
InsertNothing == Proceed("insert", "loop") /\ UNCHANGED <<container, db_row>>

InsertRun ==
  /\ Proceed("insert", "loop")
  /\ db_row' = [status |-> outer.status, total_steps |-> 0]
  /\ UNCHANGED container

\* insert_run stands before the try, as does every step above.
InsertRaises ==
  /\ "insert_fails" \in RunFaults
  /\ Proceed("insert", "escaped")
  /\ UNCHANGED <<container, db_row>>

\* Ctrl-C during start-up; docker run may already have started a container.
InterruptStartup ==
  /\ "interrupt_startup" \in RunFaults
  /\ \E from \in {"image", "container", "session", "insert"} :
       /\ Proceed(from, "escaped")
       /\ container' \in {container} \cup
                         (IF from = "container" THEN {"running"} ELSE {})
  /\ UNCHANGED db_row

-----------------------------------------------------------------------------
(* The loop, and the finally block.                                        *)

LoopStep == phase = "loop" /\ LoopNext /\ UNCHANGED ownVars

\* A wrong variant: the status returned by the loop kept, its counts not.
LeaveLoopStale ==
  /\ phase = "loop"
  /\ Stopped
  /\ phase' = "shutdown"
  /\ ending' = pc
  /\ outer' = WithStatus(outer, IF pc = "interrupted" THEN "cancelled"
                                ELSE st.status)
  /\ UNCHANGED <<loopVars, container, run_json, db_row>>

LeaveLoop ==
  /\ phase = "loop"
  /\ Stopped
  /\ phase' = "shutdown"
  /\ ending' = pc
  /\ outer' = CASE pc = "returned"    -> st
                [] pc = "interrupted" -> WithStatus(outer, "cancelled")
                [] pc = "raised"      -> outer
  /\ UNCHANGED <<loopVars, container, run_json, db_row>>

\* A wrong variant (the properties must tell it apart): shutdown(wait=True).
ShutdownWaits ==
  /\ phase = "shutdown"
  /\ worker.phase # "running"
  /\ phase' = "snapshot"
  /\ worker' = IdleWorker
  /\ UNCHANGED <<st, queue, pc, turn, session_alive, stores, history, ending,
                 outer, container, run_json, db_row>>

\* SummarizationWorker.shutdown drops the future without waiting for it.
ShutdownWorker ==
  /\ phase = "shutdown"
  /\ phase' = "snapshot"
  /\ worker' = IdleWorker
  /\ UNCHANGED <<st, queue, pc, turn, session_alive, stores, history, ending,
                 outer, container, run_json, db_row>>

\* Nothing to refresh, refreshed, or failed with an error that is swallowed.
FinalSnapshot ==
  /\ Proceed("snapshot", "metadata")
  /\ UNCHANGED <<container, db_row>>

\* The reply is no JSON object: not a TermiclawError, so finally is left.
FinalSnapshotRaises ==
  /\ "bad_artifact_json" \in RunFaults
  /\ outer.current_step > 0
  /\ session_alive
  /\ Proceed("snapshot", "escaped")
  /\ UNCHANGED <<container, db_row>>

WriteRunMetadata ==
  /\ phase = "metadata"
  /\ phase' = "update"
  /\ run_json' = FinalRecord(outer)
  /\ UNCHANGED <<loopVars, ending, outer, container, db_row>>

\* UPDATE ... WHERE run_id: no effect on a run that was never inserted.
UpdateRun ==
  /\ Proceed("update", "destroy")
  /\ db_row' = IF db_row = NoRecord THEN db_row ELSE FinalRecord(outer)
  /\ UNCHANGED container

FinalStoreRaises ==
  /\ "final_store_fails" \in RunFaults
  /\ Proceed("metadata", "escaped") \/ Proceed("update", "escaped")
  /\ UNCHANGED <<container, db_row>>

\* A wrong variant: a container whose session failed is forgotten.
DestroysAfterLoop == ending # "aborted" /\ ~KeepSession

\* _provision_failure destroys any container it has; run honours KeepSession.
Destroys ==
  IF ending = "aborted" THEN container = "running" ELSE ~KeepSession

DestroyContainer ==
  /\ Proceed("destroy", IF ending = "raised" THEN "raised" ELSE "returned")
  /\ container' = IF Destroys THEN "destroyed" ELSE container
  /\ UNCHANGED db_row

-----------------------------------------------------------------------------

Startup ==
  \/ EnsureImage \/ ProvisionContainer \/ ProvisionSession \/ InsertRun
  \/ ImageFails \/ ProvisionFails \/ SessionFails

Teardown ==
  \/ LeaveLoop \/ ShutdownWorker \/ FinalSnapshot \/ FinalSnapshotRaises
  \/ WriteRunMetadata \/ UpdateRun \/ FinalStoreRaises \/ DestroyContainer

\* What the main thread does of itself; Ctrl-C and the other actors aside.
MainThread ==
  \/ Startup
  \/ InsertRaises
  \/ phase = "loop" /\ MainStep /\ UNCHANGED ownVars
  \/ Teardown

RunNext ==
  \/ Startup \/ InsertRaises \/ InterruptStartup
  \/ LoopStep
  \/ Teardown
  \/ Ended /\ UNCHANGED runVars

RunSpec == RunInit /\ [][RunNext]_runVars /\ WF_runVars(MainThread)

-----------------------------------------------------------------------------
(* Properties.                                                             *)

(* The variables of the run's lifecycle have their types, and the loop     *)
(* only runs with a container, a row in the runs table and no record yet.  *)
RunTypeOK ==
  /\ phase \in {"image", "container", "session", "insert", "loop", "shutdown",
                "snapshot", "metadata", "update", "destroy", "returned",
                "raised", "escaped"}
  /\ ending \in {"none", "aborted", "returned", "interrupted", "raised"}
  /\ outer \in State
  /\ container \in {"none", "running", "destroyed"}
  /\ run_json \in [status : RunStatus \cup {"none"}, total_steps : Nat]
  /\ db_row \in [status : RunStatus \cup {"none"}, total_steps : Nat]
  /\ phase = "loop" => /\ container = "running"
                       /\ db_row = [status |-> "active", total_steps |-> 0]
                       /\ run_json = NoRecord

(* However the loop was left (a status, Ctrl-C, an exception) and whatever *)
(* part of provisioning failed, run ends with its container destroyed,     *)
(* unless the finally block itself was left by an exception.               *)
ReleasedAtEnd ==
  phase \in {"returned", "raised"} /\ ~KeepSession => container # "running"

(* When the loop returned, run.json, the runs row, the trajectory and the  *)
(* steps table agree on the number of steps and on a final status.         *)
RecordMatchesLedger ==
  phase = "returned" /\ ending = "returned" =>
    /\ run_json = db_row
    /\ run_json.status \in {"succeeded", "failed"}
    /\ run_json.total_steps = Len(trajectory)
    /\ Len(rows) = Len(trajectory)

(* A run that Ctrl-C or an exception ended is recorded as ended, and with  *)
(* the steps it took.                                                      *)
AbandonedRecordIsTrue ==
  run_json # NoRecord /\ ending \in {"interrupted", "raised"} =>
    /\ run_json.status # "active"
    /\ run_json.total_steps \in {Len(rows), Len(trajectory)}

(* The last artifact snapshot is best-effort: whatever the planner replies *)
(* to it, a run that has left its loop still writes its final record.      *)
SnapshotIsBestEffort == Ended /\ ending # "none" => run_json # NoRecord

(* Every run ends, its container released, if every call the main thread   *)
(* makes returns and the planner's answers run out: no turn loops forever  *)
(* and teardown waits for nobody, not even a summarization job that never  *)
(* finishes.                                                               *)
EventuallyReleased ==
  <>[](phase = "escaped" \/ (Ended /\ container # "running"))

(* The run implements the ledger: steps are recorded only while it is      *)
(* open, the final record is written once and never claims a step that is  *)
(* not in the trajectory, and the container is released after it.          *)
Ledger == INSTANCE RunLedger WITH ledger <- Len(trajectory),
                                  record <- run_json,
                                  container <- container
ImplementsLedger == Ledger!Spec
=============================================================================
