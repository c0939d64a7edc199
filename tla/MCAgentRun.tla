----------------------------- MODULE MCAgentRun -----------------------------
(* Values of AgentRun's constants for TLC.                                 *)
EXTENDS AgentRun

MCTokenCosts == {2}
MCNoFaults == {}
MCLoopFaults == FaultKinds
MCAbandons == {"interrupt", "session_dies"}
MCBadJson == {"bad_artifact_json"}
MCAllRunFaults == RunFaultKinds
=============================================================================
