---------------------------- MODULE MCAgentLoop -----------------------------
(* Values of AgentLoop's constants for TLC.                                *)
EXTENDS AgentLoop

MCTokenCosts == {0, 2}
MCAllFaults == FaultKinds
MCNoFaults == {}
MCSendFails == {"send_fails"}
=============================================================================
