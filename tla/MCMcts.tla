------------------------------- MODULE MCMcts -------------------------------
(* Values of Mcts's constants for TLC.                                     *)
EXTENDS Mcts

CONSTANTS w1, w2

MCWorkers == {w1, w2}
MCAllFaults == FaultKinds
=============================================================================
