---------------------------- MODULE SearchLedger ----------------------------
(***************************************************************************)
(* What one MCTS search owes to its users, with no tree, threads or rows:  *)
(* runs are scored one at a time, each at most once, while the search is   *)
(* open; it is closed by one outcome.  A search that returns counts every  *)
(* run it scored, and names a successful one twice if there is one: as its *)
(* best run, and as the best run below the node it returns.                *)
(***************************************************************************)
EXTENDS Naturals, FiniteSets

CONSTANT Playouts    \* number of playouts of the search

VARIABLES scored,    \* runs scored
          won,       \* those of them that were successful
          outcome    \* what became of the search

vars == <<scored, won, outcome>>

NoRun == 0
Open == [status |-> "running", playouts |-> 0, best |-> NoRun, below |-> NoRun]

Init ==
  /\ scored = {}
  /\ won = {}
  /\ outcome = Open

Score ==
  /\ outcome = Open
  /\ \E run \in (1 .. Playouts) \ scored :
       /\ scored' = scored \cup {run}
       /\ won' \in {won, won \cup {run}}
  /\ UNCHANGED outcome

Successful(run) == IF won = {} THEN run = NoRun ELSE run \in won

Return ==
  /\ outcome = Open
  /\ \E best, below \in 0 .. Playouts :
       /\ Successful(best)
       /\ Successful(below)
       /\ outcome' = [status |-> "returned", playouts |-> Cardinality(scored),
                      best |-> best, below |-> below]
  /\ UNCHANGED <<scored, won>>

Raise ==
  /\ outcome = Open
  /\ outcome' = [Open EXCEPT !.status = "raised"]
  /\ UNCHANGED <<scored, won>>

Next == Score \/ Return \/ Raise

Spec == Init /\ [][Next]_vars
=============================================================================
