----------------------------- MODULE RunLedger ------------------------------
(***************************************************************************)
(* What one run owes to its users, with no loop, queue or worker: steps    *)
(* are appended to a ledger while the run is open; one final record is     *)
(* written, after which the ledger is closed; the container outlives       *)
(* neither.  An orderly record counts exactly the steps of the ledger.  A  *)
(* run that was interrupted or that crashed is abandoned: its record may   *)
(* miss steps, but never claims one that is not in the ledger.             *)
(***************************************************************************)
EXTENDS Naturals

VARIABLES ledger,     \* number of steps recorded
          record,     \* the final record, NoRecord before it is written
          container   \* "none", "running" or "destroyed"

vars == <<ledger, record, container>>

NoRecord == [status |-> "none", total_steps |-> 0]

Init ==
  /\ ledger = 0
  /\ record = NoRecord
  /\ container = "none"

Start ==
  /\ record = NoRecord
  /\ container = "none"
  /\ container' = "running"
  /\ UNCHANGED <<ledger, record>>

LogStep ==
  /\ record = NoRecord
  /\ container = "running"
  /\ ledger' = ledger + 1
  /\ UNCHANGED <<record, container>>

Close ==
  /\ record = NoRecord
  /\ \E status \in {"succeeded", "failed"} :
       record' = [status |-> status, total_steps |-> ledger]
  /\ UNCHANGED <<ledger, container>>

Abandon ==
  /\ record = NoRecord
  /\ \E status \in {"cancelled", "active"}, n \in 0 .. ledger :
       record' = [status |-> status, total_steps |-> n]
  /\ UNCHANGED <<ledger, container>>

Release ==
  /\ record # NoRecord
  /\ container = "running"
  /\ container' = "destroyed"
  /\ UNCHANGED <<ledger, record>>

Next == Start \/ LogStep \/ Close \/ Abandon \/ Release

Spec == Init /\ [][Next]_vars
=============================================================================
