-------------------------------- MODULE Mcts --------------------------------
(***************************************************************************)
(* One MCTS search (termiclaw/mcts.py): a pool of threads takes playouts   *)
(* from a queue; a playout selects a leaf of the shared tree, runs an      *)
(* agent under it, records a node for that run, and adds its reward to     *)
(* every node up to the root.  The tree is guarded by a lock, so selecting *)
(* a leaf, recording a node and adding a reward are one step each; the     *)
(* run between them and the rows written after them hold no lock.          *)
(*                                                                         *)
(* Abstractions.                                                           *)
(*  - Node k is the k-th node recorded and names its run; Root is 0.       *)
(*  - path[n] is what walking the parent pointers from n yields: n, its    *)
(*    parent, ..., Root.  Parents never change.                            *)
(*  - Rewards are 0 and 1, as reward_from_result gives them, so            *)
(*    best_reward is 1 exactly where best_leaf_run_id is set (NoLeaf: the  *)
(*    empty one).                                                          *)
(*  - UCB1 is any choice among the children, except that a child nobody    *)
(*    has visited scores infinity (the oldest one, as max returns).        *)
(*  - A playout's variant and fork context do not reach the tree.          *)
(***************************************************************************)
EXTENDS Naturals, Sequences, FiniteSets, Functions

CONSTANTS Workers,      \* threads of the pool: parallelism of them
          Playouts,     \* number of playouts of the search
          KeepSession,  \* Config.keep_session: the container outlives the run
          ExitExpected, \* the verifier expects the exit code of a docker exec
                        \* into a container that is gone, and any output
          Faults        \* the failures that may happen

FaultKinds == {"playout_fails", "playout_crashes", "store_crashes"}

ASSUME SearchAssumption ==
  /\ IsFiniteSet(Workers)
  /\ Workers # {}
  /\ Playouts \in Nat
  /\ KeepSession \in BOOLEAN
  /\ ExitExpected \in BOOLEAN
  /\ Faults \subseteq FaultKinds

Nodes == 0 .. Playouts
Root == 0
NoLeaf == 0

VARIABLES phase,      \* where MctsSearch.run is
          started,    \* playouts taken from the pool's queue
          crashed,    \* a playout ended with an exception that is re-raised
          worker,     \* what each thread is doing
          recorded,   \* nodes recorded so far, Root not counted
          path,       \* the parent pointers
          children,   \* Node.children
          visits,     \* Node.visits
          total,      \* Node.total_reward
          best_leaf,  \* Node.best_leaf_run_id
          rows,       \* visits and total_reward of a node's row in mcts_nodes
          finish,     \* the final columns of the search's row
          result,     \* the node MctsSearch.run returns
          scored,     \* history: nodes whose reward has been added
          won         \* history: those of them whose reward was 1

tree == <<recorded, path, children, visits, total, best_leaf>>
history == <<scored, won>>
vars == <<phase, started, crashed, worker, tree, rows, finish, result, history>>

NoRow == [visits |-> 0, total |-> 0]
NoFinish == [written |-> FALSE, total_playouts |-> 0, best_leaf |-> NoLeaf]

\* node is the leaf selected while "running" or "ran", the new node after it.
Activity ==
  [ at     : {"idle", "running", "ran", "recorded", "reading", "rereading",
              "writing"},
    node   : Nodes,
    reward : {0, 1},
    left   : Seq(Nodes),                    \* nodes still to persist
    row    : [visits : Nat, total : Nat] ]  \* what was read of the first one

Idle == [at |-> "idle", node |-> Root, reward |-> 0, left |-> <<>>,
         row |-> NoRow]

Init ==
  /\ phase = "running"
  /\ started = 0
  /\ crashed = FALSE
  /\ worker = [w \in Workers |-> Idle]
  /\ recorded = 0
  /\ path = [n \in Nodes |-> IF n = Root THEN <<Root>> ELSE <<>>]
  /\ children = [n \in Nodes |-> {}]
  /\ visits = [n \in Nodes |-> 0]
  /\ total = [n \in Nodes |-> 0]
  /\ best_leaf = [n \in Nodes |-> NoLeaf]
  /\ rows = [n \in Nodes |-> NoRow]
  /\ finish = NoFinish
  /\ result = Root
  /\ scored = {}
  /\ won = {}

-----------------------------------------------------------------------------
(* A playout.                                                              *)

Become(w, activity) == worker' = [worker EXCEPT ![w] = activity]

\* The children of n that UCB1 may choose.
Promising(n) ==
  LET fresh == {c \in children[n] : visits[c] = 0}
  IN IF fresh = {} THEN children[n]
     ELSE {CHOOSE c \in fresh : \A d \in fresh : c <= d}

\* Every step of the descent from Root to n follows UCB1.
Descends(n) ==
  \A i \in 1 .. Len(path[n]) - 1 : path[n][i] \in Promising(path[n][i + 1])

\* A wrong variant: more playouts than were submitted.
SelectUnbounded(w) ==
  /\ phase = "running"
  /\ worker[w].at = "idle"
  /\ started' = started + 1
  /\ Become(w, [Idle EXCEPT !.at = "running"])
  /\ UNCHANGED <<phase, crashed, tree, rows, finish, result, history>>

\* A wrong variant: the descent may stop at an inner node.
SelectAnywhere(w) ==
  /\ phase = "running"
  /\ worker[w].at = "idle"
  /\ started < Playouts
  /\ started' = started + 1
  /\ \E n \in 0 .. recorded :
       Become(w, [Idle EXCEPT !.at = "running", !.node = n])
  /\ UNCHANGED <<phase, crashed, tree, rows, finish, result, history>>

Select(w) ==
  /\ phase = "running"
  /\ worker[w].at = "idle"
  /\ started < Playouts
  /\ started' = started + 1
  /\ \E n \in 0 .. recorded :
       /\ children[n] = {}
       /\ Descends(n)
       /\ Become(w, [Idle EXCEPT !.at = "running", !.node = n])
  /\ UNCHANGED <<phase, crashed, tree, rows, finish, result, history>>

\* 0 also when the container never started or the verifier failed.  A gone
\* container is not verified: docker's exit code is compared all the same.
Rewards == {0} \cup (IF KeepSession \/ ExitExpected THEN {1} ELSE {})

Simulate(w) ==
  /\ worker[w].at = "running"
  /\ \E reward \in Rewards :
       Become(w, [worker[w] EXCEPT !.at = "ran", !.reward = reward])
  /\ UNCHANGED <<phase, started, crashed, tree, rows, finish, result, history>>

\* A wrong variant: a failed playout is put back into the queue.
PlayoutRetries(w) ==
  /\ "playout_fails" \in Faults
  /\ worker[w].at = "running"
  /\ Become(w, Idle)
  /\ started' = started - 1
  /\ UNCHANGED <<phase, crashed, tree, rows, finish, result, history>>

\* A TermiclawError: the playout is logged and leaves no node.
PlayoutFails(w) ==
  /\ "playout_fails" \in Faults
  /\ worker[w].at = "running"
  /\ Become(w, Idle)
  /\ UNCHANGED <<phase, started, crashed, tree, rows, finish, result, history>>

\* Any other exception is kept in the future, for run to raise.
PlayoutCrashes(w) ==
  /\ "playout_crashes" \in Faults
  /\ worker[w].at = "running"
  /\ Become(w, Idle)
  /\ crashed' = TRUE
  /\ UNCHANGED <<phase, started, tree, rows, finish, result, history>>

RecordNewNode(w) ==
  LET parent == worker[w].node
      node   == recorded + 1
  IN /\ worker[w].at = "ran"
     /\ recorded' = node
     /\ path' = [path EXCEPT ![node] = <<node>> \o path[parent]]
     /\ children' = [children EXCEPT ![parent] = @ \cup {node}]
     /\ Become(w, [worker[w] EXCEPT !.at = "recorded", !.node = node])
     /\ UNCHANGED <<phase, started, crashed, visits, total, best_leaf, rows,
                    finish, result, history>>

\* A wrong variant: the walk stops before the node without a parent.
BelowRoot(n) == SubSeq(path[n], 1, Len(path[n]) - 1)

\* The nodes a reward is added to, in the order they are persisted.
Upwards(n) == path[n]

Backprop(w) ==
  LET node   == worker[w].node
      reward == worker[w].reward
      above  == Range(Upwards(node))
  IN /\ worker[w].at = "recorded"
     /\ visits' = [n \in Nodes |->
                     IF n \in above THEN visits[n] + 1 ELSE visits[n]]
     /\ total' = [n \in Nodes |->
                    IF n \in above THEN total[n] + reward ELSE total[n]]
     /\ best_leaf' = [n \in Nodes |->
                        IF n \in above /\ reward = 1 /\ best_leaf[n] = NoLeaf
                        THEN node ELSE best_leaf[n]]
     /\ Become(w, [worker[w] EXCEPT !.at = "reading", !.left = Upwards(node)])
     /\ scored' = scored \cup {node}
     /\ won' = IF reward = 1 THEN won \cup {node} ELSE won
     /\ UNCHANGED <<phase, started, crashed, recorded, path, children, rows,
                    finish, result>>

-----------------------------------------------------------------------------
(* Persisting the updated nodes, without the lock: the counters are read   *)
(* one after the other, then the row is replaced.                          *)

ReadVisits(w) ==
  /\ worker[w].at = "reading"
  /\ Become(w, [worker[w] EXCEPT !.at = "rereading",
                        !.row.visits = visits[Head(worker[w].left)]])
  /\ UNCHANGED <<phase, started, crashed, tree, rows, finish, result, history>>

ReadReward(w) ==
  /\ worker[w].at = "rereading"
  /\ Become(w, [worker[w] EXCEPT !.at = "writing",
                        !.row.total = total[Head(worker[w].left)]])
  /\ UNCHANGED <<phase, started, crashed, tree, rows, finish, result, history>>

\* A wrong variant: only the new node is persisted.
PersistFirst(w) == Idle

\* What a thread does after it has written one row.
PersistNext(w) ==
  IF Tail(worker[w].left) = <<>> THEN Idle
  ELSE [worker[w] EXCEPT !.at = "reading", !.left = Tail(@)]

WriteRow(w) ==
  /\ worker[w].at = "writing"
  /\ rows' = [rows EXCEPT ![Head(worker[w].left)] = worker[w].row]
  /\ Become(w, PersistNext(w))
  /\ UNCHANGED <<phase, started, crashed, tree, finish, result, history>>

\* sqlite raises (a locked database): not a TermiclawError.
PersistCrashes(w) ==
  /\ "store_crashes" \in Faults
  /\ worker[w].at \in {"reading", "writing"}
  /\ Become(w, Idle)
  /\ crashed' = TRUE
  /\ UNCHANGED <<phase, started, tree, rows, finish, result, history>>

-----------------------------------------------------------------------------
(* MctsSearch.run itself.                                                  *)

\* A wrong variant: the pool is left when the last playout was handed out.
AllHandedOut == started = Playouts

\* Every future has its result: the with block of the pool can be left.
AllDone == started = Playouts /\ \A w \in Workers : worker[w].at = "idle"

\* The first child of the highest mean reward, total / visits (every child
\* has been visited by then).
BestChildren(n) ==
  {c \in children[n] : \A d \in children[n] :
     \/ total[d] * visits[c] < total[c] * visits[d]
     \/ total[d] * visits[c] = total[c] * visits[d] /\ c <= d}

\* f.result() of a crashed playout raises once the pool has been joined.
Raise ==
  /\ phase = "running"
  /\ AllDone
  /\ crashed
  /\ phase' = "raised"
  /\ UNCHANGED <<started, crashed, worker, tree, rows, finish, result, history>>

Finish ==
  /\ phase = "running"
  /\ AllDone
  /\ ~crashed
  /\ phase' = "returned"
  /\ result' \in IF children[Root] = {} THEN {Root} ELSE BestChildren(Root)
  /\ finish' = [written |-> TRUE, total_playouts |-> visits[Root],
                best_leaf |-> best_leaf[Root]]
  /\ UNCHANGED <<started, crashed, worker, tree, rows, history>>

\* _persist_search_finish raises: the search is left without its outcome.
FinishCrashes ==
  /\ "store_crashes" \in Faults
  /\ phase = "running"
  /\ AllDone
  /\ ~crashed
  /\ phase' = "raised"
  /\ UNCHANGED <<started, crashed, worker, tree, rows, finish, result, history>>

Playout(w) ==
  \/ Select(w) \/ Simulate(w) \/ PlayoutFails(w) \/ PlayoutCrashes(w)
  \/ RecordNewNode(w) \/ Backprop(w)
  \/ ReadVisits(w) \/ ReadReward(w) \/ WriteRow(w) \/ PersistCrashes(w)

Ended == phase \in {"returned", "raised"} /\ UNCHANGED vars

Next ==
  \/ \E w \in Workers : Playout(w)
  \/ Raise \/ Finish \/ FinishCrashes
  \/ Ended

\* Every call a thread makes returns: agent.run is bounded by its turns, the
\* verifier by its timeout, the database by its busy timeout.
Fairness ==
  /\ \A w \in Workers : WF_vars(Playout(w))
  /\ WF_vars(Raise \/ Finish \/ FinishCrashes)

Spec == Init /\ [][Next]_vars /\ Fairness

-----------------------------------------------------------------------------
(* Properties.                                                             *)

(* The variables have their types, no more playouts are started than were  *)
(* submitted, and the pointers of a recorded node lead from it to Root.    *)
MctsTypeOK ==
  /\ phase \in {"running", "returned", "raised"}
  /\ started \in 0 .. Playouts
  /\ crashed \in BOOLEAN
  /\ worker \in [Workers -> Activity]
  /\ recorded \in 0 .. started
  /\ path \in [Nodes -> Seq(Nodes)]
  /\ \A n \in 0 .. recorded : /\ path[n] # <<>>
                             /\ Head(path[n]) = n
                             /\ path[n][Len(path[n])] = Root
  /\ children \in [Nodes -> SUBSET (1 .. recorded)]
  /\ visits \in [Nodes -> Nat]
  /\ total \in [Nodes -> Nat]
  /\ best_leaf \in [Nodes -> 0 .. recorded]
  /\ rows \in [Nodes -> [visits : Nat, total : Nat]]
  /\ finish \in [written : BOOLEAN, total_playouts : Nat, best_leaf : Nodes]
  /\ result \in 0 .. recorded
  /\ scored \subseteq 1 .. recorded
  /\ won \subseteq scored

(* Whatever order the threads record and score their runs in, each node's  *)
(* visits and total_reward count exactly the scored runs of its subtree:   *)
(* no reward is lost, counted twice, or added to a node beside the path.   *)
CountersAddUp ==
  \A n \in 0 .. recorded :
    /\ visits[n] = Cardinality({m \in scored : n \in Range(path[m])})
    /\ total[n] = Cardinality({m \in won : n \in Range(path[m])})

(* No node has more children than the pool has threads: UCB1 never returns *)
(* to an inner node, so only playouts that selected a leaf before one of   *)
(* them recorded its run can give it a second child.                       *)
BreadthBounded ==
  \A n \in Nodes : Cardinality(children[n]) <= Cardinality(Workers)

(* A search that returns has a row for every node of its tree, Root's too, *)
(* although each thread persists its own path and without the lock.        *)
EveryNodePersisted ==
  phase = "returned" /\ recorded > 0 =>
    \A n \in 0 .. recorded : rows[n].visits > 0

(* A search that returns counts every run it recorded, and if one of them  *)
(* earned the reward, then both the node it returns and the search's row   *)
(* name such a run, the node's below that node.                            *)
SuccessIsReturned ==
  phase = "returned" =>
    /\ finish.written
    /\ finish.total_playouts = recorded
    /\ won # {} => /\ finish.best_leaf \in won
                   /\ best_leaf[result] \in won
                   /\ result \in Range(path[best_leaf[result]])
    /\ won = {} => finish.best_leaf = NoLeaf

(* A search ends, whatever its playouts do, once each of their calls has   *)
(* returned: failed playouts are not waited for, nor tried again.          *)
SearchEnds == <>(phase \in {"returned", "raised"})

(* The search implements the ledger: the threads, their tree and its rows  *)
(* look from outside like one run scored after another, each once, and one *)
(* outcome that counts them all.                                           *)
Outcome == [status |-> phase, playouts |-> finish.total_playouts,
            best |-> finish.best_leaf,
            below |-> IF phase = "returned" THEN best_leaf[result] ELSE NoLeaf]
Ledger == INSTANCE SearchLedger WITH outcome <- Outcome
ImplementsSearch == Ledger!Spec
=============================================================================
