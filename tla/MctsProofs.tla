------------------------------ MODULE MctsProofs ----------------------------
(***************************************************************************)
(* What holds of every search, for every number of threads and playouts:   *)
(* the types, the counters of the tree, its breadth, and the rows it       *)
(* leaves behind.                                                          *)
(***************************************************************************)
EXTENDS Mcts, FiniteSetTheorems, SequenceTheorems, TLAPS

\* Playouts that have been started and may still record a node.
Unrecorded == {w \in Workers : worker[w].at \in {"running", "ran"}}

Persisting == {w \in Workers :
                 worker[w].at \in {"reading", "rereading", "writing"}}

(* What MctsTypeOK needs to be inductive: threads hold recorded nodes, and *)
(* every node still to come belongs to a playout that has been started.    *)
TypeInv ==
  /\ MctsTypeOK
  /\ \A w \in Workers :
       /\ worker[w].node <= recorded
       /\ worker[w].at = "recorded" => worker[w].node # Root
       /\ w \in Persisting => worker[w].left # <<>>
  /\ recorded + Cardinality(Unrecorded) <= started

-----------------------------------------------------------------------------
(* Lemmas on the set of threads that have one activity.                    *)

(* A step that changes one thread changes the number of threads with a     *)
(* property by at most that thread (Become of Playout's actions).          *)
LEMMA OneThread ==
  ASSUME NEW S \in SUBSET Workers, NEW T \in SUBSET Workers, NEW w \in Workers,
         \A v \in Workers \ {w} : v \in S <=> v \in T
  PROVE  /\ Cardinality(S) \in Nat /\ Cardinality(T) \in Nat
         /\ w \in S /\ w \in T => Cardinality(T) = Cardinality(S)
         /\ w \notin S /\ w \notin T => Cardinality(T) = Cardinality(S)
         /\ w \notin S /\ w \in T => Cardinality(T) = Cardinality(S) + 1
         /\ w \in S /\ w \notin T => Cardinality(T) = Cardinality(S) - 1
         /\ Cardinality(S) <= Cardinality(Workers)
<1>1. IsFiniteSet(S) /\ IsFiniteSet(T)
  BY SearchAssumption, FS_Subset
<1>2. Cardinality(S) \in Nat /\ Cardinality(T) \in Nat
  BY <1>1, FS_CardinalityType
<1>3. Cardinality(S) <= Cardinality(Workers)
  BY SearchAssumption, FS_Subset
<1>4. CASE w \in S <=> w \in T
  <2>1. S = T
    BY <1>4
  <2> QED BY <2>1, <1>2, <1>3
<1>5. CASE w \notin S /\ w \in T
  <2>1. T = S \cup {w}
    BY <1>5
  <2>2. Cardinality(T) = Cardinality(S) + 1
    BY <2>1, <1>1, <1>5, FS_AddElement
  <2> QED BY <2>2, <1>2, <1>3, <1>5
<1>6. CASE w \in S /\ w \notin T
  <2>1. T = S \ {w}
    BY <1>6
  <2>2. Cardinality(T) = Cardinality(S) - 1
    BY <2>1, <1>1, <1>6, FS_RemoveElement
  <2> QED BY <2>2, <1>2, <1>3, <1>6
<1> QED BY <1>4, <1>5, <1>6

(* What a step of one thread leaves of all others.                         *)
LEMMA BecomeType ==
  ASSUME MctsTypeOK, NEW w \in Workers, NEW a \in Activity, Become(w, a)
  PROVE  /\ worker' \in [Workers -> Activity]
         /\ worker'[w] = a
         /\ \A v \in Workers \ {w} : worker'[v] = worker[v]
BY DEF MctsTypeOK, Become

-----------------------------------------------------------------------------
(* Types.                                                                  *)

LEMMA InitTypeInv == Init => TypeInv
<1> SUFFICES ASSUME Init PROVE TypeInv
  OBVIOUS
<1>1. Unrecorded = {} /\ Cardinality(Unrecorded) = 0
  <2>1. Unrecorded = {}
    BY DEF Init, Idle, Unrecorded
  <2> QED BY <2>1, FS_EmptySet
<1>2. 0 \in Nodes /\ <<Root>> \in Seq(Nodes) /\ <<>> \in Seq(Nodes)
  BY SearchAssumption DEF Nodes, Root
<1>3. Idle \in Activity
  BY <1>2 DEF Idle, Activity, NoRow, Root
<1>4. path \in [Nodes -> Seq(Nodes)]
  BY <1>2 DEF Init
<1>5. /\ path[0] # <<>>
      /\ Head(path[0]) = 0
      /\ path[0][Len(path[0])] = Root
  <2>1. path[0] = <<0>>
    BY <1>2 DEF Init, Root
  <2> QED BY <2>1 DEF Root
<1>6. MctsTypeOK
  <2>1. /\ started \in 0 .. Playouts /\ recorded \in 0 .. started
        /\ result \in 0 .. recorded
        /\ best_leaf \in [Nodes -> 0 .. recorded]
    BY SearchAssumption DEF Init, NoLeaf, Root
  <2>2. \A n \in 0 .. recorded : /\ path[n] # <<>> /\ Head(path[n]) = n
                                 /\ path[n][Len(path[n])] = Root
    BY <1>5 DEF Init
  <2>3. /\ rows \in [Nodes -> [visits : Nat, total : Nat]]
        /\ finish \in [written : BOOLEAN, total_playouts : Nat,
                       best_leaf : Nodes]
    BY <1>2 DEF Init, NoRow, NoFinish, NoLeaf
  <2> QED BY <1>3, <1>4, <2>1, <2>2, <2>3 DEF Init, MctsTypeOK
<1> QED BY <1>1, <1>6 DEF Init, TypeInv, Idle, Persisting, Root

LEMMA IdleType == Idle \in Activity
<1>1. 0 \in Nodes /\ <<>> \in Seq(Nodes)
  BY SearchAssumption DEF Nodes
<1> QED BY <1>1 DEF Idle, Activity, NoRow, Root

(* A step that changes what one thread is doing, and rows, but not the     *)
(* tree (all of Playout's actions but three).                              *)
LEMMA ActivityStep ==
  ASSUME TypeInv, NEW w \in Workers, NEW a \in Activity, Become(w, a),
         UNCHANGED <<phase, started, tree, finish, result, history>>,
         crashed' \in BOOLEAN,
         rows' \in [Nodes -> [visits : Nat, total : Nat]],
         a.node <= recorded,
         a.at # "recorded",
         a.at \in {"reading", "rereading", "writing"} => a.left # <<>>,
         a.at \in {"running", "ran"} => w \in Unrecorded
  PROVE  TypeInv'
<1> USE DEF tree, history
<1>1. /\ worker' \in [Workers -> Activity]
      /\ worker'[w] = a
      /\ \A v \in Workers \ {w} : worker'[v] = worker[v]
  BY BecomeType DEF TypeInv
<1>2. MctsTypeOK'
  BY <1>1 DEF TypeInv, MctsTypeOK
<1>3. \A v \in Workers : /\ worker'[v].node <= recorded'
                         /\ worker'[v].at = "recorded" => worker'[v].node # Root
                         /\ v \in Persisting' => worker'[v].left # <<>>
  BY <1>1 DEF TypeInv, Persisting
<1>4. Cardinality(Unrecorded') <= Cardinality(Unrecorded)
  <2>1. /\ Unrecorded \in SUBSET Workers /\ Unrecorded' \in SUBSET Workers
        /\ \A v \in Workers \ {w} : v \in Unrecorded <=> v \in Unrecorded'
        /\ w \in Unrecorded' => w \in Unrecorded
    BY <1>1 DEF Unrecorded
  <2> HIDE DEF Unrecorded
  <2> QED BY <2>1, OneThread
<1>5. recorded' + Cardinality(Unrecorded') <= started'
  <2>1. Cardinality(Unrecorded) \in Nat /\ Cardinality(Unrecorded') \in Nat
    BY SearchAssumption, FS_Subset, FS_CardinalityType DEF Unrecorded
  <2>2. /\ recorded' = recorded /\ started' = started
        /\ recorded \in Nat /\ started \in Nat
        /\ recorded + Cardinality(Unrecorded) <= started
    BY SearchAssumption DEF TypeInv, MctsTypeOK
  <2> HIDE DEF Unrecorded
  <2> QED BY <1>4, <2>1, <2>2
<1> QED BY <1>2, <1>3, <1>5 DEF TypeInv

LEMMA SelectType ==
  ASSUME TypeInv, NEW w \in Workers, Select(w)
  PROVE  TypeInv'
<1> USE DEF tree, history
<1>1. PICK n \in 0 .. recorded : Become(w, [Idle EXCEPT !.at = "running",
                                                        !.node = n])
  BY DEF Select
<1> DEFINE a == [Idle EXCEPT !.at = "running", !.node = n]
<1>2. a \in Activity /\ a.at = "running" /\ a.node = n
  <2>1. n \in Nodes
    BY SearchAssumption DEF TypeInv, MctsTypeOK, Nodes
  <2> QED BY <2>1, IdleType DEF Activity, Idle
<1> HIDE DEF a
<1>3. /\ worker' \in [Workers -> Activity]
      /\ worker'[w] = a
      /\ \A v \in Workers \ {w} : worker'[v] = worker[v]
  BY <1>1, <1>2, BecomeType DEF TypeInv, a
<1>4. MctsTypeOK'
  <2>1. started' \in 0 .. Playouts /\ recorded' \in 0 .. started'
    BY SearchAssumption DEF TypeInv, MctsTypeOK, Select
  <2> QED BY <1>3, <2>1 DEF TypeInv, MctsTypeOK, Select
<1>5. \A v \in Workers : /\ worker'[v].node <= recorded'
                         /\ worker'[v].at = "recorded" => worker'[v].node # Root
                         /\ v \in Persisting' => worker'[v].left # <<>>
  BY <1>2, <1>3 DEF TypeInv, Persisting, Select
<1>6. Cardinality(Unrecorded') = Cardinality(Unrecorded) + 1
  <2>1. /\ Unrecorded \in SUBSET Workers /\ Unrecorded' \in SUBSET Workers
        /\ \A v \in Workers \ {w} : v \in Unrecorded <=> v \in Unrecorded'
        /\ w \notin Unrecorded /\ w \in Unrecorded'
    BY <1>2, <1>3 DEF Unrecorded, Select
  <2> HIDE DEF Unrecorded
  <2> QED BY <2>1, OneThread
<1>7. recorded' + Cardinality(Unrecorded') <= started'
  <2>1. Cardinality(Unrecorded) \in Nat
    BY SearchAssumption, FS_Subset, FS_CardinalityType DEF Unrecorded
  <2>2. /\ recorded' = recorded /\ started' = started + 1
        /\ recorded \in Nat /\ started \in Nat
        /\ recorded + Cardinality(Unrecorded) <= started
    BY SearchAssumption DEF TypeInv, MctsTypeOK, Select
  <2> HIDE DEF Unrecorded
  <2> QED BY <1>6, <2>1, <2>2
<1> QED BY <1>4, <1>5, <1>7 DEF TypeInv

\* The number of nodes only grows as far as playouts were started.
LEMMA RecordedBound ==
  ASSUME TypeInv, NEW w \in Unrecorded
  PROVE  /\ recorded + 1 \in 1 .. started
         /\ recorded + 1 \in Nodes
<1>1. Cardinality(Unrecorded) \in Nat /\ Cardinality(Unrecorded) # 0
  BY SearchAssumption, FS_Subset, FS_CardinalityType, FS_EmptySet
     DEF Unrecorded
<1>2. /\ Playouts \in Nat
      /\ started \in 0 .. Playouts
      /\ recorded \in 0 .. started
      /\ recorded + Cardinality(Unrecorded) <= started
  BY SearchAssumption DEF TypeInv, MctsTypeOK
<1> HIDE DEF Unrecorded
<1>3. recorded + 1 <= started
  BY <1>1, <1>2
<1> QED BY <1>2, <1>3 DEF Nodes

LEMMA RecordType ==
  ASSUME TypeInv, NEW w \in Workers, RecordNewNode(w)
  PROVE  TypeInv'
<1> USE DEF history
<1> DEFINE parent == worker[w].node
           node   == recorded + 1
           a      == [worker[w] EXCEPT !.at = "recorded", !.node = node]
<1>1. w \in Unrecorded
  BY DEF RecordNewNode, Unrecorded
<1>2. node \in 1 .. started /\ node \in Nodes
  BY <1>1, RecordedBound
<1>3. /\ recorded' = node
      /\ path' = [path EXCEPT ![node] = <<node>> \o path[parent]]
      /\ children' = [children EXCEPT ![parent] = @ \cup {node}]
      /\ Become(w, a)
  BY DEF RecordNewNode
<1>0. /\ recorded \in Nat /\ recorded' = recorded + 1
      /\ started \in Nat /\ recorded + 1 <= started
      /\ Playouts \in Nat /\ started <= Playouts
  BY <1>2, <1>3, SearchAssumption DEF TypeInv, MctsTypeOK
<1>4. a \in Activity /\ a.at = "recorded" /\ a.node = node
  <2>1. worker[w] \in Activity /\ node \in Nodes
    BY <1>2 DEF TypeInv, MctsTypeOK
  <2> HIDE DEF node
  <2> QED BY <2>1 DEF Activity
<1>5. /\ parent \in 0 .. recorded
      /\ recorded \in Nat
      /\ parent \in Nodes
      /\ path[parent] \in Seq(Nodes)
      /\ path[parent] # <<>>
      /\ path[parent][Len(path[parent])] = Root
  <2>1. worker[w] \in Activity /\ parent <= recorded /\ recorded \in Nat
    BY DEF TypeInv, MctsTypeOK
  <2>2. parent \in Nodes
    BY <2>1 DEF Activity
  <2> HIDE DEF parent, node, a
  <2>3. parent \in 0 .. recorded
    BY <2>1, <2>2, SearchAssumption DEF Nodes
  <2>4. path[parent] \in Seq(Nodes)
    BY <2>2 DEF TypeInv, MctsTypeOK
  <2>5. path[parent] # <<>> /\ path[parent][Len(path[parent])] = Root
    BY <2>3 DEF TypeInv, MctsTypeOK
  <2> QED BY <2>1, <2>2, <2>3, <2>4, <2>5
<1>6. /\ worker' \in [Workers -> Activity]
      /\ worker'[w] = a
      /\ \A v \in Workers \ {w} : worker'[v] = worker[v]
  BY <1>3, <1>4, BecomeType DEF TypeInv
<1> DEFINE new == <<node>> \o path[parent]
<1>7. new \in Seq(Nodes) /\ new # <<>> /\ Head(new) = node /\ new[Len(new)] = Root
  <2> HIDE DEF node, parent
  <2>1. <<node>> \in Seq(Nodes) /\ Len(<<node>>) = 1 /\ <<node>>[1] = node
    BY <1>2
  <2>2. /\ new \in Seq(Nodes)
        /\ Len(new) = 1 + Len(path[parent])
        /\ \A i \in 1 .. 1 + Len(path[parent]) :
             new[i] = IF i <= 1 THEN <<node>>[i] ELSE path[parent][i - 1]
    BY <2>1, <1>5, ConcatProperties
  <2>3. Len(path[parent]) \in Nat \ {0}
    BY <1>5
  <2> HIDE DEF new
  <2>4. new[1] = node /\ new[Len(new)] = Root
    BY <2>1, <2>2, <2>3, <1>5
  <2> QED BY <2>2, <2>3, <2>4
<1> HIDE DEF new, node, a, parent
<1>8. /\ path' = [path EXCEPT ![node] = new]
      /\ path' \in [Nodes -> Seq(Nodes)]
      /\ path'[node] = new
      /\ \A n \in Nodes : n # node => path'[n] = path[n]
  BY <1>2, <1>3, <1>7 DEF new, TypeInv, MctsTypeOK
<1>9. \A n \in 0 .. recorded' : /\ path'[n] # <<>>
                                /\ Head(path'[n]) = n
                                /\ path'[n][Len(path'[n])] = Root
  <2> SUFFICES ASSUME NEW n \in 0 .. recorded'
               PROVE  /\ path'[n] # <<>>
                      /\ Head(path'[n]) = n
                      /\ path'[n][Len(path'[n])] = Root
    OBVIOUS
  <2>1. CASE n = node
    BY <2>1, <1>7, <1>8
  <2>2. CASE n # node
    <3>1. n \in 0 .. recorded /\ n \in Nodes
      BY <2>2, <1>0 DEF node, Nodes
    <3> QED BY <2>2, <3>1, <1>8 DEF TypeInv, MctsTypeOK
  <2> QED BY <2>1, <2>2
<1>10. children' \in [Nodes -> SUBSET (1 .. recorded')]
  <2>1. /\ children \in [Nodes -> SUBSET (1 .. recorded')]
        /\ node \in 1 .. recorded'
    <3>1. 1 .. recorded \subseteq 1 .. recorded'
      BY <1>0
    <3>2. children \in [Nodes -> SUBSET (1 .. recorded')]
      BY <3>1 DEF TypeInv, MctsTypeOK
    <3> QED BY <3>2, <1>0 DEF node
  <2> QED BY <2>1, <1>3
<1>11. recorded \in 0 .. recorded' /\ recorded' \in 0 .. started
  BY <1>0
<1>12. MctsTypeOK'
  <2>1. best_leaf' \in [Nodes -> 0 .. recorded']
    <3>1. best_leaf' \in [Nodes -> 0 .. recorded]
      BY DEF TypeInv, MctsTypeOK, RecordNewNode
    <3> SUFFICES ASSUME NEW n \in Nodes PROVE best_leaf'[n] \in 0 .. recorded'
      BY <3>1
    <3>2. best_leaf'[n] \in 0 .. recorded
      BY <3>1
    <3> QED BY <3>2, <1>0
  <2>2. scored' \subseteq 1 .. recorded' /\ won' \subseteq scored'
    <3>1. 1 .. recorded \subseteq 1 .. recorded'
      BY <1>0
    <3> QED BY <3>1 DEF TypeInv, MctsTypeOK, RecordNewNode
  <2>3. result' \in 0 .. recorded' /\ recorded' \in 0 .. started'
    BY <1>0 DEF TypeInv, MctsTypeOK, RecordNewNode
  <2> QED BY <1>6, <1>8, <1>9, <1>10, <2>1, <2>2, <2>3
          DEF TypeInv, MctsTypeOK, RecordNewNode
<1>13. \A v \in Workers : /\ worker'[v].node <= recorded'
                          /\ worker'[v].at = "recorded" => worker'[v].node # Root
                          /\ v \in Persisting' => worker'[v].left # <<>>
  <2>1. /\ worker'[w].node = recorded' /\ worker'[w].at = "recorded"
        /\ recorded' # Root /\ recorded' \in Nat /\ recorded <= recorded'
    BY <1>0, <1>4, <1>6 DEF Root, node
  <2>2. \A v \in Workers : worker[v].node \in Nat
    BY DEF TypeInv, MctsTypeOK, Activity, Nodes
  <2> QED BY <1>0, <1>6, <2>1, <2>2 DEF TypeInv, Persisting
<1>14. Cardinality(Unrecorded') = Cardinality(Unrecorded) - 1
  <2>1. /\ Unrecorded \in SUBSET Workers /\ Unrecorded' \in SUBSET Workers
        /\ \A v \in Workers \ {w} : v \in Unrecorded <=> v \in Unrecorded'
        /\ w \in Unrecorded /\ w \notin Unrecorded'
    BY <1>1, <1>4, <1>6 DEF Unrecorded
  <2> HIDE DEF Unrecorded
  <2> QED BY <2>1, OneThread
<1>15. recorded' + Cardinality(Unrecorded') <= started'
  <2>1. Cardinality(Unrecorded) \in Nat
    BY SearchAssumption, FS_Subset, FS_CardinalityType DEF Unrecorded
  <2> QED BY <1>3, <1>14, <2>1 DEF TypeInv, MctsTypeOK, RecordNewNode, node
<1> QED BY <1>12, <1>13, <1>15 DEF TypeInv

LEMMA BackpropType ==
  ASSUME TypeInv, NEW w \in Workers, Backprop(w)
  PROVE  TypeInv'
<1> DEFINE node == worker[w].node
           a    == [worker[w] EXCEPT !.at = "reading", !.left = path[node]]
<1>1. /\ Become(w, a)
      /\ UNCHANGED <<phase, started, crashed, recorded, path, children, rows,
                     finish, result>>
  BY DEF Backprop, Upwards
<1>2. /\ node \in 1 .. recorded
      /\ node \in Nodes
      /\ node \in 0 .. recorded
      /\ worker[w].reward \in {0, 1}
  <2>1. worker[w] \in Activity /\ worker[w].at = "recorded"
    BY DEF Backprop, TypeInv, MctsTypeOK
  <2>2. /\ node \in 0 .. Playouts /\ node <= recorded /\ node # 0
        /\ worker[w].reward \in {0, 1}
    BY <2>1 DEF TypeInv, Activity, Nodes, Root
  <2>3. Playouts \in Nat /\ recorded \in Nat
    BY SearchAssumption DEF TypeInv, MctsTypeOK
  <2> HIDE DEF node
  <2> QED BY <2>2, <2>3 DEF Nodes
<1>3. /\ path[node] \in Seq(Nodes)
      /\ path[node] # <<>>
  <2> HIDE DEF node
  <2> QED BY <1>2 DEF TypeInv, MctsTypeOK
<1>4. a \in Activity /\ a.at = "reading" /\ a.left # <<>> /\ a.node = node
  <2>1. worker[w] \in Activity
    BY DEF TypeInv, MctsTypeOK
  <2> QED BY <1>3, <2>1 DEF Activity
<1>5. /\ worker' \in [Workers -> Activity]
      /\ worker'[w] = a
      /\ \A v \in Workers \ {w} : worker'[v] = worker[v]
  BY <1>1, <1>4, BecomeType DEF TypeInv
<1>6. visits' \in [Nodes -> Nat] /\ total' \in [Nodes -> Nat]
  <2> DEFINE above == Range(Upwards(node))
  <2>1. /\ visits' = [n \in Nodes |->
                       IF n \in above THEN visits[n] + 1 ELSE visits[n]]
        /\ total' = [n \in Nodes |->
                      IF n \in above THEN total[n] + worker[w].reward
                                     ELSE total[n]]
    BY DEF Backprop
  <2> HIDE DEF above, node
  <2>2. /\ \A n \in Nodes : visits[n] \in Nat /\ total[n] \in Nat
        /\ worker[w].reward \in Nat
    BY <1>2 DEF TypeInv, MctsTypeOK
  <2> QED BY <2>1, <2>2
<1>7. best_leaf' \in [Nodes -> 0 .. recorded']
  BY <1>1, <1>2 DEF Backprop, TypeInv, MctsTypeOK
<1>8. scored' \subseteq 1 .. recorded' /\ won' \subseteq scored'
  BY <1>1, <1>2 DEF Backprop, TypeInv, MctsTypeOK
<1> HIDE DEF a
<1>9. MctsTypeOK'
  BY <1>1, <1>5, <1>6, <1>7, <1>8 DEF TypeInv, MctsTypeOK
<1>10. \A v \in Workers : /\ worker'[v].node <= recorded'
                          /\ worker'[v].at = "recorded" => worker'[v].node # Root
                          /\ v \in Persisting' => worker'[v].left # <<>>
  BY <1>1, <1>2, <1>4, <1>5 DEF TypeInv, Persisting
<1>11. Unrecorded' = Unrecorded
  BY <1>4, <1>5 DEF Unrecorded, Backprop
<1> QED BY <1>1, <1>9, <1>10, <1>11 DEF TypeInv

LEMMA PlayoutType ==
  ASSUME TypeInv, NEW w \in Workers, Playout(w)
  PROVE  TypeInv'
<1>a. /\ worker[w] \in Activity
      /\ Idle \in Activity
      /\ crashed \in BOOLEAN
      /\ rows \in [Nodes -> [visits : Nat, total : Nat]]
      /\ worker[w].node <= recorded
      /\ Idle.node <= recorded /\ Idle.at = "idle"
  BY IdleType DEF TypeInv, MctsTypeOK, Idle, Root
<1>1. CASE Select(w)
  BY <1>1, SelectType
<1>2. CASE Simulate(w)
  <2>1. PICK reward \in Rewards :
          Become(w, [worker[w] EXCEPT !.at = "ran", !.reward = reward])
    BY <1>2 DEF Simulate
  <2>2. [worker[w] EXCEPT !.at = "ran", !.reward = reward] \in Activity
    BY <1>a DEF Activity, Rewards
  <2>3. w \in Unrecorded
    BY <1>2 DEF Simulate, Unrecorded
  <2> QED BY <1>2, <1>a, <2>1, <2>2, <2>3, ActivityStep DEF Simulate, Activity
<1>3. CASE PlayoutFails(w)
  BY <1>3, <1>a, ActivityStep DEF PlayoutFails
<1>4. CASE PlayoutCrashes(w)
  BY <1>4, <1>a, ActivityStep DEF PlayoutCrashes
<1>5. CASE RecordNewNode(w)
  BY <1>5, RecordType
<1>6. CASE Backprop(w)
  BY <1>6, BackpropType
<1>7. CASE ReadVisits(w)
  <2>1. /\ worker[w].left \in Seq(Nodes) /\ worker[w].left # <<>>
        /\ Head(worker[w].left) \in Nodes
    BY <1>7, <1>a DEF ReadVisits, TypeInv, Persisting, Activity
  <2>2. visits[Head(worker[w].left)] \in Nat
    BY <2>1 DEF TypeInv, MctsTypeOK
  <2> DEFINE a == [worker[w] EXCEPT !.at = "rereading",
                            !.row.visits = visits[Head(worker[w].left)]]
  <2>3. /\ a \in Activity /\ a.at = "rereading" /\ a.left # <<>>
        /\ a.node = worker[w].node
    BY <1>a, <2>1, <2>2 DEF Activity
  <2>4. Become(w, a)
    BY <1>7 DEF ReadVisits
  <2> HIDE DEF a
  <2> QED BY <1>7, <1>a, <2>3, <2>4, ActivityStep DEF ReadVisits
<1>8. CASE ReadReward(w)
  <2>1. /\ worker[w].left \in Seq(Nodes) /\ worker[w].left # <<>>
        /\ Head(worker[w].left) \in Nodes
    BY <1>8, <1>a DEF ReadReward, TypeInv, Persisting, Activity
  <2>2. total[Head(worker[w].left)] \in Nat
    BY <2>1 DEF TypeInv, MctsTypeOK
  <2> DEFINE a == [worker[w] EXCEPT !.at = "writing",
                            !.row.total = total[Head(worker[w].left)]]
  <2>3. /\ a \in Activity /\ a.at = "writing" /\ a.left # <<>>
        /\ a.node = worker[w].node
    BY <1>a, <2>1, <2>2 DEF Activity
  <2>4. Become(w, a)
    BY <1>8 DEF ReadReward
  <2> HIDE DEF a
  <2> QED BY <1>8, <1>a, <2>3, <2>4, ActivityStep DEF ReadReward
<1>9. CASE WriteRow(w)
  <2>1. /\ worker[w].left \in Seq(Nodes) /\ worker[w].left # <<>>
        /\ Head(worker[w].left) \in Nodes
        /\ Tail(worker[w].left) \in Seq(Nodes)
    BY <1>9, <1>a DEF WriteRow, TypeInv, Persisting, Activity
  <2>2. rows' \in [Nodes -> [visits : Nat, total : Nat]]
    BY <1>9, <1>a DEF WriteRow, Activity
  <2>3. /\ PersistNext(w) \in Activity
        /\ PersistNext(w).node <= recorded
        /\ PersistNext(w).at \in {"idle", "reading"}
        /\ PersistNext(w).at = "reading" => PersistNext(w).left # <<>>
    BY <1>a, <2>1 DEF PersistNext, Activity
  <2>4. Become(w, PersistNext(w))
    BY <1>9 DEF WriteRow
  <2> QED BY <1>9, <1>a, <2>2, <2>3, <2>4, ActivityStep DEF WriteRow
<1>10. CASE PersistCrashes(w)
  BY <1>10, <1>a, ActivityStep DEF PersistCrashes
<1> QED BY <1>1, <1>2, <1>3, <1>4, <1>5, <1>6, <1>7, <1>8, <1>9, <1>10
        DEF Playout

LEMMA NextTypeInv == TypeInv /\ [Next]_vars => TypeInv'
<1> SUFFICES ASSUME TypeInv, [Next]_vars PROVE TypeInv'
  OBVIOUS
<1>1. CASE \E w \in Workers : Playout(w)
  BY <1>1, PlayoutType
<1>2. CASE Raise \/ FinishCrashes
  BY <1>2 DEF Raise, FinishCrashes, TypeInv, MctsTypeOK, Unrecorded, Persisting,
              tree, history
<1>3. CASE Finish
  <2>1. result' \in 0 .. recorded
    <3>1. children[Root] \subseteq 1 .. recorded /\ Root \in 0 .. recorded
      BY SearchAssumption DEF TypeInv, MctsTypeOK, Nodes, Root
    <3> QED BY <1>3, <3>1 DEF Finish, BestChildren
  <2>2. finish' \in [written : BOOLEAN, total_playouts : Nat, best_leaf : Nodes]
    <3>1. Root \in Nodes /\ recorded <= Playouts /\ recorded \in Nat
      BY SearchAssumption DEF TypeInv, MctsTypeOK, Nodes, Root
    <3>2. visits[Root] \in Nat /\ best_leaf[Root] \in 0 .. recorded
      BY <3>1 DEF TypeInv, MctsTypeOK
    <3>3. best_leaf[Root] \in Nodes
      BY <3>1, <3>2, SearchAssumption DEF Nodes
    <3> QED BY <1>3, <3>2, <3>3 DEF Finish
  <2> QED BY <1>3, <2>1, <2>2
          DEF Finish, TypeInv, MctsTypeOK, Unrecorded, Persisting, tree, history
<1>4. CASE UNCHANGED vars
  BY <1>4 DEF vars, TypeInv, MctsTypeOK, Unrecorded, Persisting, tree, history
<1> QED BY <1>1, <1>2, <1>3, <1>4 DEF Next, Ended

(* In every search the variables have their types, however many threads    *)
(* and playouts it has and whatever fails (MctsSearch and its workers).    *)
THEOREM MctsTypeCorrect == Spec => []MctsTypeOK
<1>1. TypeInv => MctsTypeOK
  BY DEF TypeInv
<1> QED BY <1>1, InitTypeInv, NextTypeInv, PTL DEF Spec

-----------------------------------------------------------------------------
(* Breadth.                                                                *)

\* The playouts on their way to a child of n.
Heading(n) == {w \in Unrecorded : worker[w].node = n}

(* What BreadthBounded needs to be inductive: a node gets no more children *)
(* than it has, and playouts on their way to one, at any moment.           *)
BreadthInv ==
  \A n \in Nodes :
    Cardinality(children[n]) + Cardinality(Heading(n)) <= Cardinality(Workers)

\* The sets counted are finite.
LEMMA BreadthFinite ==
  ASSUME TypeInv, NEW n \in Nodes
  PROVE  /\ IsFiniteSet(children[n])
         /\ Cardinality(children[n]) \in Nat
         /\ Heading(n) \in SUBSET Workers
         /\ Cardinality(Heading(n)) \in Nat
         /\ Cardinality(Workers) \in Nat
<1>1. children[n] \subseteq 1 .. recorded /\ recorded \in Nat
  BY DEF TypeInv, MctsTypeOK
<1>2. IsFiniteSet(1 .. recorded)
  BY <1>1, FS_Interval
<1>3. IsFiniteSet(children[n]) /\ Cardinality(children[n]) \in Nat
  BY <1>1, <1>2, FS_Subset, FS_CardinalityType
<1>4. Heading(n) \in SUBSET Workers
  BY DEF Heading, Unrecorded
<1>5. Cardinality(Heading(n)) \in Nat /\ Cardinality(Workers) \in Nat
  BY <1>4, SearchAssumption, FS_Subset, FS_CardinalityType
<1> QED BY <1>3, <1>4, <1>5

\* A step that adds neither a child nor a playout on its way keeps it.
LEMMA BreadthKept ==
  ASSUME TypeInv, TypeInv', BreadthInv, UNCHANGED children,
         \A n \in Nodes : Heading(n)' \subseteq Heading(n)
  PROVE  BreadthInv'
<1> SUFFICES ASSUME NEW n \in Nodes
             PROVE  Cardinality(children'[n]) + Cardinality(Heading(n)')
                      <= Cardinality(Workers)
  BY DEF BreadthInv
<1> DEFINE before == Heading(n)
           after  == Heading(n)'
<1>1. /\ Cardinality(children[n]) + Cardinality(before) <= Cardinality(Workers)
      /\ after \subseteq before /\ before \subseteq Workers
      /\ Cardinality(children[n]) \in Nat
      /\ Cardinality(before) \in Nat /\ Cardinality(Workers) \in Nat
  BY BreadthFinite DEF BreadthInv
<1> HIDE DEF before, after
<1>2. Cardinality(after) \in Nat /\ Cardinality(after) <= Cardinality(before)
  BY <1>1, SearchAssumption, FS_Subset, FS_CardinalityType
<1>3. Cardinality(children[n]) + Cardinality(after) <= Cardinality(Workers)
  BY <1>1, <1>2
<1> QED BY <1>3 DEF after

LEMMA BreadthSelect ==
  ASSUME TypeInv, TypeInv', BreadthInv, NEW w \in Workers, Select(w)
  PROVE  BreadthInv'
<1>1. PICK leaf \in 0 .. recorded :
        /\ children[leaf] = {}
        /\ Become(w, [Idle EXCEPT !.at = "running", !.node = leaf])
  BY DEF Select
<1>2. /\ \A v \in Workers \ {w} : worker'[v] = worker[v]
      /\ worker'[w].node = leaf
      /\ worker[w].at = "idle"
      /\ children' = children
  BY <1>1 DEF Select, Become, TypeInv, MctsTypeOK, Idle, tree
<1> SUFFICES ASSUME NEW n \in Nodes
             PROVE  Cardinality(children'[n]) + Cardinality(Heading(n)')
                      <= Cardinality(Workers)
  BY DEF BreadthInv
<1>3. CASE n = leaf
  <2>1. Cardinality(children'[n]) = 0
    BY <1>1, <1>2, <1>3, FS_EmptySet
  <2>2. Heading(n)' \subseteq Workers
    BY DEF Heading, Unrecorded
  <2> DEFINE after == Heading(n)'
  <2> HIDE DEF after
  <2>3. /\ Cardinality(after) \in Nat /\ Cardinality(Workers) \in Nat
        /\ Cardinality(after) <= Cardinality(Workers)
    BY <2>2, SearchAssumption, FS_Subset, FS_CardinalityType DEF after
  <2>4. 0 + Cardinality(after) <= Cardinality(Workers)
    BY <2>3
  <2> QED BY <2>1, <2>4 DEF after
<1>4. CASE n # leaf
  <2>1. Heading(n)' = Heading(n)
    BY <1>2, <1>4 DEF Heading, Unrecorded
  <2> QED BY <1>2, <2>1 DEF BreadthInv
<1> QED BY <1>3, <1>4

LEMMA BreadthRecord ==
  ASSUME TypeInv, TypeInv', BreadthInv, NEW w \in Workers, RecordNewNode(w)
  PROVE  BreadthInv'
<1> DEFINE parent == worker[w].node
           node   == recorded + 1
<1>1. /\ children' = [children EXCEPT ![parent] = @ \cup {node}]
      /\ \A v \in Workers \ {w} : worker'[v] = worker[v]
      /\ worker'[w].at = "recorded"
      /\ worker[w].at = "ran"
  BY DEF RecordNewNode, Become, TypeInv, MctsTypeOK, Activity
<1>2. children \in [Nodes -> SUBSET (1 .. recorded)] /\ recorded \in Nat
  BY DEF TypeInv, MctsTypeOK
<1> SUFFICES ASSUME NEW n \in Nodes
             PROVE  Cardinality(children'[n]) + Cardinality(Heading(n)')
                      <= Cardinality(Workers)
  BY DEF BreadthInv
<1> DEFINE before == Heading(n)
           after  == Heading(n)'
<1>3. /\ Cardinality(children[n]) + Cardinality(before) <= Cardinality(Workers)
      /\ IsFiniteSet(children[n]) /\ Cardinality(children[n]) \in Nat
      /\ before \in SUBSET Workers /\ Cardinality(before) \in Nat
      /\ Cardinality(Workers) \in Nat
  BY BreadthFinite DEF BreadthInv
<1>4. CASE n = parent
  <2>1. children'[n] = children[n] \cup {node} /\ node \notin children[n]
    BY <1>1, <1>2, <1>4
  <2>2. Cardinality(children'[n]) = Cardinality(children[n]) + 1
    BY <2>1, <1>3, FS_AddElement
  <2>3. /\ after \in SUBSET Workers
        /\ \A v \in Workers \ {w} : v \in before <=> v \in after
        /\ w \in before /\ w \notin after
    BY <1>1, <1>4 DEF Heading, Unrecorded
  <2> HIDE DEF before, after
  <2>4. Cardinality(after) = Cardinality(before) - 1
    BY <2>3, <1>3, OneThread
  <2>5. Cardinality(children'[n]) + Cardinality(after) <= Cardinality(Workers)
    BY <1>3, <2>2, <2>4
  <2> QED BY <2>5 DEF after
<1>5. CASE n # parent
  <2>1. children'[n] = children[n]
    BY <1>1, <1>2, <1>5
  <2>2. after = before
    BY <1>1, <1>5 DEF Heading, Unrecorded
  <2> QED BY <1>3, <2>1, <2>2
<1> QED BY <1>4, <1>5

LEMMA BreadthPlayout ==
  ASSUME TypeInv, TypeInv', BreadthInv, NEW w \in Workers, Playout(w)
  PROVE  BreadthInv'
<1>1. CASE Select(w)
  BY <1>1, BreadthSelect
<1>2. CASE RecordNewNode(w)
  BY <1>2, BreadthRecord
<1>3. CASE ~Select(w) /\ ~RecordNewNode(w)
  <2>1. PICK a \in Activity :
          /\ Become(w, a)
          /\ a.at \in {"running", "ran"} =>
               /\ worker[w].at \in {"running", "ran"}
               /\ a.node = worker[w].node
    <3>1. worker' = [worker EXCEPT ![w] = worker'[w]] /\ worker'[w] \in Activity
      BY <1>3 DEF Playout, Simulate, PlayoutFails, PlayoutCrashes, Backprop,
                  ReadVisits, ReadReward, WriteRow, PersistCrashes, Become,
                  TypeInv, MctsTypeOK
    <3>2. worker'[w].at \in {"running", "ran"} =>
            /\ worker[w].at \in {"running", "ran"}
            /\ worker'[w].node = worker[w].node
      <4>1. worker[w] \in Activity /\ \A a : Become(w, a) => worker'[w] = a
        BY DEF Become, TypeInv, MctsTypeOK
      <4>2. CASE Simulate(w)
        BY <4>1, <4>2 DEF Simulate, Activity
      <4>3. CASE PlayoutFails(w) \/ PlayoutCrashes(w) \/ PersistCrashes(w)
        BY <4>1, <4>3 DEF PlayoutFails, PlayoutCrashes, PersistCrashes, Idle
      <4>4. CASE Backprop(w)
        BY <4>1, <4>4 DEF Backprop, Activity
      <4>5. CASE ReadVisits(w)
        BY <4>1, <4>5 DEF ReadVisits, Activity
      <4>6. CASE ReadReward(w)
        BY <4>1, <4>6 DEF ReadReward, Activity
      <4>7. CASE WriteRow(w)
        <5>1. PersistNext(w).at \in {"idle", "reading"}
          BY <4>1 DEF PersistNext, Idle, Activity
        <5>2. worker'[w] = PersistNext(w)
          BY <4>1, <4>7 DEF WriteRow
        <5> QED BY <5>1, <5>2
      <4> QED BY <1>3, <4>2, <4>3, <4>4, <4>5, <4>6, <4>7 DEF Playout
    <3> QED BY <3>1, <3>2 DEF Become
  <2>2. UNCHANGED children
    BY <1>3 DEF Playout, Simulate, PlayoutFails, PlayoutCrashes, Backprop,
                ReadVisits, ReadReward, WriteRow, PersistCrashes, tree
  <2>3. \A n \in Nodes : Heading(n)' \subseteq Heading(n)
    BY <2>1 DEF Become, Heading, Unrecorded, TypeInv, MctsTypeOK
  <2> QED BY <2>2, <2>3, BreadthKept
<1> QED BY <1>1, <1>2, <1>3

(* In every search no node gets more children than the pool has threads:   *)
(* _select only returns leaves, and a thread has one playout at a time.    *)
THEOREM BreadthIsBounded == Spec => []BreadthBounded
<1>1. Init => BreadthInv
  <2> SUFFICES ASSUME Init, NEW n \in Nodes
               PROVE  Cardinality(children[n]) + Cardinality(Heading(n))
                        <= Cardinality(Workers)
    BY DEF BreadthInv
  <2>1. children[n] = {} /\ Heading(n) = {}
    BY DEF Init, Heading, Unrecorded, Idle
  <2>2. Cardinality(Workers) \in Nat
    BY SearchAssumption, FS_CardinalityType
  <2> QED BY <2>1, <2>2, FS_EmptySet
<1>2. TypeInv /\ TypeInv' /\ BreadthInv /\ [Next]_vars => BreadthInv'
  <2> SUFFICES ASSUME TypeInv, TypeInv', BreadthInv, [Next]_vars
               PROVE  BreadthInv'
    OBVIOUS
  <2>1. CASE \E w \in Workers : Playout(w)
    BY <2>1, BreadthPlayout
  <2>2. CASE UNCHANGED <<worker, children>>
    <3>1. \A n \in Nodes : Heading(n)' \subseteq Heading(n)
      BY <2>2 DEF Heading, Unrecorded
    <3> QED BY <2>2, <3>1, BreadthKept
  <2> QED BY <2>1, <2>2 DEF Next, Raise, Finish, FinishCrashes, Ended, vars, tree
<1>3. TypeInv /\ BreadthInv => BreadthBounded
  <2> SUFFICES ASSUME TypeInv, BreadthInv, NEW n \in Nodes
               PROVE  Cardinality(children[n]) <= Cardinality(Workers)
    BY DEF BreadthBounded
  <2> DEFINE heading == Cardinality(Heading(n))
  <2>1. /\ Cardinality(children[n]) + heading <= Cardinality(Workers)
        /\ Cardinality(children[n]) \in Nat /\ heading \in Nat
        /\ Cardinality(Workers) \in Nat
    BY BreadthFinite DEF BreadthInv
  <2> HIDE DEF heading
  <2> QED BY <2>1
<1> QED BY <1>1, <1>2, <1>3, InitTypeInv, NextTypeInv, PTL DEF Spec

-----------------------------------------------------------------------------
(* Counters.                                                               *)

Scoring == {w \in Workers : worker[w].at = "recorded"}

\* The runs of S in the subtree of n.
Below(S, n) == {m \in S : n \in Range(path[m])}

(* What CountersAddUp needs to be inductive: the counters of nodes not yet *)
(* recorded are zero, and a node that is about to be scored belongs to one *)
(* thread and has not been scored.                                         *)
CountInv ==
  /\ \A n \in Nodes : /\ visits[n] = Cardinality(Below(scored, n))
                      /\ total[n] = Cardinality(Below(won, n))
  /\ \A w \in Scoring : worker[w].node \notin scored
  /\ \A v, w \in Scoring : worker[v].node = worker[w].node => v = w

\* Adding one node to S adds it to the subtree of every node on its path.
LEMMA BelowAdd ==
  ASSUME NEW S, IsFiniteSet(S), NEW m, m \notin S, NEW n
  PROVE  /\ Cardinality(Below(S, n)) \in Nat
         /\ n \in Range(path[m]) =>
              Cardinality(Below(S \cup {m}, n)) = Cardinality(Below(S, n)) + 1
         /\ n \notin Range(path[m]) =>
              Cardinality(Below(S \cup {m}, n)) = Cardinality(Below(S, n))
<1>1. Below(S, n) \subseteq S
  BY DEF Below
<1>2. IsFiniteSet(Below(S, n)) /\ Cardinality(Below(S, n)) \in Nat
  BY <1>1, FS_Subset, FS_CardinalityType
<1>3. CASE n \in Range(path[m])
  <2>1. Below(S \cup {m}, n) = Below(S, n) \cup {m} /\ m \notin Below(S, n)
    BY <1>3 DEF Below
  <2> QED BY <1>2, <1>3, <2>1, FS_AddElement
<1>4. CASE n \notin Range(path[m])
  <2>1. Below(S \cup {m}, n) = Below(S, n)
    BY <1>4 DEF Below
  <2> QED BY <1>2, <1>4, <2>1
<1> QED BY <1>2, <1>3, <1>4

\* The histories are finite sets.
LEMMA HistoryFinite ==
  ASSUME TypeInv
  PROVE  IsFiniteSet(scored) /\ IsFiniteSet(won) /\ won \subseteq scored
<1>1. /\ recorded \in Nat
      /\ scored \subseteq 1 .. recorded /\ won \subseteq scored
  BY DEF TypeInv, MctsTypeOK
<1>2. IsFiniteSet(1 .. recorded)
  BY <1>1, FS_Interval
<1> QED BY <1>1, <1>2, FS_Subset

LEMMA CountRecord ==
  ASSUME TypeInv, CountInv, NEW w \in Workers, RecordNewNode(w)
  PROVE  CountInv'
<1> DEFINE node == recorded + 1
<1>1. /\ worker'[w].at = "recorded" /\ worker'[w].node = node
      /\ \A v \in Workers \ {w} : worker'[v] = worker[v]
      /\ UNCHANGED <<visits, total, scored, won>>
  <2>1. worker[w] \in Activity /\ \A a : Become(w, a) => worker'[w] = a
    BY DEF Become, TypeInv, MctsTypeOK
  <2> QED BY <2>1 DEF RecordNewNode, Become, TypeInv, MctsTypeOK, Activity,
                      history
<1>2. /\ recorded \in Nat /\ node \notin scored /\ won \subseteq scored
      /\ \A v \in Workers : worker[v].node <= recorded /\ worker[v].node \in Nat
  <2>1. recorded \in Nat /\ scored \subseteq 1 .. recorded /\ won \subseteq scored
    BY DEF TypeInv, MctsTypeOK
  <2>2. node \notin scored
    BY <2>1
  <2>3. ASSUME NEW v \in Workers
        PROVE  worker[v].node <= recorded /\ worker[v].node \in Nat
    <3>1. worker[v] \in Activity /\ worker[v].node <= recorded
      BY DEF TypeInv, MctsTypeOK
    <3> QED BY <3>1 DEF Activity, Nodes
  <2> QED BY <2>1, <2>2, <2>3
<1>3. \A m \in scored : path'[m] = path[m]
  BY <1>2 DEF RecordNewNode, TypeInv, MctsTypeOK
<1>4. ASSUME NEW n \in Nodes
      PROVE  /\ visits'[n] = Cardinality(Below(scored, n)')
             /\ total'[n] = Cardinality(Below(won, n)')
  <2>1. Below(scored, n)' = Below(scored, n) /\ Below(won, n)' = Below(won, n)
    BY <1>1, <1>2, <1>3 DEF Below
  <2> QED BY <1>1, <2>1 DEF CountInv
<1>5. \A v \in Scoring' : worker'[v].node \notin scored'
  BY <1>1, <1>2 DEF Scoring, CountInv
<1>6. \A v \in Scoring' : worker'[v].node = node => v = w
  BY <1>1, <1>2 DEF Scoring
<1>7. \A u, v \in Scoring' : worker'[u].node = worker'[v].node => u = v
  BY <1>1, <1>6 DEF Scoring, CountInv
<1> QED BY <1>4, <1>5, <1>7 DEF CountInv

LEMMA CountBackprop ==
  ASSUME TypeInv, CountInv, NEW w \in Workers, Backprop(w)
  PROVE  CountInv'
<1> DEFINE node   == worker[w].node
           reward == worker[w].reward
           above  == Range(path[node])
<1>1. /\ visits' = [n \in Nodes |->
                      IF n \in above THEN visits[n] + 1 ELSE visits[n]]
      /\ total' = [n \in Nodes |->
                     IF n \in above THEN total[n] + reward ELSE total[n]]
      /\ scored' = scored \cup {node}
      /\ won' = IF reward = 1 THEN won \cup {node} ELSE won
      /\ path' = path
      /\ worker[w].at = "recorded"
  BY DEF Backprop, Upwards
<1>2. /\ worker'[w].at = "reading"
      /\ \A v \in Workers \ {w} : worker'[v] = worker[v]
  <2>1. worker[w] \in Activity /\ \A a : Become(w, a) => worker'[w] = a
    BY DEF Become, TypeInv, MctsTypeOK
  <2> QED BY <2>1 DEF Backprop, Become, TypeInv, MctsTypeOK, Activity
<1>3. /\ reward \in {0, 1}
      /\ \A n \in Nodes : visits[n] \in Nat /\ total[n] \in Nat
  BY DEF TypeInv, MctsTypeOK, Activity
<1>4. w \in Scoring /\ node \notin scored
  BY <1>1 DEF Scoring, CountInv
<1>5. ASSUME NEW n \in Nodes
      PROVE  /\ visits'[n] = Cardinality(Below(scored, n)')
             /\ total'[n] = Cardinality(Below(won, n)')
  <2>1. /\ Below(scored, n)' = Below(scored \cup {node}, n)
        /\ reward = 1 => Below(won, n)' = Below(won \cup {node}, n)
        /\ reward = 0 => Below(won, n)' = Below(won, n)
    BY <1>1 DEF Below
  <2>2. /\ visits[n] = Cardinality(Below(scored, n))
        /\ total[n] = Cardinality(Below(won, n))
    BY DEF CountInv
  <2>3. /\ node \notin won
        /\ IsFiniteSet(scored) /\ IsFiniteSet(won)
    BY <1>4, HistoryFinite
  <2> HIDE DEF above, node, reward
  <2>4. visits'[n] = Cardinality(Below(scored, n)')
    BY <1>1, <1>4, <2>1, <2>2, <2>3, BelowAdd DEF above
  <2>5. total'[n] = Cardinality(Below(won, n)')
    <3>1. CASE reward = 1
      BY <3>1, <1>1, <2>1, <2>2, <2>3, BelowAdd DEF above
    <3>2. CASE reward = 0
      BY <3>2, <1>1, <1>3, <2>1, <2>2
    <3> QED BY <1>3, <3>1, <3>2
  <2> QED BY <2>4, <2>5
<1>6. \A v \in Scoring' : v \in Scoring /\ v # w /\ worker'[v] = worker[v]
  BY <1>2 DEF Scoring
<1>7. /\ \A v \in Scoring' : worker'[v].node \notin scored'
      /\ \A u, v \in Scoring' : worker'[u].node = worker'[v].node => u = v
  BY <1>1, <1>4, <1>6 DEF CountInv
<1> QED BY <1>5, <1>7 DEF CountInv

LEMMA CountNext == TypeInv /\ CountInv /\ [Next]_vars => CountInv'
<1> SUFFICES ASSUME TypeInv, CountInv, [Next]_vars PROVE CountInv'
  OBVIOUS
<1>1. ASSUME NEW w \in Workers, RecordNewNode(w) PROVE CountInv'
  BY <1>1, CountRecord
<1>2. ASSUME NEW w \in Workers, Backprop(w) PROVE CountInv'
  BY <1>2, CountBackprop
<1>3. ASSUME NEW w \in Workers, Playout(w), ~RecordNewNode(w), ~Backprop(w)
      PROVE  CountInv'
  <2>1. UNCHANGED <<path, visits, total, scored, won>>
    BY <1>3 DEF Playout, Select, Simulate, PlayoutFails, PlayoutCrashes,
                ReadVisits, ReadReward, WriteRow, PersistCrashes, tree, history
  <2>2. \A v \in Scoring' : v \in Scoring /\ worker'[v] = worker[v]
    <3>1. PICK a \in Activity : Become(w, a) /\ a.at # "recorded"
      <4>1. worker' = [worker EXCEPT ![w] = worker'[w]]
            /\ \A a : Become(w, a) => worker'[w] = a
        BY <1>3 DEF Playout, Select, Simulate, PlayoutFails, PlayoutCrashes,
                    ReadVisits, ReadReward, WriteRow, PersistCrashes, Become,
                    TypeInv, MctsTypeOK
      <4>2. worker'[w] \in Activity
        BY <1>3, PlayoutType DEF TypeInv, MctsTypeOK
      <4>3. worker'[w].at # "recorded"
        <5>1. worker[w] \in Activity /\ Idle \in Activity
          BY IdleType DEF TypeInv, MctsTypeOK
        <5>2. CASE Select(w)
          BY <4>1, <5>2, IdleType DEF Select, Activity
        <5>3. CASE Simulate(w)
          BY <4>1, <5>1, <5>3 DEF Simulate, Activity
        <5>4. CASE PlayoutFails(w) \/ PlayoutCrashes(w) \/ PersistCrashes(w)
          BY <4>1, <5>4 DEF PlayoutFails, PlayoutCrashes, PersistCrashes, Idle
        <5>5. CASE ReadVisits(w)
          BY <4>1, <5>1, <5>5 DEF ReadVisits, Activity
        <5>6. CASE ReadReward(w)
          BY <4>1, <5>1, <5>6 DEF ReadReward, Activity
        <5>7. CASE WriteRow(w)
          <6>1. PersistNext(w).at \in {"idle", "reading"}
            BY <5>1 DEF PersistNext, Idle, Activity
          <6> QED BY <4>1, <5>7, <6>1 DEF WriteRow
        <5> QED BY <1>3, <5>2, <5>3, <5>4, <5>5, <5>6, <5>7 DEF Playout
      <4> QED BY <4>1, <4>2, <4>3 DEF Become
    <3> QED BY <3>1 DEF Become, Scoring, TypeInv, MctsTypeOK
  <2> QED BY <2>1, <2>2 DEF CountInv, Below
<1>4. CASE UNCHANGED <<path, visits, total, scored, won, worker>>
  BY <1>4 DEF CountInv, Below, Scoring
<1> QED BY <1>1, <1>2, <1>3, <1>4
        DEF Next, Raise, Finish, FinishCrashes, Ended, vars, tree, history

(* In every search the counters of a node are those of the runs scored in  *)
(* its subtree: the walk up the parent pointers under _backprop's lock     *)
(* loses no reward and adds none twice, whatever the threads interleave.   *)
THEOREM CountersHold == Spec => []CountersAddUp
<1>1. Init => CountInv
  <2> SUFFICES ASSUME Init PROVE CountInv
    OBVIOUS
  <2>1. \A n \in Nodes : visits[n] = 0 /\ total[n] = 0
    BY DEF Init
  <2>2. \A n \in Nodes : Below(scored, n) = {} /\ Below(won, n) = {}
    BY DEF Init, Below
  <2>3. Scoring = {}
    BY DEF Init, Idle, Scoring
  <2> QED BY <2>1, <2>2, <2>3, FS_EmptySet DEF CountInv
<1>2. TypeInv /\ CountInv => CountersAddUp
  <2> SUFFICES ASSUME TypeInv, CountInv, NEW n \in 0 .. recorded
               PROVE  /\ visits[n] = Cardinality(Below(scored, n))
                      /\ total[n] = Cardinality(Below(won, n))
    BY DEF CountersAddUp, Below
  <2>1. n \in Nodes
    BY SearchAssumption DEF TypeInv, MctsTypeOK, Nodes
  <2> QED BY <2>1 DEF CountInv
<1> QED BY <1>1, <1>2, InitTypeInv, NextTypeInv, CountNext, PTL DEF Spec

-----------------------------------------------------------------------------
(* Rows.                                                                   *)

(* What EveryNodePersisted needs to be inductive: as long as no thread has *)
(* crashed, a visited node has its row or a thread that will write one.    *)
RowInv ==
  /\ \A m \in scored : \A n \in Range(path[m]) : visits[n] > 0
  /\ ~crashed =>
       \A n \in Nodes : visits[n] > 0 =>
         \/ rows[n].visits > 0
         \/ \E w \in Persisting : n \in Range(worker[w].left)
  /\ \A w \in Persisting :
       /\ \A n \in Range(worker[w].left) : visits[n] > 0
       /\ worker[w].at # "reading" => worker[w].row.visits > 0
  /\ \A m \in 1 .. recorded :
       m \in scored \/ \E w \in Scoring : worker[w].node = m
  /\ phase # "running" => \A w \in Workers : worker[w].at = "idle"
  /\ phase = "returned" => ~crashed

\* What a thread has left to persist is the next node and the others.
LEMMA LeftRange ==
  ASSUME NEW s \in Seq(Nodes), s # <<>>
  PROVE  /\ Head(s) \in Nodes /\ Tail(s) \in Seq(Nodes)
         /\ Range(s) \subseteq Nodes
         /\ Range(s) = {Head(s)} \cup Range(Tail(s))
         /\ Tail(s) = <<>> => Range(Tail(s)) = {}
<1>1. /\ Head(s) = s[1] /\ Len(s) \in Nat \ {0}
      /\ Head(s) \in Nodes /\ Tail(s) \in Seq(Nodes)
      /\ Len(Tail(s)) = Len(s) - 1
      /\ \A i \in 1 .. Len(s) : s[i] \in Nodes
  OBVIOUS
<1>2. \A i \in 1 .. Len(Tail(s)) : Tail(s)[i] = s[i + 1]
  BY <1>1
<1>3. /\ Range(s) = {s[i] : i \in 1 .. Len(s)}
      /\ Range(Tail(s)) = {Tail(s)[i] : i \in 1 .. Len(Tail(s))}
  <2>1. \A t \in Seq(Nodes) : DOMAIN t = 1 .. Len(t)
    OBVIOUS
  <2>2. DOMAIN s = 1 .. Len(s) /\ DOMAIN Tail(s) = 1 .. Len(Tail(s))
    BY <1>1, <2>1
  <2> QED BY <2>2, Zenon DEF Range
<1>4. Range(s) \subseteq {Head(s)} \cup Range(Tail(s))
  <2> SUFFICES ASSUME NEW i \in 1 .. Len(s)
               PROVE  s[i] \in {Head(s)} \cup Range(Tail(s))
    BY <1>3
  <2>1. CASE i = 1
    BY <2>1, <1>1
  <2>2. CASE i # 1
    <3>1. i - 1 \in 1 .. Len(Tail(s)) /\ Tail(s)[i - 1] = s[i]
      BY <2>2, <1>1, <1>2
    <3> QED BY <3>1, <1>3
  <2> QED BY <2>1, <2>2
<1>5. {Head(s)} \cup Range(Tail(s)) \subseteq Range(s)
  <2>1. Head(s) \in Range(s)
    BY <1>1, <1>3
  <2>2. ASSUME NEW i \in 1 .. Len(Tail(s)) PROVE Tail(s)[i] \in Range(s)
    <3>1. i + 1 \in 1 .. Len(s)
      BY <1>1
    <3> QED BY <3>1, <1>2, <1>3
  <2> QED BY <2>1, <2>2, <1>3
<1>6. Tail(s) = <<>> => Range(Tail(s)) = {}
  BY <1>1, <1>3
<1>7. Range(s) \subseteq Nodes
  BY <1>1, <1>3
<1> QED BY <1>1, <1>4, <1>5, <1>6, <1>7

\* What every action of a playout needs to know of its thread.
LEMMA OneStep ==
  ASSUME TypeInv, NEW w \in Workers, Playout(w)
  PROVE  /\ worker[w] \in Activity
         /\ \A a : Become(w, a) => worker'[w] = a
         /\ \A v \in Workers \ {w} : worker'[v] = worker[v]
BY DEF Playout, Select, Simulate, PlayoutFails, PlayoutCrashes, RecordNewNode,
       Backprop, ReadVisits, ReadReward, WriteRow, PersistCrashes, Become,
       TypeInv, MctsTypeOK

\* The phases: only an idle pool is left, and only Finish returns.
LEMMA RowPhase ==
  ASSUME TypeInv, RowInv, NEW w \in Workers, Playout(w)
  PROVE  phase = "running" /\ phase' = "running"
<1>1. worker[w].at # "idle" \/ phase = "running"
  BY DEF Playout, Select, Simulate, PlayoutFails, PlayoutCrashes,
         RecordNewNode, Backprop, ReadVisits, ReadReward, WriteRow,
         PersistCrashes
<1>2. phase = "running"
  BY <1>1 DEF RowInv
<1>3. phase' = phase
  BY DEF Playout, Select, Simulate, PlayoutFails, PlayoutCrashes,
         RecordNewNode, Backprop, ReadVisits, ReadReward, WriteRow,
         PersistCrashes
<1> QED BY <1>2, <1>3

LEMMA RowQuiet ==
  ASSUME TypeInv, RowInv, NEW w \in Workers,
         Select(w) \/ Simulate(w) \/ PlayoutFails(w) \/ PlayoutCrashes(w)
  PROVE  RowInv'
<1>1. Playout(w)
  BY DEF Playout
<1>2. /\ UNCHANGED <<path, visits, rows, recorded, scored>>
      /\ crashed' = crashed \/ crashed'
  <2>1. CASE PlayoutCrashes(w)
    BY <2>1 DEF PlayoutCrashes, tree, history
  <2>2. CASE Select(w) \/ Simulate(w) \/ PlayoutFails(w)
    BY <2>2 DEF Select, Simulate, PlayoutFails, tree, history
  <2> QED BY <2>1, <2>2
<1>3. /\ worker[w].at \notin {"recorded", "reading", "rereading", "writing"}
      /\ worker'[w].at \notin {"recorded", "reading", "rereading", "writing"}
  <2>1. CASE Select(w)
    BY <2>1, <1>1, OneStep, IdleType DEF Select, Activity
  <2>2. CASE Simulate(w)
    BY <2>2, <1>1, OneStep DEF Simulate, Activity
  <2>3. CASE PlayoutFails(w) \/ PlayoutCrashes(w)
    BY <2>3, <1>1, OneStep DEF PlayoutFails, PlayoutCrashes, Idle
  <2> QED BY <2>1, <2>2, <2>3
<1>4. /\ Persisting' = Persisting
      /\ \A v \in Persisting : worker'[v] = worker[v]
      /\ Scoring' = Scoring
      /\ \A v \in Scoring : worker'[v] = worker[v]
  BY <1>1, <1>3, OneStep DEF Persisting, Scoring
<1>5. phase' = "running"
  BY <1>1, RowPhase
<1> QED BY <1>2, <1>4, <1>5 DEF RowInv

LEMMA RowRecord ==
  ASSUME TypeInv, RowInv, NEW w \in Workers, RecordNewNode(w)
  PROVE  RowInv'
<1> DEFINE node == recorded + 1
<1>1. Playout(w)
  BY DEF Playout
<1>2. /\ UNCHANGED <<visits, rows, crashed, scored>>
      /\ recorded' = node /\ recorded \in Nat
      /\ worker[w].at = "ran"
      /\ \A m \in scored : path'[m] = path[m]
  BY DEF RecordNewNode, history, TypeInv, MctsTypeOK
<1>3. worker'[w].at = "recorded" /\ worker'[w].node = node
  BY <1>1, OneStep DEF RecordNewNode, Activity
<1>4. /\ Persisting' = Persisting
      /\ \A v \in Persisting : worker'[v] = worker[v]
      /\ w \in Scoring'
      /\ \A v \in Scoring : v \in Scoring' /\ worker'[v] = worker[v]
  BY <1>1, <1>2, <1>3, OneStep DEF Persisting, Scoring
<1>5. \A m \in 1 .. recorded' :
        m \in scored' \/ \E v \in Scoring' : worker'[v].node = m
  <2> SUFFICES ASSUME NEW m \in 1 .. recorded', m \notin scored
               PROVE  \E v \in Scoring' : worker'[v].node = m
    BY <1>2
  <2>1. CASE m = node
    BY <2>1, <1>3, <1>4
  <2>2. CASE m # node
    <3>1. m \in 1 .. recorded
      BY <2>2, <1>2
    <3> QED BY <3>1, <1>4 DEF RowInv
  <2> QED BY <2>1, <2>2
<1>6. phase' = "running"
  BY <1>1, RowPhase
<1> QED BY <1>2, <1>4, <1>5, <1>6 DEF RowInv

LEMMA RowBackprop ==
  ASSUME TypeInv, RowInv, NEW w \in Workers, Backprop(w)
  PROVE  RowInv'
<1> DEFINE node  == worker[w].node
           above == Range(path[node])
<1>1. Playout(w)
  BY DEF Playout
<1>2. /\ visits' = [n \in Nodes |->
                      IF n \in above THEN visits[n] + 1 ELSE visits[n]]
      /\ scored' = scored \cup {node}
      /\ UNCHANGED <<path, rows, crashed, recorded>>
      /\ worker[w].at = "recorded"
  BY DEF Backprop, Upwards
<1>3. worker'[w].at = "reading" /\ worker'[w].left = path[node]
  BY <1>1, OneStep DEF Backprop, Upwards, Activity
<1>4. /\ Persisting' = Persisting \cup {w}
      /\ \A v \in Persisting : worker'[v] = worker[v]
      /\ Scoring' = Scoring \ {w}
      /\ \A v \in Scoring' : worker'[v] = worker[v]
  BY <1>1, <1>2, <1>3, OneStep DEF Persisting, Scoring
<1>5. /\ above \subseteq Nodes
      /\ \A m \in scored : Range(path[m]) \subseteq Nodes
      /\ \A v \in Persisting : Range(worker[v].left) \subseteq Nodes
  <2>1. /\ \A m \in Nodes : path[m] \in Seq(Nodes)
        /\ \A s \in Seq(Nodes) : Range(s) \subseteq Nodes
        /\ scored \subseteq Nodes /\ node \in Nodes
        /\ \A v \in Persisting : worker[v].left \in Seq(Nodes)
    <3>1. scored \subseteq Nodes
      BY SearchAssumption DEF TypeInv, MctsTypeOK, Nodes
    <3>2. \A s \in Seq(Nodes) : Range(s) \subseteq Nodes
      BY DEF Range
    <3> QED BY <3>1, <3>2 DEF TypeInv, MctsTypeOK, Activity, Persisting
  <2> QED BY <2>1
<1>6. /\ \A n \in Nodes : visits[n] \in Nat
      /\ \A n \in Nodes : visits[n] > 0 => visits'[n] > 0
      /\ \A n \in above : visits'[n] > 0
      /\ \A n \in Nodes : visits'[n] > 0 => visits[n] > 0 \/ n \in above
  <2>1. \A n \in Nodes : visits[n] \in Nat
    BY DEF TypeInv, MctsTypeOK
  <2> HIDE DEF above
  <2> QED BY <2>1, <1>2, <1>5
<1> HIDE DEF node
<1>7. \A m \in scored' : \A n \in Range(path'[m]) : visits'[n] > 0
  BY <1>2, <1>5, <1>6 DEF RowInv
<1>8. ASSUME ~crashed', NEW n \in Nodes, visits'[n] > 0
      PROVE  \/ rows'[n].visits > 0
             \/ \E v \in Persisting' : n \in Range(worker'[v].left)
  <2>1. CASE n \in above
    BY <2>1, <1>3, <1>4
  <2>2. CASE visits[n] > 0
    BY <2>2, <1>2, <1>4, <1>8 DEF RowInv
  <2> QED BY <2>1, <2>2, <1>6, <1>8
<1>9. \A v \in Persisting' :
        /\ \A n \in Range(worker'[v].left) : visits'[n] > 0
        /\ worker'[v].at # "reading" => worker'[v].row.visits > 0
  BY <1>3, <1>4, <1>5, <1>6 DEF RowInv
<1>10. \A m \in 1 .. recorded' :
         m \in scored' \/ \E v \in Scoring' : worker'[v].node = m
  BY <1>2, <1>4 DEF RowInv, node
<1>11. phase' = "running"
  BY <1>1, RowPhase
<1> QED BY <1>7, <1>8, <1>9, <1>10, <1>11 DEF RowInv

LEMMA RowRead ==
  ASSUME TypeInv, RowInv, NEW w \in Workers, ReadVisits(w) \/ ReadReward(w)
  PROVE  RowInv'
<1>1. Playout(w)
  BY DEF Playout
<1>2. UNCHANGED <<path, visits, rows, crashed, recorded, scored>>
  BY DEF ReadVisits, ReadReward, tree, history
<1>3. w \in Persisting
  BY DEF ReadVisits, ReadReward, Persisting
<1>4. /\ worker'[w].at \in {"rereading", "writing"}
      /\ worker'[w].left = worker[w].left
      /\ worker'[w].row.visits > 0
  <2>1. CASE ReadVisits(w)
    <3>1. /\ worker'[w].at = "rereading"
          /\ worker'[w].left = worker[w].left
          /\ worker'[w].row.visits = visits[Head(worker[w].left)]
      <4> DEFINE a == [worker[w] EXCEPT !.at = "rereading",
                                !.row.visits = visits[Head(worker[w].left)]]
      <4>1. worker[w] \in Activity /\ worker'[w] = a
        BY <2>1, <1>1, OneStep DEF ReadVisits
      <4>2. /\ a.at = "rereading" /\ a.left = worker[w].left
            /\ a.row.visits = visits[Head(worker[w].left)]
        BY <4>1 DEF Activity
      <4> QED BY <4>1, <4>2
    <3>2. Head(worker[w].left) \in Range(worker[w].left)
      BY <1>1, <1>3, OneStep, LeftRange DEF TypeInv, Activity
    <3> QED BY <1>3, <3>1, <3>2 DEF RowInv
  <2>2. CASE ReadReward(w)
    <3>1. /\ worker'[w].at = "writing"
          /\ worker'[w].left = worker[w].left
          /\ worker'[w].row.visits = worker[w].row.visits
          /\ worker[w].at = "rereading"
      <4> DEFINE a == [worker[w] EXCEPT !.at = "writing",
                                !.row.total = total[Head(worker[w].left)]]
      <4>1. worker[w] \in Activity /\ worker'[w] = a
        BY <2>2, <1>1, OneStep DEF ReadReward
      <4>2. /\ a.at = "writing" /\ a.left = worker[w].left
            /\ a.row.visits = worker[w].row.visits
        BY <4>1 DEF Activity
      <4> QED BY <2>2, <4>1, <4>2 DEF ReadReward
    <3> QED BY <1>3, <3>1 DEF RowInv
  <2> QED BY <2>1, <2>2
<1>5. /\ Persisting' = Persisting
      /\ \A v \in Persisting : worker'[v].left = worker[v].left
      /\ \A v \in Persisting \ {w} : worker'[v] = worker[v]
      /\ Scoring' = Scoring
      /\ \A v \in Scoring : worker'[v] = worker[v]
  <2>1. worker[w].at # "recorded" /\ worker'[w].at # "recorded"
    BY <1>3, <1>4 DEF Persisting
  <2> QED BY <1>1, <1>3, <1>4, <2>1, OneStep DEF Persisting, Scoring
<1>6. phase' = "running"
  BY <1>1, RowPhase
<1> QED BY <1>2, <1>4, <1>5, <1>6 DEF RowInv

LEMMA RowWrite ==
  ASSUME TypeInv, RowInv, NEW w \in Workers, WriteRow(w)
  PROVE  RowInv'
<1> DEFINE left == worker[w].left
<1>1. Playout(w)
  BY DEF Playout
<1>2. /\ UNCHANGED <<path, visits, crashed, recorded, scored>>
      /\ rows' = [rows EXCEPT ![Head(left)] = worker[w].row]
      /\ worker[w].at = "writing"
      /\ worker'[w] = PersistNext(w)
  BY <1>1, OneStep DEF WriteRow, tree, history
<1>3. w \in Persisting /\ left \in Seq(Nodes) /\ left # <<>>
  BY <1>1, <1>2, OneStep DEF Persisting, TypeInv, Activity
<1>4. /\ Head(left) \in Nodes
      /\ Range(left) = {Head(left)} \cup Range(Tail(left))
      /\ Tail(left) = <<>> => Range(Tail(left)) = {}
  BY <1>3, LeftRange
<1>5. rows'[Head(left)].visits > 0
  <2>1. worker[w].row.visits > 0
    BY <1>2, <1>3 DEF RowInv
  <2> QED BY <1>2, <1>4, <2>1 DEF TypeInv, MctsTypeOK
<1>6. /\ Tail(left) = <<>> => worker'[w].at = "idle"
      /\ Tail(left) # <<>> => worker'[w].at = "reading"
                              /\ worker'[w].left = Tail(left)
  <2>1. worker[w] \in Activity
    BY <1>1, OneStep
  <2>2. CASE Tail(left) = <<>>
    BY <2>2, <1>2 DEF PersistNext, Idle
  <2>3. CASE Tail(left) # <<>>
    <3>1. worker'[w] = [worker[w] EXCEPT !.at = "reading", !.left = Tail(left)]
      BY <2>3, <1>2 DEF PersistNext
    <3> HIDE DEF left
    <3> QED BY <2>1, <2>3, <3>1 DEF Activity
  <2> QED BY <2>2, <2>3
<1>7. /\ \A v \in Persisting \ {w} : v \in Persisting' /\ worker'[v] = worker[v]
      /\ \A v \in Persisting' \ {w} : v \in Persisting
      /\ w \in Persisting' <=> Tail(left) # <<>>
      /\ Scoring' = Scoring
      /\ \A v \in Scoring : worker'[v] = worker[v]
  <2>1. worker[w].at # "recorded" /\ worker'[w].at # "recorded"
    BY <1>2, <1>6
  <2> HIDE DEF left
  <2> QED BY <1>1, <1>6, <2>1, OneStep DEF Persisting, Scoring
<1>8. ASSUME ~crashed', NEW n \in Nodes, visits'[n] > 0
      PROVE  \/ rows'[n].visits > 0
             \/ \E v \in Persisting' : n \in Range(worker'[v].left)
  <2>1. CASE n = Head(left)
    BY <2>1, <1>5
  <2>2. CASE n # Head(left) /\ n \in Range(left)
    BY <2>2, <1>4, <1>6, <1>7
  <2>3. CASE n # Head(left) /\ n \notin Range(left)
    <3>1. rows'[n] = rows[n]
      BY <2>3, <1>2 DEF TypeInv, MctsTypeOK
    <3>2. \/ rows[n].visits > 0
          \/ \E v \in Persisting \ {w} : n \in Range(worker[v].left)
      BY <2>3, <1>2, <1>8 DEF RowInv
    <3> QED BY <3>1, <3>2, <1>7
  <2> QED BY <2>1, <2>2, <2>3
<1>9. \A v \in Persisting' :
        /\ \A n \in Range(worker'[v].left) : visits'[n] > 0
        /\ worker'[v].at # "reading" => worker'[v].row.visits > 0
  BY <1>2, <1>3, <1>4, <1>6, <1>7 DEF RowInv
<1>10. phase' = "running"
  BY <1>1, RowPhase
<1> QED BY <1>2, <1>7, <1>8, <1>9, <1>10 DEF RowInv

LEMMA RowCrash ==
  ASSUME TypeInv, RowInv, NEW w \in Workers, PersistCrashes(w)
  PROVE  RowInv'
<1>1. Playout(w)
  BY DEF Playout
<1>2. /\ UNCHANGED <<path, visits, rows, recorded, scored>>
      /\ crashed'
      /\ worker[w].at \in {"reading", "writing"}
      /\ worker'[w].at = "idle"
  BY <1>1, OneStep DEF PersistCrashes, tree, history, Idle
<1>3. /\ \A v \in Persisting' : v \in Persisting /\ worker'[v] = worker[v]
      /\ Scoring' = Scoring
      /\ \A v \in Scoring : worker'[v] = worker[v]
  BY <1>1, <1>2, OneStep DEF Persisting, Scoring
<1>4. phase' = "running"
  BY <1>1, RowPhase
<1> QED BY <1>2, <1>3, <1>4 DEF RowInv

LEMMA RowNext == TypeInv /\ RowInv /\ [Next]_vars => RowInv'
<1> SUFFICES ASSUME TypeInv, RowInv, [Next]_vars PROVE RowInv'
  OBVIOUS
<1>1. ASSUME NEW w \in Workers, Playout(w) PROVE RowInv'
  BY <1>1, RowQuiet, RowRecord, RowBackprop, RowRead, RowWrite, RowCrash
     DEF Playout
<1>2. CASE Raise \/ Finish \/ FinishCrashes
  <2>1. /\ UNCHANGED <<worker, path, visits, rows, crashed, recorded, scored>>
        /\ phase' = "returned" => ~crashed
        /\ \A w \in Workers : worker[w].at = "idle"
    BY <1>2 DEF Raise, Finish, FinishCrashes, AllDone, tree, history
  <2> QED BY <2>1 DEF RowInv, Persisting, Scoring
<1>3. CASE UNCHANGED vars
  BY <1>3 DEF vars, tree, history, RowInv, Persisting, Scoring
<1> QED BY <1>1, <1>2, <1>3 DEF Next, Ended

(* A search that returns has persisted every node of its tree: the paths   *)
(* of its threads cover the tree, and each thread finishes its own.        *)
THEOREM NodesPersisted == Spec => []EveryNodePersisted
<1>1. Init => RowInv
  <2> SUFFICES ASSUME Init PROVE RowInv
    OBVIOUS
  <2>1. \A n \in Nodes : ~(visits[n] > 0)
    BY DEF Init
  <2>2. Persisting = {} /\ Scoring = {}
    BY DEF Init, Idle, Persisting, Scoring
  <2>3. 1 .. recorded = {} /\ scored = {} /\ phase = "running"
    BY DEF Init
  <2> QED BY <2>1, <2>2, <2>3 DEF RowInv
<1>2. TypeInv /\ RowInv => EveryNodePersisted
  <2> SUFFICES ASSUME TypeInv, RowInv, phase = "returned", recorded > 0,
                      NEW n \in 0 .. recorded
               PROVE  rows[n].visits > 0
    BY DEF EveryNodePersisted
  <2>1. Persisting = {} /\ Scoring = {} /\ ~crashed
    <3>1. \A w \in Workers : worker[w].at = "idle"
      BY DEF RowInv
    <3>2. ~crashed
      BY DEF RowInv
    <3> QED BY <3>1, <3>2 DEF Persisting, Scoring
  <2>2. recorded \in Nat /\ n \in Nodes /\ 1 .. recorded \subseteq Nodes
    <3>1. /\ Playouts \in Nat /\ recorded \in Nat /\ recorded <= Playouts
      BY SearchAssumption DEF TypeInv, MctsTypeOK
    <3> QED BY <3>1 DEF Nodes
  <2>3. 1 .. recorded \subseteq scored
    BY <2>1 DEF RowInv
  <2>4. visits[n] > 0
    <3>1. \A m \in 1 .. recorded :
            /\ path[m] \in Seq(Nodes) /\ path[m] # <<>>
            /\ Head(path[m]) = m
            /\ path[m][Len(path[m])] = Root
      BY <2>2 DEF TypeInv, MctsTypeOK
    <3>2. \A m \in 1 .. recorded : m \in Range(path[m]) /\ Root \in Range(path[m])
      BY <3>1 DEF Range
    <3>3. \E m \in 1 .. recorded : n \in Range(path[m])
      <4>1. CASE n = Root
        BY <4>1, <2>2, <3>2
      <4>2. CASE n # Root
        BY <4>2, <2>2, <3>2 DEF Root
      <4> QED BY <4>1, <4>2
    <3> QED BY <2>3, <3>3 DEF RowInv
  <2> QED BY <2>1, <2>2, <2>4 DEF RowInv
<1> QED BY <1>1, <1>2, InitTypeInv, NextTypeInv, RowNext, PTL DEF Spec

-----------------------------------------------------------------------------
(* The returned node.                                                      *)

(* What SuccessIsReturned needs to be inductive: every node is below Root  *)
(* and below a child of Root, and best_leaf names a successful run of the  *)
(* subtree exactly where there is one.                                     *)
SuccessInv ==
  /\ \A n \in 1 .. recorded :
       /\ Root \in Range(path[n])
       /\ \E c \in children[Root] : c \in Range(path[n])
  /\ \A n \in Nodes : IF Below(won, n) = {} THEN best_leaf[n] = NoLeaf
                                            ELSE best_leaf[n] \in Below(won, n)
  /\ SuccessIsReturned

\* A sequence put behind one element keeps its own elements.
LEMMA ConsRange ==
  ASSUME NEW n \in Nodes, NEW s \in Seq(Nodes)
  PROVE  n \in Range(<<n>> \o s) /\ Range(s) \subseteq Range(<<n>> \o s)
<1> DEFINE t == <<n>> \o s
<1>1. <<n>> \in Seq(Nodes) /\ Len(<<n>>) = 1 /\ <<n>>[1] = n
  OBVIOUS
<1>2. /\ t \in Seq(Nodes)
      /\ Len(t) = 1 + Len(s)
      /\ \A i \in 1 .. 1 + Len(s) : t[i] = IF i <= 1 THEN <<n>>[i] ELSE s[i - 1]
  BY <1>1, ConcatProperties
<1> HIDE DEF t
<1>3. /\ Len(s) \in Nat /\ DOMAIN s = 1 .. Len(s)
      /\ DOMAIN t = 1 .. 1 + Len(s)
  BY <1>2
<1>4. t[1] = n /\ 1 \in DOMAIN t
  BY <1>1, <1>2, <1>3
<1>5. ASSUME NEW i \in DOMAIN s PROVE i + 1 \in DOMAIN t /\ t[i + 1] = s[i]
  BY <1>2, <1>3
<1>6. n \in Range(t) /\ Range(s) \subseteq Range(t)
  BY <1>4, <1>5 DEF Range
<1> QED BY <1>6 DEF t

LEMMA SuccessRecord ==
  ASSUME TypeInv, RowInv, SuccessInv, NEW w \in Workers, RecordNewNode(w)
  PROVE  SuccessInv'
<1> DEFINE parent == worker[w].node
           node   == recorded + 1
<1>1. /\ recorded' = node
      /\ path' = [path EXCEPT ![node] = <<node>> \o path[parent]]
      /\ children' = [children EXCEPT ![parent] = @ \cup {node}]
      /\ UNCHANGED <<best_leaf, won>>
  BY DEF RecordNewNode, history
<1>2. w \in Unrecorded
  BY DEF RecordNewNode, Unrecorded
<1>3. /\ node \in Nodes /\ Root \in Nodes
      /\ recorded \in Nat
      /\ 1 .. recorded \subseteq Nodes
      /\ won \subseteq 1 .. recorded
      /\ path \in [Nodes -> Seq(Nodes)]
      /\ children \in [Nodes -> SUBSET (1 .. recorded)]
  <2>1. node \in Nodes
    BY <1>2, RecordedBound
  <2>2. /\ Playouts \in Nat /\ recorded \in Nat /\ recorded <= Playouts
    BY SearchAssumption DEF TypeInv, MctsTypeOK
  <2>3. Root \in Nodes /\ 1 .. recorded \subseteq Nodes
    BY <2>2 DEF Nodes, Root
  <2>4. won \subseteq 1 .. recorded
    BY DEF TypeInv, MctsTypeOK
  <2> QED BY <2>1, <2>2, <2>3, <2>4 DEF TypeInv, MctsTypeOK
<1>4. parent \in Nodes /\ parent <= recorded /\ parent \in Nat
  BY SearchAssumption DEF TypeInv, MctsTypeOK, Activity, Nodes
<1>5. /\ path'[node] = <<node>> \o path[parent]
      /\ \A n \in Nodes : n # node => path'[n] = path[n]
      /\ children[Root] \subseteq children'[Root]
      /\ parent = Root => node \in children'[Root]
  BY <1>1, <1>3, <1>4
<1>6. /\ node \in Range(path'[node])
      /\ Range(path[parent]) \subseteq Range(path'[node])
  BY <1>3, <1>4, <1>5, ConsRange
<1>7. ASSUME NEW n \in 1 .. recorded'
      PROVE  /\ Root \in Range(path'[n])
             /\ \E c \in children'[Root] : c \in Range(path'[n])
  <2>1. CASE n # node
    <3>1. n \in 1 .. recorded /\ n \in Nodes
      <4>1. n \in 1 .. recorded
        BY <2>1, <1>1, <1>3
      <4> QED BY <4>1, <1>3
    <3>2. path'[n] = path[n]
      BY <2>1, <3>1, <1>5
    <3> HIDE DEF node
    <3> QED BY <3>1, <3>2, <1>5 DEF SuccessInv
  <2>2. CASE n = node /\ parent = Root
    <3>1. path[Root] \in Seq(Nodes) /\ path[Root] # <<>> /\ Head(path[Root]) = Root
      <4>1. Root \in 0 .. recorded
        BY <1>3 DEF Root
      <4> HIDE DEF node, parent
      <4> QED BY <4>1, <1>3 DEF TypeInv, MctsTypeOK
    <3>2. Root \in Range(path[Root])
      BY <3>1 DEF Range
    <3> HIDE DEF parent, node
    <3> QED BY <2>2, <3>2, <1>5, <1>6
  <2>3. CASE n = node /\ parent # Root
    <3>1. parent \in 1 .. recorded
      BY <2>3, <1>3, <1>4 DEF Root
    <3>2. /\ Root \in Range(path[parent])
          /\ \E c \in children[Root] : c \in Range(path[parent])
      BY <3>1 DEF SuccessInv
    <3> HIDE DEF parent, node
    <3> QED BY <2>3, <3>2, <1>5, <1>6
  <2> QED BY <2>1, <2>2, <2>3
<1>8. \A m \in won : path'[m] = path[m]
  <2>1. \A m \in 1 .. recorded : m \in Nodes /\ m # node
    <3>1. \A m \in 1 .. recorded : m # node
      BY <1>3
    <3> QED BY <3>1, <1>3
  <2> QED BY <2>1, <1>3, <1>5
<1>9. \A n \in Nodes : Below(won, n)' = Below(won, n)
  BY <1>1, <1>8 DEF Below
<1>10. phase' # "returned"
  BY RowPhase DEF Playout
<1> QED BY <1>1, <1>7, <1>9, <1>10 DEF SuccessInv, SuccessIsReturned

LEMMA SuccessBackprop ==
  ASSUME TypeInv, RowInv, SuccessInv, NEW w \in Workers, Backprop(w)
  PROVE  SuccessInv'
<1> DEFINE node   == worker[w].node
           reward == worker[w].reward
           above  == Range(path[node])
<1>1. /\ best_leaf' = [n \in Nodes |->
                         IF n \in above /\ reward = 1 /\ best_leaf[n] = NoLeaf
                         THEN node ELSE best_leaf[n]]
      /\ won' = IF reward = 1 THEN won \cup {node} ELSE won
      /\ UNCHANGED <<path, recorded, children>>
  BY DEF Backprop, Upwards
<1>2. NoLeaf \notin won
  BY DEF TypeInv, MctsTypeOK, NoLeaf
<1> HIDE DEF node, reward
<1>3. ASSUME NEW n \in Nodes
      PROVE  IF Below(won, n)' = {} THEN best_leaf'[n] = NoLeaf
             ELSE best_leaf'[n] \in Below(won, n)'
  <2>0. IF Below(won, n) = {} THEN best_leaf[n] = NoLeaf
                              ELSE best_leaf[n] \in Below(won, n)
    BY DEF SuccessInv
  <2>1. CASE reward = 1 /\ n \in above
    <3>1. Below(won, n)' = Below(won, n) \cup {node}
      BY <2>1, <1>1 DEF Below
    <3> QED BY <2>0, <2>1, <3>1, <1>1, <1>2 DEF Below
  <2>2. CASE reward # 1 \/ n \notin above
    <3>1. Below(won, n)' = Below(won, n)
      BY <2>2, <1>1 DEF Below
    <3>2. best_leaf'[n] = best_leaf[n]
      BY <2>2, <1>1
    <3> QED BY <2>0, <3>1, <3>2
  <2> QED BY <2>1, <2>2
<1>4. phase' # "returned"
  BY RowPhase DEF Playout
<1> QED BY <1>1, <1>3, <1>4 DEF SuccessInv, SuccessIsReturned

LEMMA SuccessFinish ==
  ASSUME TypeInv, CountInv, RowInv, SuccessInv, Finish
  PROVE  SuccessInv'
<1>1. /\ finish' = [written |-> TRUE, total_playouts |-> visits[Root],
                    best_leaf |-> best_leaf[Root]]
      /\ result' \in IF children[Root] = {} THEN {Root} ELSE BestChildren(Root)
      /\ UNCHANGED <<path, recorded, children, best_leaf, won, visits, total>>
      /\ \A w \in Workers : worker[w].at = "idle"
  BY DEF Finish, AllDone, tree, history
<1>2. /\ Root \in Nodes
      /\ recorded \in Nat /\ 1 .. recorded \subseteq Nodes
      /\ scored \subseteq 1 .. recorded /\ won \subseteq scored
      /\ children[Root] \subseteq 1 .. recorded
  <2>1. /\ Playouts \in Nat /\ recorded \in Nat /\ recorded <= Playouts
    BY SearchAssumption DEF TypeInv, MctsTypeOK
  <2>2. Root \in Nodes /\ 1 .. recorded \subseteq Nodes
    BY <2>1 DEF Nodes, Root
  <2> QED BY <2>1, <2>2 DEF TypeInv, MctsTypeOK
<1>3. scored = 1 .. recorded
  BY <1>1, <1>2 DEF RowInv, Scoring
<1>4. Below(scored, Root) = 1 .. recorded /\ Below(won, Root) = won
  BY <1>2, <1>3 DEF Below, SuccessInv
<1>5. visits[Root] = recorded
  <2>1. visits[Root] = Cardinality(1 .. recorded)
    BY <1>2, <1>4 DEF CountInv
  <2>2. 1 <= recorded + 1 /\ Cardinality(1 .. recorded) = recorded
    BY <1>2, FS_Interval
  <2> QED BY <2>1, <2>2
<1>6. /\ won # {} => best_leaf[Root] \in won
      /\ won = {} => best_leaf[Root] = NoLeaf
  BY <1>2, <1>4 DEF SuccessInv
<1>7. ASSUME won # {}
      PROVE  best_leaf[result'] \in Below(won, result')
  <2>1. PICK m \in won : TRUE
    BY <1>7
  <2>2. PICK c \in children[Root] : c \in Range(path[m])
    BY <1>2, <2>1 DEF SuccessInv
  <2>3. m \in Below(won, c)
    BY <2>1, <2>2 DEF Below
  <2> DEFINE best == result'
  <2>4. /\ best \in children[Root]
        /\ \/ total[c] * visits[best] < total[best] * visits[c]
           \/ total[c] * visits[best] = total[best] * visits[c]
    BY <1>1, <2>2 DEF BestChildren
  <2> HIDE DEF best
  <2>5. /\ best \in Nodes /\ c \in Nodes
        /\ best \in 1 .. recorded /\ c \in 1 .. recorded
    BY <1>2, <2>2, <2>4
  <2>6. total[c] \in Nat \ {0}
    <3>1. IsFiniteSet(Below(won, c)) /\ Below(won, c) # {}
      BY <2>3, HistoryFinite, FS_Subset DEF Below
    <3>2. Cardinality(Below(won, c)) \in Nat \ {0}
      BY <3>1, FS_CardinalityType, FS_EmptySet
    <3> QED BY <2>5, <3>2 DEF CountInv
  <2>7. visits[best] \in Nat \ {0} /\ visits[c] \in Nat /\ total[best] \in Nat
    <3>1. path[best] \in Seq(Nodes) /\ path[best] # <<>> /\ Head(path[best]) = best
      BY <2>5 DEF TypeInv, MctsTypeOK
    <3>2. best \in Range(path[best])
      BY <3>1 DEF Range
    <3>3. visits[best] > 0
      BY <1>3, <2>5, <3>2 DEF RowInv
    <3> QED BY <2>5, <3>3 DEF TypeInv, MctsTypeOK
  <2>8. total[best] # 0
    <3> SUFFICES ASSUME total[best] = 0 PROVE FALSE
      OBVIOUS
    <3>1. total[best] * visits[c] = 0
      BY <2>7
    <3>2. total[c] * visits[best] > 0
      BY <2>6, <2>7
    <3> QED BY <2>4, <2>6, <2>7, <3>1, <3>2
  <2>9. Below(won, best) # {}
    BY <2>5, <2>8, FS_EmptySet DEF CountInv
  <2> QED BY <2>5, <2>9 DEF SuccessInv, best
<1>8. SuccessIsReturned'
  BY <1>1, <1>5, <1>6, <1>7 DEF SuccessIsReturned, Below
<1>9. \A n \in Nodes : Below(won, n)' = Below(won, n)
  BY <1>1 DEF Below
<1> QED BY <1>1, <1>8, <1>9 DEF SuccessInv

LEMMA SuccessNext ==
  TypeInv /\ CountInv /\ RowInv /\ SuccessInv /\ [Next]_vars => SuccessInv'
<1> SUFFICES ASSUME TypeInv, CountInv, RowInv, SuccessInv, [Next]_vars
             PROVE  SuccessInv'
  OBVIOUS
<1>1. ASSUME NEW w \in Workers, RecordNewNode(w) PROVE SuccessInv'
  BY <1>1, SuccessRecord
<1>2. ASSUME NEW w \in Workers, Backprop(w) PROVE SuccessInv'
  BY <1>2, SuccessBackprop
<1>3. ASSUME NEW w \in Workers, Playout(w), ~RecordNewNode(w), ~Backprop(w)
      PROVE  SuccessInv'
  <2>1. UNCHANGED <<path, recorded, children, best_leaf, won>>
    BY <1>3 DEF Playout, Select, Simulate, PlayoutFails, PlayoutCrashes,
                ReadVisits, ReadReward, WriteRow, PersistCrashes, tree, history
  <2>2. phase' # "returned"
    BY <1>3, RowPhase
  <2> QED BY <2>1, <2>2 DEF SuccessInv, SuccessIsReturned, Below
<1>4. CASE Finish
  BY <1>4, SuccessFinish
<1>5. CASE Raise \/ FinishCrashes
  <2>1. UNCHANGED <<path, recorded, children, best_leaf, won>>
        /\ phase' # "returned"
    BY <1>5 DEF Raise, FinishCrashes, tree, history
  <2> QED BY <2>1 DEF SuccessInv, SuccessIsReturned, Below
<1>6. CASE UNCHANGED vars
  BY <1>6 DEF vars, tree, history, SuccessInv, SuccessIsReturned, Below
<1> QED BY <1>1, <1>2, <1>3, <1>4, <1>5, <1>6 DEF Next, Ended

(* All of the above, in every behaviour.                                   *)
LEMMA SearchInvHolds ==
  Spec => [](TypeInv /\ CountInv /\ RowInv /\ SuccessInv)
<1>1. Init => CountInv /\ RowInv /\ SuccessInv
  <2> SUFFICES ASSUME Init PROVE CountInv /\ RowInv /\ SuccessInv
    OBVIOUS
  <2>1. /\ \A n \in Nodes : visits[n] = 0 /\ total[n] = 0
        /\ \A n \in Nodes : best_leaf[n] = NoLeaf
        /\ phase = "running" /\ scored = {} /\ won = {} /\ 1 .. recorded = {}
    BY DEF Init
  <2>2. Persisting = {} /\ Scoring = {}
    BY DEF Init, Idle, Persisting, Scoring
  <2>3. \A n \in Nodes : Below(scored, n) = {} /\ Below(won, n) = {}
    BY <2>1 DEF Below
  <2>4. CountInv
    BY <2>1, <2>2, <2>3, FS_EmptySet DEF CountInv
  <2>5. RowInv
    BY <2>1, <2>2 DEF RowInv
  <2>6. SuccessInv
    BY <2>1, <2>3 DEF SuccessInv, SuccessIsReturned
  <2> QED BY <2>4, <2>5, <2>6
<1> QED BY <1>1, InitTypeInv, NextTypeInv, CountNext, RowNext, SuccessNext,
           PTL DEF Spec

(* A search that returns has counted every run it recorded, and as soon as *)
(* one of them was rewarded, both the row of the search and the child of   *)
(* the highest mean reward that _best_child returns lead to such a run.    *)
THEOREM SuccessReturned == Spec => []SuccessIsReturned
<1>1. SuccessInv => SuccessIsReturned
  BY DEF SuccessInv
<1> QED BY <1>1, SearchInvHolds, PTL

-----------------------------------------------------------------------------
(* The abstract search.                                                    *)

\* The final columns are written by Finish, and by nothing else.
FinishInv == phase # "returned" => finish = NoFinish

(* What the outcome is before the end, and what changes it.                *)
LEMMA OutcomeOpen ==
  ASSUME FinishInv
  PROVE  /\ phase = "running" => Outcome = Ledger!Open
         /\ phase = "raised" => Outcome = [Ledger!Open EXCEPT !.status = "raised"]
<1>1. CASE phase = "returned"
  BY <1>1
<1>2. CASE phase # "returned"
  BY <1>2 DEF FinishInv, Outcome, NoFinish, NoLeaf, Ledger!Open, Ledger!NoRun
<1> QED BY <1>1, <1>2

LEMMA FinishKept == FinishInv /\ [Next]_vars => FinishInv'
<1> SUFFICES ASSUME FinishInv, [Next]_vars PROVE FinishInv'
  OBVIOUS
<1>1. CASE Finish
  BY <1>1 DEF Finish, FinishInv
<1>2. CASE ~Finish
  <2>1. finish' = finish /\ (phase = "returned" => phase' = "returned")
    BY <1>2 DEF Next, Playout, Select, Simulate, PlayoutFails, PlayoutCrashes,
       RecordNewNode, Backprop, ReadVisits, ReadReward, WriteRow,
       PersistCrashes, Raise, FinishCrashes, Ended, vars
  <2> QED BY <2>1 DEF FinishInv
<1> QED BY <1>1, <1>2

(* A search begins with no run scored.                                     *)
LEMMA InitRefinesSearch == Init => Ledger!Init /\ FinishInv
<1> SUFFICES ASSUME Init PROVE Ledger!Init /\ FinishInv
  OBVIOUS
<1>1. FinishInv /\ phase = "running"
  BY DEF Init, FinishInv
<1>2. Outcome = Ledger!Open
  BY <1>1, OutcomeOpen
<1> QED BY <1>1, <1>2 DEF Init, Ledger!Init

(* Adding a reward is scoring a run that was not scored before             *)
(* (_backprop).                                                            *)
LEMMA BackpropScores ==
  ASSUME TypeInv, CountInv, RowInv, FinishInv, NEW w \in Workers, Backprop(w)
  PROVE  Ledger!Score
<1> DEFINE node == worker[w].node
<1>1. /\ scored' = scored \cup {node}
      /\ won' = IF worker[w].reward = 1 THEN won \cup {node} ELSE won
      /\ w \in Scoring
      /\ finish' = finish
  BY DEF Backprop, Scoring
<1>2. phase = "running" /\ phase' = "running"
  BY RowPhase DEF Playout
<1>3. node \in (1 .. Playouts) \ scored
  <2>1. node \notin scored
    BY <1>1 DEF CountInv
  <2>2. node \in Nodes /\ node # Root
    BY <1>1 DEF TypeInv, MctsTypeOK, Activity, Scoring
  <2> QED BY <2>1, <2>2, SearchAssumption DEF Nodes, Root
<1>4. FinishInv'
  BY <1>1, <1>2 DEF FinishInv
<1>5. Outcome = Ledger!Open /\ Outcome' = Outcome
  BY <1>1, <1>2, OutcomeOpen DEF Outcome
<1> HIDE DEF node
<1>6. won' \in {won, won \cup {node}}
  BY <1>1
<1> QED BY <1>1, <1>3, <1>5, <1>6, Zenon DEF Ledger!Score

(* The end of a search counts the runs and names successful ones.          *)
LEMMA FinishReturns ==
  ASSUME TypeInv, CountInv, RowInv, SuccessInv, FinishInv, Finish
  PROVE  Ledger!Return
<1>1. /\ phase = "running" /\ phase' = "returned"
      /\ UNCHANGED <<scored, won, best_leaf, path, recorded>>
      /\ \A w \in Workers : worker[w].at = "idle"
  BY DEF Finish, AllDone, tree, history
<1>2. SuccessIsReturned' /\ TypeInv'
  BY SuccessFinish, NextTypeInv DEF SuccessInv, Next
<1> DEFINE best == finish'.best_leaf
           below == best_leaf[result']
<1>3. finish'.total_playouts = Cardinality(scored)
  <2>1. recorded \in Nat /\ scored \subseteq 1 .. recorded
    BY DEF TypeInv, MctsTypeOK
  <2>2. scored = 1 .. recorded
    BY <1>1, <2>1 DEF RowInv, Scoring
  <2>3. Cardinality(scored) = recorded
    <3>1. Cardinality(1 .. recorded) = recorded
      BY <2>1, FS_Interval
    <3> QED BY <2>2, <3>1
  <2> QED BY <1>1, <1>2, <2>3 DEF SuccessIsReturned
<1>4. best \in 0 .. Playouts /\ below \in 0 .. Playouts
  <2>1. /\ finish' \in [written : BOOLEAN, total_playouts : Nat,
                        best_leaf : Nodes]
        /\ result' \in 0 .. recorded /\ recorded \in 0 .. started
        /\ started' \in 0 .. Playouts /\ recorded \in 0 .. started'
        /\ best_leaf \in [Nodes -> 0 .. recorded]
    BY <1>1, <1>2 DEF TypeInv, MctsTypeOK
  <2>2. result' \in Nodes /\ \A k \in 0 .. recorded : k \in 0 .. Playouts
    BY <2>1, SearchAssumption DEF Nodes
  <2> QED BY <2>1, <2>2 DEF Nodes
<1>5. Ledger!Successful(best) /\ Ledger!Successful(below)
  <2>1. CASE won # {}
    BY <1>1, <1>2, <2>1 DEF SuccessIsReturned, Ledger!Successful
  <2>2. CASE won = {}
    <3>1. best = NoLeaf
      BY <1>1, <1>2, <2>2 DEF SuccessIsReturned
    <3>2. result' \in Nodes
      BY <1>1, <1>2, SearchAssumption DEF TypeInv, MctsTypeOK, Nodes
    <3>3. below = NoLeaf
      BY <2>2, <3>2 DEF SuccessInv, Below
    <3> QED BY <2>2, <3>1, <3>3 DEF Ledger!Successful, Ledger!NoRun, NoLeaf
  <2> QED BY <2>1, <2>2
<1>6. Outcome' = [status |-> "returned", playouts |-> Cardinality(scored),
                  best |-> best, below |-> below]
  BY <1>1, <1>3 DEF Outcome
<1>7. Outcome = Ledger!Open
  BY <1>1, OutcomeOpen
<1>8. scored' = scored /\ won' = won
  BY <1>1
<1> HIDE DEF best, below
<1>9. Ledger!Cardinality(scored) = Cardinality(scored)
  BY DEF Ledger!Cardinality, Cardinality
<1> QED BY <1>4, <1>5, <1>6, <1>7, <1>8, <1>9 DEF Ledger!Return

(* Every other step shows nothing of the search.                           *)
LEMMA NextRefinesSearch ==
  ASSUME TypeInv, CountInv, RowInv, SuccessInv, FinishInv, [Next]_vars
  PROVE  [Ledger!Next]_(Ledger!vars)
<1>1. FinishInv'
  BY FinishKept
<1>2. ASSUME NEW w \in Workers, Backprop(w) PROVE Ledger!Next
  BY <1>2, BackpropScores DEF Ledger!Next
<1>3. ASSUME NEW w \in Workers, Playout(w), ~Backprop(w)
      PROVE  UNCHANGED Ledger!vars
  <2>1. phase = "running" /\ phase' = "running"
    BY <1>3, RowPhase
  <2>2. Outcome = Ledger!Open /\ Outcome' = Outcome
    <3>1. finish' = finish
      BY <1>3 DEF Playout, Select, Simulate, PlayoutFails, PlayoutCrashes,
         RecordNewNode, ReadVisits, ReadReward, WriteRow, PersistCrashes
    <3> QED BY <2>1, <3>1, OutcomeOpen DEF Outcome
  <2>3. scored' = scored /\ won' = won
    BY <1>3 DEF Playout, Select, Simulate, PlayoutFails, PlayoutCrashes,
       RecordNewNode, ReadVisits, ReadReward, WriteRow, PersistCrashes, history
  <2> QED BY <2>2, <2>3 DEF Ledger!vars
<1>4. CASE Finish
  BY <1>4, FinishReturns DEF Ledger!Next
<1>5. CASE Raise \/ FinishCrashes
  <2>1. phase = "running" /\ phase' = "raised" /\ finish' = finish
        /\ scored' = scored /\ won' = won
    BY <1>5 DEF Raise, FinishCrashes, history
  <2>2. Outcome = Ledger!Open
    BY <2>1, OutcomeOpen
  <2>3. Outcome' = [Ledger!Open EXCEPT !.status = "raised"]
    BY <2>1, <2>2 DEF Outcome, Ledger!Open
  <2> QED BY <2>1, <2>2, <2>3 DEF Ledger!Raise, Ledger!Next
<1>6. CASE UNCHANGED vars
  BY <1>6 DEF vars, tree, history, Outcome, Ledger!vars
<1> QED BY <1>2, <1>3, <1>4, <1>5, <1>6 DEF Next, Ended

(* A search, with any number of threads, looks from outside like one run   *)
(* scored after another, each once and while it is open, and one outcome   *)
(* that counts them all and names a success if there was one               *)
(* (MctsSearch.run, _record_new_node, _backprop).                          *)
THEOREM SearchImplementsLedger == Spec => ImplementsSearch
<1>1. Spec => []FinishInv
  BY InitRefinesSearch, FinishKept, PTL DEF Spec
<1> QED BY <1>1, InitRefinesSearch, NextRefinesSearch, SearchInvHolds, PTL
        DEF Spec, ImplementsSearch, Ledger!Spec
=============================================================================
