--------------------------- MODULE AgentLoopProofs ----------------------------
(***************************************************************************)
(* Theorems about the turn loop, for all values of AgentLoop's constants.  *)
(* Every handler is used through its lemma of DecideCoreProofs only.       *)
(***************************************************************************)
EXTENDS AgentLoop, DecideCoreProofs

\* What a command at the head of the queue carries.
LEMMA HeadOfQueue ==
  ASSUME TypeOK, queue # <<>>
  PROVE  /\ Head(queue) \in Command
         /\ Tail(queue) \in Seq(Command)
         /\ Head(queue).op = "query_planner" => Head(queue).shows \in Nat
         /\ Head(queue).op = "submit_summarization"
              => Head(queue).covers \in SUBSET Nat
         /\ Head(queue).op = "log_step" => Head(queue).step \in StepRecord
<1>1. Head(queue) \in Command /\ Tail(queue) \in Seq(Command)
  BY HeadTailProperties DEF TypeOK
<1> QED BY <1>1 DEF Command

\* Every answer a configuration allows is one the handlers accept.
LEMMA AnswerType == \A first \in BOOLEAN : Answer(first) \subseteq PlannerAnswer
<1> TAKE first \in BOOLEAN
<1> DEFINE reports == IF first THEN BOOLEAN ELSE {FALSE}
           claim == [task_complete : {TRUE}, commands : {0},
                     tokens : TokenCosts, reports_session : reports]
           work == [task_complete : {FALSE}, commands : 0 .. MaxCommands,
                    tokens : TokenCosts, reports_session : reports]
<1>1. /\ reports \subseteq BOOLEAN
      /\ {TRUE} \subseteq BOOLEAN
      /\ {FALSE} \subseteq BOOLEAN
  BY Zenon
<1>n. /\ TokenCosts \subseteq Nat
      /\ 0 .. MaxCommands \subseteq Nat
      /\ {0} \subseteq Nat
  BY LoopAssumption
<1>2. Answer(first) = claim \cup work
  BY DEF Answer
<1> HIDE DEF reports
<1>3. claim \subseteq PlannerAnswer
  BY <1>1, <1>n, Zenon DEF PlannerAnswer
<1>4. work \subseteq PlannerAnswer
  BY <1>1, <1>n, Zenon DEF PlannerAnswer
<1> QED BY <1>2, <1>3, <1>4

\* The run starts in a State.
LEMMA InitialStateType ==
  \A forked \in BOOLEAN : InitialState(forked) \in BoundedState
BY ConfigAssumption DEF InitialState, BoundedState, State, RunStatus

-----------------------------------------------------------------------------
(* Type correctness.                                                       *)

\* A turn or a drain iteration whose handler is typed keeps the variables typed.
LEMMA StartTurnType ==
  ASSUME TypeOK, NEW t, TypedTransition(t), StartTurn(t), epoch' \in Nat,
         worker' \in [phase : WorkerPhase, covers : SUBSET Nat]
  PROVE  TypeOK'
<1>1. outcome' \in RunStatus
  BY DEF StartTurn, Settle, TypeOK, TypedTransition, BoundedState, State
<1>2. turn' \in 0 .. MaxTurns /\ blind' \in Nat
  BY LoopAssumption DEF StartTurn, TypeOK
<1> QED BY <1>1, <1>2
        DEF TypeOK, TypedTransition, BoundedState, StartTurn, stores

LEMMA RedecideType ==
  ASSUME TypeOK, queue # <<>>, NEW t, TypedTransition(t), Redecide(t),
         worker' \in [phase : WorkerPhase, covers : SUBSET Nat],
         trajectory' \in Seq(StepRecord), rows' \in Seq(Nat),
         observed' \in Nat, answered' \in 0 .. MaxAnswers, claims' \in Nat
  PROVE  TypeOK'
<1>1. queue' \in Seq(Command)
  BY HeadOfQueue, ConcatProperties DEF Redecide, Enqueue, TypedTransition
<1>2. outcome' \in RunStatus
  BY DEF Redecide, Settle, TypeOK, TypedTransition, BoundedState, State
<1> QED BY <1>1, <1>2 DEF TypeOK, TypedTransition, BoundedState, Redecide

\* The variables are typed at the start and after each step.
LEMMA InitType == LoopInit => TypeOK
<1> SUFFICES ASSUME LoopInit PROVE TypeOK
  OBVIOUS
<1>1. st \in BoundedState
  BY InitialStateType DEF LoopInit
<1> QED BY <1>1, LoopAssumption
        DEF LoopInit, TypeOK, BoundedState, IdleWorker, WorkerPhase,
            RunStatus

LEMMA NextType ==
  ASSUME TypeOK, [Next]_loopVars
  PROVE  TypeOK'
<1> DEFINE WorkerType == [phase : WorkerPhase, covers : SUBSET Nat]
<1>s. st \in BoundedState
  BY DEF TypeOK, BoundedState
<1>w. worker \in WorkerType /\ IdleWorker \in WorkerType
  BY DEF TypeOK, IdleWorker, WorkerPhase
<1>u. worker' = worker => worker' \in WorkerType
  BY <1>w
<1>e. epoch' = epoch => epoch' \in Nat
  BY DEF TypeOK
<1>1. CASE TickSummarized
  <2>1. epoch' \in Nat /\ worker.covers \in SUBSET Nat
    BY <1>1 DEF TickSummarized, TypeOK, State
  <2> QED BY <1>1, <1>s, <1>w, <2>1, OnSummarizationDoneRedirects,
             StartTurnType
          DEF TickSummarized
<1>2. CASE TickSummaryFailed
  BY <1>2, <1>e, <1>s, <1>w, OnSummarizationFailedRedirects, StartTurnType
     DEF TickSummaryFailed
<1>3. CASE TickLoop
  <2> DEFINE ready == worker.phase = "idle" /\ session_alive
             t == OnLoopTick(st, ready, session_alive)
  <2>1. ready \in BOOLEAN /\ session_alive \in BOOLEAN
    BY DEF TypeOK
  <2>2. StartTurn(t) /\ UNCHANGED <<worker, epoch>>
    BY <1>3 DEF TickLoop
  <2> HIDE DEF ready
  <2>3. TypedTransition(t)
    BY <1>s, <2>1, OnLoopTickProperties
  <2> HIDE DEF t
  <2> QED BY <1>e, <1>u, <2>2, <2>3, StartTurnType
<1>4. CASE EndTurn
  BY <1>4 DEF EndTurn, TypeOK, stores, history
<1>5. CASE TurnsExhausted
  <2>1. WithStatus(st, "failed") \in BoundedState
    BY <1>s DEF WithStatus, BoundedState, State, RunStatus
  <2> QED BY <1>5, <2>1 DEF TurnsExhausted, Settle, TypeOK, BoundedState,
                            stores, RunStatus
<1>6. CASE ApplyObserve
  <2>1. observed + 1 \in Nat
    BY DEF TypeOK
  <2> QED BY <1>6, <1>s, <1>u, <2>1, OnObservationRedirects, RedecideType
          DEF ApplyObserve, Applying, TypeOK, stores
<1>7. CASE ObserveEscapes
  BY <1>7 DEF ObserveEscapes, Raise, TypeOK, stores, history
<1>8. CASE ApplySendKeys
  BY <1>8, <1>s, <1>u, OnCommandAckedRedirects, RedecideType
     DEF ApplySendKeys, Applying, TypeOK, stores
<1>9. CASE SendKeysFails
  BY <1>9, <1>s, <1>u, OnSendKeysFailedRedirects, RedecideType
     DEF SendKeysFails, Applying, TypeOK, stores
<1>10. CASE QueryAnswered
  <2>1. PICK answer \in Answer(st.is_first_call) :
          /\ Redecide(OnPlannerResponded(st, answer, Head(queue).shows))
          /\ claims' = IF answer.task_complete THEN claims + 1 ELSE 0
    BY <1>10 DEF QueryAnswered
  <2>2. st.is_first_call \in BOOLEAN
    BY <1>s DEF BoundedState, State
  <2>3. answer \in PlannerAnswer /\ Head(queue).shows \in Nat /\ queue # <<>>
    BY <1>10, <2>2, AnswerType, HeadOfQueue DEF QueryAnswered, Applying
  <2>4. answered' \in 0 .. MaxAnswers /\ claims' \in Nat
    BY <1>10, <2>1, LoopAssumption DEF QueryAnswered, TypeOK
  <2>5. /\ trajectory' \in Seq(StepRecord)
        /\ rows' \in Seq(Nat)
        /\ observed' \in Nat
        /\ worker' = worker
    BY <1>10 DEF QueryAnswered, TypeOK, stores
  <2> QED BY <1>s, <1>u, <2>1, <2>3, <2>4, <2>5,
             OnPlannerRespondedProperties, RedecideType
<1>11. CASE QueryFails
  BY <1>11, <1>s, <1>u, OnPlannerFailedRedirects, RedecideType
     DEF QueryFails, Applying, TypeOK, stores
<1>12. CASE ApplySubmit
  <2>1. queue # <<>> /\ Head(queue).covers \in SUBSET Nat
    BY <1>12, HeadOfQueue DEF ApplySubmit, Applying
  <2>2. worker' \in WorkerType
    BY <1>12, <2>1 DEF ApplySubmit, WorkerPhase
  <2>3. TypedTransition(SubmitTick(st))
    BY <1>s, OnLoopTickProperties DEF SubmitTick
  <2> QED BY <1>12, <2>1, <2>2, <2>3, RedecideType
          DEF ApplySubmit, TypeOK, stores
<1>13. CASE ApplyRefreshArtifacts
  BY <1>13, <1>s, <1>u, OnArtifactsRefreshedRedirects, RedecideType
     DEF ApplyRefreshArtifacts, Applying, TypeOK, stores
<1>14. CASE RefreshEscapes
  BY <1>14 DEF RefreshEscapes, Raise, TypeOK, stores, history
<1>15. CASE ApplyLogStep
  <2>1. queue # <<>> /\ Head(queue).step \in StepRecord
    BY <1>15, HeadOfQueue DEF ApplyLogStep, Applying
  <2>2. st.current_step \in Nat
    BY <1>s DEF BoundedState, State
  <2>3. trajectory' \in Seq(StepRecord) /\ rows' \in Seq(Nat)
    BY <1>15, <2>1, <2>2, AppendProperties DEF ApplyLogStep, TypeOK
  <2> QED BY <1>15, <1>s, <1>u, <2>1, <2>3, OnStepLoggedProperties, RedecideType
          DEF ApplyLogStep, TypeOK
<1>16. CASE LogStepEscapes
  <2>1. Head(queue).step \in StepRecord
    BY <1>16, HeadOfQueue DEF LogStepEscapes, Applying
  <2>2. trajectory' \in Seq(StepRecord)
    <3>1. Append(trajectory, Head(queue).step) \in Seq(StepRecord)
      BY <2>1, AppendProperties DEF TypeOK
    <3> QED BY <1>16, <3>1 DEF LogStepEscapes, TypeOK
  <2> QED BY <1>16, <2>2 DEF LogStepEscapes, Raise, TypeOK, history
<1>17. CASE Interrupt
  BY <1>17 DEF Interrupt, TypeOK, stores, history
<1>18. CASE InterruptLogStep
  <2>1. Head(queue).step \in StepRecord /\ st.current_step \in Nat
    BY <1>18, <1>s, HeadOfQueue DEF InterruptLogStep, Applying, BoundedState, State
  <2>2. trajectory' \in Seq(StepRecord) /\ rows' \in Seq(Nat)
    <3>1. /\ Append(trajectory, Head(queue).step) \in Seq(StepRecord)
          /\ Append(rows, st.current_step) \in Seq(Nat)
      BY <2>1, AppendProperties DEF TypeOK
    <3> QED BY <1>18, <3>1 DEF InterruptLogStep, TypeOK
  <2> QED BY <1>18, <2>2 DEF InterruptLogStep, TypeOK, history
<1>19. CASE SessionDies
  BY <1>19 DEF SessionDies, TypeOK, stores, history
<1>20. CASE WorkerFinishes
  <2>1. worker' \in WorkerType
    BY <1>20, <1>w DEF WorkerFinishes, WorkerPhase
  <2> QED BY <1>20, <2>1 DEF WorkerFinishes, TypeOK, stores, history
<1>21. CASE UNCHANGED loopVars
  BY <1>21 DEF loopVars, stores, TypeOK
<1> QED
  BY <1>1, <1>2, <1>3, <1>4, <1>5, <1>6, <1>7, <1>8, <1>9, <1>10, <1>11,
     <1>12, <1>13, <1>14, <1>15, <1>16, <1>17, <1>18, <1>19, <1>20, <1>21
     DEF Next, LoopNext, MainStep, BesideStep, Finished

(* The variables keep their types, and with_step's ring buffer its bound.  *)
THEOREM TypeCorrect == Spec => []TypeOK
<1>1. TypeOK /\ [Next]_loopVars => TypeOK'
  BY NextType
<1> QED BY InitType, <1>1, PTL DEF Spec

-----------------------------------------------------------------------------
(* What the steps leave alone: all but four only redirect the run.         *)

InLoop == {"top", "drive", "returned"}

QuietStep ==
  /\ st'.current_step = st.current_step
  /\ st'.recent_steps \in {st.recent_steps, <<>>}
  /\ st'.pending_completion = st.pending_completion
  /\ st'.status \in {st.status, "failed"}
  /\ pc' \in InLoop => pc \in InLoop
  /\ UNCHANGED <<trajectory, rows, claims>>

LEMMA StartTurnIsQuiet ==
  ASSUME NEW t, Redirects(st, t), StartTurn(t)
  PROVE  QuietStep
BY DEF StartTurn, Redirects, QuietStep, InLoop, stores

LEMMA RedecideIsQuiet ==
  ASSUME NEW t, Redirects(st, t), Redecide(t),
         UNCHANGED <<trajectory, rows, claims>>
  PROVE  QuietStep
BY DEF Redecide, Redirects, QuietStep

LEMMA StepCases ==
  ASSUME TypeOK, [Next]_loopVars
  PROVE  \/ QuietStep
         \/ QueryAnswered
         \/ ApplyLogStep
         \/ LogStepEscapes
         \/ InterruptLogStep
<1>s. st \in BoundedState
  BY DEF TypeOK, BoundedState
<1>1. CASE TickSummarized
  <2>1. worker.covers \in SUBSET Nat
    BY DEF TypeOK
  <2> QED BY <1>1, <1>s, <2>1, OnSummarizationDoneRedirects, StartTurnIsQuiet
          DEF TickSummarized
<1>2. CASE TickSummaryFailed
  BY <1>2, <1>s, OnSummarizationFailedRedirects, StartTurnIsQuiet
     DEF TickSummaryFailed
<1>3. CASE TickLoop
  <2> DEFINE ready == worker.phase = "idle" /\ session_alive
             t == OnLoopTick(st, ready, session_alive)
  <2>1. ready \in BOOLEAN /\ session_alive \in BOOLEAN
    BY DEF TypeOK
  <2>2. StartTurn(t)
    BY <1>3 DEF TickLoop
  <2> HIDE DEF ready
  <2>3. t.state \in {st, WithStatus(st, "failed")}
    BY <1>s, <2>1, OnLoopTickProperties
  <2> HIDE DEF t
  <2> QED BY <1>s, <2>2, <2>3
          DEF StartTurn, QuietStep, InLoop, stores, WithStatus, BoundedState,
              State
<1>4. CASE EndTurn
  BY <1>4 DEF EndTurn, QuietStep, InLoop, stores, history
<1>5. CASE TurnsExhausted
  BY <1>5, <1>s
     DEF TurnsExhausted, QuietStep, InLoop, stores, WithStatus, BoundedState,
         State
<1>6. CASE ApplyObserve
  <2>1. observed + 1 \in Nat
    BY DEF TypeOK
  <2> QED BY <1>6, <1>s, <2>1, OnObservationRedirects, RedecideIsQuiet
          DEF ApplyObserve, stores
<1>7. CASE ObserveEscapes
  BY <1>7 DEF ObserveEscapes, Raise, QuietStep, InLoop, stores, history
<1>8. CASE ApplySendKeys
  BY <1>8, <1>s, OnCommandAckedRedirects, RedecideIsQuiet
     DEF ApplySendKeys, stores
<1>9. CASE SendKeysFails
  BY <1>9, <1>s, OnSendKeysFailedRedirects, RedecideIsQuiet
     DEF SendKeysFails, stores
<1>10. CASE QueryFails
  BY <1>10, <1>s, OnPlannerFailedRedirects, RedecideIsQuiet
     DEF QueryFails, stores
<1>11. CASE ApplySubmit
  <2> DEFINE t == OnLoopTick(st, FALSE, TRUE)
  <2>1. t.state \in {st, WithStatus(st, "failed")}
    BY <1>s, OnLoopTickProperties
  <2>2. Redecide(t) /\ UNCHANGED <<trajectory, rows, claims>>
    BY <1>11 DEF ApplySubmit, SubmitTick, stores
  <2> HIDE DEF t
  <2> QED BY <1>s, <2>1, <2>2
          DEF Redecide, QuietStep, WithStatus, BoundedState, State
<1>12. CASE ApplyRefreshArtifacts
  BY <1>12, <1>s, OnArtifactsRefreshedRedirects, RedecideIsQuiet
     DEF ApplyRefreshArtifacts, stores
<1>13. CASE RefreshEscapes
  BY <1>13 DEF RefreshEscapes, Raise, QuietStep, InLoop, stores, history
<1>14. CASE Interrupt
  BY <1>14 DEF Interrupt, QuietStep, InLoop, stores, history
<1>15. CASE SessionDies
  BY <1>15 DEF SessionDies, QuietStep, stores, history
<1>16. CASE WorkerFinishes
  BY <1>16 DEF WorkerFinishes, QuietStep, stores, history
<1>17. CASE UNCHANGED loopVars
  BY <1>17 DEF loopVars, QuietStep, stores
<1> QED
  BY <1>1, <1>2, <1>3, <1>4, <1>5, <1>6, <1>7, <1>8, <1>9, <1>10, <1>11,
     <1>12, <1>13, <1>14, <1>15, <1>16, <1>17
     DEF Next, LoopNext, MainStep, BesideStep, Finished

\* What an answered query leaves alone, and when it raises a completion claim.
LEMMA QueryAnsweredEffect ==
  ASSUME TypeOK, QueryAnswered
  PROVE  /\ st'.current_step = st.current_step
         /\ st'.recent_steps = st.recent_steps
         /\ st'.pending_completion => claims' = claims + 1
         /\ st'.status = "succeeded"
              => \/ st.status = "succeeded"
                 \/ st.pending_completion /\ claims' = claims + 1
         /\ pc' = pc
         /\ UNCHANGED <<trajectory, rows>>
<1>1. PICK answer \in Answer(st.is_first_call) :
        /\ Redecide(OnPlannerResponded(st, answer, Head(queue).shows))
        /\ claims' = IF answer.task_complete THEN claims + 1 ELSE 0
  BY DEF QueryAnswered
<1> DEFINE t == OnPlannerResponded(st, answer, Head(queue).shows)
<1>2. st \in BoundedState /\ st.is_first_call \in BOOLEAN
  BY DEF TypeOK, BoundedState, State
<1>3. answer \in PlannerAnswer /\ Head(queue).shows \in Nat
  BY <1>2, AnswerType, HeadOfQueue DEF QueryAnswered, Applying
<1>4. /\ t.state.current_step = st.current_step
      /\ t.state.recent_steps = st.recent_steps
      /\ t.state.pending_completion => answer.task_complete
      /\ t.state.status = "succeeded"
           => \/ st.status = "succeeded"
              \/ st.pending_completion /\ answer.task_complete
  BY <1>2, <1>3, OnPlannerRespondedProperties
<1>5. st' = t.state /\ pc' = pc
  BY <1>1 DEF Redecide
<1> HIDE DEF t
<1> QED BY <1>1, <1>4, <1>5 DEF QueryAnswered, stores

-----------------------------------------------------------------------------
(* Step accounting.                                                        *)

\* The four steps that log, or fail to log, a step.
LEMMA LogStepAccounting ==
  ASSUME TypeOK, StepAccounting, pc = "drive",
         trajectory' = Append(trajectory, Head(queue).step),
         Head(queue).step \in StepRecord,
         rows' \in {rows, Append(rows, st.current_step)},
         \/ pc' \notin InLoop /\ st'.current_step = st.current_step
         \/ /\ rows' = Append(rows, st.current_step)
            /\ st'.current_step = st.current_step + 1
  PROVE  StepAccounting'
<1>1. /\ st.current_step \in Nat
      /\ rows \in Seq(Nat)
      /\ trajectory \in Seq(StepRecord)
  BY DEF TypeOK, State
<1>2. Len(rows) = st.current_step /\ Len(trajectory) = st.current_step
  BY DEF StepAccounting
<1>3. Len(trajectory') = st.current_step + 1
  BY <1>1, <1>2, AppendProperties
<1>4. CASE rows' = rows
  BY <1>1, <1>2, <1>3, <1>4, AppendProperties DEF StepAccounting, InLoop
<1>5. CASE rows' = Append(rows, st.current_step)
  <2>1. /\ Len(rows') = st.current_step + 1
        /\ \A i \in 1 .. st.current_step : rows'[i] = rows[i]
        /\ rows'[st.current_step + 1] = st.current_step
    BY <1>1, <1>2, <1>5, AppendProperties
  <2>2. \A i \in 1 .. Len(rows') : rows'[i] = i - 1
    <3> SUFFICES ASSUME NEW i \in 1 .. Len(rows') PROVE rows'[i] = i - 1
      OBVIOUS
    <3>1. CASE i = st.current_step + 1
      BY <1>1, <2>1, <3>1
    <3>2. CASE i # st.current_step + 1
      <4>1. i \in 1 .. st.current_step
        BY <1>1, <2>1, <3>2
      <4>2. rows[i] = i - 1
        BY <1>2, <4>1 DEF StepAccounting
      <4> QED BY <2>1, <4>1, <4>2
    <3> QED BY <3>1, <3>2
  <2> QED BY <1>1, <1>3, <2>1, <2>2 DEF StepAccounting, InLoop
<1> QED BY <1>4, <1>5

LEMMA StepAccountingNext ==
  ASSUME TypeOK, StepAccounting, [Next]_loopVars
  PROVE  StepAccounting'
<1>1. CASE QuietStep
  BY <1>1 DEF QuietStep, StepAccounting, InLoop
<1>2. CASE QueryAnswered
  BY <1>2, QueryAnsweredEffect DEF StepAccounting
<1>3. CASE ApplyLogStep
  <2>1. /\ pc = "drive"
        /\ Head(queue).step \in StepRecord
    BY <1>3, HeadOfQueue DEF ApplyLogStep, Applying
  <2>2. st'.current_step = st.current_step + 1
    BY <1>3, OnStepLoggedProperties
       DEF ApplyLogStep, Redecide, TypeOK, BoundedState
  <2> QED BY <1>3, <2>1, <2>2, LogStepAccounting DEF ApplyLogStep
<1>4. CASE LogStepEscapes
  <2>1. /\ pc = "drive"
        /\ Head(queue).step \in StepRecord
        /\ pc' = "raised"
        /\ st' = st
        /\ rows' = rows
        /\ trajectory' \in {trajectory, Append(trajectory, Head(queue).step)}
    BY <1>4, HeadOfQueue DEF LogStepEscapes, Applying, Raise
  <2>2. CASE trajectory' = trajectory
    BY <2>1, <2>2 DEF StepAccounting
  <2>3. CASE trajectory' = Append(trajectory, Head(queue).step)
    BY <2>1, <2>3, LogStepAccounting DEF InLoop
  <2> QED BY <2>1, <2>2, <2>3
<1>5. CASE InterruptLogStep
  BY <1>5, HeadOfQueue, LogStepAccounting
     DEF InterruptLogStep, Applying, InLoop
<1> QED BY <1>1, <1>2, <1>3, <1>4, <1>5, StepCases

(* The step counter, the trajectory file and the steps table agree.        *)
THEOREM StepAccountingHolds == Spec => []StepAccounting
<1>1. LoopInit => StepAccounting
  BY DEF LoopInit, StepAccounting, InitialState
<1>2. TypeOK /\ StepAccounting /\ [Next]_loopVars => StepAccounting'
  BY StepAccountingNext
<1> QED BY TypeCorrect, <1>1, <1>2, PTL DEF Spec

-----------------------------------------------------------------------------
(* The ring buffer.                                                        *)

(* recent_steps is an unbroken run of steps that ends with the newest.     *)
THEOREM RecentIsSuffixHolds == Spec => []RecentIsSuffix
<1>1. LoopInit => RecentIsSuffix
  BY DEF LoopInit, RecentIsSuffix, InitialState
<1>2. TypeOK /\ RecentIsSuffix /\ [Next]_loopVars => RecentIsSuffix'
  <2> SUFFICES ASSUME TypeOK, RecentIsSuffix, [Next]_loopVars
               PROVE  RecentIsSuffix'
    OBVIOUS
  <2>1. CASE QuietStep
    BY <2>1 DEF QuietStep, RecentIsSuffix
  <2>2. CASE QueryAnswered
    BY <2>2, QueryAnsweredEffect DEF RecentIsSuffix
  <2>3. CASE ApplyLogStep
    <3>1. st \in BoundedState /\ st' = OnStepLogged(st).state
      BY <2>3 DEF ApplyLogStep, Redecide, TypeOK, BoundedState
    <3>2. RecentEndsAtNewest(st)
      BY DEF RecentIsSuffix, RecentEndsAtNewest
    <3>3. RecentEndsAtNewest(st')
      BY <3>1, <3>2, OnStepLoggedProperties
    <3> QED BY <3>3 DEF RecentIsSuffix, RecentEndsAtNewest
  <2>4. CASE LogStepEscapes \/ InterruptLogStep
    BY <2>4 DEF LogStepEscapes, Raise, InterruptLogStep, RecentIsSuffix
  <2> QED BY <2>1, <2>2, <2>3, <2>4, StepCases
<1> QED BY TypeCorrect, <1>1, <1>2, PTL DEF Spec

-----------------------------------------------------------------------------
(* Completion.                                                             *)

\* The strengthening: a pending confirmation stands for a claim made.
PendingIsClaimed == st.pending_completion => claims >= 1

LEMMA PendingIsClaimedNext ==
  ASSUME TypeOK, PendingIsClaimed, [Next]_loopVars
  PROVE  PendingIsClaimed'
<1>1. CASE QuietStep
  BY <1>1 DEF QuietStep, PendingIsClaimed
<1>2. CASE QueryAnswered
  BY <1>2, QueryAnsweredEffect DEF PendingIsClaimed, TypeOK
<1>3. CASE ApplyLogStep
  BY <1>3, OnStepLoggedProperties
     DEF ApplyLogStep, Redecide, TypeOK, BoundedState, PendingIsClaimed
<1>4. CASE LogStepEscapes \/ InterruptLogStep
  BY <1>4 DEF LogStepEscapes, Raise, InterruptLogStep, history,
              PendingIsClaimed
<1> QED BY <1>1, <1>2, <1>3, <1>4, StepCases

LEMMA SuccessStep ==
  ASSUME TypeOK, PendingIsClaimed, [Next]_loopVars,
         st.status # "succeeded", st'.status = "succeeded"
  PROVE  claims' >= 2
<1>1. CASE QuietStep
  BY <1>1 DEF QuietStep
<1>2. CASE QueryAnswered
  BY <1>2, QueryAnsweredEffect DEF PendingIsClaimed, TypeOK
<1>3. CASE ApplyLogStep
  BY <1>3, OnStepLoggedProperties
     DEF ApplyLogStep, Redecide, TypeOK, BoundedState
<1>4. CASE LogStepEscapes \/ InterruptLogStep
  BY <1>4 DEF LogStepEscapes, Raise, InterruptLogStep
<1> QED BY <1>1, <1>2, <1>3, <1>4, StepCases

(* A run succeeds only on a second task_complete answer in a row.          *)
THEOREM SuccessNeedsTwoClaimsHolds == Spec => SuccessNeedsTwoClaims
<1>1. LoopInit => PendingIsClaimed
  BY DEF LoopInit, PendingIsClaimed, InitialState
<1>2. TypeOK /\ PendingIsClaimed /\ [Next]_loopVars => PendingIsClaimed'
  BY PendingIsClaimedNext
<1>3. TypeOK /\ PendingIsClaimed /\ [Next]_loopVars
        => [ st.status # "succeeded" /\ st'.status = "succeeded"
               => claims' >= 2 ]_loopVars
  BY SuccessStep
<1> QED BY TypeCorrect, <1>1, <1>2, <1>3, PTL DEF Spec, SuccessNeedsTwoClaims

-----------------------------------------------------------------------------
(* The summarization worker.                                               *)

\* The strengthening: a queued submission is next, and the worker is free.
SubmitIsNext ==
  \A i \in 1 .. Len(queue) :
    queue[i].op = "submit_summarization" => i = 1 /\ worker.phase = "idle"

\* A drain iteration whose handler submits nothing leaves no submission.
LEMMA RedecideDrainsSubmit ==
  ASSUME TypeOK, SubmitIsNext, queue # <<>>, NEW t, TypedTransition(t),
         SubmitsNothing(t.commands), Redecide(t)
  PROVE  SubmitsNothing(queue') /\ SubmitIsNext'
<1>1. /\ Tail(queue) \in Seq(Command)
      /\ Len(queue) \in Nat
      /\ Len(Tail(queue)) = Len(queue) - 1
      /\ \A i \in 1 .. Len(Tail(queue)) : Tail(queue)[i] = queue[i + 1]
  BY HeadTailProperties, LenProperties DEF TypeOK
<1>2. SubmitsNothing(Tail(queue))
  BY <1>1 DEF SubmitIsNext, SubmitsNothing
<1>3. CASE st.status = "active"
  <2>1. queue' = Tail(queue) \o t.commands
    BY <1>3 DEF Redecide, Enqueue
  <2>2. /\ Len(queue') = Len(Tail(queue)) + Len(t.commands)
        /\ \A i \in 1 .. Len(Tail(queue)) + Len(t.commands) :
             queue'[i] = IF i <= Len(Tail(queue)) THEN Tail(queue)[i]
                         ELSE t.commands[i - Len(Tail(queue))]
    BY <1>1, <2>1, ConcatProperties DEF TypedTransition
  <2>3. Len(Tail(queue)) \in Nat /\ Len(t.commands) \in Nat
    BY <1>1, LenProperties DEF TypedTransition
  <2>4. \A i \in 1 .. Len(queue') : queue'[i].op # "submit_summarization"
    <3> SUFFICES ASSUME NEW i \in 1 .. Len(queue')
                 PROVE  queue'[i].op # "submit_summarization"
      OBVIOUS
    <3>1. CASE i <= Len(Tail(queue))
      BY <1>2, <2>2, <2>3, <3>1 DEF SubmitsNothing
    <3>2. CASE ~(i <= Len(Tail(queue)))
      <4>1. /\ queue'[i] = t.commands[i - Len(Tail(queue))]
            /\ i - Len(Tail(queue)) \in 1 .. Len(t.commands)
        BY <2>2, <2>3, <3>2
      <4> QED BY <4>1 DEF SubmitsNothing
    <3> QED BY <3>1, <3>2
  <2> QED BY <2>4 DEF SubmitIsNext, SubmitsNothing
<1>4. CASE st.status # "active"
  <2>1. queue' = Tail(queue)
    BY <1>4 DEF Redecide, Enqueue
  <2> QED BY <1>2, <2>1 DEF SubmitIsNext, SubmitsNothing
<1> QED BY <1>3, <1>4

LEMMA SubmitIsNextNext ==
  ASSUME TypeOK, SubmitIsNext, [Next]_loopVars
  PROVE  SubmitIsNext'
<1>s. st \in BoundedState
  BY DEF TypeOK, BoundedState
<1>1. CASE TickSummarized
  <2>1. worker.covers \in SUBSET Nat
    BY DEF TypeOK
  <2> QED BY <1>1, <1>s, <2>1, OnSummarizationDoneRedirects
          DEF TickSummarized, StartTurn, Redirects, SubmitsNothing,
              SubmitIsNext
<1>2. CASE TickSummaryFailed
  BY <1>2, <1>s, OnSummarizationFailedRedirects
     DEF TickSummaryFailed, StartTurn, Redirects, SubmitsNothing, SubmitIsNext
<1>3. CASE TickLoop
  <2> DEFINE ready == worker.phase = "idle" /\ session_alive
             t == OnLoopTick(st, ready, session_alive)
  <2>1. ready \in BOOLEAN /\ session_alive \in BOOLEAN
    BY DEF TypeOK
  <2>2. queue' = t.commands /\ worker' = worker
    BY <1>3 DEF TickLoop, StartTurn
  <2>3. \A i \in 1 .. Len(t.commands) :
          t.commands[i].op = "submit_summarization" => i = 1 /\ ready
    <3> HIDE DEF ready
    <3> QED BY <1>s, <2>1, OnLoopTickProperties
  <2> HIDE DEF t
  <2> QED BY <2>2, <2>3 DEF SubmitIsNext
<1>4. CASE EndTurn \/ TurnsExhausted
  BY <1>4 DEF EndTurn, TurnsExhausted, SubmitIsNext
<1>5. CASE ApplyObserve
  <2>1. observed + 1 \in Nat
    BY DEF TypeOK
  <2> QED BY <1>5, <1>s, <2>1, OnObservationRedirects, RedecideDrainsSubmit
          DEF ApplyObserve, Applying, Redirects
<1>6. CASE ApplySendKeys
  BY <1>6, <1>s, OnCommandAckedRedirects, RedecideDrainsSubmit
     DEF ApplySendKeys, Applying, Redirects
<1>7. CASE SendKeysFails
  BY <1>7, <1>s, OnSendKeysFailedRedirects, RedecideDrainsSubmit
     DEF SendKeysFails, Applying, Redirects
<1>8. CASE QueryAnswered
  <2>1. PICK answer \in Answer(st.is_first_call) :
          Redecide(OnPlannerResponded(st, answer, Head(queue).shows))
    BY <1>8 DEF QueryAnswered
  <2>2. st.is_first_call \in BOOLEAN
    BY <1>s DEF BoundedState, State
  <2>3. answer \in PlannerAnswer /\ Head(queue).shows \in Nat /\ queue # <<>>
    BY <1>8, <2>2, AnswerType, HeadOfQueue DEF QueryAnswered, Applying
  <2> QED BY <1>s, <2>1, <2>3, OnPlannerRespondedProperties,
             RedecideDrainsSubmit
<1>9. CASE QueryFails
  BY <1>9, <1>s, OnPlannerFailedRedirects, RedecideDrainsSubmit
     DEF QueryFails, Applying, Redirects
<1>10. CASE ApplySubmit
  <2> DEFINE t == OnLoopTick(st, FALSE, TRUE)
  <2>1. TypedTransition(t) /\ SubmitsNothing(t.commands)
    BY <1>s, OnLoopTickProperties DEF SubmitsNothing
  <2>2. Redecide(t) /\ queue # <<>>
    BY <1>10 DEF ApplySubmit, Applying, SubmitTick
  <2> HIDE DEF t
  <2> QED BY <2>1, <2>2, RedecideDrainsSubmit
<1>11. CASE ApplyRefreshArtifacts
  BY <1>11, <1>s, OnArtifactsRefreshedRedirects, RedecideDrainsSubmit
     DEF ApplyRefreshArtifacts, Applying, Redirects
<1>12. CASE ApplyLogStep
  BY <1>12, <1>s, OnStepLoggedProperties, RedecideDrainsSubmit
     DEF ApplyLogStep, Applying
<1>13. CASE ObserveEscapes \/ RefreshEscapes \/ LogStepEscapes
  BY <1>13 DEF ObserveEscapes, RefreshEscapes, LogStepEscapes, Raise,
               SubmitIsNext
<1>14. CASE Interrupt \/ InterruptLogStep \/ SessionDies
  BY <1>14 DEF Interrupt, InterruptLogStep, SessionDies, SubmitIsNext
<1>15. CASE WorkerFinishes
  BY <1>15 DEF WorkerFinishes, SubmitIsNext
<1>16. CASE UNCHANGED loopVars
  BY <1>16 DEF loopVars, SubmitIsNext
<1> QED
  BY <1>1, <1>2, <1>3, <1>4, <1>5, <1>6, <1>7, <1>8, <1>9, <1>10, <1>11,
     <1>12, <1>13, <1>14, <1>15, <1>16
     DEF Next, LoopNext, MainStep, BesideStep, Finished

(* submit is never called on a worker that holds a job.                    *)
THEOREM NoDoubleSubmitHolds == Spec => []NoDoubleSubmit
<1>1. LoopInit => SubmitIsNext
  BY DEF LoopInit, SubmitIsNext
<1>2. TypeOK /\ SubmitIsNext /\ [Next]_loopVars => SubmitIsNext'
  BY SubmitIsNextNext
<1>3. TypeOK /\ SubmitIsNext => NoDoubleSubmit
  <2> SUFFICES ASSUME TypeOK, SubmitIsNext,
                      Applying("submit_summarization")
               PROVE  worker.phase = "idle"
    BY DEF NoDoubleSubmit
  <2>1. queue \in Seq(Command) /\ queue # <<>>
    BY DEF TypeOK, Applying
  <2>2. Head(queue) = queue[1] /\ 1 \in 1 .. Len(queue)
    BY <2>1, EmptySeq
  <2> QED BY <2>2 DEF Applying, SubmitIsNext
<1> QED BY TypeCorrect, <1>1, <1>2, <1>3, PTL DEF Spec

-----------------------------------------------------------------------------
(* The confirmed completion reaches the trajectory.                        *)

CompletionWritten ==
  \E i \in 1 .. Len(trajectory) : trajectory[i].task_complete

\* The strengthening: the confirming step is written or still queued.  A run
\* is settled by its first final status, so a success is the active state's.
CompletionInv ==
  /\ outcome = "active" => st.status = "active"
  /\ pc \in {"top", "returned"} => queue = <<>>
  /\ outcome = "succeeded" /\ pc \in InLoop
       => CompletionWritten \/ LogsCompletion(queue)

\* What is queued behind the head stays queued.
LEMMA QueuedCompletionStays ==
  ASSUME TypeOK, queue # <<>>, NEW t, TypedTransition(t), Redecide(t),
         LogsCompletion(queue), Head(queue).op # "log_step"
  PROVE  LogsCompletion(queue')
<1>1. PICK i \in 1 .. Len(queue) :
        queue[i].op = "log_step" /\ queue[i].step.task_complete
  BY DEF LogsCompletion
<1>2. /\ Tail(queue) \in Seq(Command) /\ Len(queue) \in Nat
      /\ Len(Tail(queue)) = Len(queue) - 1
      /\ Head(queue) = queue[1]
      /\ \A j \in 1 .. Len(Tail(queue)) : Tail(queue)[j] = queue[j + 1]
  BY HeadTailProperties, LenProperties DEF TypeOK
<1>3. i # 1
  BY <1>1, <1>2
<1>4. i - 1 \in 1 .. Len(Tail(queue)) /\ i - 1 + 1 = i
  BY <1>2, <1>3
<1>5. Tail(queue)[i - 1] = queue[i]
  BY <1>2, <1>4
<1>6. CASE st.status = "active"
  <2>1. queue' = Tail(queue) \o t.commands
    BY <1>6 DEF Redecide, Enqueue
  <2>2. /\ Len(queue') = Len(Tail(queue)) + Len(t.commands)
        /\ \A j \in 1 .. Len(Tail(queue)) + Len(t.commands) :
             queue'[j] = IF j <= Len(Tail(queue)) THEN Tail(queue)[j]
                         ELSE t.commands[j - Len(Tail(queue))]
    BY <1>2, <2>1, ConcatProperties DEF TypedTransition
  <2>3. Len(Tail(queue)) \in Nat /\ Len(t.commands) \in Nat
    BY <1>2, LenProperties DEF TypedTransition
  <2>4. i - 1 \in 1 .. Len(queue') /\ queue'[i - 1] = Tail(queue)[i - 1]
    BY <1>4, <2>2, <2>3
  <2> QED BY <1>1, <1>5, <2>4 DEF LogsCompletion
<1>7. CASE st.status # "active"
  <2>1. queue' = Tail(queue)
    BY <1>7 DEF Redecide, Enqueue
  <2> QED BY <1>1, <1>4, <1>5, <2>1 DEF LogsCompletion
<1> QED BY <1>6, <1>7

\* What an active run decides is queued.
LEMMA DecidedCompletionQueued ==
  ASSUME TypeOK, queue # <<>>, NEW t, TypedTransition(t), Redecide(t),
         st.status = "active", LogsCompletion(t.commands)
  PROVE  LogsCompletion(queue')
<1>1. PICK i \in 1 .. Len(t.commands) :
        t.commands[i].op = "log_step" /\ t.commands[i].step.task_complete
  BY DEF LogsCompletion
<1>2. Tail(queue) \in Seq(Command) /\ t.commands \in Seq(Command)
  BY HeadOfQueue DEF TypedTransition
<1>3. queue' = Tail(queue) \o t.commands
  BY DEF Redecide, Enqueue
<1>4. /\ Len(queue') = Len(Tail(queue)) + Len(t.commands)
      /\ \A j \in 1 .. Len(Tail(queue)) + Len(t.commands) :
           queue'[j] = IF j <= Len(Tail(queue)) THEN Tail(queue)[j]
                       ELSE t.commands[j - Len(Tail(queue))]
  BY <1>2, <1>3, ConcatProperties
<1>5. Len(Tail(queue)) \in Nat /\ Len(t.commands) \in Nat
  BY <1>2, LenProperties
<1> DEFINE j == Len(Tail(queue)) + i
<1>6. j \in 1 .. Len(queue') /\ ~(j <= Len(Tail(queue)))
        /\ j - Len(Tail(queue)) = i
  BY <1>4, <1>5
<1> HIDE DEF j
<1>7. queue'[j] = t.commands[i]
  BY <1>4, <1>6
<1> QED BY <1>1, <1>6, <1>7 DEF LogsCompletion

\* A drain iteration that applies no LogStepCmd.
LEMMA RedecideCompletion ==
  ASSUME TypeOK, CompletionInv, pc = "drive", queue # <<>>,
         Head(queue).op # "log_step",
         NEW t, TypedTransition(t), Redecide(t), trajectory' = trajectory,
         t.state.status = "succeeded" /\ st.status # "succeeded"
           => LogsCompletion(t.commands)
  PROVE  CompletionInv'
<1>1. /\ st' = t.state /\ pc' = "drive"
      /\ outcome' = IF outcome = "active" THEN t.state.status ELSE outcome
  BY DEF Redecide, Settle
<1>2. CASE outcome = "active"
  <2>1. st.status = "active"
    BY <1>2 DEF CompletionInv
  <2>2. t.state.status = "succeeded" => LogsCompletion(queue')
    BY <2>1, DecidedCompletionQueued
  <2> QED BY <1>1, <1>2, <2>2 DEF CompletionInv
<1>3. CASE outcome # "active"
  <2>1. LogsCompletion(queue) => LogsCompletion(queue')
    BY QueuedCompletionStays
  <2>2. outcome' = outcome
    BY <1>1, <1>3
  <2>3. CompletionWritten' = CompletionWritten
    BY DEF CompletionWritten
  <2>4. outcome = "succeeded" => CompletionWritten \/ LogsCompletion(queue)
    BY DEF CompletionInv, InLoop
  <2> QED BY <1>1, <1>3, <2>1, <2>2, <2>3, <2>4 DEF CompletionInv
<1> QED BY <1>2, <1>3

\* The start of a turn only fails a run, and no completion is queued then.
LEMMA StartTurnCompletion ==
  ASSUME CompletionInv, NEW t, StartTurn(t),
         t.state.status \in {st.status, "failed"}
  PROVE  CompletionInv'
<1>1. /\ pc = "top" /\ pc' = "drive" /\ st' = t.state
      /\ outcome' = IF outcome = "active" THEN t.state.status ELSE outcome
      /\ trajectory' = trajectory
  BY DEF StartTurn, Settle, stores
<1>2. outcome' = "succeeded" => outcome = "succeeded"
  BY <1>1 DEF CompletionInv
<1>3. queue = <<>>
  BY <1>1 DEF CompletionInv
<1>4. outcome = "succeeded" => CompletionWritten
  <2>1. ~LogsCompletion(queue)
    BY <1>3 DEF LogsCompletion
  <2> QED BY <1>1, <2>1 DEF CompletionInv, InLoop
<1>5. CompletionWritten' = CompletionWritten
  BY <1>1 DEF CompletionWritten
<1>6. outcome' = "active" => st'.status = "active"
  BY <1>1
<1> QED BY <1>1, <1>2, <1>4, <1>5, <1>6 DEF CompletionInv

\* The step written is the head of the queue.
LEMMA LogStepCompletion ==
  ASSUME TypeOK, CompletionInv, ApplyLogStep
  PROVE  CompletionInv'
<1> DEFINE t == OnStepLogged(st)
<1>0. st \in BoundedState
  BY DEF TypeOK, BoundedState
<1>1. TypedTransition(t) /\ t.state.status = st.status
  BY <1>0, OnStepLoggedProperties
<1>2. /\ pc = "drive" /\ queue # <<>> /\ Redecide(t)
      /\ trajectory' = Append(trajectory, Head(queue).step)
      /\ Head(queue).op = "log_step"
  BY DEF ApplyLogStep, Applying
<1>3. t.commands = <<>>
  BY DEF OnStepLogged, Transition
<1> HIDE DEF t
<1>4. /\ st'.status = st.status /\ pc' = "drive"
      /\ outcome' = IF outcome = "active" THEN st.status ELSE outcome
  BY <1>1, <1>2 DEF Redecide, Settle
<1>5. outcome' = outcome
  BY <1>4 DEF CompletionInv
<1>6. queue' = Tail(queue)
  <2>1. Tail(queue) \in Seq(Command)
    BY <1>2, HeadOfQueue
  <2>2. Tail(queue) \o <<>> = Tail(queue)
    BY <2>1
  <2> QED BY <1>2, <1>3, <2>2 DEF Redecide, Enqueue
<1>7. /\ Len(trajectory) \in Nat
      /\ Len(trajectory') = Len(trajectory) + 1
      /\ \A i \in 1 .. Len(trajectory) : trajectory'[i] = trajectory[i]
      /\ trajectory'[Len(trajectory) + 1] = Head(queue).step
  <2>1. trajectory \in Seq(StepRecord) /\ Head(queue).step \in StepRecord
    BY <1>2, HeadOfQueue DEF TypeOK
  <2> QED BY <1>2, <2>1, AppendProperties, LenProperties
<1>8. ASSUME CompletionWritten PROVE CompletionWritten'
  <2>1. PICK i \in 1 .. Len(trajectory) : trajectory[i].task_complete
    BY <1>8 DEF CompletionWritten
  <2>2. i \in 1 .. Len(trajectory') /\ trajectory'[i] = trajectory[i]
    BY <1>7
  <2> QED BY <2>1, <2>2 DEF CompletionWritten
<1>9. ASSUME LogsCompletion(queue)
      PROVE  CompletionWritten' \/ LogsCompletion(queue')
  <2>1. PICK i \in 1 .. Len(queue) :
          queue[i].op = "log_step" /\ queue[i].step.task_complete
    BY <1>9 DEF LogsCompletion
  <2>2. /\ Len(queue) \in Nat /\ Len(Tail(queue)) = Len(queue) - 1
        /\ Head(queue) = queue[1]
        /\ \A j \in 1 .. Len(Tail(queue)) : Tail(queue)[j] = queue[j + 1]
    BY <1>2, HeadTailProperties, LenProperties DEF TypeOK
  <2>3. CASE i = 1
    <3>1. trajectory'[Len(trajectory) + 1].task_complete
      BY <1>7, <2>1, <2>2, <2>3
    <3>2. Len(trajectory) + 1 \in 1 .. Len(trajectory')
      BY <1>7
    <3> QED BY <3>1, <3>2 DEF CompletionWritten
  <2>4. CASE i # 1
    <3>1. i - 1 \in 1 .. Len(Tail(queue)) /\ i - 1 + 1 = i
      BY <2>2, <2>4
    <3>2. Tail(queue)[i - 1] = queue[i]
      BY <2>2, <3>1
    <3> QED BY <1>6, <2>1, <3>1, <3>2 DEF LogsCompletion
  <2> QED BY <2>3, <2>4
<1> QED BY <1>2, <1>4, <1>5, <1>8, <1>9 DEF CompletionInv, InLoop

LEMMA CompletionNext ==
  ASSUME TypeOK, CompletionInv, [Next]_loopVars
  PROVE  CompletionInv'
<1>s. st \in BoundedState /\ st \in State
  BY DEF TypeOK, BoundedState
<1>1. CASE TickSummarized
  <2>1. worker.covers \in SUBSET Nat
    BY DEF TypeOK
  <2> QED BY <1>1, <1>s, <2>1, OnSummarizationDoneRedirects,
             StartTurnCompletion
          DEF TickSummarized, Redirects
<1>2. CASE TickSummaryFailed
  BY <1>2, <1>s, OnSummarizationFailedRedirects, StartTurnCompletion
     DEF TickSummaryFailed, Redirects
<1>3. CASE TickLoop
  <2> DEFINE ready == worker.phase = "idle" /\ session_alive
             t == OnLoopTick(st, ready, session_alive)
  <2>1. ready \in BOOLEAN /\ session_alive \in BOOLEAN
    BY DEF TypeOK
  <2>2. StartTurn(t)
    BY <1>3 DEF TickLoop
  <2> HIDE DEF ready
  <2>3. t.state \in {st, WithStatus(st, "failed")}
    BY <1>s, <2>1, OnLoopTickProperties
  <2>4. WithStatus(st, "failed").status = "failed"
    BY <1>s DEF WithStatus, State
  <2> HIDE DEF t
  <2> QED BY <2>2, <2>3, <2>4, StartTurnCompletion
<1>4. CASE EndTurn
  <2>1. ~LogsCompletion(queue)
    BY <1>4 DEF EndTurn, LogsCompletion
  <2>2. CompletionWritten' = CompletionWritten
    BY <1>4 DEF EndTurn, CompletionWritten, stores
  <2> QED BY <1>4, <2>1, <2>2 DEF EndTurn, CompletionInv, InLoop, history
<1>5. CASE TurnsExhausted
  <2>1. ~LogsCompletion(queue)
    BY <1>5 DEF TurnsExhausted, CompletionInv, LogsCompletion
  <2>2. CompletionWritten' = CompletionWritten
    BY <1>5 DEF TurnsExhausted, CompletionWritten, stores
  <2>3. outcome' = IF outcome = "active" THEN "failed" ELSE outcome
    BY <1>5 DEF TurnsExhausted, Settle
  <2> QED BY <1>5, <2>1, <2>2, <2>3
          DEF TurnsExhausted, CompletionInv, InLoop
<1>6. CASE ApplyObserve
  <2>1. observed + 1 \in Nat
    BY DEF TypeOK
  <2> QED BY <1>6, <1>s, <2>1, OnObservationRedirects, RedecideCompletion
          DEF ApplyObserve, Applying, Redirects, stores
<1>7. CASE ApplySendKeys
  BY <1>7, <1>s, OnCommandAckedRedirects, RedecideCompletion
     DEF ApplySendKeys, Applying, Redirects, stores
<1>8. CASE SendKeysFails
  BY <1>8, <1>s, OnSendKeysFailedRedirects, RedecideCompletion
     DEF SendKeysFails, Applying, Redirects, stores
<1>9. CASE QueryAnswered
  <2>1. PICK answer \in Answer(st.is_first_call) :
          Redecide(OnPlannerResponded(st, answer, Head(queue).shows))
    BY <1>9 DEF QueryAnswered
  <2>2. st.is_first_call \in BOOLEAN
    BY <1>s DEF State
  <2>3. answer \in PlannerAnswer /\ Head(queue).shows \in Nat /\ queue # <<>>
    BY <1>9, <2>2, AnswerType, HeadOfQueue DEF QueryAnswered, Applying
  <2> DEFINE t == OnPlannerResponded(st, answer, Head(queue).shows)
  <2>4. TypedTransition(t)
    BY <1>s, <2>3, OnPlannerRespondedProperties
  <2>5. t.state.status = "succeeded" /\ st.status # "succeeded"
          => LogsCompletion(t.commands)
    BY <1>s, <2>3, SuccessIsLogged
  <2>6. Redecide(t)
    BY <2>1
  <2> HIDE DEF t
  <2>7. /\ pc = "drive" /\ Head(queue).op = "query_planner"
        /\ trajectory' = trajectory
    BY <1>9 DEF QueryAnswered, Applying, stores
  <2> QED BY <2>3, <2>4, <2>5, <2>6, <2>7, RedecideCompletion
<1>10. CASE QueryFails
  BY <1>10, <1>s, OnPlannerFailedRedirects, RedecideCompletion
     DEF QueryFails, Applying, Redirects, stores
<1>11. CASE ApplySubmit
  <2> DEFINE t == OnLoopTick(st, FALSE, TRUE)
  <2>1. TypedTransition(t) /\ t.state \in {st, WithStatus(st, "failed")}
    BY <1>s, OnLoopTickProperties
  <2>2. WithStatus(st, "failed").status = "failed"
    BY <1>s DEF WithStatus, State
  <2>3. /\ Redecide(t) /\ queue # <<>> /\ pc = "drive"
        /\ Head(queue).op = "submit_summarization"
        /\ trajectory' = trajectory
    BY <1>11 DEF ApplySubmit, Applying, SubmitTick, stores
  <2> HIDE DEF t
  <2> QED BY <2>1, <2>2, <2>3, RedecideCompletion
<1>12. CASE ApplyRefreshArtifacts
  BY <1>12, <1>s, OnArtifactsRefreshedRedirects, RedecideCompletion
     DEF ApplyRefreshArtifacts, Applying, Redirects, stores
<1>13. CASE ApplyLogStep
  BY <1>13, LogStepCompletion
<1>14. CASE ObserveEscapes \/ RefreshEscapes \/ LogStepEscapes
  BY <1>14 DEF ObserveEscapes, RefreshEscapes, LogStepEscapes, Raise,
               CompletionInv, InLoop, history
<1>15. CASE Interrupt \/ InterruptLogStep
  BY <1>15 DEF Interrupt, InterruptLogStep, CompletionInv, InLoop, history
<1>16. CASE SessionDies \/ WorkerFinishes \/ UNCHANGED loopVars
  BY <1>16 DEF SessionDies, WorkerFinishes, loopVars, stores, history,
               CompletionInv, CompletionWritten
<1> QED
  BY <1>1, <1>2, <1>3, <1>4, <1>5, <1>6, <1>7, <1>8, <1>9, <1>10, <1>11,
     <1>12, <1>13, <1>14, <1>15, <1>16
     DEF Next, LoopNext, MainStep, BesideStep, Finished

(* A loop that returns from a success has written the confirming step      *)
(* (_handle_completion, the drain of _drive; BUG-39 and BUG-41).           *)
THEOREM CompletionIsLoggedHolds == Spec => []CompletionIsLogged
<1>1. LoopInit => CompletionInv
  BY DEF LoopInit, CompletionInv, InitialState
<1>2. TypeOK /\ CompletionInv /\ [Next]_loopVars => CompletionInv'
  BY CompletionNext
<1>3. CompletionInv => CompletionIsLogged
  <2> SUFFICES ASSUME CompletionInv, pc = "returned", outcome = "succeeded"
               PROVE  CompletionWritten
    BY DEF CompletionIsLogged, CompletionWritten
  <2>1. queue = <<>> /\ (CompletionWritten \/ LogsCompletion(queue))
    BY DEF CompletionInv, InLoop
  <2> QED BY <2>1 DEF LogsCompletion
<1> QED BY TypeCorrect, <1>1, <1>2, <1>3, PTL DEF Spec

-----------------------------------------------------------------------------
(* Checkpoints.                                                            *)

\* How full the ring buffer is: it holds a step for each one logged since the
\* last checkpoint, until it has max_recent of them.
RingInv ==
  /\ epoch <= st.current_step
  /\ Len(st.recent_steps) = IF st.current_step - epoch <= MaxRecent
                            THEN st.current_step - epoch ELSE MaxRecent

\* The job in flight is of the uncovered steps of some moment since then.
JobInv ==
  worker.phase # "idle" =>
    \E submitted \in epoch .. st.current_step :
      worker.covers = Uncovered(submitted)

\* The strengthening: a queued job is of the recent steps there are.
CheckpointInv ==
  /\ \A i \in 1 .. Len(queue) :
       queue[i].op = "submit_summarization"
         => queue[i].covers = Range(st.recent_steps)
  /\ RingInv
  /\ JobInv

CheckpointContext == TypeOK /\ SubmitIsNext /\ RecentIsSuffix

\* The ring buffer holds exactly the uncovered steps that are not evicted.
LEMMA RecentIsUncovered ==
  ASSUME TypeOK, RecentIsSuffix, RingInv
  PROVE  Range(st.recent_steps) = Uncovered(st.current_step)
<1> DEFINE n == Len(st.recent_steps)
<1>1. st.current_step \in Nat /\ epoch \in Nat /\ MaxRecent \in Nat
  BY ConfigAssumption DEF TypeOK, State
<1>s. st.recent_steps \in Seq(Nat)
  BY DEF TypeOK, State
<1>d. DOMAIN st.recent_steps = 1 .. n
  BY <1>s, LenProperties
<1>2. n \in Nat
  BY <1>s, LenProperties
<1>3. n = IF st.current_step - epoch <= MaxRecent
          THEN st.current_step - epoch ELSE MaxRecent
  BY DEF RingInv
<1>4. epoch <= st.current_step
  BY DEF RingInv
<1>5. \A i \in 1 .. n : st.recent_steps[i] = st.current_step - n + i
  BY DEF RecentIsSuffix
<1>6. Range(st.recent_steps) = {st.recent_steps[i] : i \in 1 .. n}
  BY <1>d, Zenon DEF Range
<1> HIDE DEF n
<1>7. ASSUME NEW i \in 1 .. n
      PROVE  st.current_step - n + i \in Uncovered(st.current_step)
  BY <1>1, <1>2, <1>3, <1>4 DEF Uncovered
<1>8. ASSUME NEW step \in Uncovered(st.current_step)
      PROVE  \E i \in 1 .. n : step = st.current_step - n + i
  <2>1. /\ step \in epoch + 1 .. st.current_step
        /\ step + MaxRecent > st.current_step
    BY DEF Uncovered
  <2> DEFINE i == step - st.current_step + n
  <2>2. i \in 1 .. n /\ step = st.current_step - n + i
    BY <1>1, <1>2, <1>3, <1>4, <2>1
  <2> QED BY <2>2
<1> QED BY <1>5, <1>6, <1>7, <1>8

\* The State keeps what RingInv speaks of, and no checkpoint is applied.
LEMMA RingStays ==
  ASSUME RingInv, JobInv,
         st'.current_step = st.current_step,
         st'.recent_steps = st.recent_steps,
         worker'.phase # "idle" =>
           worker.phase # "idle" /\ worker'.covers = worker.covers,
         UNCHANGED epoch
  PROVE  RingInv' /\ JobInv'
<1>1. \A n : Uncovered(n)' = Uncovered(n)
  BY DEF Uncovered
<1> QED BY <1>1 DEF RingInv, JobInv

\* A drain iteration that neither logs nor submits.
LEMMA RedecideCheckpoint ==
  ASSUME CheckpointContext, CheckpointInv, queue # <<>>,
         NEW t, TypedTransition(t), Redecide(t), worker' = worker,
         t.state.current_step = st.current_step,
         t.state.recent_steps = st.recent_steps,
         SubmitsNothing(t.commands)
  PROVE  CheckpointInv'
<1>1. SubmitsNothing(queue')
  BY RedecideDrainsSubmit DEF CheckpointContext
<1>2. st' = t.state /\ epoch' = epoch
  BY DEF Redecide
<1>3. RingInv' /\ JobInv'
  BY <1>2, RingStays DEF CheckpointInv
<1> QED BY <1>1, <1>3 DEF CheckpointInv, SubmitsNothing

\* The checkpoint that TickSummarized applies starts a new epoch.
LEMMA TickSummarizedCheckpoint ==
  ASSUME CheckpointContext, CheckpointInv, TickSummarized
  PROVE  CheckpointInv'
<1> DEFINE t == OnSummarizationDone(st, worker.covers)
<1>s. st \in BoundedState /\ st.current_step \in Nat
  BY DEF CheckpointContext, TypeOK, BoundedState, State
<1>1. worker.covers \in SUBSET Nat
  BY DEF CheckpointContext, TypeOK
<1>2. /\ t.state.current_step = st.current_step
      /\ t.state.recent_steps = <<>>
      /\ SubmitsNothing(t.commands)
  BY <1>s, <1>1, OnSummarizationDoneRedirects DEF Redirects
<1>3. /\ st' = t.state
      /\ queue' = t.commands
      /\ worker' = IdleWorker
      /\ epoch' = st.current_step
  BY DEF TickSummarized, StartTurn
<1> HIDE DEF t
<1>4. RingInv'
  <2>1. Len(st'.recent_steps) = 0 /\ epoch' = st'.current_step
          /\ st'.current_step \in Nat
    BY <1>s, <1>2, <1>3
  <2>2. MaxRecent \in Nat
    BY ConfigAssumption
  <2> QED BY <2>1, <2>2 DEF RingInv
<1>5. JobInv'
  BY <1>3 DEF JobInv, IdleWorker
<1> QED BY <1>2, <1>3, <1>4, <1>5 DEF CheckpointInv, SubmitsNothing

\* A failed job leaves the worker idle and the recent steps as they were.
LEMMA TickSummaryFailedCheckpoint ==
  ASSUME CheckpointContext, CheckpointInv, TickSummaryFailed
  PROVE  CheckpointInv'
<1> DEFINE t == OnSummarizationFailed(st)
<1>s. st \in BoundedState
  BY DEF CheckpointContext, TypeOK, BoundedState
<1>2. /\ t.state.current_step = st.current_step
      /\ t.state.recent_steps = st.recent_steps
      /\ SubmitsNothing(t.commands)
  BY <1>s, OnSummarizationFailedRedirects DEF Redirects, KeepsRecent
<1>3. /\ st' = t.state
      /\ queue' = t.commands
      /\ worker'.phase = "idle"
      /\ epoch' = epoch
  BY DEF TickSummaryFailed, StartTurn, IdleWorker
<1> HIDE DEF t
<1>4. RingInv' /\ JobInv'
  BY <1>2, <1>3, RingStays DEF CheckpointInv
<1> QED BY <1>2, <1>3, <1>4 DEF CheckpointInv, SubmitsNothing

\* The first decision of a turn may queue a job.
LEMMA TickLoopCheckpoint ==
  ASSUME CheckpointContext, CheckpointInv, TickLoop
  PROVE  CheckpointInv'
<1> DEFINE ready == worker.phase = "idle" /\ session_alive
           t == OnLoopTick(st, ready, session_alive)
<1>s. st \in BoundedState /\ st \in State
  BY DEF CheckpointContext, TypeOK, BoundedState
<1>1. ready \in BOOLEAN /\ session_alive \in BOOLEAN
  BY DEF CheckpointContext, TypeOK
<1>2. queue' = t.commands /\ st' = t.state /\ UNCHANGED <<worker, epoch>>
  BY DEF TickLoop, StartTurn
<1> HIDE DEF ready
<1>3. t.state \in {st, WithStatus(st, "failed")}
  BY <1>s, <1>1, OnLoopTickProperties
<1>4. ASSUME NEW i \in 1 .. Len(t.commands),
             t.commands[i].op = "submit_summarization"
      PROVE  t.state = st /\ t.commands[i].covers = Range(st.recent_steps)
  BY <1>s, <1>1, <1>4, JobCoversRecent
<1> HIDE DEF t
<1>5. /\ t.state.current_step = st.current_step
      /\ t.state.recent_steps = st.recent_steps
  BY <1>s, <1>3 DEF WithStatus, State
<1>6. RingInv' /\ JobInv'
  BY <1>2, <1>5, RingStays DEF CheckpointInv
<1>7. \A i \in 1 .. Len(queue') :
        queue'[i].op = "submit_summarization"
          => queue'[i].covers = Range(st'.recent_steps)
  BY <1>2, <1>4, <1>5
<1> QED BY <1>6, <1>7 DEF CheckpointInv

\* The job handed over is of all recent steps: the uncovered ones of now.
LEMMA ApplySubmitCheckpoint ==
  ASSUME CheckpointContext, CheckpointInv, ApplySubmit
  PROVE  CheckpointInv'
<1> DEFINE t == OnLoopTick(st, FALSE, TRUE)
<1>s. st \in BoundedState /\ st \in State
  BY DEF CheckpointContext, TypeOK, BoundedState
<1>1. TypedTransition(t) /\ SubmitsNothing(t.commands)
        /\ t.state \in {st, WithStatus(st, "failed")}
  BY <1>s, OnLoopTickProperties DEF SubmitsNothing
<1>2. /\ Redecide(t) /\ queue # <<>>
      /\ Head(queue).op = "submit_summarization"
      /\ worker'.covers = Head(queue).covers
  BY DEF ApplySubmit, Applying, SubmitTick
<1> HIDE DEF t
<1>3. SubmitsNothing(queue')
  BY <1>1, <1>2, RedecideDrainsSubmit DEF CheckpointContext
<1>4. /\ st'.current_step = st.current_step
      /\ st'.recent_steps = st.recent_steps
      /\ epoch' = epoch
  <2>1. st' = t.state /\ epoch' = epoch
    BY <1>2 DEF Redecide
  <2> QED BY <1>s, <1>1, <2>1 DEF WithStatus, State
<1>5. worker'.covers = Range(st.recent_steps)
  <2>1. Head(queue) = queue[1] /\ 1 \in 1 .. Len(queue)
    BY <1>2, EmptySeq DEF CheckpointContext, TypeOK
  <2> QED BY <1>2, <2>1 DEF CheckpointInv
<1>6. RingInv'
  BY <1>4 DEF CheckpointInv, RingInv
<1>7. JobInv'
  <2>1. worker'.covers = Uncovered(st.current_step)
    BY <1>5, RecentIsUncovered DEF CheckpointContext, CheckpointInv
  <2>2. Uncovered(st.current_step)' = Uncovered(st.current_step)
    BY <1>4 DEF Uncovered
  <2>3. st.current_step \in epoch .. st.current_step
    <3>1. /\ st.current_step \in Nat
          /\ epoch \in Nat
          /\ epoch <= st.current_step
      BY <1>s DEF State, CheckpointContext, TypeOK, CheckpointInv, RingInv
    <3> QED BY <3>1
  <2> QED BY <1>4, <2>1, <2>2, <2>3 DEF JobInv
<1> QED BY <1>3, <1>6, <1>7 DEF CheckpointInv, SubmitsNothing

\* A step is logged: the buffer grows, or is full and evicts its oldest.
LEMMA LogStepCheckpoint ==
  ASSUME CheckpointContext, CheckpointInv, ApplyLogStep
  PROVE  CheckpointInv'
<1> DEFINE t == OnStepLogged(st)
<1>s. /\ st \in BoundedState /\ st.current_step \in Nat
      /\ epoch \in Nat /\ MaxRecent \in Nat
  BY ConfigAssumption DEF CheckpointContext, TypeOK, BoundedState, State
<1>1. /\ TypedTransition(t) /\ SubmitsNothing(t.commands)
      /\ t.state.current_step = st.current_step + 1
      /\ Len(t.state.recent_steps)
           = IF Len(st.recent_steps) + 1 <= MaxRecent
             THEN Len(st.recent_steps) + 1 ELSE MaxRecent
  BY <1>s, OnStepLoggedProperties
<1>2. Redecide(t) /\ queue # <<>> /\ worker' = worker
  BY DEF ApplyLogStep, Applying
<1> HIDE DEF t
<1>3. SubmitsNothing(queue')
  BY <1>1, <1>2, RedecideDrainsSubmit DEF CheckpointContext
<1>4. st' = t.state /\ epoch' = epoch
  BY <1>2 DEF Redecide
<1>5. RingInv'
  <2>1. /\ epoch <= st.current_step
        /\ Len(st.recent_steps) = IF st.current_step - epoch <= MaxRecent
                                  THEN st.current_step - epoch ELSE MaxRecent
    BY DEF CheckpointInv, RingInv
  <2> QED BY <1>s, <1>1, <1>4, <2>1 DEF RingInv
<1>6. JobInv'
  <2>1. \A n : Uncovered(n)' = Uncovered(n)
    BY <1>4 DEF Uncovered
  <2>2. epoch .. st.current_step \subseteq epoch' .. st'.current_step
    BY <1>s, <1>1, <1>4
  <2> QED BY <1>2, <2>1, <2>2 DEF CheckpointInv, JobInv
<1> QED BY <1>3, <1>5, <1>6 DEF CheckpointInv, SubmitsNothing

LEMMA CheckpointNext ==
  ASSUME CheckpointContext, CheckpointInv, [Next]_loopVars
  PROVE  CheckpointInv'
<1>s. st \in BoundedState /\ st \in State
  BY DEF CheckpointContext, TypeOK, BoundedState
<1>u. ASSUME st'.current_step = st.current_step,
             st'.recent_steps = st.recent_steps,
             UNCHANGED <<queue, worker, epoch>>
      PROVE  CheckpointInv'
  BY <1>u, RingStays DEF CheckpointInv
<1>1. CASE TickSummarized
  BY <1>1, TickSummarizedCheckpoint
<1>2. CASE TickSummaryFailed
  BY <1>2, TickSummaryFailedCheckpoint
<1>3. CASE TickLoop
  BY <1>3, TickLoopCheckpoint
<1>4. CASE EndTurn
  BY <1>4, <1>u DEF EndTurn, history
<1>5. CASE TurnsExhausted
  BY <1>5, <1>s, <1>u DEF TurnsExhausted, WithStatus, State
<1>6. CASE ApplyObserve
  <2>1. observed + 1 \in Nat
    BY DEF CheckpointContext, TypeOK
  <2> QED BY <1>6, <1>s, <2>1, OnObservationRedirects, RedecideCheckpoint
          DEF ApplyObserve, Applying, Redirects, KeepsRecent
<1>7. CASE ApplySendKeys
  BY <1>7, <1>s, OnCommandAckedRedirects, RedecideCheckpoint
     DEF ApplySendKeys, Applying, Redirects, KeepsRecent
<1>8. CASE SendKeysFails
  BY <1>8, <1>s, OnSendKeysFailedRedirects, RedecideCheckpoint
     DEF SendKeysFails, Applying, Redirects, KeepsRecent
<1>9. CASE QueryAnswered
  <2>1. PICK answer \in Answer(st.is_first_call) :
          Redecide(OnPlannerResponded(st, answer, Head(queue).shows))
    BY <1>9 DEF QueryAnswered
  <2>2. st.is_first_call \in BOOLEAN
    BY <1>s DEF State
  <2>3. answer \in PlannerAnswer /\ Head(queue).shows \in Nat /\ queue # <<>>
    BY <1>9, <2>2, AnswerType, HeadOfQueue
       DEF QueryAnswered, Applying, CheckpointContext
  <2>4. worker' = worker
    BY <1>9 DEF QueryAnswered
  <2> QED BY <1>s, <2>1, <2>3, <2>4, OnPlannerRespondedProperties,
             RedecideCheckpoint
<1>10. CASE QueryFails
  BY <1>10, <1>s, OnPlannerFailedRedirects, RedecideCheckpoint
     DEF QueryFails, Applying, Redirects, KeepsRecent
<1>11. CASE ApplySubmit
  BY <1>11, ApplySubmitCheckpoint
<1>12. CASE ApplyRefreshArtifacts
  BY <1>12, <1>s, OnArtifactsRefreshedRedirects, RedecideCheckpoint
     DEF ApplyRefreshArtifacts, Applying, Redirects, KeepsRecent
<1>13. CASE ApplyLogStep
  BY <1>13, LogStepCheckpoint
<1>14. CASE ObserveEscapes \/ RefreshEscapes \/ LogStepEscapes
  BY <1>14, <1>u
     DEF ObserveEscapes, RefreshEscapes, LogStepEscapes, Raise, history
<1>15. CASE Interrupt \/ InterruptLogStep \/ SessionDies
  BY <1>15, <1>u DEF Interrupt, InterruptLogStep, SessionDies, history
<1>16. CASE WorkerFinishes
  <2>1. /\ worker.phase # "idle" /\ worker'.covers = worker.covers
        /\ UNCHANGED <<st, queue, epoch>>
    <3>1. "covers" \in DOMAIN worker
      BY DEF CheckpointContext, TypeOK
    <3> QED BY <1>16, <3>1 DEF WorkerFinishes, history
  <2> QED BY <2>1, RingStays DEF CheckpointInv
<1>17. CASE UNCHANGED loopVars
  BY <1>17, <1>u DEF loopVars
<1> QED
  BY <1>1, <1>2, <1>3, <1>4, <1>5, <1>6, <1>7, <1>8, <1>9, <1>10, <1>11,
     <1>12, <1>13, <1>14, <1>15, <1>16, <1>17
     DEF Next, LoopNext, MainStep, BesideStep, Finished

\* Of two moments of an epoch, the later one's uncovered steps that the
\* earlier one's are not among were logged between them.
LEMMA UncoveredSince ==
  ASSUME epoch \in Nat, MaxRecent \in Nat,
         NEW later \in Nat, NEW earlier \in epoch .. later
  PROVE  Uncovered(later) \ Uncovered(earlier) \subseteq earlier + 1 .. later
BY DEF Uncovered

(* A summarization is of every step logged since the last checkpoint but   *)
(* those evicted from a full ring buffer before it was submitted, and the  *)
(* steps that applying it drops uncovered were logged after the submit     *)
(* (_build_summarization_job, with_step, with_summarization).              *)
THEOREM CheckpointSkipsOnlyEvictedHolds == Spec => []CheckpointSkipsOnlyEvicted
<1>1. LoopInit => SubmitIsNext /\ CheckpointInv
  <2> SUFFICES ASSUME LoopInit PROVE SubmitIsNext /\ CheckpointInv
    OBVIOUS
  <2>1. /\ queue = <<>> /\ worker.phase = "idle" /\ epoch = 0
        /\ st.recent_steps = <<>> /\ st.current_step = 0
    BY DEF LoopInit, IdleWorker, InitialState
  <2>2. RingInv
    BY <2>1, ConfigAssumption DEF RingInv
  <2> QED BY <2>1, <2>2 DEF SubmitIsNext, CheckpointInv, JobInv
<1>2. TypeOK /\ SubmitIsNext /\ [Next]_loopVars => SubmitIsNext'
  BY SubmitIsNextNext
<1>3. TypeOK /\ SubmitIsNext /\ RecentIsSuffix /\ CheckpointInv
        /\ [Next]_loopVars => CheckpointInv'
  BY CheckpointNext DEF CheckpointContext
<1>4. TypeOK /\ RecentIsSuffix /\ CheckpointInv => CheckpointSkipsOnlyEvicted
  <2> SUFFICES ASSUME TypeOK, RecentIsSuffix, CheckpointInv
               PROVE  CheckpointSkipsOnlyEvicted
    OBVIOUS
  <2>1. Range(st.recent_steps) = Uncovered(st.current_step)
    BY RecentIsUncovered DEF CheckpointInv
  <2>2. ASSUME Applying("submit_summarization")
        PROVE  Head(queue).covers = Uncovered(st.current_step)
    <3>1. queue \in Seq(Command) /\ queue # <<>>
      BY <2>2 DEF TypeOK, Applying
    <3>2. Head(queue) = queue[1] /\ 1 \in 1 .. Len(queue)
      BY <3>1, EmptySeq
    <3> QED BY <2>1, <2>2, <3>2 DEF Applying, CheckpointInv
  <2>3. ASSUME worker.phase # "idle"
        PROVE  \E submitted \in epoch .. st.current_step :
                 /\ worker.covers = Uncovered(submitted)
                 /\ Range(st.recent_steps) \ worker.covers
                      \subseteq submitted + 1 .. st.current_step
    <3>1. PICK submitted \in epoch .. st.current_step :
            worker.covers = Uncovered(submitted)
      BY <2>3 DEF CheckpointInv, JobInv
    <3>2. epoch \in Nat /\ st.current_step \in Nat /\ MaxRecent \in Nat
      BY ConfigAssumption DEF TypeOK, State
    <3>3. Uncovered(st.current_step) \ Uncovered(submitted)
            \subseteq submitted + 1 .. st.current_step
      BY <3>2, UncoveredSince
    <3> QED BY <2>1, <3>1, <3>3
  <2> QED BY <2>2, <2>3 DEF CheckpointSkipsOnlyEvicted
<1> QED
  BY TypeCorrect, RecentIsSuffixHolds, <1>1, <1>2, <1>3, <1>4, PTL DEF Spec

-----------------------------------------------------------------------------
(* The loop keeps looking, unless the tokens reach the dump's threshold.   *)

\* The token trigger of the artifact dump is not reached.
BelowDumpThreshold == st.total_prompt_tokens < DumpThreshold

\* A turn that starts after this many steps refreshes the artifacts.
DueAt(step) == step # 0 /\ step % DumpInterval = 0

\* How many blind turns may lie behind a turn that starts after step steps.
\* A refresh moves on to a step that is not due, and a checkpoint leaves the
\* worker idle until the next turn that observes.
Sighted(step) ==
  \/ blind = 0
  \/ blind = 1 /\ (worker.phase = "idle" \/ ~DueAt(step))
  \/ blind = 2 /\ worker.phase = "idle"
  \/ blind = 3 /\ worker.phase = "idle" /\ ~DueAt(step)

\* What is left to do in a turn that does not observe.
BlindDrain ==
  \/ queue = <<RefreshArtifactsCmd>> /\ Sighted(st.current_step + 1)
  \/ Len(queue) = 1 /\ Head(queue).op = "log_step"
       /\ Sighted(st.current_step + 1)
  \/ queue = <<>> /\ (st.status = "active" => Sighted(st.current_step))

BlindInv ==
  /\ LoopNeverBlind
  /\ pc = "top" => Sighted(st.current_step)
  /\ pc = "drive" /\ blind # 0 => BlindDrain

\* One step after a multiple of an interval of two or more is no multiple.
LEMMA NotDueTwice ==
  ASSUME DumpInterval >= 2, NEW step \in Nat, DueAt(step)
  PROVE  ~DueAt(step + 1)
<1>1. DumpInterval \in Nat
  BY ConfigAssumption
<1>2. step % DumpInterval = 0
  BY DEF DueAt
<1>3. (step + 1) % DumpInterval # 0
  BY <1>1, <1>2, SMTT(30)
<1> QED BY <1>3 DEF DueAt

\* A turn that observes, or ends the run at once.
LEMMA SeeingTurn ==
  ASSUME TypeOK, BlindInv, NEW t, StartTurn(t),
         \/ ObserveCmd \in Range(t.commands)
         \/ t.state.status # "active" /\ t.commands = <<>>
  PROVE  BlindInv'
BY DEF StartTurn, BlindInv, LoopNeverBlind, BlindDrain, Sighted, TypeOK

\* A turn that starts with a checkpoint: the worker held its result, so at
\* most one blind turn went before.
LEMMA CheckpointTurn ==
  ASSUME TypeOK, BlindInv, TickSummarized
  PROVE  BlindInv'
<1> DEFINE t == OnSummarizationDone(st, worker.covers)
<1>1. /\ StartTurn(t) /\ pc = "top"
      /\ worker.phase = "done" /\ worker'.phase = "idle"
  BY DEF TickSummarized, StartTurn, IdleWorker
<1>2. t.commands = <<LogStepCmd("system", 0, FALSE, 0)>>
  BY DEF OnSummarizationDone, Transition
<1> HIDE DEF t
<1>3. pc' = "drive" /\ queue' = t.commands
  BY <1>1 DEF StartTurn
<1>4. /\ Len(queue') = 1 /\ Head(queue') = LogStepCmd("system", 0, FALSE, 0)
      /\ Head(queue').op = "log_step"
  BY <1>2, <1>3, OneCommand DEF LogStepCmd
<1>5. blind \in {0, 1}
  BY <1>1 DEF BlindInv, Sighted
<1>6. blind' \in {0, blind, blind + 1}
  BY <1>1 DEF StartTurn
<1>7. blind' \in {0, 1, 2}
  BY <1>5, <1>6
<1>8. Sighted(st.current_step + 1)'
  BY <1>1, <1>7 DEF Sighted
<1> QED BY <1>3, <1>4, <1>7, <1>8 DEF BlindInv, BlindDrain, LoopNeverBlind

\* A turn that starts with a tick refreshes the artifacts only when that is
\* due, and observes otherwise.
LEMMA TickTurn ==
  ASSUME DumpInterval >= 2, TypeOK, BelowDumpThreshold, BlindInv, TickLoop
  PROVE  BlindInv'
<1> DEFINE ready == worker.phase = "idle" /\ session_alive
           t == OnLoopTick(st, ready, session_alive)
<1>s. st \in State /\ st.current_step \in Nat /\ st.total_prompt_tokens \in Nat
  BY DEF TypeOK, State
<1>1. StartTurn(t) /\ pc = "top" /\ worker' = worker
  BY DEF TickLoop, StartTurn
<1> HIDE DEF ready
<1>2. CASE ~session_alive
  <2>1. t = Transition(WithStatus(st, "failed"), <<>>)
    BY <1>2 DEF OnLoopTick
  <2>2. t.state.status # "active" /\ t.commands = <<>>
    BY <1>s, <2>1 DEF Transition, WithStatus, State
  <2> HIDE DEF t
  <2> QED BY <1>1, <2>2, SeeingTurn
<1>3. CASE session_alive /\ ~ArtifactRefreshDue(st)
  <2>1. t.commands \in {<<BuildSummarizationJob(st), ObserveCmd>>,
                        <<ObserveCmd>>}
    BY <1>3 DEF OnLoopTick, Transition
  <2> HIDE DEF t
  <2>2. ObserveCmd \in Range(t.commands)
    <3>1. ObserveCmd \in Range(<<BuildSummarizationJob(st), ObserveCmd>>)
      BY DEF Range
    <3>2. ObserveCmd \in Range(<<ObserveCmd>>)
      BY DEF Range
    <3> QED BY <2>1, <3>1, <3>2
  <2> QED BY <1>1, <2>2, SeeingTurn
<1>4. CASE session_alive /\ ArtifactRefreshDue(st)
  <2>1. t = Transition(st, <<RefreshArtifactsCmd>>)
    BY <1>4 DEF OnLoopTick
  <2>2. t.state = st /\ t.commands = <<RefreshArtifactsCmd>>
    BY <2>1 DEF Transition
  <2> HIDE DEF t
  <2>3. /\ st' = st /\ queue' = <<RefreshArtifactsCmd>> /\ pc' = "drive"
        /\ blind' \in {0, blind, blind + 1}
        /\ st.status = "active" => blind' \in {0, blind + 1}
    BY <1>1, <2>2 DEF StartTurn
  <2>4. DueAt(st.current_step)
    BY <1>s, <1>4, ConfigAssumption
       DEF ArtifactRefreshDue, BelowDumpThreshold, DueAt
  <2>5. ~DueAt(st.current_step + 1)
    BY <1>s, <2>4, NotDueTwice
  <2>6. /\ blind \in {0, 1, 2}
        /\ blind # 0 => worker.phase = "idle"
    BY <1>1, <2>4 DEF BlindInv, Sighted
  <2>7. /\ blind' \in {0, 1, 2, 3}
        /\ blind' >= 2 => worker.phase = "idle"
    BY <2>3, <2>6
  <2>8. Sighted(st.current_step + 1)'
    BY <1>1, <2>3, <2>5, <2>7 DEF Sighted, DueAt
  <2> QED BY <2>3, <2>7, <2>8 DEF BlindInv, BlindDrain, LoopNeverBlind
<1> QED BY <1>2, <1>3, <1>4

\* A drain iteration of any command a blind turn never queues.
LEMMA SeeingDrain ==
  ASSUME TypeOK, BlindInv, pc = "drive", queue # <<>>, NEW t, Redecide(t),
         Head(queue).op \notin {"refresh_artifacts", "log_step"}
  PROVE  BlindInv'
<1>1. blind = 0
  <2>1. queue # <<RefreshArtifactsCmd>>
    BY OneCommand DEF RefreshArtifactsCmd
  <2> QED BY <2>1 DEF BlindInv, BlindDrain
<1>2. blind' = 0 /\ pc' = "drive"
  BY <1>1 DEF Redecide
<1> QED BY <1>2 DEF BlindInv, LoopNeverBlind

\* The refresh of a blind turn leaves its marker step to be logged.
LEMMA RefreshDrain ==
  ASSUME TypeOK, BlindInv, ApplyRefreshArtifacts
  PROVE  BlindInv'
<1> DEFINE t == OnArtifactsRefreshed(st)
           marker == LogStepCmd("system", 0, FALSE, 0)
<1>1. /\ Redecide(t) /\ pc = "drive" /\ worker' = worker
      /\ Head(queue).op = "refresh_artifacts" /\ queue # <<>>
  BY DEF ApplyRefreshArtifacts, Applying
<1>2. t.state = st /\ t.commands = <<marker>> /\ marker.op = "log_step"
  BY DEF OnArtifactsRefreshed, Transition, LogStepCmd
<1> HIDE DEF t, marker
<1>3. pc' = "drive" /\ blind' = blind /\ st' = st
  BY <1>1, <1>2 DEF Redecide
<1>4. CASE blind = 0
  BY <1>3, <1>4 DEF BlindInv, LoopNeverBlind
<1>5. CASE blind # 0
  <2>1. queue = <<RefreshArtifactsCmd>> /\ Sighted(st.current_step + 1)
    BY <1>1, <1>5 DEF BlindInv, BlindDrain
  <2>2. Tail(queue) = <<>>
    BY <2>1
  <2>3. queue' = IF st.status = "active" THEN <<marker>> ELSE <<>>
    <3>1. <<>> \o <<marker>> = <<marker>>
      OBVIOUS
    <3> QED BY <1>1, <1>2, <2>2, <3>1 DEF Redecide, Enqueue
  <2>4. CASE st.status = "active"
    <3>1. Len(queue') = 1 /\ Head(queue').op = "log_step"
      BY <1>2, <2>3, <2>4
    <3> QED BY <1>1, <1>3, <2>1, <3>1
            DEF BlindInv, BlindDrain, LoopNeverBlind, Sighted
  <2>5. CASE st.status # "active"
    BY <1>3, <2>3, <2>5 DEF BlindInv, BlindDrain, LoopNeverBlind
  <2> QED BY <2>4, <2>5
<1> QED BY <1>4, <1>5

\* The step a blind turn logs is its last act.
LEMMA LogStepDrain ==
  ASSUME TypeOK, BlindInv, ApplyLogStep
  PROVE  BlindInv'
<1> DEFINE t == OnStepLogged(st)
<1>s. st \in BoundedState
  BY DEF TypeOK, BoundedState
<1>1. /\ Redecide(t) /\ pc = "drive" /\ worker' = worker
      /\ Head(queue).op = "log_step" /\ queue # <<>>
  BY DEF ApplyLogStep, Applying
<1>2. t.commands = <<>> /\ t.state.current_step = st.current_step + 1
  BY <1>s, OnStepLoggedProperties DEF OnStepLogged, Transition
<1> HIDE DEF t
<1>3. /\ pc' = "drive" /\ blind' = blind
      /\ st'.current_step = st.current_step + 1
  BY <1>1, <1>2 DEF Redecide
<1>4. CASE blind = 0
  BY <1>3, <1>4 DEF BlindInv, LoopNeverBlind
<1>5. CASE blind # 0
  <2>1. Len(queue) = 1 /\ Sighted(st.current_step + 1)
    BY <1>1, <1>5 DEF BlindInv, BlindDrain, RefreshArtifactsCmd
  <2>2. Tail(queue) = <<>>
    <3>1. queue \in Seq(Command)
      BY DEF TypeOK
    <3>2. Tail(queue) \in Seq(Command) /\ Len(Tail(queue)) = 0
      BY <1>1, <2>1, <3>1, HeadTailProperties
    <3> QED BY <3>2, EmptySeq
  <2>3. queue' = <<>>
    BY <1>1, <1>2, <2>2 DEF Redecide, Enqueue
  <2> QED BY <1>1, <1>3, <2>1, <2>3
          DEF BlindInv, BlindDrain, LoopNeverBlind, Sighted
<1> QED BY <1>4, <1>5

LEMMA BlindNext ==
  ASSUME DumpInterval >= 2, TypeOK, BelowDumpThreshold, BlindInv,
         [Next]_loopVars
  PROVE  BlindInv'
<1>1. CASE TickSummarized
  BY <1>1, CheckpointTurn
<1>2. CASE TickSummaryFailed
  <2> DEFINE t == OnSummarizationFailed(st)
  <2>1. t.state.status # "active" /\ t.commands = <<>>
    BY DEF OnSummarizationFailed, Transition, WithStatus, TypeOK, State
  <2>2. StartTurn(t)
    BY <1>2 DEF TickSummaryFailed
  <2> HIDE DEF t
  <2> QED BY <2>1, <2>2, SeeingTurn
<1>3. CASE TickLoop
  BY <1>3, TickTurn
<1>4. CASE EndTurn
  <2>1. CASE blind = 0
    BY <1>4, <2>1
       DEF EndTurn, history, BlindInv, Sighted, LoopNeverBlind
  <2>2. CASE blind # 0
    <3>1. st.status = "active" => Sighted(st.current_step)
      BY <1>4, <2>2 DEF EndTurn, BlindInv, BlindDrain, RefreshArtifactsCmd
    <3> QED BY <1>4, <3>1
            DEF EndTurn, history, BlindInv, Sighted, LoopNeverBlind
  <2> QED BY <2>1, <2>2
<1>5. CASE TurnsExhausted
  BY <1>5 DEF TurnsExhausted, BlindInv, LoopNeverBlind
<1>6. CASE ApplyObserve
  <2>1. PICK t : Redecide(t)
    BY <1>6 DEF ApplyObserve
  <2> QED BY <1>6, <2>1, SeeingDrain DEF ApplyObserve, Applying
<1>7. CASE ApplySendKeys \/ SendKeysFails
  <2>1. PICK t : Redecide(t)
    BY <1>7 DEF ApplySendKeys, SendKeysFails
  <2> QED BY <1>7, <2>1, SeeingDrain
          DEF ApplySendKeys, SendKeysFails, Applying
<1>8. CASE QueryAnswered \/ QueryFails
  <2>1. PICK t : Redecide(t)
    BY <1>8 DEF QueryAnswered, QueryFails
  <2> QED BY <1>8, <2>1, SeeingDrain DEF QueryAnswered, QueryFails, Applying
<1>9. CASE ApplySubmit
  <2>1. PICK t : Redecide(t)
    BY <1>9 DEF ApplySubmit
  <2> QED BY <1>9, <2>1, SeeingDrain DEF ApplySubmit, Applying
<1>10. CASE ApplyRefreshArtifacts
  BY <1>10, RefreshDrain
<1>11. CASE ApplyLogStep
  BY <1>11, LogStepDrain
<1>12. CASE ObserveEscapes \/ RefreshEscapes \/ LogStepEscapes
  BY <1>12 DEF ObserveEscapes, RefreshEscapes, LogStepEscapes, Raise, history,
               BlindInv, LoopNeverBlind
<1>13. CASE Interrupt \/ InterruptLogStep
  BY <1>13 DEF Interrupt, InterruptLogStep, history, BlindInv, LoopNeverBlind
<1>14. CASE SessionDies
  BY <1>14 DEF SessionDies, history, BlindInv, BlindDrain, Sighted,
               LoopNeverBlind
<1>15. CASE WorkerFinishes
  BY <1>15 DEF WorkerFinishes, history, BlindInv, BlindDrain, Sighted,
               LoopNeverBlind
<1>16. CASE UNCHANGED loopVars
  BY <1>16 DEF loopVars, BlindInv, BlindDrain, Sighted, LoopNeverBlind
<1> QED
  BY <1>1, <1>2, <1>3, <1>4, <1>5, <1>6, <1>7, <1>8, <1>9, <1>10, <1>11,
     <1>12, <1>13, <1>14, <1>15, <1>16
     DEF Next, LoopNext, MainStep, BesideStep, Finished

(* As long as the tokens stay below the threshold of the artifact dump,    *)
(* and the dump is not due in every turn, at most three turns in a row     *)
(* pass without an observation: a refresh, a checkpoint and a refresh.     *)
THEOREM LoopNeverBlindHolds ==
  ASSUME DumpInterval >= 2
  PROVE  Spec /\ []BelowDumpThreshold => []LoopNeverBlind
<1>1. LoopInit => BlindInv
  BY DEF LoopInit, BlindInv, LoopNeverBlind, Sighted
<1>2. TypeOK /\ BelowDumpThreshold /\ BlindInv /\ [Next]_loopVars => BlindInv'
  BY BlindNext
<1>3. BlindInv => LoopNeverBlind
  BY DEF BlindInv
<1> QED BY TypeCorrect, <1>1, <1>2, <1>3, PTL DEF Spec
=============================================================================
