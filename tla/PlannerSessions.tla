-------------------------- MODULE PlannerSessions ---------------------------
(***************************************************************************)
(* Which claude session each planner call goes to: query_planner and       *)
(* _build_session_args of planner.py, the session fields decide.py keeps   *)
(* in the State, the runs row a fork reads its parent's session from       *)
(* (cli._fork, mcts._parent_state_for_fork), and the three other callers   *)
(* that resume the run's session: the summarization thread, the artifact   *)
(* refresh and the final snapshot.                                         *)
(*                                                                         *)
(* Several runs are alive at once (playouts, forks of a running parent).   *)
(* claude is external: a session exists or not; --session-id is refused    *)
(* for one that exists, --resume for one that does not; --fork-session     *)
(* copies the conversation under a new id.  An attempt may be lost after   *)
(* claude recorded it (a timeout) or before.  A conversation is the set of *)
(* main prompts it holds; a prompt is its number in its run.               *)
(*                                                                         *)
(* MaxQueries and MaxJobs bound a run; left out are what a prompt says and *)
(* the terminal commands between two prompts.                              *)
(***************************************************************************)
EXTENDS PlannerReply, FiniteSets

CONSTANTS Runs,        \* run ids
          NoSession,   \* None
          NoReply,     \* no stdout held
          Retries,     \* Config.planner_retries
          MaxFailures, \* _MAX_CONSECUTIVE_PLANNER_FAILURES
          Replies,     \* what claude may print
          MaxQueries,  \* bound: main prompts of a run
          MaxJobs      \* bound: summarization jobs of a run

Minted(r) == <<"minted", r>>
Branch(r) == <<"branch", r>>
SessionIds == {"minted", "branch"} \X Runs
Owner(id) == id[2]

ASSUME SessionAssumption ==
  /\ NoSession \notin SessionIds
  /\ NoReply \notin Replies
  /\ Retries \in Nat \ {0}
  /\ MaxFailures \in Nat \ {0}
  /\ MaxQueries \in Nat
  /\ MaxJobs \in Nat

\* claude names the session in every envelope it prints.
ASSUME ReplyAssumption ==
  \A reply \in Replies :
    /\ WellFormed(reply)
    /\ ParseResponse(reply).ok => ReportsSession(reply)

VARIABLES sessions,  \* claude's sessions
          log,       \* the main prompts each session's conversation holds
          row,       \* claude_session_id in the runs row; NoSession: no row
          st,        \* the session fields of each run's State
          call,      \* the query_planner call of each run's main thread
          stdout,    \* what that call returned, until it is parsed
          worker,    \* the summarization thread of each run
          asked,     \* history: main prompts sent by each run
          jobs,      \* history: summarization jobs submitted
          answered,  \* history: main prompts answered and parsed
          wrote,     \* history: sessions a main prompt was recorded in
          opening    \* history: how a run's very first attempt ended

claude == <<sessions, log>>
history == <<asked, jobs, answered, wrote, opening>>
vars == <<claude, row, st, call, stdout, worker, history>>

RunState ==
  [ status             : {"unborn", "active", "ended"},
    claude_session_id  : SessionIds,
    resume_parent      : SessionIds \cup {NoSession},
    is_first_call      : BOOLEAN,
    failures           : 0 .. MaxFailures ]

Call ==
  [ active        : BOOLEAN,
    attempt       : 0 .. (Retries - 1),
    first_call    : BOOLEAN,
    resume_parent : SessionIds \cup {NoSession},
    session       : SessionIds ]

NoCall(r) ==
  [active |-> FALSE, attempt |-> 0, first_call |-> FALSE,
   resume_parent |-> NoSession, session |-> Minted(r)]

Worker == [phase : {"idle", "running", "done", "failed"}, left : 0 .. 3,
           home : SessionIds]

Init ==
  /\ sessions = {}
  /\ log = [id \in SessionIds |-> {}]
  /\ row = [r \in Runs |-> NoSession]
  /\ st = [r \in Runs |->
             [status |-> "unborn", claude_session_id |-> Minted(r),
              resume_parent |-> NoSession, is_first_call |-> TRUE,
              failures |-> 0]]
  /\ call = [r \in Runs |-> NoCall(r)]
  /\ stdout = [r \in Runs |-> NoReply]
  /\ worker = [r \in Runs |->
                 [phase |-> "idle", left |-> 0, home |-> Minted(r)]]
  /\ asked = [r \in Runs |-> 0]
  /\ jobs = [r \in Runs |-> 0]
  /\ answered = [r \in Runs |-> {}]
  /\ wrote = [r \in Runs |-> {}]
  /\ opening = [r \in Runs |-> "none"]

-----------------------------------------------------------------------------
(* Starting a run: agent.run up to the inserted row.                       *)

Begin(r, parent_session) ==
  /\ st[r].status = "unborn"
  /\ st' = [st EXCEPT ![r].status = "active",
                      ![r].resume_parent = parent_session]
  /\ row' = [row EXCEPT ![r] = Minted(r)]
  /\ UNCHANGED <<claude, call, stdout, worker, history>>

StartRun(r) == Begin(r, NoSession)

\* The session a fork's parent State names: the one in the parent's row.
ParentSession(parent) == row[parent]

\* The parent may still be running.
ForkRun(r, parent) ==
  /\ ParentSession(parent) # NoSession
  /\ Begin(r, ParentSession(parent))

-----------------------------------------------------------------------------
(* The main thread's query_planner.                                        *)

\* Between two effects of the main thread.
Free(r) == st[r].status = "active" /\ ~call[r].active /\ stdout[r] = NoReply

\* _on_observation: the fork context counts for the first call only.
StartQuery(r) ==
  /\ Free(r)
  /\ asked[r] < MaxQueries
  /\ asked' = [asked EXCEPT ![r] = @ + 1]
  /\ call' = [call EXCEPT ![r] =
                [active |-> TRUE, attempt |-> 0,
                 first_call |-> st[r].is_first_call,
                 resume_parent |-> IF st[r].is_first_call
                                   THEN st[r].resume_parent ELSE NoSession,
                 session |-> Minted(r)]]
  /\ UNCHANGED <<claude, row, st, stdout, worker, jobs, answered, wrote,
                 opening>>

Args(flag, id) == [flag |-> flag, id |-> id]

\* A wrong variant (BUG-35): every attempt claims the id again.
ClaimsAgain(claude_session_id, first_call, resume_parent, attempt) ==
  IF resume_parent # NoSession
  THEN Args(IF attempt = 0 THEN "branch" ELSE "resume", resume_parent)
  ELSE Args(IF first_call THEN "create" ELSE "resume", claude_session_id)

\* A wrong variant: the parent is resumed, never branched.
ResumesParent(claude_session_id, first_call, resume_parent, attempt) ==
  IF resume_parent # NoSession THEN Args("resume", resume_parent)
  ELSE Args(IF first_call /\ attempt = 0 THEN "create" ELSE "resume",
            claude_session_id)

\* query_planner passes first_call and fork_session on the first attempt
\* only; resume_parent stays for every attempt.
BuildSessionArgs(claude_session_id, first_call, resume_parent, attempt) ==
  IF resume_parent # NoSession
  THEN Args(IF attempt = 0 THEN "branch" ELSE "resume", resume_parent)
  ELSE Args(IF first_call /\ attempt = 0 THEN "create" ELSE "resume",
            claude_session_id)

SessionArgs(r) ==
  BuildSessionArgs(st[r].claude_session_id, call[r].first_call,
                   call[r].resume_parent, call[r].attempt)

Accepts(args) ==
  IF args.flag = "create" THEN args.id \notin sessions ELSE args.id \in sessions

Target(r, args) == IF args.flag = "branch" THEN Branch(r) ELSE args.id

\* claude takes the prompt into the session the arguments name.
Record(r) ==
  LET args == SessionArgs(r)
      target == Target(r, args)
      before == IF args.flag = "create" THEN {} ELSE log[args.id]
  IN /\ Accepts(args)
     /\ sessions' = sessions \cup {target}
     /\ log' = [log EXCEPT ![target] = before \cup {<<r, asked[r]>>}]
     /\ wrote' = [wrote EXCEPT ![r] = @ \cup {target}]

Opened(r, how) ==
  opening' = IF opening[r] = "none" THEN [opening EXCEPT ![r] = how] ELSE opening

\* A wrong variant: a failed first call leaves is_first_call set.
StaysFirst(s) ==
  [s EXCEPT !.failures = @ + 1,
            !.status = IF s.failures + 1 >= MaxFailures
                       THEN "ended" ELSE @]

OnPlannerFailed(s) ==
  [s EXCEPT !.failures = @ + 1,
            !.is_first_call = FALSE,
            !.status = IF s.failures + 1 >= MaxFailures
                       THEN "ended" ELSE @]

\* A wrong variant: one attempt too many.
RetryOnceMore(r) ==
  IF call[r].attempt < Retries
  THEN /\ call' = [call EXCEPT ![r].attempt = @ + 1]
       /\ UNCHANGED st
  ELSE /\ call' = [call EXCEPT ![r] = NoCall(r)]
       /\ st' = [st EXCEPT ![r] = OnPlannerFailed(@)]

\* Timeout or non-zero exit: the next attempt, or PlannerFailed after the last.
Retry(r) ==
  IF call[r].attempt + 1 < Retries
  THEN /\ call' = [call EXCEPT ![r].attempt = @ + 1]
       /\ UNCHANGED st
  ELSE /\ call' = [call EXCEPT ![r] = NoCall(r)]
       /\ st' = [st EXCEPT ![r] = OnPlannerFailed(@)]

\* Refused by claude, or failed before claude recorded anything.
AttemptMisses(r) ==
  /\ call[r].active
  /\ Retry(r)
  /\ Opened(r, "missed")
  /\ UNCHANGED <<claude, row, stdout, worker, asked, jobs, answered, wrote>>

\* Recorded by claude, but the answer never arrives.
AttemptLost(r) ==
  /\ call[r].active
  /\ Record(r)
  /\ Retry(r)
  /\ Opened(r, "lost")
  /\ UNCHANGED <<row, stdout, worker, asked, jobs, answered>>

AttemptReplies(r) ==
  /\ call[r].active
  /\ Record(r)
  /\ \E reply \in Replies : stdout' = [stdout EXCEPT ![r] = reply]
  /\ call' = [call EXCEPT ![r] =
                [NoCall(r) EXCEPT !.session = Target(r, SessionArgs(r))]]
  /\ Opened(r, "replied")
  /\ UNCHANGED <<row, st, worker, asked, jobs, answered>>

\* A wrong variant: the session the answer came from is never adopted.
KeepsMinted(s, reports, session) ==
  [s EXCEPT !.is_first_call = FALSE, !.resume_parent = NoSession,
            !.failures = 0]

\* The session fields of _on_planner_responded.
AdoptAnswer(s, reports, session) ==
  [s EXCEPT !.claude_session_id = IF s.is_first_call /\ reports
                                  THEN session ELSE @,
            !.is_first_call = FALSE,
            !.resume_parent = NoSession,
            !.failures = 0]

\* An answer parse_response rejects counts as a failed call, although the
\* session has grown by it.
ParseReply(r) ==
  /\ stdout[r] # NoReply
  /\ IF ParseResponse(stdout[r]).ok
     THEN /\ st' = [st EXCEPT ![r] = AdoptAnswer(@, ReportsSession(stdout[r]),
                                                 call[r].session)]
          /\ answered' = [answered EXCEPT ![r] = @ \cup {asked[r]}]
     ELSE /\ st' = [st EXCEPT ![r] = OnPlannerFailed(@)]
          /\ UNCHANGED answered
  /\ stdout' = [stdout EXCEPT ![r] = NoReply]
  /\ call' = [call EXCEPT ![r] = NoCall(r)]
  /\ UNCHANGED <<claude, row, worker, asked, jobs, wrote, opening>>

-----------------------------------------------------------------------------
(* The other callers: one attempt each, always --resume of the State's id. *)

\* A wrong variant: a job may start before any answer was counted.
SubmitEarly(r) ==
  /\ Free(r)
  /\ worker[r].phase = "idle"
  /\ jobs[r] < MaxJobs
  /\ jobs' = [jobs EXCEPT ![r] = @ + 1]
  /\ worker' = [worker EXCEPT ![r] = [phase |-> "running", left |-> 3,
                                      home |-> st[r].claude_session_id]]
  /\ UNCHANGED <<claude, row, st, call, stdout, asked, answered, wrote, opening>>

\* should_summarize: the token count is positive only after an answer.
SubmitJob(r) ==
  /\ Free(r)
  /\ answered[r] # {}
  /\ worker[r].phase = "idle"
  /\ jobs[r] < MaxJobs
  /\ jobs' = [jobs EXCEPT ![r] = @ + 1]
  /\ worker' = [worker EXCEPT ![r] = [phase |-> "running", left |-> 3,
                                      home |-> st[r].claude_session_id]]
  /\ UNCHANGED <<claude, row, st, call, stdout, asked, answered, wrote, opening>>

\* run_summarization: three calls one after the other, each with the id
\* holder.state names at that moment; shutdown does not stop them.
WorkerCall(r) ==
  /\ worker[r].phase = "running"
  /\ st[r].claude_session_id \in sessions
  /\ worker' = [worker EXCEPT ![r].left = @ - 1,
                              ![r].phase = IF worker[r].left = 1
                                           THEN "done" ELSE @]
  /\ UNCHANGED <<claude, row, st, call, stdout, history>>

\* One call without an answer fails the whole job.
WorkerCallFails(r) ==
  /\ worker[r].phase = "running"
  /\ worker' = [worker EXCEPT ![r].phase = "failed", ![r].left = 0]
  /\ UNCHANGED <<claude, row, st, call, stdout, history>>

\* Start of a turn: a result is taken, a failed job fails the run.
PollWorker(r) ==
  /\ Free(r)
  /\ worker[r].phase \in {"done", "failed"}
  /\ worker' = [worker EXCEPT ![r].phase = "idle", ![r].left = 0]
  /\ st' = IF worker[r].phase = "failed"
           THEN [st EXCEPT ![r].status = "ended"] ELSE st
  /\ UNCHANGED <<claude, row, call, stdout, history>>

\* A refresh without an answer raises and ends the run; an answered one adds
\* nothing the model keeps.
RefreshFails(r) ==
  /\ Free(r)
  /\ asked[r] > 0
  /\ st' = [st EXCEPT ![r].status = "ended"]
  /\ UNCHANGED <<claude, row, call, stdout, worker, history>>

-----------------------------------------------------------------------------
(* The end of a run.                                                       *)

\* The task is done, the turns are used up, or Ctrl-C, also in mid-call.
EndRun(r) ==
  /\ st[r].status = "active"
  /\ st' = [st EXCEPT ![r].status = "ended"]
  /\ call' = [call EXCEPT ![r] = NoCall(r)]
  /\ stdout' = [stdout EXCEPT ![r] = NoReply]
  /\ UNCHANGED <<claude, row, worker, history>>

RunStep(r) ==
  \/ StartRun(r)
  \/ \E parent \in Runs \ {r} : ForkRun(r, parent)
  \/ StartQuery(r)
  \/ AttemptMisses(r) \/ AttemptLost(r) \/ AttemptReplies(r)
  \/ ParseReply(r)
  \/ SubmitJob(r) \/ PollWorker(r) \/ RefreshFails(r)
  \/ EndRun(r)

WorkerStep(r) == WorkerCall(r) \/ WorkerCallFails(r)

\* No run is doing anything any more: termination, not deadlock.
AllEnded ==
  /\ \A r \in Runs : st[r].status = "ended" /\ worker[r].phase # "running"
  /\ UNCHANGED vars

Next == (\E r \in Runs : RunStep(r) \/ WorkerStep(r)) \/ AllEnded

Spec == Init /\ [][Next]_vars

-----------------------------------------------------------------------------
(* Properties.                                                             *)

(* The variables have their types; a run's retry counter and its failure   *)
(* streak stay within planner_retries and the limit on failures.           *)
SessionsTypeOK ==
  /\ sessions \subseteq SessionIds
  /\ log \in [SessionIds -> SUBSET (Runs \X (1 .. MaxQueries))]
  /\ row \in [Runs -> SessionIds \cup {NoSession}]
  /\ st \in [Runs -> RunState]
  /\ call \in [Runs -> Call]
  /\ stdout \in [Runs -> Replies \cup {NoReply}]
  /\ worker \in [Runs -> Worker]
  /\ asked \in [Runs -> 0 .. MaxQueries]
  /\ jobs \in [Runs -> 0 .. MaxJobs]
  /\ answered \in [Runs -> SUBSET (1 .. MaxQueries)]
  /\ wrote \in [Runs -> SUBSET SessionIds]
  /\ opening \in [Runs -> {"none", "missed", "lost", "replied"}]

(* query_planner never passes --session-id for a session claude already    *)
(* has, whatever was lost or retried before (BUG-35: claude refuses it).   *)
NoIdReuse ==
  \A r \in Runs :
    call[r].active /\ SessionArgs(r).flag = "create"
      => SessionArgs(r).id \notin sessions

(* A run writes into another run's conversation only if it is a fork whose *)
(* branching attempt brought no answer: the retries of that one call       *)
(* resume the parent without --fork-session, and the child then keeps the  *)
(* id.                                                                     *)
ParentIntact ==
  \A r \in Runs : \A id \in wrote[r] :
    Owner(id) # r => opening[r] \in {"missed", "lost"}

(* The session a run will resume next remembers every prompt the run got   *)
(* an answer to: adopting an id never loses the conversation so far, and   *)
(* no retry, fork or other run's call replaces it.                         *)
OneConversation ==
  \A r \in Runs : \A q \in answered[r] :
    <<r, q>> \in log[st[r].claude_session_id]

(* The three calls of one summarization job all resume the conversation    *)
(* the job was submitted in, which exists: the id the thread reads from    *)
(* holder.state does not move under it.                                    *)
WorkerStaysHome ==
  \A r \in Runs :
    worker[r].phase = "running" =>
      /\ st[r].claude_session_id = worker[r].home
      /\ worker[r].home \in sessions

(* The minted id is claimed in the first query or never: once that query   *)
(* has failed without leaving a session under it, no later call creates    *)
(* one, so no later call is answered, until the failures end the run.      *)
LostStartIsFatal ==
  [][ \A r \in Runs :
        st[r].failures > 0 /\ answered[r] = {} /\ Minted(r) \notin sessions
          => Minted(r) \notin sessions' /\ answered'[r] = {} ]_vars

(* parse_response accepts exactly the answers of the required shape, in    *)
(* structured_output or else in result, and turns every command of them,   *)
(* in order, into one that types something and stays under the limit.      *)
ReplyJudgedByShape ==
  \A r \in Runs : stdout[r] # NoReply => JudgedByShape(stdout[r])

(* A fork of a run that has been answered finds the conversation it is to  *)
(* branch from.                                                            *)
ForkFindsParent ==
  \A r \in Runs :
    LET args == SessionArgs(r)
    IN call[r].active /\ args.flag = "branch" /\ answered[Owner(args.id)] # {}
         => args.id \in sessions
=============================================================================
