----------------------- MODULE PlannerSessionsProofs ------------------------
(***************************************************************************)
(* Proofs about PlannerSessions: each run's part of the state is kept by   *)
(* its own steps (one lemma per action) and by any step of another run,    *)
(* because claude only ever gains sessions and prompts (RecordEffect) and  *)
(* a run never creates a session that is not its own.  How an answer is    *)
(* judged is a fact about every JSON value, proved first, function by      *)
(* function.                                                               *)
(***************************************************************************)
EXTENDS PlannerSessions, InductionLemmas

-----------------------------------------------------------------------------
(* How an answer is judged (PlannerReply).                                 *)

(* The first error rejects, and without one the value is returned.         *)
LEMMA FirstErrFacts ==
  ASSUME NEW results, NEW value, Len(results) \in Nat
  PROVE  /\ (\A i \in 1 .. Len(results) : results[i].ok)
              => FirstErr(results, value) = Ok(value)
         /\ (\E i \in 1 .. Len(results) : ~results[i].ok)
              => ~FirstErr(results, value).ok
<1> DEFINE failed == {i \in 1 .. Len(results) : ~results[i].ok}
           first == CHOOSE i \in failed : \A j \in failed : i <= j
<1>1. failed = {} => FirstErr(results, value) = Ok(value)
  BY DEF FirstErr
<1>2. ASSUME failed # {} PROVE ~FirstErr(results, value).ok
  <2>1. failed \in SUBSET Nat
    OBVIOUS
  <2>2. \E i \in failed : \A j \in failed : i <= j
    BY <1>2, <2>1, Least
  <2>3. first \in failed
    BY <2>2
  <2>4. FirstErr(results, value) = results[first]
    BY <1>2 DEF FirstErr
  <2>5. ~results[first].ok
    BY <2>3
  <2> HIDE DEF first, failed
  <2> QED BY <2>4, <2>5, Zenon
<1> QED BY <1>1, <1>2

(* The combinators of validate.py.                                         *)
LEMMA RequiredFacts ==
  ASSUME NEW d, NEW field, NEW type
  PROVE  /\ Required(d, field, type).ok <=> Field(d, field, type)
         /\ Field(d, field, type) => Required(d, field, type).value = d[field]
<1>1. Ok(d[field]).ok /\ Ok(d[field]).value = d[field] /\ ~Err(field).ok
  BY DEF Ok, Err
<1>2. CASE Field(d, field, type)
  BY <1>1, <1>2 DEF Required, Field, Is
<1>3. CASE ~Field(d, field, type)
  BY <1>1, <1>3 DEF Required, Field, Is
<1> QED BY <1>1, <1>2, <1>3

(* parse_command and the clamp of its duration.                            *)
LEMMA ParseItemFacts ==
  ASSUME NEW item,
         Is("dict", item) /\ Field(item.dict, "duration", "num")
           => item.dict.duration.num \in Int
  PROVE  /\ ParseItem(item).ok <=> GoodCommand(item)
         /\ GoodCommand(item) =>
              LET command == ParseItem(item).value
              IN /\ command.keystrokes = item.dict.keystrokes.str
                 /\ command.keystrokes # ""
                 /\ command.duration <= MaxDuration
<1> DEFINE d == item.dict
           keystrokes == Required(d, "keystrokes", "str")
           default == [num |-> DefaultDuration]
           duration == Optional(d, "duration", "num", default)
           made == [keystrokes |-> keystrokes.value.str,
                    duration |-> ClampDuration(duration.value.num)]
<1>1. ~Err("commands").ok
  BY DEF Err
<1>2. CASE ~Is("dict", item)
  BY <1>1, <1>2 DEF ParseItem, GoodCommand
<1>3. CASE Is("dict", item)
  <2>1. ParseItem(item) =
          IF ~keystrokes.ok \/ ~duration.ok \/ keystrokes.value.str = ""
          THEN Err("commands") ELSE Ok(made)
    BY <1>3 DEF ParseItem, ParseCommand
  <2>2. /\ keystrokes.ok <=> Field(d, "keystrokes", "str")
        /\ Field(d, "keystrokes", "str") => keystrokes.value = d["keystrokes"]
    BY RequiredFacts
  <2>3. /\ duration.ok <=> ("duration" \in DOMAIN d => Is("num", d.duration))
        /\ duration.ok => duration.value.num \in Int
    <3>1. CASE "duration" \in DOMAIN d
      <4>1. duration = Required(d, "duration", "num")
        BY <3>1 DEF Optional
      <4>2. /\ duration.ok <=> Field(d, "duration", "num")
            /\ Field(d, "duration", "num")
                 => duration.value = d["duration"]
        BY <4>1, RequiredFacts
      <4> HIDE DEF duration
      <4> QED BY <4>2, <3>1, <1>3 DEF Field
    <3>2. CASE "duration" \notin DOMAIN d
      <4>1. duration = Ok(default)
        BY <3>2 DEF Optional
      <4>2. Ok(default).ok /\ Ok(default).value = default
        BY DEF Ok
      <4>3. default.num \in Int
        BY DurationAssumption
      <4> HIDE DEF duration, default
      <4>4. duration.ok /\ duration.value = default
        BY <4>1, <4>2, Zenon
      <4> QED BY <4>3, <4>4, <3>2
    <3> QED BY <3>1, <3>2
  <2>4. duration.ok => ClampDuration(duration.value.num) <= MaxDuration
    <3> HIDE DEF duration
    <3> QED BY <2>3, DurationAssumption DEF ClampDuration
  <2>5. /\ Ok(made).ok /\ Ok(made).value = made
        /\ made.keystrokes = keystrokes.value.str
        /\ made.duration = ClampDuration(duration.value.num)
    BY DEF Ok
  <2>6. GoodCommand(item) <=>
          keystrokes.ok /\ duration.ok /\ keystrokes.value.str # ""
    <3> HIDE DEF keystrokes, duration
    <3> QED BY <1>3, <2>2, <2>3 DEF GoodCommand
  <2> HIDE DEF made, keystrokes, duration
  <2>7. CASE GoodCommand(item)
    <3>1. ParseItem(item) = Ok(made) /\ keystrokes.value = d["keystrokes"]
      BY <2>1, <2>2, <2>6, <2>7
    <3>2. ParseItem(item).ok /\ ParseItem(item).value = made
      BY <3>1, <2>5
    <3> QED BY <2>4, <2>5, <2>6, <2>7, <3>1, <3>2
  <2>8. CASE ~GoodCommand(item)
    <3>1. ParseItem(item) = Err("commands")
      BY <2>1, <2>6, <2>8
    <3> QED BY <3>1, <1>1, <2>8
  <2> QED BY <2>7, <2>8
<1> QED BY <1>2, <1>3

\* The commands of a body are good ones, and these are what they become.
GoodCommands(d) ==
  "commands" \in DOMAIN d =>
    /\ Is("list", d.commands)
    /\ \A i \in DOMAIN d.commands.list : GoodCommand(d.commands.list[i])

Made(commands, d) ==
  /\ Len(commands) = Len(Items(d))
  /\ \A i \in 1 .. Len(commands) :
       /\ commands[i].keystrokes = Items(d)[i].dict.keystrokes.str
       /\ commands[i].keystrokes # ""
       /\ commands[i].duration <= MaxDuration

(* The commands of a body are extracted all or none (_extract_commands).   *)
LEMMA ExtractFacts ==
  ASSUME NEW d, WellFormedBody(d)
  PROVE  /\ ExtractCommands(d).ok <=> GoodCommands(d)
         /\ GoodCommands(d) => Made(ExtractCommands(d).value, d)
<1> DEFINE empty == [list |-> <<>>]
           raw == Optional(d, "commands", "list", empty)
           parsed == [i \in DOMAIN raw.value.list |->
                        ParseItem(raw.value.list[i])]
           values == [i \in DOMAIN parsed |-> parsed[i].value]
           items == Items(d)
           n == Len(items)
<1>1. ExtractCommands(d) = IF ~raw.ok THEN raw ELSE FirstErr(parsed, values)
  BY DEF ExtractCommands
<1>2. /\ raw.ok <=> ("commands" \in DOMAIN d => Is("list", d.commands))
      /\ raw.ok => /\ raw.value.list = items
                   /\ n \in Nat /\ DOMAIN items = 1 .. n
                   /\ \A i \in 1 .. n :
                        Is("dict", items[i])
                          /\ Field(items[i].dict, "duration", "num")
                        => items[i].dict.duration.num \in Int
  <2>1. CASE "commands" \in DOMAIN d
    <3>1. raw = Required(d, "commands", "list") /\ items = d.commands.list
      BY <2>1 DEF Optional, Items
    <3>2. /\ raw.ok <=> Field(d, "commands", "list")
          /\ Field(d, "commands", "list") => raw.value = d["commands"]
      BY <3>1, RequiredFacts
    <3> HIDE DEF raw, items
    <3> QED BY <2>1, <3>1, <3>2 DEF WellFormedBody, Field
  <2>2. CASE "commands" \notin DOMAIN d
    <3>1. raw = Ok(empty) /\ items = <<>>
      BY <2>2 DEF Optional, Items
    <3>2. Ok(empty).ok /\ Ok(empty).value = empty /\ empty.list = <<>>
      BY DEF Ok
    <3>3. n = 0 /\ DOMAIN items = 1 .. 0
      BY <3>1
    <3> HIDE DEF raw, items, empty, n
    <3>4. raw.ok /\ raw.value.list = items
      BY <3>1, <3>2
    <3> QED BY <2>2, <3>3, <3>4
  <2> QED BY <2>1, <2>2
<1>3. CASE ~raw.ok
  <2> HIDE DEF raw, parsed
  <2> QED BY <1>1, <1>2, <1>3 DEF GoodCommands
<1>4. CASE raw.ok
  <2> DEFINE results == [i \in 1 .. n |-> ParseItem(items[i])]
  <2>1. parsed = results
    BY <1>2, <1>4
  <2>2. /\ n \in Nat /\ DOMAIN items = 1 .. n
        /\ \A i \in 1 .. n :
             Is("dict", items[i]) /\ Field(items[i].dict, "duration", "num")
               => items[i].dict.duration.num \in Int
    BY <1>2, <1>4
  <2>3. ExtractCommands(d)
          = FirstErr(results, [i \in DOMAIN results |-> results[i].value])
    BY <1>1, <1>4, <2>1
  <2>4. GoodCommands(d) <=> \A i \in 1 .. n : GoodCommand(items[i])
    <3>1. CASE "commands" \in DOMAIN d
      BY <1>2, <1>4, <2>2, <3>1 DEF GoodCommands, Items
    <3>2. CASE "commands" \notin DOMAIN d
      BY <3>2 DEF GoodCommands, Items
    <3> QED BY <3>1, <3>2
  <2> DEFINE made == [i \in DOMAIN results |-> results[i].value]
  <2>5. /\ Len(results) = n /\ DOMAIN results = 1 .. n
        /\ \A i \in 1 .. n : results[i] = ParseItem(items[i])
        /\ Len(made) = n
        /\ \A i \in 1 .. n : made[i] = ParseItem(items[i]).value
    BY <2>2
  <2> HIDE DEF results, made, raw, parsed, items, n
  <2>6. \A i \in 1 .. n :
          /\ results[i].ok <=> GoodCommand(items[i])
          /\ GoodCommand(items[i]) =>
               /\ made[i].keystrokes = items[i].dict.keystrokes.str
               /\ made[i].keystrokes # ""
               /\ made[i].duration <= MaxDuration
    BY <2>2, <2>5, ParseItemFacts
  <2>7. CASE \A i \in 1 .. n : GoodCommand(items[i])
    <3>1. \A i \in 1 .. Len(results) : results[i].ok
      BY <2>5, <2>6, <2>7
    <3>2. ExtractCommands(d) = Ok(made)
      BY <2>2, <2>3, <2>5, <3>1, FirstErrFacts DEF made
    <3>3. Ok(made).ok /\ Ok(made).value = made
      BY DEF Ok
    <3>4. Made(made, d)
      BY <2>5, <2>6, <2>7 DEF Made, items, n
    <3> QED BY <2>4, <2>7, <3>2, <3>3, <3>4
  <2>8. CASE \E i \in 1 .. n : ~GoodCommand(items[i])
    <3>1. \E i \in 1 .. Len(results) : ~results[i].ok
      BY <2>5, <2>6, <2>8
    <3>2. ~ExtractCommands(d).ok
      BY <2>2, <2>3, <2>5, <3>1, FirstErrFacts
    <3> QED BY <2>4, <2>8, <3>2
  <2> QED BY <2>7, <2>8
<1> QED BY <1>3, <1>4

(* A body is accepted when all of its fields are (_map_to_parse_result).   *)
LEMMA BodyFacts ==
  ASSUME NEW d, WellFormedBody(d)
  PROVE  /\ MapToParseResult(d).ok <=> GoodBody(d)
         /\ GoodBody(d) => Made(MapToParseResult(d).value.commands, d)
<1> DEFINE analysis == Required(d, "analysis", "str")
           plan == Required(d, "plan", "str")
           commands == ExtractCommands(d)
           done == Required(d, "task_complete", "bool")
           results == <<analysis, plan, commands, done>>
           value == [commands |-> commands.value,
                     task_complete |-> done.value.bool]
<1>1. MapToParseResult(d) = FirstErr(results, value)
  BY DEF MapToParseResult
<1>2. /\ analysis.ok <=> Field(d, "analysis", "str")
      /\ plan.ok <=> Field(d, "plan", "str")
      /\ done.ok <=> Field(d, "task_complete", "bool")
  BY RequiredFacts
<1>3. /\ commands.ok <=> GoodCommands(d)
      /\ GoodCommands(d) => Made(commands.value, d)
  BY ExtractFacts
<1>4. GoodBody(d) <=> /\ Field(d, "analysis", "str")
                      /\ Field(d, "plan", "str")
                      /\ Field(d, "task_complete", "bool")
                      /\ GoodCommands(d)
  BY DEF GoodBody, GoodCommands
<1>5. value.commands = commands.value
  OBVIOUS
<1>6. Ok(value).ok /\ Ok(value).value = value
  BY DEF Ok
<1> HIDE DEF analysis, plan, commands, done, value
<1>7. /\ Len(results) = 4 /\ 1 .. Len(results) = {1, 2, 3, 4}
      /\ results[1] = analysis /\ results[2] = plan
      /\ results[3] = commands /\ results[4] = done
  OBVIOUS
<1> HIDE DEF results
<1>8. CASE GoodBody(d)
  <2>1. \A i \in 1 .. Len(results) : results[i].ok
    BY <1>2, <1>3, <1>4, <1>7, <1>8
  <2>2. MapToParseResult(d) = Ok(value)
    BY <1>1, <1>7, <2>1, FirstErrFacts
  <2> QED BY <1>3, <1>4, <1>5, <1>6, <1>8, <2>2
<1>9. CASE ~GoodBody(d)
  <2>1. \E i \in 1 .. Len(results) : ~results[i].ok
    BY <1>2, <1>3, <1>4, <1>7, <1>9
  <2>2. ~MapToParseResult(d).ok
    BY <1>1, <1>7, <2>1, FirstErrFacts
  <2> QED BY <1>9, <2>2
<1> QED BY <1>8, <1>9

(* The object an answer is read from (parse_response,                      *)
(* require_json_object).                                                   *)
LEMMA ResponseFacts ==
  ASSUME NEW reply, WellFormed(reply)
  PROVE  JudgedByShape(reply)
<1> DEFINE envelope == RequireJsonObject(reply)
           top == reply.holds.dict
           structured == Required(envelope.value, "structured_output", "dict")
           text == Required(envelope.value, "result", "str")
           body == RequireJsonObject(text.value)
           response == ParseResponse(reply)
<1>1. ASSUME NEW v
      PROVE  /\ RequireJsonObject(v).ok <=> HoldsObject(v)
             /\ HoldsObject(v) => RequireJsonObject(v).value = v.holds.dict
  BY DEF RequireJsonObject, RequireDict, HoldsObject, Ok, Err
<1>2. /\ envelope.ok <=> HoldsObject(reply)
      /\ HoldsObject(reply) => envelope.value = top
  BY <1>1
<1>3. HoldsObject(reply) =>
        /\ structured.ok <=> Field(top, "structured_output", "dict")
        /\ structured.ok => structured.value = top["structured_output"]
        /\ text.ok <=> Field(top, "result", "str")
        /\ text.ok => text.value = top["result"]
  BY <1>2, RequiredFacts
<1>4. /\ body.ok <=> HoldsObject(text.value)
      /\ HoldsObject(text.value) => body.value = text.value.holds.dict
  BY <1>1
<1>5. response = IF ~envelope.ok THEN envelope
                 ELSE IF structured.ok
                      THEN MapToParseResult(structured.value.dict)
                 ELSE IF ~text.ok THEN text
                 ELSE IF ~body.ok THEN body
                 ELSE MapToParseResult(body.value)
  BY DEF ParseResponse
<1>6. /\ Bodies(reply) = {} => ~response.ok
      /\ Bodies(reply) # {} =>
           \E d : Bodies(reply) = {d} /\ response = MapToParseResult(d)
  <2>1. Bodies(reply) =
          IF ~HoldsObject(reply) THEN {}
          ELSE IF Field(top, "structured_output", "dict")
               THEN {top.structured_output.dict}
          ELSE IF Field(top, "result", "str") /\ HoldsObject(top.result)
               THEN {top.result.holds.dict}
          ELSE {}
    BY DEF Bodies
  <2> HIDE DEF envelope, top, structured, text, body, response
  <2>2. CASE ~HoldsObject(reply)
    BY <1>2, <1>5, <2>1, <2>2
  <2>3. CASE HoldsObject(reply) /\ Field(top, "structured_output", "dict")
    <3>1. /\ response = MapToParseResult(structured.value.dict)
          /\ structured.value.dict = top.structured_output.dict
      BY <1>2, <1>3, <1>5, <2>3
    <3> QED BY <2>1, <2>3, <3>1
  <2>4. CASE /\ HoldsObject(reply)
             /\ ~Field(top, "structured_output", "dict")
             /\ Field(top, "result", "str")
    <3>1. text.ok /\ text.value = top["result"]
      BY <1>3, <2>4
    <3>2. response = IF ~body.ok THEN body ELSE MapToParseResult(body.value)
      BY <1>2, <1>3, <1>5, <2>4, <3>1
    <3>3. top["result"] = top.result
      OBVIOUS
    <3> QED BY <1>4, <2>1, <2>4, <3>1, <3>2, <3>3
  <2>5. CASE /\ HoldsObject(reply)
             /\ ~Field(top, "structured_output", "dict")
             /\ ~Field(top, "result", "str")
    BY <1>2, <1>3, <1>5, <2>1, <2>5
  <2> QED BY <2>2, <2>3, <2>4, <2>5
<1> HIDE DEF response
<1>7. CASE Bodies(reply) = {}
  BY <1>6, <1>7 DEF JudgedByShape, Acceptable, response
<1>8. CASE Bodies(reply) # {}
  <2>1. PICK d : Bodies(reply) = {d} /\ response = MapToParseResult(d)
    BY <1>6, <1>8
  <2>2. WellFormedBody(d) /\ d \in Bodies(reply)
    BY <2>1 DEF WellFormed
  <2>3. Acceptable(reply) <=> GoodBody(d)
    BY <2>1 DEF Acceptable
  <2>4. /\ response.ok <=> GoodBody(d)
        /\ GoodBody(d) => Made(response.value.commands, d)
    BY <2>1, <2>2, BodyFacts
  <2> QED BY <2>2, <2>3, <2>4 DEF JudgedByShape, Made, response
<1> QED BY <1>7, <1>8
-----------------------------------------------------------------------------
(* The invariants.                                                         *)

Ours(r) == {Minted(r), Branch(r)}

Mishap == {"missed", "lost"}

\* At most one of call and stdout is in use, and only in a query.
CallInv(r) ==
  /\ call[r].active => /\ stdout[r] = NoReply
                       /\ st[r].status = "active"
                       /\ asked[r] > 0
                       /\ call[r].first_call = st[r].is_first_call
                       /\ call[r].resume_parent # NoSession
                            => st[r].is_first_call
  /\ stdout[r] # NoReply => st[r].status = "active" /\ asked[r] > 0

StreakInv(r) ==
  /\ st[r].status # "ended" => st[r].failures < MaxFailures
  /\ st[r].failures > 0 => ~st[r].is_first_call

\* The id moves with the first answer and never again.
FirstInv(r) ==
  /\ st[r].is_first_call => answered[r] = {}
  /\ answered[r] = {} => st[r].claude_session_id = Minted(r)

\* Before the end of its very first attempt a run has no session.
Unopened(r) ==
  \/ st[r].status = "unborn"
  \/ /\ st[r].status = "active"
     /\ st[r].is_first_call
     /\ stdout[r] = NoReply
     /\ call[r].active => call[r].attempt = 0

UnopenedInv(r) ==
  Unopened(r) => sessions \cap Ours(r) = {} /\ opening[r] = "none"

\* Another run's session is named or written only after a mishap.
AbroadInv(r) ==
  /\ call[r].active /\ st[r].is_first_call /\ call[r].attempt > 0
       => opening[r] \in Mishap
  /\ Owner(st[r].claude_session_id) # r => opening[r] \in Mishap
  /\ stdout[r] # NoReply /\ Owner(call[r].session) # r => opening[r] \in Mishap
  /\ \A id \in wrote[r] : Owner(id) # r => opening[r] \in Mishap

\* What was answered, or is about to be, is in the conversation.
LogInv(r) ==
  /\ stdout[r] # NoReply =>
       /\ <<r, asked[r]>> \in log[call[r].session]
       /\ ~st[r].is_first_call => call[r].session = st[r].claude_session_id
  /\ \A q \in answered[r] : <<r, q>> \in log[st[r].claude_session_id]

WorkerInv(r) ==
  worker[r].phase = "running" =>
    /\ worker[r].left > 0
    /\ answered[r] # {}
    /\ worker[r].home = st[r].claude_session_id

RunInv(r) ==
  /\ CallInv(r)
  /\ StreakInv(r)
  /\ FirstInv(r)
  /\ UnopenedInv(r)
  /\ AbroadInv(r)
  /\ LogInv(r)
  /\ WorkerInv(r)

ClaudeInv == \A id \in SessionIds : id \notin sessions => log[id] = {}

SessionsInv ==
  /\ SessionsTypeOK
  /\ ClaudeInv
  /\ \A r \in Runs : RunInv(r)

\* What a step of another run leaves of run p.
SameRun(p) ==
  /\ st'[p] = st[p]
  /\ call'[p] = call[p]
  /\ stdout'[p] = stdout[p]
  /\ worker'[p] = worker[p]
  /\ asked'[p] = asked[p]
  /\ answered'[p] = answered[p]
  /\ wrote'[p] = wrote[p]
  /\ opening'[p] = opening[p]

\* What a step of run r does to claude: nothing is forgotten, and a new
\* session is one of its own.
Grows(r) ==
  /\ sessions \subseteq sessions'
  /\ sessions' \subseteq sessions \cup Ours(r)
  /\ \A id \in SessionIds : log[id] \subseteq log'[id]

-----------------------------------------------------------------------------
(* Lemmas on session ids, types and claude.                                *)

(* The two ids of a run, and whose they are (start_run's minted id; the    *)
(* id claude gives a branch).                                              *)
LEMMA IdsOfRun ==
  ASSUME NEW r \in Runs
  PROVE  /\ Minted(r) \in SessionIds /\ Branch(r) \in SessionIds
         /\ Owner(Minted(r)) = r /\ Owner(Branch(r)) = r
         /\ NoSession # Minted(r) /\ NoSession # Branch(r)
         /\ \A p \in Runs \ {r} : Ours(p) \cap Ours(r) = {}
BY SessionAssumption DEF Minted, Branch, SessionIds, Owner, Ours

(* The types of one run's fields.                                          *)
LEMMA RunTypes ==
  ASSUME SessionsTypeOK, NEW r \in Runs
  PROVE  /\ st[r] \in RunState /\ call[r] \in Call
         /\ st[r].status \in {"unborn", "active", "ended"}
         /\ st[r].claude_session_id \in SessionIds
         /\ st[r].resume_parent \in SessionIds \cup {NoSession}
         /\ st[r].is_first_call \in BOOLEAN
         /\ st[r].failures \in 0 .. MaxFailures
         /\ call[r].active \in BOOLEAN
         /\ call[r].attempt \in 0 .. (Retries - 1)
         /\ call[r].first_call \in BOOLEAN
         /\ call[r].resume_parent \in SessionIds \cup {NoSession}
         /\ call[r].session \in SessionIds
         /\ worker[r] \in Worker
         /\ asked[r] \in 0 .. MaxQueries
         /\ answered[r] \subseteq 1 .. MaxQueries
<1>1. st[r] \in RunState /\ call[r] \in Call
  BY DEF SessionsTypeOK
<1>2. worker[r] \in Worker /\ asked[r] \in 0 .. MaxQueries
        /\ answered[r] \subseteq 1 .. MaxQueries
  BY DEF SessionsTypeOK
<1> QED BY <1>1, <1>2 DEF RunState, Call

LEMMA NoCallType == \A r \in Runs : NoCall(r) \in Call
<1> SUFFICES ASSUME NEW r \in Runs PROVE NoCall(r) \in Call
  OBVIOUS
<1>1. 0 \in 0 .. (Retries - 1)
  BY SessionAssumption
<1> QED BY <1>1, IdsOfRun DEF NoCall, Call

(* What _build_session_args may name, and when.                            *)
LEMMA ArgsCases ==
  ASSUME SessionsInv, NEW r \in Runs, call[r].active
  PROVE  LET args == SessionArgs(r)
         IN /\ args.id \in SessionIds
            /\ args.flag \in {"create", "branch", "resume"}
            /\ args.flag = "create" =>
                 /\ Unopened(r) /\ args.id = Minted(r)
                 /\ Target(r, args) = Minted(r)
            /\ args.flag = "branch" => Unopened(r) /\ Target(r, args) = Branch(r)
            /\ args.flag = "resume" =>
                 /\ Target(r, args) = args.id
                 /\ Owner(args.id) # r => opening[r] \in Mishap
            /\ ~st[r].is_first_call =>
                 args.flag = "resume" /\ args.id = st[r].claude_session_id
            /\ ~Unopened(r) /\ st[r].is_first_call => opening[r] \in Mishap
<1> DEFINE args == SessionArgs(r)
           s == st[r]
           c == call[r]
<1> USE DEF Args
<1>1. /\ s.claude_session_id \in SessionIds /\ s.is_first_call \in BOOLEAN
      /\ c.attempt \in 0 .. (Retries - 1)
      /\ c.resume_parent \in SessionIds \cup {NoSession}
  BY RunTypes DEF SessionsInv
<1>2. RunInv(r)
  BY DEF SessionsInv
<1>3. /\ stdout[r] = NoReply /\ s.status = "active"
      /\ c.first_call = s.is_first_call
      /\ c.resume_parent # NoSession => s.is_first_call
  BY <1>2 DEF RunInv, CallInv
<1>4. s.is_first_call => s.claude_session_id = Minted(r)
  BY <1>2 DEF RunInv, FirstInv
<1>5. s.is_first_call /\ c.attempt = 0 => Unopened(r)
  BY <1>3 DEF Unopened
<1>6. s.is_first_call /\ c.attempt # 0 => opening[r] \in Mishap
  BY <1>1, <1>2 DEF RunInv, AbroadInv
<1>7. Owner(s.claude_session_id) # r => opening[r] \in Mishap
  BY <1>2 DEF RunInv, AbroadInv
<1>8. CASE c.resume_parent # NoSession
  <2>1. args = [flag |-> IF c.attempt = 0 THEN "branch" ELSE "resume",
                id |-> c.resume_parent]
    BY <1>8 DEF SessionArgs, BuildSessionArgs
  <2> QED BY <2>1, <1>1, <1>3, <1>5, <1>6, <1>8 DEF Target, Unopened
<1>9. CASE c.resume_parent = NoSession
  <2>1. args = [flag |-> IF c.first_call /\ c.attempt = 0
                         THEN "create" ELSE "resume",
                id |-> s.claude_session_id]
    BY <1>9 DEF SessionArgs, BuildSessionArgs
  <2>2. CASE c.first_call /\ c.attempt = 0
    BY <2>1, <2>2, <1>1, <1>3, <1>4, <1>5 DEF Target, Unopened
  <2>3. CASE ~(c.first_call /\ c.attempt = 0)
    BY <2>1, <2>3, <1>1, <1>3, <1>6, <1>7 DEF Target, Unopened
  <2> QED BY <2>2, <2>3
<1> QED BY <1>8, <1>9

(* claude takes a prompt: its memory only grows, by sessions of the run    *)
(* that asked, and the session it answers from holds the prompt.           *)
LEMMA RecordEffect ==
  ASSUME SessionsInv, NEW r \in Runs, call[r].active, Record(r)
  PROVE  LET target == Target(r, SessionArgs(r))
         IN /\ target \in SessionIds
            /\ target \in sessions'
            /\ <<r, asked[r]>> \in log'[target]
            /\ Owner(target) # r => opening[r] \in Mishap
            /\ ~st[r].is_first_call =>
                 target = st[r].claude_session_id /\ sessions' = sessions
            /\ Grows(r)
            /\ ClaudeInv'
            /\ sessions' \subseteq SessionIds
            /\ log' \in [SessionIds -> SUBSET (Runs \X (1 .. MaxQueries))]
            /\ wrote' \in [Runs -> SUBSET SessionIds]
            /\ wrote'[r] = wrote[r] \cup {target}
            /\ \A p \in Runs \ {r} : wrote'[p] = wrote[p]
<1> DEFINE args == SessionArgs(r)
           target == Target(r, args)
           before == IF args.flag = "create" THEN {} ELSE log[args.id]
<1>1. /\ Accepts(args)
      /\ sessions' = sessions \cup {target}
      /\ log' = [log EXCEPT ![target] = before \cup {<<r, asked[r]>>}]
      /\ wrote' = [wrote EXCEPT ![r] = @ \cup {target}]
  BY DEF Record
<1>2. /\ args.id \in SessionIds
      /\ args.flag \in {"create", "branch", "resume"}
      /\ args.flag = "create" =>
           Unopened(r) /\ args.id = Minted(r) /\ target = Minted(r)
      /\ args.flag = "branch" => Unopened(r) /\ target = Branch(r)
      /\ args.flag = "resume" =>
           target = args.id /\ (Owner(args.id) # r => opening[r] \in Mishap)
      /\ ~st[r].is_first_call =>
           args.flag = "resume" /\ args.id = st[r].claude_session_id
  BY ArgsCases
<1>3. /\ SessionsTypeOK /\ ClaudeInv /\ RunInv(r)
      /\ sessions \subseteq SessionIds
      /\ log \in [SessionIds -> SUBSET (Runs \X (1 .. MaxQueries))]
      /\ wrote \in [Runs -> SUBSET SessionIds]
  BY DEF SessionsInv, SessionsTypeOK
<1>4. asked[r] \in 1 .. MaxQueries
  <2>1. asked[r] \in 0 .. MaxQueries /\ asked[r] > 0
    BY <1>3, RunTypes DEF RunInv, CallInv
  <2> QED BY <2>1, SessionAssumption
<1>5. /\ Minted(r) \in SessionIds /\ Branch(r) \in SessionIds
      /\ Owner(Minted(r)) = r /\ Owner(Branch(r)) = r
  BY IdsOfRun
<1>6. Unopened(r) => Minted(r) \notin sessions /\ Branch(r) \notin sessions
  BY <1>3 DEF RunInv, UnopenedInv, Ours
<1>7. target \in SessionIds
  BY <1>2, <1>5
<1>8. args.flag = "resume" => target \in sessions
  BY <1>1, <1>2 DEF Accepts
<1>9. before \subseteq Runs \X (1 .. MaxQueries)
  BY <1>2, <1>3
<1>10. log[target] \subseteq before
  <2>1. CASE args.flag = "resume"
    BY <2>1, <1>2
  <2>2. CASE args.flag # "resume"
    <3>1. target \notin sessions
      BY <2>2, <1>2, <1>6
    <3> QED BY <3>1, <1>3, <1>7 DEF ClaudeInv
  <2> QED BY <2>1, <2>2
<1> HIDE DEF args, target, before
<1>11. log'[target] = before \cup {<<r, asked[r]>>}
        /\ \A id \in SessionIds : id # target => log'[id] = log[id]
  BY <1>1, <1>3, <1>7
<1>12. log' \in [SessionIds -> SUBSET (Runs \X (1 .. MaxQueries))]
  <2>1. before \cup {<<r, asked[r]>>} \in SUBSET (Runs \X (1 .. MaxQueries))
    BY <1>4, <1>9
  <2> QED BY <2>1, <1>1, <1>3, <1>7
<1>13. /\ wrote'[r] = wrote[r] \cup {target}
       /\ \A p \in Runs \ {r} : wrote'[p] = wrote[p]
       /\ wrote' \in [Runs -> SUBSET SessionIds]
  BY <1>1, <1>3, <1>7
<1>14. Owner(target) # r => opening[r] \in Mishap
  BY <1>2, <1>5
<1>15. ~st[r].is_first_call =>
         target = st[r].claude_session_id /\ sessions' = sessions
  BY <1>1, <1>2, <1>8
<1>16. sessions' \subseteq sessions \cup Ours(r)
  BY <1>1, <1>2, <1>8 DEF Ours
<1>17. Grows(r)
  BY <1>1, <1>10, <1>11, <1>16 DEF Grows
<1>18. ClaudeInv'
  BY <1>1, <1>3, <1>11 DEF ClaudeInv
<1>19. sessions' \subseteq SessionIds /\ target \in sessions'
        /\ <<r, asked[r]>> \in log'[target]
  BY <1>1, <1>3, <1>7, <1>11
<1> QED
  BY <1>7, <1>12, <1>13, <1>14, <1>15, <1>17, <1>18, <1>19 DEF args, target

(* Another run's step leaves a run's invariant in place.                   *)
LEMMA OthersKeep ==
  ASSUME SessionsInv, NEW r \in Runs, NEW p \in Runs \ {r},
         SameRun(p), Grows(r)
  PROVE  RunInv(p)'
<1>1. RunInv(p) /\ SessionsTypeOK
  BY DEF SessionsInv
<1>2. st[p].claude_session_id \in SessionIds /\ call[p].session \in SessionIds
  BY <1>1, RunTypes
<1>3. sessions' \cap Ours(p) \subseteq sessions \cap Ours(p)
  BY IdsOfRun DEF Grows
<1>4. CallInv(p)' /\ StreakInv(p)' /\ FirstInv(p)' /\ WorkerInv(p)'
  BY <1>1 DEF RunInv, CallInv, StreakInv, FirstInv, WorkerInv, SameRun
<1>5. UnopenedInv(p)'
  <2>1. Unopened(p)' <=> Unopened(p)
    BY DEF Unopened, SameRun
  <2>2. UnopenedInv(p) /\ opening'[p] = opening[p]
    BY <1>1 DEF RunInv, SameRun
  <2> QED BY <2>1, <2>2, <1>3 DEF UnopenedInv, Ours, Minted, Branch
<1>6. AbroadInv(p)'
  BY <1>1 DEF RunInv, AbroadInv, SameRun, Owner
<1>7. LogInv(p)'
  BY <1>1, <1>2 DEF RunInv, LogInv, SameRun, Grows
<1> QED BY <1>4, <1>5, <1>6, <1>7 DEF RunInv

(* A step of one run keeps the invariant when it keeps that run's part.    *)
LEMMA OneRunStep ==
  ASSUME SessionsInv, NEW r \in Runs, SessionsTypeOK', ClaudeInv', Grows(r),
         RunInv(r)', \A p \in Runs \ {r} : SameRun(p)
  PROVE  SessionsInv'
<1> SUFFICES ASSUME NEW p \in Runs PROVE RunInv(p)'
  BY DEF SessionsInv
<1>1. CASE p = r
  BY <1>1
<1>2. CASE p # r
  BY <1>2, OthersKeep
<1> QED BY <1>1, <1>2

LEMMA ClaudeUnchanged ==
  ASSUME SessionsInv, NEW r \in Runs, UNCHANGED claude
  PROVE  Grows(r) /\ ClaudeInv'
BY DEF SessionsInv, claude, Grows, ClaudeInv

(* The state after a failed query (_on_planner_failed).                    *)
LEMMA FailedState ==
  ASSUME NEW s \in RunState, s.status = "active", s.failures < MaxFailures
  PROVE  LET t == OnPlannerFailed(s)
         IN /\ t \in RunState
            /\ ~t.is_first_call
            /\ t.failures = s.failures + 1
            /\ t.claude_session_id = s.claude_session_id
            /\ t.status \in {"active", "ended"}
            /\ t.status # "ended" => t.failures < MaxFailures
<1> DEFINE t == OnPlannerFailed(s)
           final == IF s.failures + 1 >= MaxFailures THEN "ended" ELSE s.status
<1>1. s.failures \in 0 .. MaxFailures /\ MaxFailures \in Nat
  BY SessionAssumption DEF RunState
<1>2. s.failures + 1 \in 0 .. MaxFailures
  BY <1>1
<1>3. /\ t.failures = s.failures + 1 /\ t.is_first_call = FALSE
      /\ t.claude_session_id = s.claude_session_id
      /\ t.status = final
  BY DEF OnPlannerFailed, RunState
<1>4. final \in {"active", "ended"}
        /\ (final # "ended" => s.failures + 1 < MaxFailures)
  BY <1>1
<1>5. t \in RunState
  BY <1>2, <1>4 DEF OnPlannerFailed, RunState
<1> QED BY <1>3, <1>4, <1>5

(* How the first attempt of a run ended is noted once.                     *)
LEMMA OpenedEffect ==
  ASSUME SessionsTypeOK, NEW r \in Runs,
         NEW how \in {"missed", "lost", "replied"}, Opened(r, how)
  PROVE  /\ opening' \in [Runs -> {"none", "missed", "lost", "replied"}]
         /\ opening'[r] = IF opening[r] = "none" THEN how ELSE opening[r]
         /\ \A p \in Runs \ {r} : opening'[p] = opening[p]
BY DEF SessionsTypeOK, Opened

(* A failed attempt: the next one, or a failed query.                      *)
LEMMA RetryEffect ==
  ASSUME SessionsInv, NEW r \in Runs, call[r].active, Retry(r)
  PROVE  /\ st' \in [Runs -> RunState] /\ call' \in [Runs -> Call]
         /\ \A p \in Runs \ {r} : st'[p] = st[p] /\ call'[p] = call[p]
         /\ \/ /\ st'[r] = st[r]
               /\ call'[r] = [call[r] EXCEPT !.attempt = @ + 1]
               /\ call'[r].attempt > 0
            \/ /\ st'[r] = OnPlannerFailed(st[r])
               /\ call'[r] = NoCall(r)
<1>1. /\ SessionsTypeOK /\ RunInv(r)
      /\ st \in [Runs -> RunState] /\ call \in [Runs -> Call]
  BY DEF SessionsInv, SessionsTypeOK
<1>2. call[r] \in Call /\ call[r].attempt \in 0 .. (Retries - 1)
  BY <1>1, RunTypes
<1>3. CASE call[r].attempt + 1 < Retries
  <2>1. call' = [call EXCEPT ![r].attempt = @ + 1] /\ st' = st
    BY <1>3 DEF Retry
  <2>2. call[r].attempt + 1 \in 0 .. (Retries - 1) /\ call[r].attempt + 1 > 0
    BY <1>2, <1>3, SessionAssumption
  <2>3. [call[r] EXCEPT !.attempt = @ + 1] \in Call
          /\ [call[r] EXCEPT !.attempt = @ + 1].attempt = call[r].attempt + 1
    BY <1>2, <2>2 DEF Call
  <2>4. call'[r] = [call[r] EXCEPT !.attempt = @ + 1]
          /\ \A p \in Runs \ {r} : call'[p] = call[p]
    BY <1>1, <2>1
  <2>5. call' \in [Runs -> Call]
    BY <1>1, <2>1, <2>3
  <2> QED BY <1>1, <2>1, <2>2, <2>3, <2>4, <2>5
<1>4. CASE ~(call[r].attempt + 1 < Retries)
  <2>1. /\ call' = [call EXCEPT ![r] = NoCall(r)]
        /\ st' = [st EXCEPT ![r] = OnPlannerFailed(@)]
    BY <1>4 DEF Retry
  <2>2. st[r] \in RunState /\ st[r].status = "active"
          /\ st[r].failures < MaxFailures
    BY <1>1 DEF RunInv, CallInv, StreakInv
  <2>3. OnPlannerFailed(st[r]) \in RunState
    BY <2>2, FailedState
  <2> QED BY <1>1, <2>1, <2>3, NoCallType
<1> QED BY <1>3, <1>4

(* What a failed attempt leaves in place, whether claude recorded it.      *)
LEMMA FailedAttempt ==
  ASSUME SessionsInv, NEW r \in Runs, call[r].active, Retry(r),
         NEW how \in Mishap, Opened(r, how), Grows(r),
         stdout' = stdout, worker' = worker, asked' = asked,
         answered' = answered,
         \A id \in wrote'[r] : Owner(id) # r =>
           id \in wrote[r] \/ opening[r] \in Mishap
  PROVE  RunInv(r)'
<1>1. SessionsTypeOK /\ RunInv(r)
  BY DEF SessionsInv
<1>2. /\ st[r].claude_session_id \in SessionIds
      /\ st[r] \in RunState /\ st[r].is_first_call \in BOOLEAN
      /\ st[r].failures \in 0 .. MaxFailures
      /\ call[r] \in Call
  BY <1>1, RunTypes
<1>3. /\ stdout[r] = NoReply /\ st[r].status = "active" /\ asked[r] > 0
      /\ call[r].first_call = st[r].is_first_call
      /\ call[r].resume_parent # NoSession => st[r].is_first_call
      /\ st[r].failures < MaxFailures
  BY <1>1 DEF RunInv, CallInv, StreakInv
<1>4. opening'[r] = IF opening[r] = "none" THEN how ELSE opening[r]
  BY <1>1, OpenedEffect DEF Mishap
<1>5. opening[r] \in Mishap => opening'[r] \in Mishap
  BY <1>4 DEF Mishap
<1>6. st[r].is_first_call => opening'[r] \in Mishap
  <2>1. CASE Unopened(r)
    BY <2>1, <1>1, <1>4 DEF RunInv, UnopenedInv
  <2>2. CASE ~Unopened(r)
    BY <2>2, <1>5, ArgsCases
  <2> QED BY <2>1, <2>2
<1>7. \A id \in wrote'[r] : Owner(id) # r => opening'[r] \in Mishap
  BY <1>1, <1>5 DEF RunInv, AbroadInv
<1>8. CASE st'[r] = st[r] /\ call'[r] = [call[r] EXCEPT !.attempt = @ + 1]
             /\ call'[r].attempt > 0
  <2>1. /\ call'[r].active /\ call'[r].attempt > 0
        /\ call'[r].first_call = call[r].first_call
        /\ call'[r].resume_parent = call[r].resume_parent
    BY <1>2, <1>8 DEF Call
  <2>2. CallInv(r)'
    BY <2>1, <1>3, <1>8 DEF CallInv
  <2>3. StreakInv(r)' /\ FirstInv(r)' /\ WorkerInv(r)'
    BY <1>1, <1>8 DEF RunInv, StreakInv, FirstInv, WorkerInv
  <2>4. UnopenedInv(r)'
    BY <2>1, <1>3, <1>8 DEF UnopenedInv, Unopened
  <2>5. AbroadInv(r)'
    BY <1>1, <1>3, <1>5, <1>6, <1>7, <1>8 DEF RunInv, AbroadInv, Owner
  <2>6. LogInv(r)'
    BY <1>1, <1>2, <1>3, <1>8 DEF RunInv, LogInv, Grows
  <2> QED BY <2>2, <2>3, <2>4, <2>5, <2>6 DEF RunInv
<1>9. CASE st'[r] = OnPlannerFailed(st[r]) /\ call'[r] = NoCall(r)
  <2>1. /\ ~st'[r].is_first_call
        /\ st'[r].claude_session_id = st[r].claude_session_id
        /\ st'[r].status \in {"active", "ended"}
        /\ st'[r].status # "ended" => st'[r].failures < MaxFailures
    BY <1>2, <1>3, <1>9, FailedState
  <2>2. ~call'[r].active
    BY <1>9 DEF NoCall
  <2>3. CallInv(r)' /\ StreakInv(r)' /\ UnopenedInv(r)'
    BY <2>1, <2>2, <1>3 DEF CallInv, StreakInv, UnopenedInv, Unopened
  <2>4. FirstInv(r)' /\ WorkerInv(r)'
    BY <1>1, <2>1 DEF RunInv, FirstInv, WorkerInv
  <2>5. AbroadInv(r)'
    BY <1>1, <1>3, <1>5, <1>7, <2>1, <2>2 DEF RunInv, AbroadInv, Owner
  <2>6. LogInv(r)'
    BY <1>1, <1>2, <1>3, <2>1 DEF RunInv, LogInv, Grows
  <2> QED BY <2>3, <2>4, <2>5, <2>6 DEF RunInv
<1> QED BY <1>8, <1>9, RetryEffect

-----------------------------------------------------------------------------
(* One lemma per action.                                                   *)

LEMMA AttemptMissesKeeps ==
  ASSUME SessionsInv, NEW r \in Runs, AttemptMisses(r)
  PROVE  SessionsInv'
<1>1. /\ call[r].active /\ Retry(r) /\ Opened(r, "missed")
      /\ UNCHANGED <<claude, row, stdout, worker, asked, jobs, answered, wrote>>
  BY DEF AttemptMisses
<1>2. SessionsTypeOK /\ Grows(r) /\ ClaudeInv'
  BY <1>1, ClaudeUnchanged DEF SessionsInv
<1>3. /\ opening' \in [Runs -> {"none", "missed", "lost", "replied"}]
      /\ \A p \in Runs \ {r} : opening'[p] = opening[p]
  BY <1>1, <1>2, OpenedEffect
<1>4. RunInv(r)'
  BY <1>1, <1>2, FailedAttempt DEF Mishap
<1>5. SessionsTypeOK'
  BY <1>1, <1>2, <1>3, RetryEffect DEF SessionsTypeOK, claude
<1>6. \A p \in Runs \ {r} : SameRun(p)
  BY <1>1, <1>3, RetryEffect DEF SameRun
<1> QED BY <1>2, <1>4, <1>5, <1>6, OneRunStep

LEMMA AttemptLostKeeps ==
  ASSUME SessionsInv, NEW r \in Runs, AttemptLost(r)
  PROVE  SessionsInv'
<1>1. /\ call[r].active /\ Record(r) /\ Retry(r) /\ Opened(r, "lost")
      /\ UNCHANGED <<row, stdout, worker, asked, jobs, answered>>
  BY DEF AttemptLost
<1>2. SessionsTypeOK
  BY DEF SessionsInv
<1>3. /\ opening' \in [Runs -> {"none", "missed", "lost", "replied"}]
      /\ \A p \in Runs \ {r} : opening'[p] = opening[p]
  BY <1>1, <1>2, OpenedEffect
<1>4. /\ Grows(r) /\ ClaudeInv'
      /\ Owner(Target(r, SessionArgs(r))) # r => opening[r] \in Mishap
      /\ wrote'[r] = wrote[r] \cup {Target(r, SessionArgs(r))}
      /\ \A p \in Runs \ {r} : wrote'[p] = wrote[p]
  BY <1>1, RecordEffect
<1>5. RunInv(r)'
  BY <1>1, <1>4, FailedAttempt DEF Mishap
<1>6. SessionsTypeOK'
  BY <1>1, <1>2, <1>3, RetryEffect, RecordEffect DEF SessionsTypeOK
<1>7. \A p \in Runs \ {r} : SameRun(p)
  BY <1>1, <1>3, <1>4, RetryEffect DEF SameRun
<1> QED BY <1>4, <1>5, <1>6, <1>7, OneRunStep

LEMMA AttemptRepliesKeeps ==
  ASSUME SessionsInv, NEW r \in Runs, AttemptReplies(r)
  PROVE  SessionsInv'
<1> DEFINE target == Target(r, SessionArgs(r))
           idle == [NoCall(r) EXCEPT !.session = target]
<1>1. /\ call[r].active /\ Record(r) /\ Opened(r, "replied")
      /\ call' = [call EXCEPT ![r] = idle]
      /\ UNCHANGED <<row, st, worker, asked, jobs, answered>>
  BY DEF AttemptReplies
<1>2. PICK reply \in Replies : stdout' = [stdout EXCEPT ![r] = reply]
  BY DEF AttemptReplies
<1>3. SessionsTypeOK /\ RunInv(r) /\ st \in [Runs -> RunState]
        /\ call \in [Runs -> Call] /\ stdout \in [Runs -> Replies \cup {NoReply}]
  BY DEF SessionsInv, SessionsTypeOK
<1>4. /\ target \in SessionIds /\ <<r, asked[r]>> \in log'[target]
      /\ Owner(target) # r => opening[r] \in Mishap
      /\ ~st[r].is_first_call => target = st[r].claude_session_id
      /\ Grows(r) /\ ClaudeInv'
      /\ sessions' \subseteq SessionIds
      /\ log' \in [SessionIds -> SUBSET (Runs \X (1 .. MaxQueries))]
      /\ wrote' \in [Runs -> SUBSET SessionIds]
      /\ wrote'[r] = wrote[r] \cup {target}
      /\ \A p \in Runs \ {r} : wrote'[p] = wrote[p]
  BY <1>1, RecordEffect
<1> HIDE DEF target
<1>5. idle \in Call /\ ~idle.active /\ idle.session = target
  BY <1>4, NoCallType DEF NoCall, Call
<1> HIDE DEF idle
<1>6. /\ opening' \in [Runs -> {"none", "missed", "lost", "replied"}]
      /\ opening'[r] = IF opening[r] = "none" THEN "replied" ELSE opening[r]
      /\ \A p \in Runs \ {r} : opening'[p] = opening[p]
  BY <1>1, <1>3, OpenedEffect
<1>7. /\ call' \in [Runs -> Call] /\ call'[r] = idle
      /\ \A p \in Runs \ {r} : call'[p] = call[p]
      /\ stdout' \in [Runs -> Replies \cup {NoReply}] /\ stdout'[r] = reply
      /\ \A p \in Runs \ {r} : stdout'[p] = stdout[p]
  BY <1>1, <1>2, <1>3, <1>5
<1>8. reply # NoReply
  BY SessionAssumption
<1>9. SessionsTypeOK'
  BY <1>1, <1>3, <1>4, <1>6, <1>7 DEF SessionsTypeOK
<1>10. \A p \in Runs \ {r} : SameRun(p)
  BY <1>1, <1>4, <1>6, <1>7 DEF SameRun
<1>11. st[r].status = "active" /\ asked[r] > 0
        /\ st[r].claude_session_id \in SessionIds
  BY <1>1, <1>3, RunTypes DEF RunInv, CallInv
<1>12. opening[r] \in Mishap => opening'[r] \in Mishap
  BY <1>6 DEF Mishap
<1>13. CallInv(r)' /\ UnopenedInv(r)'
  BY <1>1, <1>5, <1>7, <1>8, <1>11 DEF CallInv, UnopenedInv, Unopened
<1>14. StreakInv(r)' /\ FirstInv(r)' /\ WorkerInv(r)'
  BY <1>1, <1>3 DEF RunInv, StreakInv, FirstInv, WorkerInv
<1>15. AbroadInv(r)'
  BY <1>1, <1>3, <1>4, <1>5, <1>7, <1>12 DEF RunInv, AbroadInv, Owner
<1>16. LogInv(r)'
  BY <1>1, <1>3, <1>4, <1>5, <1>7, <1>11 DEF RunInv, LogInv, Grows
<1>17. RunInv(r)'
  BY <1>13, <1>14, <1>15, <1>16 DEF RunInv
<1> QED BY <1>4, <1>9, <1>10, <1>17, OneRunStep

LEMMA ParseReplyKeeps ==
  ASSUME SessionsInv, NEW r \in Runs, ParseReply(r)
  PROVE  SessionsInv'
<1> DEFINE new == IF ParseResponse(stdout[r]).ok
                  THEN AdoptAnswer(st[r], ReportsSession(stdout[r]),
                                   call[r].session)
                  ELSE OnPlannerFailed(st[r])
<1>1. /\ stdout[r] # NoReply
      /\ st' = [st EXCEPT ![r] = new]
      /\ answered' = IF ParseResponse(stdout[r]).ok
                     THEN [answered EXCEPT ![r] = @ \cup {asked[r]}]
                     ELSE answered
      /\ stdout' = [stdout EXCEPT ![r] = NoReply]
      /\ call' = [call EXCEPT ![r] = NoCall(r)]
      /\ UNCHANGED <<claude, row, worker, asked, jobs, wrote, opening>>
  <2>1. CASE ParseResponse(stdout[r]).ok
    BY <2>1 DEF ParseReply
  <2>2. CASE ~ParseResponse(stdout[r]).ok
    BY <2>2 DEF ParseReply
  <2> QED BY <2>1, <2>2
<1>2. /\ SessionsTypeOK /\ RunInv(r) /\ Grows(r) /\ ClaudeInv'
      /\ st \in [Runs -> RunState] /\ call \in [Runs -> Call]
      /\ stdout \in [Runs -> Replies \cup {NoReply}]
      /\ answered \in [Runs -> SUBSET (1 .. MaxQueries)]
  BY <1>1, ClaudeUnchanged DEF SessionsInv, SessionsTypeOK
<1>3. /\ st[r] \in RunState /\ st[r].is_first_call \in BOOLEAN
      /\ st[r].claude_session_id \in SessionIds
      /\ st[r].failures \in 0 .. MaxFailures
      /\ call[r].session \in SessionIds
      /\ asked[r] \in 0 .. MaxQueries
  BY <1>2, RunTypes
<1>4. /\ st[r].status = "active" /\ asked[r] > 0
      /\ st[r].failures < MaxFailures
      /\ <<r, asked[r]>> \in log[call[r].session]
      /\ ~st[r].is_first_call => call[r].session = st[r].claude_session_id
      /\ Owner(call[r].session) # r => opening[r] \in Mishap
  BY <1>1, <1>2 DEF RunInv, CallInv, StreakInv, LogInv, AbroadInv
<1>5. /\ new \in RunState /\ ~new.is_first_call
      /\ new.status # "ended" => new.failures < MaxFailures
      /\ new.status # "unborn"
      /\ new.claude_session_id =
           IF ParseResponse(stdout[r]).ok /\ st[r].is_first_call
           THEN call[r].session ELSE st[r].claude_session_id
  <2>1. CASE ParseResponse(stdout[r]).ok
    <3>1. ReportsSession(stdout[r])
      BY <2>1, <1>1, <1>2, ReplyAssumption
    <3>2. new = [st[r] EXCEPT
                   !.claude_session_id = IF st[r].is_first_call
                                         THEN call[r].session ELSE @,
                   !.is_first_call = FALSE, !.resume_parent = NoSession,
                   !.failures = 0]
      BY <2>1, <3>1 DEF AdoptAnswer
    <3>3. 0 \in 0 .. MaxFailures /\ 0 < MaxFailures
      BY SessionAssumption
    <3> HIDE DEF new
    <3> QED BY <2>1, <3>2, <3>3, <1>3, <1>4 DEF RunState
  <2>2. CASE ~ParseResponse(stdout[r]).ok
    <3>1. new = OnPlannerFailed(st[r])
      BY <2>2
    <3> HIDE DEF new
    <3> QED BY <2>2, <3>1, <1>3, <1>4, FailedState
  <2> QED BY <2>1, <2>2
<1> HIDE DEF new
<1>6. /\ st' \in [Runs -> RunState] /\ st'[r] = new
      /\ \A p \in Runs \ {r} : st'[p] = st[p]
      /\ call' \in [Runs -> Call] /\ call'[r] = NoCall(r)
      /\ \A p \in Runs \ {r} : call'[p] = call[p]
      /\ stdout' \in [Runs -> Replies \cup {NoReply}] /\ stdout'[r] = NoReply
      /\ \A p \in Runs \ {r} : stdout'[p] = stdout[p]
  BY <1>1, <1>2, <1>5, NoCallType
<1>7. asked[r] \in 1 .. MaxQueries
  BY <1>3, <1>4, SessionAssumption
<1>8. /\ answered' \in [Runs -> SUBSET (1 .. MaxQueries)]
      /\ answered'[r] = IF ParseResponse(stdout[r]).ok
                        THEN answered[r] \cup {asked[r]} ELSE answered[r]
      /\ \A p \in Runs \ {r} : answered'[p] = answered[p]
  <2>1. answered[r] \cup {asked[r]} \in SUBSET (1 .. MaxQueries)
    BY <1>2, <1>7
  <2> QED BY <1>1, <1>2, <2>1
<1>9. SessionsTypeOK'
  BY <1>1, <1>2, <1>6, <1>8 DEF SessionsTypeOK, claude
<1>10. \A p \in Runs \ {r} : SameRun(p)
  BY <1>1, <1>6, <1>8 DEF SameRun
<1>11. ~call'[r].active
  BY <1>6 DEF NoCall
<1>12. CallInv(r)' /\ StreakInv(r)' /\ UnopenedInv(r)'
  BY <1>5, <1>6, <1>11 DEF CallInv, StreakInv, UnopenedInv, Unopened
<1>13. st[r].is_first_call => answered[r] = {}
  BY <1>2 DEF RunInv, FirstInv
<1>14. answered'[r] = {} => ~ParseResponse(stdout[r]).ok /\ answered[r] = {}
  BY <1>8
<1>15. FirstInv(r)'
  BY <1>2, <1>5, <1>6, <1>14 DEF RunInv, FirstInv
<1>16. WorkerInv(r)'
  <2>1. worker[r].phase = "running" => new.claude_session_id = st[r].claude_session_id
    BY <1>2, <1>5, <1>13 DEF RunInv, WorkerInv
  <2>2. answered[r] # {} => answered'[r] # {}
    BY <1>14
  <2> QED BY <2>1, <2>2, <1>1, <1>2, <1>6 DEF RunInv, WorkerInv
<1>17. AbroadInv(r)'
  BY <1>1, <1>2, <1>4, <1>5, <1>6, <1>11 DEF RunInv, AbroadInv, Owner
<1>18. LogInv(r)'
  <2> SUFFICES ASSUME NEW q \in answered'[r]
               PROVE  <<r, q>> \in log[new.claude_session_id]
    BY <1>1, <1>6 DEF LogInv, claude
  <2>1. CASE ~ParseResponse(stdout[r]).ok
    BY <2>1, <1>2, <1>5, <1>8 DEF RunInv, LogInv
  <2>2. CASE ParseResponse(stdout[r]).ok
    <3>1. new.claude_session_id = call[r].session
      BY <2>2, <1>4, <1>5
    <3>2. CASE q = asked[r]
      BY <3>1, <3>2, <1>4
    <3>3. CASE q # asked[r]
      BY <3>1, <3>3, <2>2, <1>2, <1>4, <1>8, <1>13 DEF RunInv, LogInv
    <3> QED BY <3>2, <3>3
  <2> QED BY <2>1, <2>2
<1>19. RunInv(r)'
  BY <1>12, <1>15, <1>16, <1>17, <1>18 DEF RunInv
<1> QED BY <1>2, <1>9, <1>10, <1>19, OneRunStep

LEMMA BeginKeeps ==
  ASSUME SessionsInv, NEW r \in Runs,
         NEW parent_session \in SessionIds \cup {NoSession},
         Begin(r, parent_session)
  PROVE  SessionsInv'
<1> DEFINE new == [st[r] EXCEPT !.status = "active",
                                !.resume_parent = parent_session]
<1>1. /\ st[r].status = "unborn"
      /\ st' = [st EXCEPT ![r] = new]
      /\ row' = [row EXCEPT ![r] = Minted(r)]
      /\ UNCHANGED <<claude, call, stdout, worker, history>>
  <2>1. SessionsTypeOK /\ st \in [Runs -> RunState]
    BY DEF SessionsInv, SessionsTypeOK
  <2>2. st' = [st EXCEPT ![r].status = "active",
                         ![r].resume_parent = parent_session]
    BY DEF Begin
  <2> QED BY <2>1, <2>2 DEF Begin
<1>2. /\ SessionsTypeOK /\ RunInv(r) /\ Grows(r) /\ ClaudeInv'
      /\ st \in [Runs -> RunState] /\ st[r] \in RunState
      /\ row \in [Runs -> SessionIds \cup {NoSession}]
  BY <1>1, ClaudeUnchanged DEF SessionsInv, SessionsTypeOK
<1>3. /\ new \in RunState /\ new.status = "active"
      /\ new.is_first_call = st[r].is_first_call
      /\ new.failures = st[r].failures
      /\ new.claude_session_id = st[r].claude_session_id
  BY <1>2 DEF RunState
<1> HIDE DEF new
<1>4. /\ st' \in [Runs -> RunState] /\ st'[r] = new
      /\ \A p \in Runs \ {r} : st'[p] = st[p]
      /\ row' \in [Runs -> SessionIds \cup {NoSession}]
  BY <1>1, <1>2, <1>3, IdsOfRun
<1>5. SessionsTypeOK'
  BY <1>1, <1>2, <1>4 DEF SessionsTypeOK, claude, history
<1>6. \A p \in Runs \ {r} : SameRun(p)
  BY <1>1, <1>4 DEF SameRun, history
<1>7. ~call[r].active /\ stdout[r] = NoReply
  BY <1>1, <1>2 DEF RunInv, CallInv
<1>8. Unopened(r) /\ st[r].failures < MaxFailures
  BY <1>1, <1>2 DEF Unopened, RunInv, StreakInv
<1>9. CallInv(r)' /\ StreakInv(r)' /\ FirstInv(r)' /\ WorkerInv(r)'
  BY <1>1, <1>2, <1>3, <1>4, <1>7, <1>8
     DEF RunInv, CallInv, StreakInv, FirstInv, WorkerInv, history
<1>10. UnopenedInv(r)'
  BY <1>1, <1>2, <1>8 DEF RunInv, UnopenedInv, claude, history, Ours, Minted, Branch
<1>11. AbroadInv(r)' /\ LogInv(r)'
  BY <1>1, <1>2, <1>3, <1>4, <1>7
     DEF RunInv, AbroadInv, LogInv, Owner, claude, history
<1>12. RunInv(r)'
  BY <1>9, <1>10, <1>11 DEF RunInv
<1> QED BY <1>2, <1>5, <1>6, <1>12, OneRunStep

LEMMA StartQueryKeeps ==
  ASSUME SessionsInv, NEW r \in Runs, StartQuery(r)
  PROVE  SessionsInv'
<1> DEFINE new == [active |-> TRUE, attempt |-> 0,
                   first_call |-> st[r].is_first_call,
                   resume_parent |-> IF st[r].is_first_call
                                     THEN st[r].resume_parent ELSE NoSession,
                   session |-> Minted(r)]
<1>1. /\ st[r].status = "active" /\ ~call[r].active /\ stdout[r] = NoReply
      /\ asked[r] < MaxQueries
      /\ asked' = [asked EXCEPT ![r] = @ + 1]
      /\ call' = [call EXCEPT ![r] = new]
      /\ UNCHANGED <<claude, row, st, stdout, worker, jobs, answered, wrote,
                     opening>>
  BY DEF StartQuery, Free
<1>2. /\ SessionsTypeOK /\ RunInv(r) /\ Grows(r) /\ ClaudeInv'
      /\ call \in [Runs -> Call] /\ asked \in [Runs -> 0 .. MaxQueries]
  BY <1>1, ClaudeUnchanged DEF SessionsInv, SessionsTypeOK
<1>3. /\ st[r].resume_parent \in SessionIds \cup {NoSession}
      /\ st[r].is_first_call \in BOOLEAN
      /\ asked[r] \in 0 .. MaxQueries
  BY <1>2, RunTypes
<1>4. new \in Call
  <2>1. 0 \in 0 .. (Retries - 1)
    BY SessionAssumption
  <2> QED BY <2>1, <1>3, IdsOfRun DEF Call
<1>5. /\ new.active /\ new.attempt = 0 /\ new.first_call = st[r].is_first_call
      /\ new.resume_parent # NoSession => st[r].is_first_call
  OBVIOUS
<1> HIDE DEF new
<1>6. asked[r] + 1 \in 0 .. MaxQueries /\ asked[r] + 1 > 0
  BY <1>1, <1>3, SessionAssumption
<1>7. /\ call' \in [Runs -> Call] /\ call'[r] = new
      /\ \A p \in Runs \ {r} : call'[p] = call[p]
      /\ asked' \in [Runs -> 0 .. MaxQueries] /\ asked'[r] > 0
      /\ \A p \in Runs \ {r} : asked'[p] = asked[p]
  BY <1>1, <1>2, <1>4, <1>6
<1>8. SessionsTypeOK'
  BY <1>1, <1>2, <1>7 DEF SessionsTypeOK, claude
<1>9. \A p \in Runs \ {r} : SameRun(p)
  BY <1>1, <1>7 DEF SameRun
<1>10. CallInv(r)' /\ StreakInv(r)' /\ FirstInv(r)' /\ WorkerInv(r)'
  BY <1>1, <1>2, <1>5, <1>7
     DEF RunInv, CallInv, StreakInv, FirstInv, WorkerInv
<1>11. UnopenedInv(r)'
  <2>1. Unopened(r)' => Unopened(r)
    BY <1>1 DEF Unopened
  <2> QED BY <2>1, <1>1, <1>2 DEF RunInv, UnopenedInv, claude, Ours, Minted, Branch
<1>12. AbroadInv(r)' /\ LogInv(r)'
  BY <1>1, <1>2, <1>5, <1>7 DEF RunInv, AbroadInv, LogInv, Owner, claude
<1>13. RunInv(r)'
  BY <1>10, <1>11, <1>12 DEF RunInv
<1> QED BY <1>2, <1>8, <1>9, <1>13, OneRunStep

(* Ending a run (outcome, failed job, failed refresh, Ctrl-C) forgets only *)
(* the call in hand.                                                       *)
LEMMA EndedRun ==
  ASSUME SessionsInv, NEW r \in Runs,
         st'[r] = [st[r] EXCEPT !.status = "ended"],
         ~call'[r].active, stdout'[r] = NoReply,
         worker'[r] = worker[r] \/ worker'[r].phase # "running",
         UNCHANGED <<claude, history>>
  PROVE  RunInv(r)'
<1>1. RunInv(r) /\ st[r] \in RunState
  BY RunTypes DEF SessionsInv
<1>2. /\ st'[r].status = "ended"
      /\ st'[r].is_first_call = st[r].is_first_call
      /\ st'[r].failures = st[r].failures
      /\ st'[r].claude_session_id = st[r].claude_session_id
  BY <1>1 DEF RunState
<1>3. CallInv(r)' /\ StreakInv(r)' /\ FirstInv(r)' /\ UnopenedInv(r)'
  BY <1>1, <1>2
     DEF RunInv, CallInv, StreakInv, FirstInv, UnopenedInv, Unopened, history
<1>4. AbroadInv(r)' /\ LogInv(r)'
  BY <1>1, <1>2 DEF RunInv, AbroadInv, LogInv, Owner, claude, history
<1>5. WorkerInv(r)'
  BY <1>1, <1>2 DEF RunInv, WorkerInv, history
<1> QED BY <1>3, <1>4, <1>5 DEF RunInv

LEMMA EndedType ==
  ASSUME SessionsInv, NEW r \in Runs
  PROVE  /\ [st EXCEPT ![r].status = "ended"] \in [Runs -> RunState]
         /\ [st EXCEPT ![r].status = "ended"][r]
              = [st[r] EXCEPT !.status = "ended"]
         /\ \A p \in Runs \ {r} : [st EXCEPT ![r].status = "ended"][p] = st[p]
<1>1. st \in [Runs -> RunState]
  BY DEF SessionsInv, SessionsTypeOK
<1>2. [st[r] EXCEPT !.status = "ended"] \in RunState
  BY <1>1 DEF RunState
<1> QED BY <1>1, <1>2

LEMMA RefreshFailsKeeps ==
  ASSUME SessionsInv, NEW r \in Runs, RefreshFails(r)
  PROVE  SessionsInv'
<1>1. /\ ~call[r].active /\ stdout[r] = NoReply
      /\ st' = [st EXCEPT ![r].status = "ended"]
      /\ UNCHANGED <<claude, row, call, stdout, worker, history>>
  BY DEF RefreshFails, Free
<1>2. SessionsTypeOK /\ Grows(r) /\ ClaudeInv'
  BY <1>1, ClaudeUnchanged DEF SessionsInv
<1>3. RunInv(r)'
  BY <1>1, EndedType, EndedRun
<1>4. SessionsTypeOK'
  BY <1>1, <1>2, EndedType DEF SessionsTypeOK, claude, history
<1>5. \A p \in Runs \ {r} : SameRun(p)
  BY <1>1, EndedType DEF SameRun, history
<1> QED BY <1>2, <1>3, <1>4, <1>5, OneRunStep

LEMMA EndRunKeeps ==
  ASSUME SessionsInv, NEW r \in Runs, EndRun(r)
  PROVE  SessionsInv'
<1>1. /\ st' = [st EXCEPT ![r].status = "ended"]
      /\ call' = [call EXCEPT ![r] = NoCall(r)]
      /\ stdout' = [stdout EXCEPT ![r] = NoReply]
      /\ UNCHANGED <<claude, row, worker, history>>
  BY DEF EndRun
<1>2. /\ SessionsTypeOK /\ Grows(r) /\ ClaudeInv'
      /\ call \in [Runs -> Call] /\ stdout \in [Runs -> Replies \cup {NoReply}]
  BY <1>1, ClaudeUnchanged DEF SessionsInv, SessionsTypeOK
<1>3. /\ call' \in [Runs -> Call] /\ call'[r] = NoCall(r)
      /\ \A p \in Runs \ {r} : call'[p] = call[p]
      /\ stdout' \in [Runs -> Replies \cup {NoReply}] /\ stdout'[r] = NoReply
      /\ \A p \in Runs \ {r} : stdout'[p] = stdout[p]
  BY <1>1, <1>2, NoCallType
<1>4. ~call'[r].active
  BY <1>3 DEF NoCall
<1>5. RunInv(r)'
  BY <1>1, <1>3, <1>4, EndedType, EndedRun
<1>6. SessionsTypeOK'
  BY <1>1, <1>2, <1>3, EndedType DEF SessionsTypeOK, claude, history
<1>7. \A p \in Runs \ {r} : SameRun(p)
  BY <1>1, <1>3, EndedType DEF SameRun, history
<1> QED BY <1>2, <1>5, <1>6, <1>7, OneRunStep

(* What changes when only a run's summarization thread moves.              *)
LEMMA WorkerMoves ==
  ASSUME SessionsInv, NEW r \in Runs, NEW w \in Worker,
         worker' = [worker EXCEPT ![r] = w],
         w.phase = "running" =>
           /\ w.left > 0 /\ answered[r] # {}
           /\ w.home = st[r].claude_session_id,
         jobs' \in [Runs -> 0 .. MaxJobs],
         UNCHANGED <<claude, row, st, call, stdout, asked, answered, wrote,
                     opening>>
  PROVE  SessionsInv'
<1>1. /\ SessionsTypeOK /\ RunInv(r) /\ Grows(r) /\ ClaudeInv'
      /\ worker \in [Runs -> Worker]
  BY ClaudeUnchanged DEF SessionsInv, SessionsTypeOK
<1>2. /\ worker' \in [Runs -> Worker] /\ worker'[r] = w
      /\ \A p \in Runs \ {r} : worker'[p] = worker[p]
  BY <1>1
<1>3. SessionsTypeOK'
  BY <1>1, <1>2 DEF SessionsTypeOK, claude
<1>4. \A p \in Runs \ {r} : SameRun(p)
  BY <1>2 DEF SameRun
<1>5. WorkerInv(r)'
  BY <1>2 DEF WorkerInv
<1>6. /\ CallInv(r)' /\ StreakInv(r)' /\ FirstInv(r)' /\ UnopenedInv(r)'
      /\ AbroadInv(r)' /\ LogInv(r)'
  BY <1>1 DEF RunInv, CallInv, StreakInv, FirstInv, UnopenedInv, Unopened,
              AbroadInv, LogInv, Owner, claude, Ours, Minted, Branch
<1>7. RunInv(r)'
  BY <1>5, <1>6 DEF RunInv
<1> QED BY <1>1, <1>3, <1>4, <1>7, OneRunStep

LEMMA SubmitJobKeeps ==
  ASSUME SessionsInv, NEW r \in Runs, SubmitJob(r)
  PROVE  SessionsInv'
<1> DEFINE w == [phase |-> "running", left |-> 3,
                 home |-> st[r].claude_session_id]
<1>1. /\ answered[r] # {} /\ jobs[r] < MaxJobs
      /\ jobs' = [jobs EXCEPT ![r] = @ + 1]
      /\ worker' = [worker EXCEPT ![r] = w]
      /\ UNCHANGED <<claude, row, st, call, stdout, asked, answered, wrote,
                     opening>>
  BY DEF SubmitJob
<1>2. jobs \in [Runs -> 0 .. MaxJobs] /\ SessionsTypeOK
  BY DEF SessionsInv, SessionsTypeOK
<1>3. jobs[r] + 1 \in 0 .. MaxJobs
  BY <1>1, <1>2, SessionAssumption
<1>4. jobs' \in [Runs -> 0 .. MaxJobs]
  BY <1>1, <1>2, <1>3
<1>5. w \in Worker /\ w.left > 0 /\ w.home = st[r].claude_session_id
  BY <1>2, RunTypes DEF Worker
<1> HIDE DEF w
<1> QED BY <1>1, <1>4, <1>5, WorkerMoves

LEMMA WorkerCallKeeps ==
  ASSUME SessionsInv, NEW r \in Runs, WorkerCall(r)
  PROVE  SessionsInv'
<1> DEFINE w == [worker[r] EXCEPT !.left = @ - 1,
                                  !.phase = IF worker[r].left = 1
                                            THEN "done" ELSE @]
<1>1. /\ worker[r].phase = "running"
      /\ UNCHANGED <<claude, row, st, call, stdout, asked, answered, wrote,
                     opening, jobs>>
  BY DEF WorkerCall, history
<1>2. /\ SessionsTypeOK /\ RunInv(r) /\ worker \in [Runs -> Worker]
      /\ jobs \in [Runs -> 0 .. MaxJobs] /\ worker[r] \in Worker
  BY DEF SessionsInv, SessionsTypeOK
<1>3. worker' = [worker EXCEPT ![r] = w]
  BY <1>2 DEF WorkerCall
<1>4. worker[r].left \in 1 .. 3 /\ answered[r] # {}
        /\ worker[r].home = st[r].claude_session_id
  BY <1>1, <1>2 DEF RunInv, WorkerInv, Worker
<1>5. /\ w \in Worker
      /\ w.home = worker[r].home
      /\ w.phase = "running" => w.left > 0
  <2> DEFINE phase == IF worker[r].left = 1 THEN "done" ELSE worker[r].phase
             left == worker[r].left - 1
  <2>1. /\ left \in 0 .. 3 /\ phase \in {"running", "done"}
        /\ phase = "running" => left > 0
    BY <1>1, <1>4
  <2>2. w = [worker[r] EXCEPT !.left = left, !.phase = phase]
    OBVIOUS
  <2> HIDE DEF w, phase, left
  <2> DEFINE x == [worker[r] EXCEPT !.left = left, !.phase = phase]
  <2>3. /\ x \in Worker /\ x.phase = phase /\ x.left = left
        /\ x.home = worker[r].home
    BY <2>1, <1>2 DEF Worker
  <2> QED BY <2>1, <2>2, <2>3
<1> HIDE DEF w
<1> QED BY <1>1, <1>2, <1>3, <1>4, <1>5, WorkerMoves

LEMMA WorkerCallFailsKeeps ==
  ASSUME SessionsInv, NEW r \in Runs, WorkerCallFails(r)
  PROVE  SessionsInv'
<1> DEFINE w == [worker[r] EXCEPT !.phase = "failed", !.left = 0]
<1>1. /\ UNCHANGED <<claude, row, st, call, stdout, asked, answered, wrote,
                     opening, jobs>>
  BY DEF WorkerCallFails, history
<1>2. /\ SessionsTypeOK /\ worker \in [Runs -> Worker]
      /\ jobs \in [Runs -> 0 .. MaxJobs] /\ worker[r] \in Worker
  BY DEF SessionsInv, SessionsTypeOK
<1>3. worker' = [worker EXCEPT ![r] = w]
  BY <1>2 DEF WorkerCallFails
<1>4. w \in Worker /\ w.phase # "running"
  <2> DEFINE left == 0
             phase == "failed"
  <2>1. /\ left \in 0 .. 3 /\ phase # "running"
        /\ phase \in {"idle", "running", "done", "failed"}
    OBVIOUS
  <2>2. w = [worker[r] EXCEPT !.phase = phase, !.left = left]
    OBVIOUS
  <2> HIDE DEF w, phase, left
  <2>3. /\ [worker[r] EXCEPT !.phase = phase, !.left = left] \in Worker
        /\ [worker[r] EXCEPT !.phase = phase, !.left = left].phase = phase
    BY <2>1, <1>2 DEF Worker
  <2> QED BY <2>1, <2>2, <2>3
<1> HIDE DEF w
<1> QED BY <1>1, <1>2, <1>3, <1>4, WorkerMoves

LEMMA PollWorkerKeeps ==
  ASSUME SessionsInv, NEW r \in Runs, PollWorker(r)
  PROVE  SessionsInv'
<1> DEFINE w == [worker[r] EXCEPT !.phase = "idle", !.left = 0]
<1>1. /\ ~call[r].active /\ stdout[r] = NoReply
      /\ UNCHANGED <<claude, row, call, stdout, history>>
  BY DEF PollWorker, Free
<1>2. /\ SessionsTypeOK /\ worker \in [Runs -> Worker]
      /\ jobs \in [Runs -> 0 .. MaxJobs] /\ worker[r] \in Worker
      /\ Grows(r) /\ ClaudeInv'
  BY <1>1, ClaudeUnchanged DEF SessionsInv, SessionsTypeOK
<1>3. worker' = [worker EXCEPT ![r] = w]
  BY <1>2 DEF PollWorker
<1>4. w \in Worker /\ w.phase # "running"
  <2> DEFINE left == 0
             phase == "idle"
  <2>1. /\ left \in 0 .. 3 /\ phase # "running"
        /\ phase \in {"idle", "running", "done", "failed"}
    OBVIOUS
  <2>2. w = [worker[r] EXCEPT !.phase = phase, !.left = left]
    OBVIOUS
  <2> HIDE DEF w, phase, left
  <2>3. /\ [worker[r] EXCEPT !.phase = phase, !.left = left] \in Worker
        /\ [worker[r] EXCEPT !.phase = phase, !.left = left].phase = phase
    BY <2>1, <1>2 DEF Worker
  <2> QED BY <2>1, <2>2, <2>3
<1> HIDE DEF w
<1>5. CASE worker[r].phase = "failed"
  <2>1. st' = [st EXCEPT ![r].status = "ended"]
    BY <1>5 DEF PollWorker
  <2>2. /\ worker' \in [Runs -> Worker] /\ worker'[r] = w
        /\ \A p \in Runs \ {r} : worker'[p] = worker[p]
    BY <1>2, <1>3, <1>4
  <2>3. RunInv(r)'
    BY <1>1, <1>4, <2>1, <2>2, EndedType, EndedRun
  <2>4. SessionsTypeOK'
    BY <1>1, <1>2, <2>1, <2>2, EndedType DEF SessionsTypeOK, claude, history
  <2>5. \A p \in Runs \ {r} : SameRun(p)
    BY <1>1, <2>1, <2>2, EndedType DEF SameRun, history
  <2> QED BY <1>2, <2>3, <2>4, <2>5, OneRunStep
<1>6. CASE worker[r].phase # "failed"
  <2>1. st' = st
    BY <1>6 DEF PollWorker
  <2> QED BY <1>1, <1>2, <1>3, <1>4, <2>1, WorkerMoves DEF history
<1> QED BY <1>5, <1>6

-----------------------------------------------------------------------------
(* The invariant and what follows from it.                                 *)

LEMMA InitSessionsInv == Init => SessionsInv
<1> SUFFICES ASSUME Init PROVE SessionsInv
  OBVIOUS
<1>1. SessionsTypeOK
  <2>1. /\ sessions \subseteq SessionIds
        /\ log \in [SessionIds -> SUBSET (Runs \X (1 .. MaxQueries))]
        /\ row \in [Runs -> SessionIds \cup {NoSession}]
        /\ stdout \in [Runs -> Replies \cup {NoReply}]
        /\ answered \in [Runs -> SUBSET (1 .. MaxQueries)]
        /\ wrote \in [Runs -> SUBSET SessionIds]
        /\ opening \in [Runs -> {"none", "missed", "lost", "replied"}]
    BY DEF Init
  <2>2. asked \in [Runs -> 0 .. MaxQueries] /\ jobs \in [Runs -> 0 .. MaxJobs]
    BY SessionAssumption DEF Init
  <2>3. st \in [Runs -> RunState]
    <3>1. 0 \in 0 .. MaxFailures
      BY SessionAssumption
    <3> QED BY <3>1, IdsOfRun DEF Init, RunState
  <2>4. call \in [Runs -> Call]
    BY NoCallType DEF Init
  <2>5. worker \in [Runs -> Worker]
    BY IdsOfRun DEF Init, Worker
  <2> QED BY <2>1, <2>2, <2>3, <2>4, <2>5 DEF SessionsTypeOK
<1>2. ClaudeInv
  BY DEF Init, ClaudeInv
<1>3. ASSUME NEW r \in Runs PROVE RunInv(r)
  <2>1. ~call[r].active /\ stdout[r] = NoReply
    BY DEF Init, NoCall
  <2>2. CallInv(r) /\ UnopenedInv(r) /\ WorkerInv(r)
    BY <2>1 DEF Init, CallInv, UnopenedInv, WorkerInv
  <2>3. StreakInv(r) /\ FirstInv(r)
    BY SessionAssumption DEF Init, StreakInv, FirstInv
  <2>4. AbroadInv(r) /\ LogInv(r)
    BY <2>1, IdsOfRun DEF Init, AbroadInv, LogInv
  <2> QED BY <2>2, <2>3, <2>4 DEF RunInv
<1> QED BY <1>1, <1>2, <1>3 DEF SessionsInv

LEMMA StutterKeeps ==
  ASSUME SessionsInv, UNCHANGED vars
  PROVE  SessionsInv'
<1>1. SessionsTypeOK' /\ ClaudeInv'
  BY DEF SessionsInv, SessionsTypeOK, ClaudeInv, vars, claude, history
<1>2. ASSUME NEW r \in Runs PROVE RunInv(r)'
  BY DEF SessionsInv, RunInv, CallInv, StreakInv, FirstInv, UnopenedInv, Unopened,
         AbroadInv, LogInv, WorkerInv, Owner, Ours, Minted, Branch, vars, claude,
         history
<1> QED BY <1>1, <1>2 DEF SessionsInv

LEMMA NextSessionsInv ==
  ASSUME SessionsInv, [Next]_vars
  PROVE  SessionsInv'
<1>1. ASSUME NEW r \in Runs, RunStep(r) PROVE SessionsInv'
  <2>1. ASSUME NEW parent \in Runs, ForkRun(r, parent) PROVE SessionsInv'
    <3>1. row[parent] \in SessionIds \cup {NoSession}
      BY DEF SessionsInv, SessionsTypeOK
    <3> QED BY <2>1, <3>1, BeginKeeps DEF ForkRun, ParentSession
  <2> QED
    BY <1>1, <2>1, BeginKeeps, StartQueryKeeps, AttemptMissesKeeps,
       AttemptLostKeeps, AttemptRepliesKeeps, ParseReplyKeeps, SubmitJobKeeps,
       PollWorkerKeeps, RefreshFailsKeeps, EndRunKeeps DEF RunStep, StartRun
<1>2. ASSUME NEW r \in Runs, WorkerStep(r) PROVE SessionsInv'
  BY <1>2, WorkerCallKeeps, WorkerCallFailsKeeps DEF WorkerStep
<1>3. CASE UNCHANGED vars
  BY <1>3, StutterKeeps
<1> QED BY <1>1, <1>2, <1>3 DEF Next, AllEnded

(* The inductive invariant holds of every behaviour.                       *)
LEMMA SessionsInvHolds == Spec => []SessionsInv
BY InitSessionsInv, NextSessionsInv, PTL DEF Spec

(* The retry counter, the failure streak and all ids stay in their types,  *)
(* for every number of runs, retries and failures (query_planner,          *)
(* _on_planner_failed).                                                    *)
THEOREM SessionsTypesHold == Spec => []SessionsTypeOK
<1>1. SessionsInv => SessionsTypeOK
  BY DEF SessionsInv
<1> QED BY <1>1, SessionsInvHolds, PTL

(* --session-id is never passed for a session claude already has (BUG-35,  *)
(* _build_session_args).                                                   *)
THEOREM IdsAreNotReused == Spec => []NoIdReuse
<1>1. SessionsInv => NoIdReuse
  <2> SUFFICES ASSUME SessionsInv, NEW r \in Runs, call[r].active,
                      SessionArgs(r).flag = "create"
               PROVE  SessionArgs(r).id \notin sessions
    BY DEF NoIdReuse
  <2>1. Unopened(r) /\ SessionArgs(r).id = Minted(r)
    BY ArgsCases
  <2> QED BY <2>1 DEF SessionsInv, RunInv, UnopenedInv, Ours
<1> QED BY <1>1, SessionsInvHolds, PTL

(* A run writes in another run's conversation only as a fork whose first   *)
(* attempt brought no answer (query_planner's retries).                    *)
THEOREM ParentsAreIntact == Spec => []ParentIntact
<1>1. SessionsInv => ParentIntact
  BY DEF SessionsInv, RunInv, AbroadInv, ParentIntact, Mishap
<1> QED BY <1>1, SessionsInvHolds, PTL

(* The session a run resumes holds every prompt the run got an answer to   *)
(* (_on_planner_responded's adoption of the id), if claude names the       *)
(* session in every envelope (ReplyAssumption).                            *)
THEOREM ConversationIsOne == Spec => []OneConversation
<1>1. SessionsInv => OneConversation
  BY DEF SessionsInv, RunInv, LogInv, OneConversation
<1> QED BY <1>1, SessionsInvHolds, PTL

(* The three calls of a summarization job stay in the conversation the job *)
(* was submitted in (run_summarization reading holder.state).              *)
THEOREM JobsStayHome == Spec => []WorkerStaysHome
<1>1. SessionsInv => WorkerStaysHome
  <2> SUFFICES ASSUME SessionsInv, NEW r \in Runs, worker[r].phase = "running"
               PROVE  /\ st[r].claude_session_id = worker[r].home
                      /\ worker[r].home \in sessions
    BY DEF WorkerStaysHome
  <2>1. RunInv(r) /\ SessionsTypeOK /\ ClaudeInv
    BY DEF SessionsInv
  <2>2. answered[r] # {} /\ worker[r].home = st[r].claude_session_id
    BY <2>1 DEF RunInv, WorkerInv
  <2>3. log[st[r].claude_session_id] # {}
    BY <2>1, <2>2 DEF RunInv, LogInv
  <2>4. st[r].claude_session_id \in SessionIds
    BY <2>1, RunTypes
  <2> QED BY <2>1, <2>2, <2>3, <2>4 DEF ClaudeInv
<1> QED BY <1>1, SessionsInvHolds, PTL

(* A run whose first query failed without leaving the minted session never *)
(* gets one, nor any answer (_on_planner_failed clears is_first_call).     *)
THEOREM LostStartsAreFatal == Spec => LostStartIsFatal
<1> DEFINE A(r) == st[r].failures > 0 /\ answered[r] = {} /\ Minted(r) \notin sessions
                     => Minted(r) \notin sessions' /\ answered'[r] = {}
<1>1. ASSUME SessionsInv, [Next]_vars, NEW r \in Runs,
             st[r].failures > 0, answered[r] = {}, Minted(r) \notin sessions
      PROVE  Minted(r) \notin sessions' /\ answered'[r] = {}
  <2>1. RunInv(r) /\ ~st[r].is_first_call /\ st[r].claude_session_id = Minted(r)
    BY <1>1 DEF SessionsInv, RunInv, StreakInv, FirstInv
  <2>2. ASSUME NEW p \in Runs, call[p].active, Record(p)
        PROVE  Minted(r) \notin sessions'
    <3>1. CASE p = r
      BY <1>1, <2>1, <2>2, <3>1, RecordEffect
    <3>2. CASE p # r
      BY <1>1, <2>2, <3>2, RecordEffect, IdsOfRun DEF Grows, Ours
    <3> QED BY <3>1, <3>2
  <2>3. ASSUME NEW p \in Runs, ParseReply(p)
        PROVE  answered'[r] = {}
    <3>1. CASE p = r
      <4>1. call[r].session = Minted(r) /\ <<r, asked[r]>> \in log[Minted(r)]
        BY <2>1, <2>3, <3>1 DEF ParseReply, RunInv, LogInv
      <4> QED BY <4>1, <1>1, IdsOfRun DEF SessionsInv, ClaudeInv
    <3>2. CASE p # r
      <4>1. answered \in [Runs -> SUBSET (1 .. MaxQueries)]
        BY <1>1 DEF SessionsInv, SessionsTypeOK
      <4>2. CASE ParseResponse(stdout[p]).ok
        BY <4>1, <4>2, <1>1, <2>3, <3>2 DEF ParseReply
      <4>3. CASE ~ParseResponse(stdout[p]).ok
        BY <4>3, <1>1, <2>3 DEF ParseReply
      <4> QED BY <4>2, <4>3
    <3> QED BY <3>1, <3>2
  <2>4. ASSUME NEW p \in Runs, RunStep(p)
        PROVE  Minted(r) \notin sessions' /\ answered'[r] = {}
    <3>1. CASE AttemptLost(p) \/ AttemptReplies(p)
      BY <3>1, <2>2, <1>1 DEF AttemptLost, AttemptReplies
    <3>2. CASE ParseReply(p)
      BY <3>2, <2>3, <1>1 DEF ParseReply, claude
    <3>3. CASE AttemptMisses(p) \/ StartQuery(p) \/ SubmitJob(p)
      BY <3>3, <1>1 DEF AttemptMisses, StartQuery, SubmitJob, claude
    <3>4. CASE PollWorker(p) \/ RefreshFails(p) \/ EndRun(p)
      BY <3>4, <1>1 DEF PollWorker, RefreshFails, EndRun, claude, history
    <3>5. CASE StartRun(p) \/ \E parent \in Runs \ {p} : ForkRun(p, parent)
      BY <3>5, <1>1 DEF StartRun, ForkRun, Begin, claude, history
    <3> QED BY <2>4, <3>1, <3>2, <3>3, <3>4, <3>5 DEF RunStep
  <2>5. ASSUME NEW p \in Runs, WorkerStep(p)
        PROVE  Minted(r) \notin sessions' /\ answered'[r] = {}
    BY <2>5, <1>1 DEF WorkerStep, WorkerCall, WorkerCallFails, claude, history
  <2>6. CASE UNCHANGED vars
    BY <2>6, <1>1 DEF vars, claude, history
  <2> QED BY <1>1, <2>4, <2>5, <2>6 DEF Next, AllEnded
<1>2. SessionsInv /\ [Next]_vars => [\A r \in Runs : A(r)]_vars
  BY <1>1
<1> QED BY <1>2, SessionsInvHolds, PTL DEF Spec, LostStartIsFatal

(* Whatever JSON claude prints, parse_response takes it exactly when it    *)
(* has the required shape, and every command of it, in order, then types   *)
(* something and keeps to _MAX_DURATION.                                   *)
THEOREM RepliesAreJudgedByShape == Spec => []ReplyJudgedByShape
<1>1. SessionsInv => ReplyJudgedByShape
  <2> SUFFICES ASSUME SessionsInv, NEW r \in Runs, stdout[r] # NoReply
               PROVE  JudgedByShape(stdout[r])
    BY DEF ReplyJudgedByShape
  <2>1. stdout[r] \in Replies
    BY DEF SessionsInv, SessionsTypeOK
  <2> QED BY <2>1, ReplyAssumption, ResponseFacts
<1> QED BY <1>1, SessionsInvHolds, PTL
=============================================================================
