---------------------------- MODULE PlannerReply ----------------------------
(***************************************************************************)
(* How the answer of claude -p is judged: parse_response and extract_usage *)
(* of termiclaw/planner.py over the combinators of termiclaw/validate.py.  *)
(*                                                                         *)
(* A JSON value is a record whose field names its type: [str |-> "x"],     *)
(* [num |-> 3], [bool |-> TRUE], [list |-> <<...>>], [null |-> TRUE] and   *)
(* [dict |-> [key |-> value, ...]].  A text that is itself JSON carries    *)
(* what json.loads makes of it: [str |-> "json", holds |-> value].  The    *)
(* contents of a string matter only as empty, blank or something; token    *)
(* counts, costs and the order of the keys are left out.                   *)
(***************************************************************************)
EXTENDS Integers, Sequences

CONSTANTS DefaultDuration,  \* _DEFAULT_DURATION
          MaxDuration       \* _MAX_DURATION

ASSUME DurationAssumption ==
  /\ MaxDuration \in Nat
  /\ DefaultDuration \in 0 .. MaxDuration

Ok(value) == [ok |-> TRUE, value |-> value]
Err(field) == [ok |-> FALSE, field |-> field]

\* The first result that is an error, or Ok(value) when none is.
FirstErr(results, value) ==
  LET failed == {i \in 1 .. Len(results) : ~results[i].ok}
  IN IF failed = {} THEN Ok(value)
     ELSE results[CHOOSE i \in failed : \A j \in failed : i <= j]

-----------------------------------------------------------------------------
(* termiclaw/validate.py.                                                  *)

Is(type, value) == type \in DOMAIN value

RequireDict(value, field) ==
  IF Is("dict", value) THEN Ok(value.dict) ELSE Err(field)

RequireJsonObject(text) ==
  IF Is("holds", text) THEN RequireDict(text.holds, "<root>") ELSE Err("<root>")

Required(d, field, type) ==
  IF field \in DOMAIN d /\ Is(type, d[field]) THEN Ok(d[field]) ELSE Err(field)

Optional(d, field, type, default) ==
  IF field \in DOMAIN d THEN Required(d, field, type) ELSE Ok(default)

-----------------------------------------------------------------------------
(* termiclaw/planner.py.                                                   *)

\* The guideline is an upper limit; nothing stops a duration below zero.
ClampDuration(duration) ==
  IF duration < MaxDuration THEN duration ELSE MaxDuration

ParseCommand(d) ==
  LET keystrokes == Required(d, "keystrokes", "str")
      duration == Optional(d, "duration", "num", [num |-> DefaultDuration])
  IN IF ~keystrokes.ok \/ ~duration.ok \/ keystrokes.value.str = ""
     THEN Err("commands")
     ELSE Ok([keystrokes |-> keystrokes.value.str,
              duration |-> ClampDuration(duration.value.num)])

ParseItem(item) ==
  IF Is("dict", item) THEN ParseCommand(item.dict) ELSE Err("commands")

\* A missing array is an empty one; the first bad item rejects the reply.
ExtractCommands(d) ==
  LET raw == Optional(d, "commands", "list", [list |-> <<>>])
      parsed == [i \in DOMAIN raw.value.list |-> ParseItem(raw.value.list[i])]
  IN IF ~raw.ok THEN raw
     ELSE FirstErr(parsed, [i \in DOMAIN parsed |-> parsed[i].value])

MapToParseResult(d) ==
  LET commands == ExtractCommands(d)
      done == Required(d, "task_complete", "bool")
  IN FirstErr(<<Required(d, "analysis", "str"), Required(d, "plan", "str"),
                commands, done>>,
              [commands |-> commands.value, task_complete |-> done.value.bool])

\* A wrong variant: the fallback for replies without a schema is tried first.
ParseTextFirst(stdout) ==
  LET envelope == RequireJsonObject(stdout)
      text == Required(envelope.value, "result", "str")
      body == RequireJsonObject(text.value)
  IN IF ~envelope.ok THEN envelope
     ELSE IF ~text.ok THEN text
     ELSE IF ~body.ok THEN body
     ELSE MapToParseResult(body.value)

\* The schema-valid answer is in structured_output; else the text in result
\* must be JSON itself (a blank text is not).
ParseResponse(stdout) ==
  LET envelope == RequireJsonObject(stdout)
      structured == Required(envelope.value, "structured_output", "dict")
      text == Required(envelope.value, "result", "str")
      body == RequireJsonObject(text.value)
  IN IF ~envelope.ok THEN envelope
     ELSE IF structured.ok THEN MapToParseResult(structured.value.dict)
     ELSE IF ~text.ok THEN text
     ELSE IF ~body.ok THEN body
     ELSE MapToParseResult(body.value)

\* The part of extract_usage the loop acts on: is a session id reported?
ReportsSession(stdout) ==
  LET envelope == RequireJsonObject(stdout)
  IN envelope.ok /\ "session_id" \in DOMAIN envelope.value

-----------------------------------------------------------------------------
(* The reference: what an answer must look like, said without the parser.  *)

Field(d, field, type) == field \in DOMAIN d /\ Is(type, d[field])

GoodCommand(item) ==
  /\ Is("dict", item)
  /\ Field(item.dict, "keystrokes", "str")
  /\ item.dict.keystrokes.str # ""
  /\ "duration" \in DOMAIN item.dict => Is("num", item.dict.duration)

GoodBody(d) ==
  /\ Field(d, "analysis", "str")
  /\ Field(d, "plan", "str")
  /\ Field(d, "task_complete", "bool")
  /\ "commands" \in DOMAIN d =>
       /\ Is("list", d.commands)
       /\ \A i \in DOMAIN d.commands.list : GoodCommand(d.commands.list[i])

HoldsObject(text) == Is("holds", text) /\ Is("dict", text.holds)

\* The object the answer is read from: structured_output, or what the text
\* in result holds when structured_output is absent or not an object.
Bodies(stdout) ==
  LET envelope == stdout.holds.dict
  IN IF ~HoldsObject(stdout) THEN {}
     ELSE IF Field(envelope, "structured_output", "dict")
          THEN {envelope.structured_output.dict}
     ELSE IF Field(envelope, "result", "str") /\ HoldsObject(envelope.result)
          THEN {envelope.result.holds.dict}
     ELSE {}

Acceptable(stdout) == \E d \in Bodies(stdout) : GoodBody(d)

Items(d) == IF "commands" \in DOMAIN d THEN d.commands.list ELSE <<>>

\* What parse_response owes: it accepts the answers of the right shape, and
\* each command becomes one that types something and keeps to the limit.
JudgedByShape(reply) ==
  LET parsed == ParseResponse(reply)
      commands == parsed.value.commands
  IN /\ parsed.ok <=> Acceptable(reply)
     /\ parsed.ok => \E d \in Bodies(reply) :
          /\ Len(commands) = Len(Items(d))
          /\ \A i \in 1 .. Len(commands) :
               /\ commands[i].keystrokes = Items(d)[i].dict.keystrokes.str
               /\ commands[i].keystrokes # ""
               /\ commands[i].duration <= MaxDuration

\* JSON values as this module writes them: an array is a sequence, and a
\* duration a whole number.
WellFormedBody(d) ==
  Field(d, "commands", "list") =>
    LET items == d.commands.list
    IN /\ Len(items) \in Nat /\ DOMAIN items = 1 .. Len(items)
       /\ \A i \in DOMAIN items :
            Is("dict", items[i]) /\ Field(items[i].dict, "duration", "num")
              => items[i].dict.duration.num \in Int

WellFormed(stdout) == \A d \in Bodies(stdout) : WellFormedBody(d)
=============================================================================
