------------------------- MODULE MCPlannerSessions --------------------------
(* Two runs, each able to fork the other, and one reply of each kind that  *)
(* parse_response tells apart.                                             *)
EXTENDS PlannerSessions, TLC

Text(value) == [str |-> "json", holds |-> value]
Object(d) == [dict |-> d]
Prose == [str |-> "text"]

MCCommand == Object([keystrokes |-> Prose, duration |-> [num |-> 90]])
MCBare == Object([keystrokes |-> Prose])
MCEmpty == Object([keystrokes |-> [str |-> ""]])
MCFlag == Object([keystrokes |-> Prose, duration |-> [bool |-> TRUE]])

MCBody(items) ==
  [analysis |-> Prose, plan |-> Prose, commands |-> [list |-> items],
   task_complete |-> [bool |-> FALSE]]
MCUnfinished ==
  [analysis |-> Prose, plan |-> Prose, commands |-> [list |-> <<>>]]
MCNoCommands ==
  [analysis |-> Prose, plan |-> Prose, task_complete |-> [bool |-> TRUE]]

\* What a schema run prints: the body beside an empty result.
MCSchema(body) ==
  Text(Object([structured_output |-> Object(body), result |-> [str |-> ""],
               session_id |-> Prose]))
MCPlain(result) ==
  Text(Object([structured_output |-> [null |-> TRUE], result |-> result,
               session_id |-> Prose]))

\* One reply that is accepted and one that is not.
MCTwoReplies == {MCSchema(MCNoCommands), MCPlain([str |-> ""])}

MCSymmetry == Permutations(Runs)

MCReplies ==
  MCTwoReplies
    \cup {MCSchema(MCBody(<<MCCommand, MCBare>>)),
          MCSchema(MCBody(<<MCBare, MCEmpty>>)), MCSchema(MCBody(<<MCFlag>>)),
          MCSchema(MCBody(<<Prose>>)), MCSchema(MCUnfinished),
          MCPlain(Text(Object(MCNoCommands))), MCPlain(Text([list |-> <<>>])),
          MCPlain(Prose), Prose, Text([list |-> <<>>]), Text(Object(<<>>))}
=============================================================================
