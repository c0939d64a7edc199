----------------------------- MODULE MCTerminal -----------------------------
(* Values of Terminal's constants for TLC.                                 *)
EXTENDS Terminal

\* A command of two lines that is cut in the second, and has a character wider
\* than a chunk may be.
MCTexts == {[widths |-> <<1, 1, 1, 4>>, newlines |-> {2}]}
\* A command that is sent in one piece.
MCShortTexts == {[widths |-> <<1>>, newlines |-> {}]}
MCDurations == {-1, 0, 3}
=============================================================================
