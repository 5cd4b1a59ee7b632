------------------------- MODULE MCProcessSessions --------------------------
(***************************************************************************)
(* ProcessSessions for TLC: a process that may fill a block of stdout, and *)
(* then some, and says a little on stderr; or one that says little.        *)
(***************************************************************************)
EXTENDS ProcessSessions

Talkative == [stdout |-> 3, stderr |-> 1]
Terse == [stdout |-> 1, stderr |-> 0]
==============================================================================
