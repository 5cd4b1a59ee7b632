----------------------------- MODULE WakeServer ------------------------------
(***************************************************************************)
(* What the heartbeat runner promises, with no tasks, delays or reasons:   *)
(* requests coalesce into one that is owed, a run asked for by a wake      *)
(* pays exactly that one, at most one run is under way, and a run nobody   *)
(* asked for is only ever one the caller made itself.                      *)
(***************************************************************************)
VARIABLES
  owed,     \* a request waits for its run
  serving   \* the run under way: "no", "wake" or "trigger"

Init == owed = FALSE /\ serving = "no"

Ask == owed' = TRUE /\ UNCHANGED serving

\* The owed request is served.
Begin == owed /\ serving = "no" /\ owed' = FALSE /\ serving' = "wake"

\* The owed request is skipped (quiet hours, a run under way, shutdown).
Drop == owed /\ owed' = FALSE /\ UNCHANGED serving

Trigger == serving = "no" /\ serving' = "trigger" /\ UNCHANGED owed

End == serving # "no" /\ serving' = "no" /\ UNCHANGED owed

Next == Ask \/ Begin \/ Drop \/ Trigger \/ End

Spec == Init /\ [][Next]_<<owed, serving>>
==============================================================================
