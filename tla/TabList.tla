-------------------------------- MODULE TabList --------------------------------
(***************************************************************************)
(* What a caller of a browser runtime relies on: pages come and go, and a  *)
(* call that names none gets the one chosen by the call before it.         *)
(***************************************************************************)
CONSTANTS Page, None

VARIABLES open, chosen

TabListInit == open = {} /\ chosen = None

\* A call opens a page or works on one: it is the chosen one from then on.
Choose(g) == open' \in {open, open \cup {g}} /\ g \in open' /\ chosen' = g

\* Pages that no call asked for do not change the choice.
Appear == open \subseteq open' /\ open' \subseteq Page /\ UNCHANGED chosen

\* Pages go; if the chosen one does, another may be chosen.
Go == open' \subseteq open /\ chosen' \in IF chosen \in open' THEN {chosen} ELSE open' \cup {None}

\* The tab of a call about a page: closing it leaves the choice open.
Close(g) == open' = open \ {g} /\ chosen' \in open' \cup {None}

TabListNext ==
    \/ Appear \/ Go
    \/ \E g \in Page : Choose(g) \/ Close(g)

TabListSpec == TabListInit /\ [][TabListNext]_<<open, chosen>>
==============================================================================
