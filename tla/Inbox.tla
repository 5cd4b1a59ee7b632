-------------------------------- MODULE Inbox --------------------------------
(***************************************************************************)
(* What the gateway relies on when it takes messages from a channel: in    *)
(* one life of the process a message comes at most once, and those of one  *)
(* chat come in the order in which they were written.  Messages may be     *)
(* missing.  A message is a pair of its chat and its place in that chat.   *)
(***************************************************************************)
EXTENDS Integers, Sequences, SequencesExt

VARIABLE taken

InboxInit == taken = <<>>

InChatOrder(s) ==
    \A j, k \in DOMAIN s : j < k /\ s[j].chat = s[k].chat => s[j].at < s[k].at

Take == IsPrefix(taken, taken') /\ InChatOrder(taken')

Forget == taken' = <<>>

InboxSpec == InboxInit /\ [][Take \/ Forget]_taken
==============================================================================
