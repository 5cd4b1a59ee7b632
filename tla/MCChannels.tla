---------------------------- MODULE MCChannels ----------------------------
(***************************************************************************)
(* The channels' modules for TLC.  A behaviour is one of one of them, with *)
(* one channel configured: what they share is the bus, whose order and     *)
(* losses the Gateway module has.                                          *)
(***************************************************************************)
EXTENDS PollIntake, PushIntake, FeishuMedia, ChannelSend, WhatsAppBridge

VARIABLE part \* the module that moves

vars == <<part, pollVars, pushVars, mediaVars, sendVars, bridgeVars>>

MCChats == <<"c1", "c2">>
MCHeadOf == [m1 |-> "h", m2 |-> "h", m3 |-> "g"]
MCMaxKeys == [m1 |-> 2, m2 |-> 1, m3 |-> 1]

MCInit ==
    /\ part \in {"poll", "push", "media", "send", "bridge"}
    /\ PollInit   /\ (part = "poll" <=> adapter # "none")
    /\ PushInit   /\ (part = "push" <=> pusher # "none")
    /\ MediaInit
    /\ SendInit   /\ (part = "send" <=> sender # "none")
    /\ BridgeInit /\ (part = "bridge" <=> secret # "none")

MCNext ==
    \/ part = "poll" /\ PollNext
       /\ UNCHANGED <<part, pushVars, mediaVars, sendVars, bridgeVars>>
    \/ part = "push" /\ PushNext
       /\ UNCHANGED <<part, pollVars, mediaVars, sendVars, bridgeVars>>
    \/ part = "media" /\ MediaNext
       /\ UNCHANGED <<part, pollVars, pushVars, sendVars, bridgeVars>>
    \/ part = "send" /\ SendNext
       /\ UNCHANGED <<part, pollVars, pushVars, mediaVars, bridgeVars>>
    \/ part = "bridge" /\ BridgeNext
       /\ UNCHANGED <<part, pollVars, pushVars, mediaVars, sendVars>>

MCSpec == MCInit /\ [][MCNext]_vars /\ PollFairness

\* Within one life of the process, the messages that a channel publishes are
\* published once and those of a chat in order, by the adapters that promise it:
\* run_poll_loop's, WeCom's and QQ's handlers, and the WhatsApp bridge's client,
\* whose bridge tells nobody that lacks its token.
ChannelsKeepOrder ==
    /\ PollKeepsOrder /\ PushKeepsOrder /\ BridgeKeepsOrder
    /\ [](PollTypeOK /\ PushTypeOK /\ SendTypeOK /\ BridgeTypeOK /\ TokenGuards)
===========================================================================
