------------------------------ MODULE MCGateway ------------------------------
(***************************************************************************)
(* Gateway for TLC, in two instances.  Turns: in one chat a user asks for  *)
(* help and then two questions, whose answers are streamed, and two        *)
(* sub-agents, one of them silent, share one permit.  Sessions: in a group *)
(* Ann and Bob ask a question each, Ann opens a new session and asks       *)
(* again, Bob opens one; two sub-agents resume the turns they come from.   *)
(***************************************************************************)
EXTENDS Gateway

TurnsKindOf == <<"help", "text", "text">>
TurnsSenderOf == <<"ann", "ann", "ann">>
TurnsChatOf == <<"chat", "chat", "chat">>

SessionsKindOf == <<"text", "text", "new", "text", "new">>
SessionsSenderOf == <<"ann", "bob", "ann", "ann", "bob">>
SessionsChatOf == [m \in 1 .. 5 |-> "group"]
==============================================================================
