---------------------------- MODULE WhatsAppBridge ----------------------------
(***************************************************************************)
(* WhatsApp takes two processes: the bridge, in Node, holds the WhatsApp   *)
(* socket and a WebSocket server; the channel, in Python, is its client.   *)
(* What the bridge broadcasts while no client has joined is lost, and the  *)
(* channel knows WhatsApp's state only from the statuses it was sent.      *)
(***************************************************************************)
EXTENDS Integers, Sequences, FiniteSets, SequencesExt

CONSTANTS Secrets,     \* of "free" (no token), "right", "wrong", "missing"
          MaxArrivals, \* bound: messages that come from WhatsApp
          MaxReplies,  \* bound: answers of the agent
          MaxFrames    \* bound: frames in flight in one direction

ASSUME BridgeAssumption ==
    /\ Secrets \subseteq {"free", "right", "wrong", "missing"}
    /\ {MaxArrivals, MaxReplies, MaxFrames} \subseteq Nat \ {0}

VARIABLES
    secret,    \* BRIDGE_TOKEN against bridge_token, or "none": WhatsApp is not configured
    bridge,    \* the bridge process runs
    wa,        \* its WhatsApp socket: "none", "connecting", "open", "closed", "logged out"
    retry,     \* reconnecting: the timer of five seconds is set
    link,      \* the WebSocket: "down", "greeting" (no first frame yet), "joined"
    upward,    \* the frames on their way to the channel
    downward,  \* the frames on their way to the bridge
    executing, \* the replies in handleCommand, which awaits WhatsApp
    listening, \* the channel's _listen_task runs
    connected, \* its _connected
    arrivals,  \* the messages that came from WhatsApp
    told,      \* the messages published on the bus in this life of the channel
    replies,   \* the answers handed to send()
    delivered  \* the replies WhatsApp took

bridgeProcess == <<bridge, wa, retry>>
channelState == <<listening, connected, told>>
bridgeCounts == <<arrivals, replies>>
bridgeVars == <<secret, bridge, wa, retry, link, upward, downward, executing,
                listening, connected, arrivals, told, replies, delivered>>

Status(up) == [type |-> "status", up |-> up]
Message(i) == [type |-> "message", nr |-> i]
Reply(n) == [type |-> "send", nr |-> n]
Auth == [type |-> "auth"]

BridgeInit ==
    /\ secret \in Secrets \cup {"none"}
    /\ bridge = FALSE /\ wa = "none" /\ retry = FALSE
    /\ link = "down" /\ upward = <<>> /\ downward = <<>> /\ executing = {}
    /\ listening = FALSE /\ connected = FALSE
    /\ arrivals = 0 /\ told = <<>> /\ replies = 0 /\ delivered = <<>>

\* broadcast: to the client, if one has joined.
Broadcast(frame) == upward' = IF link = "joined" THEN Append(upward, frame) ELSE upward

\* The connection breaks: the channel's loop forgets _ws and _connected.
LinkBreaks ==
    /\ link' = "down" /\ upward' = <<>> /\ downward' = <<>> /\ connected' = FALSE

-----------------------------------------------------------------------------
\* index.ts: the server listens, and WhatsApp is called.
StartBridge ==
    /\ secret # "none" /\ ~bridge
    /\ bridge' = TRUE /\ wa' = "connecting" /\ retry' = FALSE
    /\ UNCHANGED <<secret, link, upward, downward, executing, channelState, bridgeCounts, delivered>>

\* A signal: the clients are closed, WhatsApp is disconnected, the process exits.
\* Or the process dies: a connect() that rejects in the timer is caught by nobody.
EndBridge ==
    /\ bridge
    /\ bridge' = FALSE /\ wa' = "none" /\ retry' = FALSE /\ executing' = {}
    /\ LinkBreaks
    /\ UNCHANGED <<secret, listening, told, bridgeCounts, delivered>>

\* connection.update with "open"
WhatsAppOpens ==
    /\ wa = "connecting" /\ Len(upward) < MaxFrames
    /\ wa' = "open"
    /\ Broadcast(Status(TRUE))
    /\ UNCHANGED <<secret, bridge, retry, link, downward, executing, channelState, bridgeCounts, delivered>>

\* connection.update with "close": connected again in five seconds, unless the
\* account was logged out.
WhatsAppCloses ==
    /\ wa \in {"connecting", "open"} /\ Len(upward) < MaxFrames
    /\ \/ wa' = "closed" /\ retry' = TRUE
       \/ wa' = "logged out" /\ UNCHANGED retry
    /\ Broadcast(Status(FALSE))
    /\ UNCHANGED <<secret, bridge, link, downward, executing, channelState, bridgeCounts, delivered>>

Reconnect ==
    /\ retry /\ retry' = FALSE /\ wa' = "connecting"
    /\ UNCHANGED <<secret, bridge, link, upward, downward, executing, channelState, bridgeCounts, delivered>>

\* messages.upsert: what has no content, is one's own or a status update is left
\* out; such messages are no arrivals.
MessageArrives ==
    /\ wa = "open" /\ arrivals < MaxArrivals /\ Len(upward) < MaxFrames
    /\ arrivals' = arrivals + 1
    /\ Broadcast(Message(arrivals'))
    /\ UNCHANGED <<secret, bridgeProcess, link, downward, executing, channelState, replies, delivered>>

\* The first frame of a client that must prove itself: setupClient, or the
\* connection is closed.
FirstFrame ==
    /\ link = "greeting" /\ downward # <<>>
    /\ IF Head(downward) = Auth /\ secret = "right"
       THEN /\ link' = "joined" /\ downward' = Tail(downward)
            /\ UNCHANGED <<upward, connected>>
       ELSE LinkBreaks
    /\ UNCHANGED <<secret, bridgeProcess, executing, listening, told, bridgeCounts, delivered>>

\* No first frame in five seconds, an error, the network.
LinkLost ==
    /\ link # "down"
    /\ LinkBreaks
    /\ UNCHANGED <<secret, bridgeProcess, executing, listening, told, bridgeCounts, delivered>>

\* The handler of a client that has joined: each frame is handled by an async
\* function of its own, up to the call of WhatsApp.
TakeCommand ==
    /\ link = "joined" /\ downward # <<>> /\ Len(upward) < MaxFrames
    /\ downward' = Tail(downward)
    /\ executing' = IF Head(downward).type = "send" /\ wa # "none"
                    THEN executing \cup {Head(downward).nr} ELSE executing
    /\ UNCHANGED <<secret, bridgeProcess, link, upward, channelState, bridgeCounts, delivered>>

\* WhatsApp takes the reply or the call raises; the acknowledgement or error that
\* goes up is ignored by the channel.
CommandEnds(n) ==
    /\ n \in executing
    /\ executing' = executing \ {n}
    /\ \/ wa = "open" /\ delivered' = Append(delivered, n)
       \/ UNCHANGED delivered
    /\ UNCHANGED <<secret, bridgeProcess, link, upward, downward, channelState, bridgeCounts>>

-----------------------------------------------------------------------------
\* start()
StartListening ==
    /\ secret # "none" /\ ~listening
    /\ listening' = TRUE
    /\ UNCHANGED <<secret, bridgeProcess, link, upward, downward, executing,
                   connected, told, bridgeCounts, delivered>>

\* stop(): _connected is reset, the WebSocket closed, the task cancelled.
StopListening ==
    /\ listening
    /\ listening' = FALSE /\ told' = <<>>
    /\ LinkBreaks
    /\ UNCHANGED <<secret, bridgeProcess, executing, bridgeCounts, delivered>>

\* Mutant: the channel waits for a status before it takes itself for connected.
Join_WaitsForStatus ==
    /\ listening /\ bridge /\ link = "down"
    /\ link' = IF secret = "free" THEN "joined" ELSE "greeting"
    /\ downward' = IF secret \in {"missing", "free"} THEN <<>> ELSE <<Auth>>
    /\ UNCHANGED <<secret, bridgeProcess, upward, executing, channelState, bridgeCounts, delivered>>

\* _run_connection_loop: the connection stands, the token goes out first, and
\* the channel takes itself for connected whatever WhatsApp's state is.
Join ==
    /\ listening /\ bridge /\ link = "down"
    /\ link' = IF secret = "free" THEN "joined" ELSE "greeting"
    /\ connected' = TRUE
    /\ downward' \in CASE secret = "missing" -> {<<>>}
                       [] secret = "free" -> {<<>>, <<Auth>>}
                       [] OTHER -> {<<Auth>>}
    /\ UNCHANGED <<secret, bridgeProcess, upward, executing, listening, told, bridgeCounts, delivered>>

\* _handle_bridge_message
TakeFrame ==
    /\ upward # <<>>
    /\ LET frame == Head(upward)
       IN /\ connected' = IF frame.type = "status" THEN frame.up ELSE connected
          /\ told' = IF frame.type = "message" THEN Append(told, frame.nr) ELSE told
    /\ upward' = Tail(upward)
    /\ UNCHANGED <<secret, bridgeProcess, link, downward, executing, listening, bridgeCounts, delivered>>

\* send(): an answer is dropped when the channel does not take itself for connected.
SendReply ==
    /\ listening /\ replies < MaxReplies /\ Len(downward) < MaxFrames
    /\ replies' = replies + 1
    /\ downward' = IF connected THEN Append(downward, Reply(replies')) ELSE downward
    /\ UNCHANGED <<secret, bridgeProcess, link, upward, executing, channelState, arrivals, delivered>>

BridgeNext ==
    \/ StartBridge \/ EndBridge \/ WhatsAppOpens \/ WhatsAppCloses \/ Reconnect
    \/ MessageArrives \/ FirstFrame \/ LinkLost \/ TakeCommand
    \/ \E n \in 1 .. MaxReplies : CommandEnds(n)
    \/ StartListening \/ StopListening \/ Join \/ TakeFrame \/ SendReply

BridgeSpec == BridgeInit /\ [][BridgeNext]_bridgeVars

-----------------------------------------------------------------------------
\* The variables have their types.
BridgeTypeOK ==
    /\ secret \in Secrets \cup {"none"} /\ {bridge, retry, listening, connected} \subseteq BOOLEAN
    /\ wa \in {"none", "connecting", "open", "closed", "logged out"}
    /\ link \in {"down", "greeting", "joined"}
    /\ Len(upward) <= MaxFrames /\ Len(downward) <= MaxFrames
    /\ executing \subseteq 1 .. replies /\ delivered \in Seq(1 .. replies)
    /\ told \in Seq(1 .. arrivals)

\* What _connected will be when the frames in flight have been handled: what the
\* last status among them says, or what it is.
WillBeConnected ==
    \/ connected /\ \A k \in DOMAIN upward : upward[k].type # "status"
    \/ \E k \in DOMAIN upward :
          /\ upward[k] = Status(TRUE)
          /\ \A j \in k + 1 .. Len(upward) : upward[j].type # "status"

\* The channel never stays mute beside a WhatsApp that is open: whatever breaks
\* and comes back in which order, once a client has joined and WhatsApp is open,
\* what is in flight leaves _connected true.
NeverMute == link = "joined" /\ wa = "open" => WillBeConnected

\* Who cannot show the bridge's token gets no message out of it and none through
\* it, whatever it sends first or next.
TokenGuards ==
    secret \in {"wrong", "missing"} => told = <<>> /\ upward = <<>> /\ delivered = <<>>

BridgeInbox == INSTANCE Inbox WITH taken <- [k \in DOMAIN told |-> [chat |-> "any", at |-> told[k]]]

\* What comes from WhatsApp is published once and in order in one life of the
\* channel, with losses while the bridge had nobody to tell.
BridgeKeepsOrder == BridgeInbox!InboxSpec
==============================================================================
