------------------------------ MODULE PushIntake ------------------------------
(***************************************************************************)
(* The channels to which a service pushes messages through its SDK: Feishu *)
(* from a thread of the SDK, DingTalk, WeCom and QQ in the event loop.  A  *)
(* service pushes the messages of its log in order while the connection    *)
(* stands, and may push one again that it holds for unconfirmed.           *)
(***************************************************************************)
EXTENDS Integers, Sequences, FiniteSets, SequencesExt

CONSTANTS PushAdapters, \* of "feishu", "dingtalk", "wecom", "qq"
          PushChats,    \* the chats
          MaxPosts,     \* bound: messages written
          MaxPushes,    \* bound: pushes of one message
          MaxPushLives, \* bound: starts of the process
          KnownLimit    \* how many ids WeCom and QQ remember (1000 in the code)

ASSUME PushAssumption ==
    /\ PushAdapters \subseteq {"feishu", "dingtalk", "wecom", "qq"}
    /\ {MaxPosts, MaxPushes, MaxPushLives, KnownLimit} \subseteq Nat \ {0}

VARIABLES
    pusher,   \* the channel that is configured, or "none"
    posted,   \* the service's log: chat, kind, and whether the channel passes the message on
    pushes,   \* how often the service has pushed each message in this life
    wire,     \* the connection: "off", "down" (the SDK's loop tries again), "up"
    handling, \* the coroutines of Feishu's _on_message that wait, by message
    known,    \* _processed_message_ids, _processed_ids
    frame,    \* WeCom's _chat_frames: the message whose frame is kept, by chat
    passed,   \* the messages published on the bus in this life
    pushLives \* the number of starts

pushVars == <<pusher, posted, pushes, wire, handling, known, frame, passed, pushLives>>

Posts == 1 .. Len(posted)
PostKinds == {"text", "media", "empty", "bot", "stranger"}

\* Feishu: not of a bot, allowed, and with some text: one that could not be
\* downloaded is reported in words.  An image or file always has a text.
FeishuWants(kind) == kind \notin {"empty", "bot", "stranger"}
\* DingTalk: a text and a sender; other contents have no text.
DingTalkWants(kind) == kind \notin {"empty", "media", "stranger"}
\* WeCom: media are named, mixed contents too.
WecomWants(kind) == kind \notin {"empty", "stranger"}
\* QQ: a text of a sender.
QQWants(kind) == kind \notin {"empty", "media", "stranger"}

ForAgent(kind) ==
    CASE pusher = "feishu" -> FeishuWants(kind)
      [] pusher = "dingtalk" -> DingTalkWants(kind)
      [] pusher = "wecom" -> WecomWants(kind)
      [] pusher = "qq" -> QQWants(kind)

NothingKept ==
    [pushes |-> [i \in 1 .. MaxPosts |-> 0], handling |-> [i \in 1 .. MaxPosts |-> 0],
     frame |-> [c \in PushChats |-> 0]]

PushInit ==
    /\ pusher \in PushAdapters \cup {"none"}
    /\ posted = <<>> /\ wire = "off" /\ known = <<>> /\ passed = <<>> /\ pushLives = 0
    /\ pushes = NothingKept.pushes /\ handling = NothingKept.handling
    /\ frame = NothingKept.frame

-----------------------------------------------------------------------------
Post ==
    /\ pusher # "none" /\ Len(posted) < MaxPosts
    /\ \E c \in PushChats, kind \in PostKinds :
          posted' = Append(posted, [chat |-> c, empty |-> kind = "empty", wanted |-> ForAgent(kind)])
    /\ UNCHANGED <<pusher, pushes, wire, handling, known, frame, passed, pushLives>>

\* start(): the client is made and its loop begins to connect.
StartPush ==
    /\ pusher # "none" /\ wire = "off" /\ pushLives < MaxPushLives
    /\ wire' = "down" /\ pushLives' = pushLives + 1
    /\ UNCHANGED <<pusher, posted, pushes, handling, known, frame, passed>>

\* The SDK connects; when its start() returns or raises, the channel's loop (for
\* WeCom the SDK) waits and starts it again.
Connect ==
    /\ wire = "down" /\ wire' = "up"
    /\ UNCHANGED <<pusher, posted, pushes, handling, known, frame, passed, pushLives>>

Disconnect ==
    /\ wire = "up" /\ wire' = "down"
    /\ UNCHANGED <<pusher, posted, pushes, handling, known, frame, passed, pushLives>>

\* The service pushes the next message, or one of the last KnownLimit once more.
MayPush(i) ==
    /\ wire = "up" /\ pushes[i] < MaxPushes
    /\ \A j \in 1 .. i - 1 : pushes[j] > 0
    /\ pushes[i] = 0 \/ \A j \in Posts : pushes[j] > 0 => j < i + KnownLimit

PassOn(i) == passed' = IF posted[i].wanted THEN Append(passed, i) ELSE passed

\* _on_message_sync hands the message to the event loop; the coroutine turns it
\* down or waits for the reaction, and perhaps for downloads.
PushFeishu(i) ==
    /\ pusher = "feishu" /\ MayPush(i)
    /\ handling' = IF posted[i].wanted THEN [handling EXCEPT ![i] = @ + 1] ELSE handling
    /\ pushes' = [pushes EXCEPT ![i] = @ + 1]
    /\ UNCHANGED <<pusher, posted, wire, known, frame, passed, pushLives>>

\* The waits end in any order; then the message is published.
FinishFeishu(i) ==
    /\ handling[i] > 0
    /\ handling' = [handling EXCEPT ![i] = @ - 1]
    /\ PassOn(i)
    /\ UNCHANGED <<pusher, posted, pushes, wire, known, frame, pushLives>>

\* process() publishes and confirms the message, whatever happened to it.
PushDingTalk(i) ==
    /\ pusher = "dingtalk" /\ MayPush(i)
    /\ pushes' = [pushes EXCEPT ![i] = @ + 1]
    /\ PassOn(i)
    /\ UNCHANGED <<pusher, posted, wire, handling, known, frame, pushLives>>

Remember(i) ==
    LET longer == Append(known, i)
    IN known' = IF Len(longer) > KnownLimit THEN Tail(longer) ELSE longer

\* Mutant: the frame is kept of the first message of a chat only.
PushWecom_KeepsFirstFrame(i) ==
    /\ pusher = "wecom" /\ MayPush(i)
    /\ pushes' = [pushes EXCEPT ![i] = @ + 1]
    /\ IF i \in Range(known)
       THEN UNCHANGED <<known, frame, passed>>
       ELSE /\ Remember(i) /\ PassOn(i)
            /\ frame' = [frame EXCEPT ![posted[i].chat] = IF @ = 0 THEN i ELSE @]
    /\ UNCHANGED <<pusher, posted, wire, handling, pushLives>>

\* WeCom's _process_message keeps the frame of any message with a content, a
\* stranger's too: publish_inbound asks for the sender later.
PushWecom(i) ==
    /\ pusher = "wecom" /\ MayPush(i)
    /\ pushes' = [pushes EXCEPT ![i] = @ + 1]
    /\ IF i \in Range(known)
       THEN UNCHANGED <<known, frame, passed>>
       ELSE /\ Remember(i) /\ PassOn(i)
            /\ frame' = IF posted[i].empty THEN frame ELSE [frame EXCEPT ![posted[i].chat] = i]
    /\ UNCHANGED <<pusher, posted, wire, handling, pushLives>>

\* QQ's _on_message
PushQQ(i) ==
    /\ pusher = "qq" /\ MayPush(i)
    /\ pushes' = [pushes EXCEPT ![i] = @ + 1]
    /\ IF i \in Range(known) THEN UNCHANGED <<known, passed>> ELSE Remember(i) /\ PassOn(i)
    /\ UNCHANGED <<pusher, posted, wire, handling, frame, pushLives>>

\* stop(), or the end of the process: what the channel remembers goes with it.
StopPush ==
    /\ wire # "off" /\ wire' = "off"
    /\ pushes' = NothingKept.pushes /\ handling' = NothingKept.handling
    /\ frame' = NothingKept.frame /\ known' = <<>> /\ passed' = <<>>
    /\ UNCHANGED <<pusher, posted, pushLives>>

PushNext ==
    \/ Post \/ StartPush \/ Connect \/ Disconnect \/ StopPush
    \/ \E i \in Posts :
          PushFeishu(i) \/ FinishFeishu(i) \/ PushDingTalk(i) \/ PushWecom(i) \/ PushQQ(i)

PushSpec == PushInit /\ [][PushNext]_pushVars

-----------------------------------------------------------------------------
\* The variables have their types.
PushTypeOK ==
    /\ pusher \in PushAdapters \cup {"none"}
    /\ posted \in Seq([chat : PushChats, empty : BOOLEAN, wanted : BOOLEAN])
    /\ pushes \in [1 .. MaxPosts -> 0 .. MaxPushes]
    /\ handling \in [1 .. MaxPosts -> 0 .. MaxPushes]
    /\ wire \in {"off", "down", "up"} /\ pushLives \in 0 .. MaxPushLives
    /\ known \in Seq(Posts) /\ Len(known) <= KnownLimit
    /\ passed \in Seq(Posts) /\ frame \in [PushChats -> 0 .. Len(posted)]

\* How often a message was published.
Times(i) == Cardinality({k \in DOMAIN passed : passed[k] = i})

\* Pushes and publications match: Feishu and DingTalk, which remember no ids,
\* publish a message as often as it was pushed, less the coroutines that wait;
\* WeCom and QQ publish it once, and a WeCom chat of which something was
\* published can be answered: its frame is there and no older than that message.
EachPushCounted ==
    \A i \in Posts : posted[i].wanted =>
        /\ pusher \in {"feishu", "dingtalk"} => Times(i) + handling[i] = pushes[i]
        /\ pusher \in {"wecom", "qq"} => Times(i) = IF pushes[i] = 0 THEN 0 ELSE 1
        /\ pusher = "wecom" /\ i \in Range(passed) => frame[posted[i].chat] >= i

PushInbox == INSTANCE Inbox
                 WITH taken <- IF pusher \notin {"wecom", "qq"} THEN <<>>
                               ELSE [k \in DOMAIN passed |->
                                       [chat |-> posted[passed[k]].chat, at |-> passed[k]]]

\* In one life WeCom and QQ publish no message twice and those of a chat in
\* order.  Feishu's coroutines overtake each other, and Feishu and DingTalk
\* publish what is pushed twice twice: they are not among them.
PushKeepsOrder == PushInbox!InboxSpec
==============================================================================
