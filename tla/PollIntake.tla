------------------------------ MODULE PollIntake ------------------------------
(***************************************************************************)
(* The channels that ask a service for messages: Telegram's getUpdates,    *)
(* WeChat's getupdates, the histories of Slack and Discord and the unseen  *)
(* mails of an IMAP mailbox.  They differ in what they remember, in when   *)
(* they tell the service that they have a message, and in what survives    *)
(* the process.  A message is known by its place in the service's log.     *)
(***************************************************************************)
EXTENDS Integers, Sequences, FiniteSets, SequencesExt, Enumeration

CONSTANTS PollAdapters, \* of "telegram", "weixin", "weixin_token", "slack", "discord", "email"
          PollChats,    \* the sequence poll_channels; the chats of the other services too
          MaxMessages,  \* bound: messages written in a behaviour
          MaxLives,     \* bound: starts of the process
          PageLimit,    \* the limit of one history request (20 and 50 in the code)
          SeenLimit     \* the length of WeChat's _processed_ids (1000 in the code)

ASSUME PollAssumption ==
    /\ PollAdapters \subseteq {"telegram", "weixin", "weixin_token", "slack", "discord", "email"}
    /\ PollChats \in Seq(Range(PollChats)) \ {<<>>}
    /\ \A t, u \in DOMAIN PollChats : PollChats[t] = PollChats[u] => t = u \* dedupe_stripped
    /\ {MaxMessages, MaxLives, PageLimit, SeenLimit} \subseteq Nat \ {0}

VARIABLES
    adapter,    \* the channel that is configured, or "none"
    log,        \* the messages the service has: their chat, and whether they are for the agent
    loop,       \* the poll task: "off", "ready", "asked" (a request is on its way), "working"
    turn,       \* the index in PollChats of the chat asked about
    cursor,     \* _offset - 1, _get_updates_buf, _latest_ts or _latest_message_id by chat
    settled,    \* the messages the service, or account.json, holds for dealt with
    batch,      \* the messages of the answer, or of the search, still to be looked at
    gathered,   \* the mails fetched and not yet published
    remembered, \* WeChat's _processed_ids
    heard,      \* the messages published on the bus in this life
    life,       \* the number of starts
    everHeard,  \* history: the messages published in any life
    excused     \* history: the messages lost in a way the code accepts

pollMemory == <<turn, cursor, batch, gathered, remembered>>
pollHistory == <<everHeard, excused>>
pollVars == <<adapter, log, loop, settled, heard, life, pollMemory, pollHistory>>

History == {"slack", "discord"}
Weixin == {"weixin", "weixin_token"}
MessageKinds == {"text", "media", "empty", "bot", "stranger"}

Written == 1 .. Len(log)
UpTo(n) == 1 .. n
Last1(S) == CHOOSE i \in S : \A j \in S : j <= i

\* What an adapter passes on: Telegram what has a text or a caption, ...
TelegramWants(kind) == kind \notin {"media", "empty"}
\* ... Slack what has a text, no subtype and no bot_id, Discord what has a text
\* and no author who is a bot (include_bots is off), ...
SlackWants(kind) == kind \notin {"media", "empty", "bot"}
DiscordWants(kind) == kind \notin {"media", "empty", "bot"}
\* ... WeChat media too, with a note in place of what could not be downloaded, ...
WeixinWants(kind) == kind \notin {"empty", "bot"}
\* ... and the mail adapter every mail that has a sender.
EmailWants(kind) == TRUE

\* publish_inbound drops what comes from a sender who is not in allow_from.
Allowed(kind) == kind # "stranger"

Wanted(kind) ==
    /\ Allowed(kind)
    /\ CASE adapter = "telegram" -> TelegramWants(kind)
         [] adapter = "slack" -> SlackWants(kind)
         [] adapter = "discord" -> DiscordWants(kind)
         [] adapter \in Weixin -> WeixinWants(kind)
         [] adapter = "email" -> EmailWants(kind)

PollInit ==
    /\ adapter \in PollAdapters \cup {"none"}
    /\ log = <<>> /\ loop = "off" /\ settled = {} /\ heard = <<>> /\ life = 0
    /\ turn = 1 /\ cursor = [t \in DOMAIN PollChats |-> 0]
    /\ batch = <<>> /\ gathered = <<>> /\ remembered = <<>>
    /\ everHeard = {} /\ excused = {}

\* publish_inbound for each of the messages s, none of which suspends: the bus
\* is unbounded.  Bot messages, empty ones and those of strangers are dropped.
Publish(s) ==
    LET told == Picked(s, {j \in DOMAIN s : log[s[j]].wanted})
    IN /\ heard' = heard \o told
       /\ everHeard' = everHeard \cup Range(told)

-----------------------------------------------------------------------------
\* Somebody writes a message.  The services that have no chats to ask about hand
\* out one stream: one chat stands for it.
Write ==
    /\ adapter # "none" /\ Len(log) < MaxMessages
    /\ \E c \in Range(PollChats), kind \in MessageKinds :
          /\ adapter \notin History => c = PollChats[1]
          /\ log' = Append(log, [chat |-> c, wanted |-> Wanted(kind)])
    /\ UNCHANGED <<adapter, loop, settled, heard, life, pollMemory, pollHistory>>

\* The process ends: what it remembers is gone.
ForgetAll ==
    /\ turn' = 1 /\ cursor' = [t \in DOMAIN PollChats |-> 0]
    /\ gathered' = <<>> /\ remembered' = <<>> /\ heard' = <<>>

\* start() in a new process.  Only WeChat reads what it kept, and only when the
\* token is not in the configuration.
StartPolling ==
    /\ adapter # "none" /\ loop = "off" /\ batch = <<>> /\ life < MaxLives
    /\ loop' = "ready" /\ life' = life + 1
    /\ cursor' = IF adapter = "weixin" /\ settled # {}
                 THEN [cursor EXCEPT ![1] = Last1(settled)] ELSE cursor
    /\ UNCHANGED <<adapter, log, settled, heard, turn, batch, gathered, remembered, pollHistory>>

\* A request leaves.  Telegram forgets what is below the offset it is asked with.
Ask ==
    /\ loop = "ready"
    /\ loop' = "asked"
    /\ settled' = IF adapter = "telegram" THEN settled \cup UpTo(cursor[1]) ELSE settled
    /\ UNCHANGED <<adapter, log, heard, life, pollMemory, pollHistory>>

\* It fails, times out or finds the session expired: the iteration ends, the
\* chats of poll_channels after this one are not asked about.
AskFails ==
    /\ loop = "asked"
    /\ loop' = "ready" /\ turn' = 1
    /\ UNCHANGED <<adapter, log, settled, cursor, batch, gathered, remembered, heard, life, pollHistory>>

\* Mutant: the offset is one too high.
TakeUpdates_SkipsOne ==
    /\ adapter = "telegram" /\ loop = "asked"
    /\ LET new == {i \in Written \ settled : i > cursor[1] + 1}
       IN /\ Publish(InOrder(new))
          /\ cursor' = IF new = {} THEN cursor ELSE [cursor EXCEPT ![1] = Last1(new)]
    /\ loop' = "ready"
    /\ UNCHANGED <<adapter, log, settled, turn, batch, gathered, remembered, life, excused>>

\* Telegram's _poll_once: the offset is raised and the update published in one stretch.
TakeUpdates ==
    /\ adapter = "telegram" /\ loop = "asked"
    /\ LET new == {i \in Written \ settled : i > cursor[1]}
       IN /\ Publish(InOrder(new))
          /\ cursor' = IF new = {} THEN cursor ELSE [cursor EXCEPT ![1] = Last1(new)]
    /\ loop' = "ready"
    /\ UNCHANGED <<adapter, log, settled, turn, batch, gathered, remembered, life, excused>>

\* One chat's part of an iteration over poll_channels: a page of what is newer
\* than the cursor.  Which end of a longer history it shows is the service's affair.
TakePage ==
    /\ loop = "asked"
    /\ LET new == InOrder({i \in Written : i > cursor[turn] /\ log[i].chat = PollChats[turn]})
           size == IF Len(new) < PageLimit THEN Len(new) ELSE PageLimit
       IN \E page \in {SubSeq(new, 1, size), SubSeq(new, Len(new) - size + 1, Len(new))} :
             /\ Publish(page)
             /\ cursor' = IF page = <<>> THEN cursor ELSE [cursor EXCEPT ![turn] = Last(page)]
             /\ excused' = excused \cup {i \in Range(new) \ Range(page) : i < Last(page)}
    /\ turn' = IF turn < Len(PollChats) THEN turn + 1 ELSE 1
    /\ loop' = IF turn < Len(PollChats) THEN "asked" ELSE "ready"
    /\ UNCHANGED <<adapter, log, settled, batch, gathered, remembered, life>>

\* conversations.history of Slack's _poll_once
TakeSlackHistory == adapter = "slack" /\ TakePage

\* /channels/{id}/messages of Discord's _poll_once
TakeDiscordHistory == adapter = "discord" /\ TakePage

\* WeChat's _poll_once: the cursor moves, and is saved if the file can be
\* written, before the messages are looked at.  The service may repeat a
\* message it gave in this life, if no more than SeenLimit came since.
TakeBatch ==
    /\ adapter \in Weixin /\ loop = "asked"
    /\ LET new == {i \in Written : i > cursor[1]}
           recent == {i \in Range(heard) : i > cursor[1] - SeenLimit}
       IN \E again \in {{}} \cup {{i} : i \in recent} :
             /\ batch' = InOrder(again) \o InOrder(new)
             /\ cursor' = IF new = {} THEN cursor ELSE [cursor EXCEPT ![1] = Last1(new)]
             /\ settled' \in {settled, UpTo(cursor'[1])}
             /\ loop' = IF batch' = <<>> THEN "ready" ELSE "working"
    /\ UNCHANGED <<adapter, log, turn, gathered, remembered, heard, life, pollHistory>>

\* Mutant: the id is remembered and not asked for.
ProcessMessage_AsksForNoId ==
    /\ adapter \in Weixin /\ loop = "working"
    /\ remembered' = IF Len(remembered) = SeenLimit
                     THEN Append(Tail(remembered), Head(batch)) ELSE Append(remembered, Head(batch))
    /\ Publish(<<Head(batch)>>)
    /\ batch' = Tail(batch)
    /\ loop' = IF batch' = <<>> THEN "ready" ELSE "working"
    /\ UNCHANGED <<adapter, log, settled, turn, cursor, gathered, life, excused>>

\* WeChat's _process_message: the id is remembered first; a download of media,
\* which suspends, comes before the message is published.
ProcessMessage ==
    /\ adapter \in Weixin /\ loop = "working"
    /\ LET i == Head(batch)
           longer == Append(remembered, i)
       IN IF i \in Range(remembered)
          THEN UNCHANGED <<remembered, heard, everHeard>>
          ELSE /\ remembered' = IF Len(longer) > SeenLimit THEN Tail(longer) ELSE longer
               /\ Publish(<<i>>)
    /\ batch' = Tail(batch)
    /\ loop' = IF batch' = <<>> THEN "ready" ELSE "working"
    /\ UNCHANGED <<adapter, log, settled, turn, cursor, gathered, life, excused>>

\* _fetch_unseen_sync, in a thread of its own: the search, ...
SearchUnseen ==
    /\ adapter = "email" /\ loop = "asked"
    /\ loop' = "working"
    /\ batch' = InOrder(Written \ settled)
    /\ UNCHANGED <<adapter, log, settled, turn, cursor, gathered, remembered, heard, life, pollHistory>>

\* ... for each mail the fetch and the flag \Seen.  stop() does not stop the
\* thread: what it still fetches nobody takes.
FetchMail ==
    /\ adapter = "email" /\ loop \in {"working", "off"} /\ batch # <<>>
    /\ settled' = settled \cup {Head(batch)}
    /\ gathered' = IF loop = "off" THEN gathered ELSE Append(gathered, Head(batch))
    /\ excused' = IF loop = "off" THEN excused \cup {Head(batch)} ELSE excused
    /\ batch' = Tail(batch)
    /\ UNCHANGED <<adapter, log, loop, turn, cursor, remembered, heard, life, everHeard>>

\* A refused flag goes unnoticed (bounded: not when the bus has had MaxMessages).
FetchUnflagged ==
    /\ adapter = "email" /\ loop = "working" /\ batch # <<>> /\ Len(heard) < MaxMessages
    /\ gathered' = Append(gathered, Head(batch))
    /\ batch' = Tail(batch)
    /\ UNCHANGED <<adapter, log, loop, settled, turn, cursor, remembered, heard, life, pollHistory>>

\* Mutant: the flag is set before the fetch is looked at.
SkipMail_FlagsFirst ==
    /\ adapter = "email" /\ loop \in {"working", "off"} /\ batch # <<>>
    /\ batch' = Tail(batch) /\ settled' = settled \cup {Head(batch)}
    /\ UNCHANGED <<adapter, log, loop, turn, cursor, gathered, remembered, heard, life, pollHistory>>

\* A fetch that is not "OK" skips the mail, ...
SkipMail ==
    /\ adapter = "email" /\ loop \in {"working", "off"} /\ batch # <<>>
    /\ batch' = Tail(batch)
    /\ UNCHANGED <<adapter, log, loop, settled, turn, cursor, gathered, remembered, heard, life, pollHistory>>

\* ... one that raises throws away the mails already fetched and flagged.
FetchBreaks ==
    /\ adapter = "email" /\ loop \in {"working", "off"} /\ batch # <<>>
    /\ loop' = IF loop = "off" THEN "off" ELSE "ready"
    /\ excused' = excused \cup (Range(gathered) \cap settled)
    /\ batch' = <<>> /\ gathered' = <<>>
    /\ UNCHANGED <<adapter, log, settled, turn, cursor, remembered, heard, life, everHeard>>

PublishMails ==
    /\ adapter = "email" /\ loop = "working" /\ batch = <<>>
    /\ Publish(gathered)
    /\ gathered' = <<>> /\ loop' = "ready"
    /\ UNCHANGED <<adapter, log, settled, turn, cursor, batch, remembered, life, excused>>

\* stop(): the task is cancelled where it waits; WeChat saves its cursor once more.
\* The process ends when a thread that fetches mails has.
StopPolling ==
    /\ loop # "off"
    /\ loop' = "off"
    /\ settled' = IF adapter \in Weixin THEN UpTo(cursor[1]) ELSE settled
    /\ batch' = IF adapter = "email" THEN batch ELSE <<>>
    /\ excused' = excused \cup ((Range(gathered) \cup Range(batch)) \cap settled')
    /\ ForgetAll
    /\ UNCHANGED <<adapter, log, life, everHeard>>

\* The process dies, with a thread that may still be at work.  account.json is
\* written in place: a crash within loses what it held, the token too, and
\* after the next QR login the service starts over.
PollCrash ==
    /\ loop # "off" \/ batch # <<>>
    /\ loop' = "off" /\ batch' = <<>>
    /\ excused' = excused \cup ((Range(gathered) \cup Range(batch)) \cap settled)
    /\ \/ settled' = settled
       \/ adapter \in Weixin /\ loop = "asked" /\ settled' = {}
    /\ ForgetAll
    /\ UNCHANGED <<adapter, log, life, everHeard>>

PollNext ==
    \/ Write \/ StartPolling \/ Ask \/ AskFails
    \/ TakeUpdates \/ TakeSlackHistory \/ TakeDiscordHistory \/ TakeBatch \/ ProcessMessage
    \/ SearchUnseen \/ FetchMail \/ FetchUnflagged \/ SkipMail \/ FetchBreaks \/ PublishMails
    \/ StopPolling \/ PollCrash

Answered(t) ==
    turn = t /\ (TakeUpdates \/ TakeSlackHistory \/ TakeDiscordHistory \/ TakeBatch)

\* The event loop runs the poll task, and a request that is made again and again
\* is answered sometime, for each chat.  Nothing is assumed of IMAP: a mail whose
\* parsing raises is fetched again at every poll and keeps the others back.
PollFairness ==
    /\ WF_pollVars(Ask \/ ProcessMessage)
    /\ \A t \in DOMAIN PollChats : SF_pollVars(Answered(t))

PollSpec == PollInit /\ [][PollNext]_pollVars /\ PollFairness

-----------------------------------------------------------------------------
\* The variables have their types.
PollTypeOK ==
    /\ adapter \in PollAdapters \cup {"none"}
    /\ log \in Seq([chat : Range(PollChats), wanted : BOOLEAN]) /\ Len(log) <= MaxMessages
    /\ loop \in {"off", "ready", "asked", "working"}
    /\ turn \in DOMAIN PollChats /\ cursor \in [DOMAIN PollChats -> 0 .. Len(log)]
    /\ settled \subseteq Written /\ everHeard \subseteq Written /\ excused \subseteq Written
    /\ {Range(batch), Range(gathered), Range(remembered), Range(heard)} \subseteq SUBSET Written
    /\ Len(remembered) <= SeenLimit /\ life \in 0 .. MaxLives

PassedBy(i) ==
    CASE adapter \in History -> \E t \in DOMAIN PollChats :
                                   PollChats[t] = log[i].chat /\ i <= cursor[t]
      [] adapter \in Weixin -> i \in settled \/ (loop # "off" /\ i <= cursor[1])
      [] OTHER -> i \in settled

\* A message for the agent that the channel will not ask for again was
\* published, or is in its hands: the cursor, the confirmation and the \Seen
\* flag run ahead of the bus only where the code accepts it (a stop or a crash
\* within a WeChat batch or a mail fetch, a fetch that raises, more new
\* messages than a page of a history).
NothingPassedOver ==
    \A i \in Written :
        PassedBy(i) /\ log[i].wanted
           => i \in everHeard \cup excused \cup Range(batch) \cup Range(gathered)

\* While the channel runs, a message for the agent is published or lost in one
\* of the ways above, whatever requests fail in between (mails excepted).
PollDelivers ==
    \A i \in 1 .. MaxMessages :
        (adapter # "email" /\ loop # "off" /\ i \in Written /\ log[i].wanted)
           ~> (i \in everHeard \cup excused \/ loop = "off")

AsTaken(s) == [k \in DOMAIN s |-> [chat |-> log[s[k]].chat, at |-> s[k]]]

PollInbox == INSTANCE Inbox
                 WITH taken <- IF adapter = "email" THEN <<>> ELSE AsTaken(heard)

\* In one life of the process no message is published twice, and those of a chat
\* are published in order; mails are excepted, as a skipped one comes later and
\* one whose flag was refused comes again.
PollKeepsOrder == PollInbox!InboxSpec
==============================================================================
