----------------------------- MODULE ChannelSend -----------------------------
(***************************************************************************)
(* The way out: the dispatcher hands the outbound messages one by one to a *)
(* channel's send or send_delta and swallows what they raise.  A message   *)
(* is a list of parts, each of which takes one or more calls to the        *)
(* service: files, then the text in chunks.  A call is accepted, refused   *)
(* in the answer, or raises; a channel takes these outcomes differently.   *)
(***************************************************************************)
EXTENDS Integers, Sequences, SequencesExt

CONSTANTS Senders,   \* the channels; those with a send of their own are told apart
          MaxFiles,  \* bound: files of a message
          MaxChunks, \* bound: chunks of a text (WeChat splits at 4000 characters)
          MaxDeltas  \* bound: deltas of a stream

PlainSenders == {"telegram", "slack", "discord", "qq", "dingtalk", "email", "wecom"}

ASSUME SendAssumption ==
    /\ Senders \subseteq PlainSenders \cup {"weixin", "feishu"}
    /\ {MaxFiles, MaxChunks, MaxDeltas} \subseteq Nat

VARIABLES
    sender,   \* the channel that is configured, or "none"
    message,  \* the parts of the message that send() has in hand
    left,     \* the parts still to be sent
    shown,    \* the parts of this message that the chat shows
    failed,   \* history: the parts of this message whose call was refused or raised
    token,    \* DingTalk's access token is cached and has not expired
    stream,   \* Feishu's _stream_states of the chat
    spoken,   \* the deltas of the stream that the gateway has published
    finished  \* history: the stream that ended last

sendVars == <<sender, message, left, shown, failed, token, stream, spoken, finished>>
wholeVars == <<message, left, shown, failed>>
streamVars == <<stream, spoken, finished>>

File(n) == [what |-> "file", nr |-> n]
Notice(n) == [what |-> "notice", nr |-> n]
Text(n) == [what |-> "text", nr |-> n]
Files(n) == [k \in 1 .. n |-> File(k)]
Chunks(n) == [k \in 1 .. n |-> Text(k)]

NoStream == [open |-> FALSE, id |-> FALSE, buffer |-> <<>>, sent |-> <<>>]

SendInit ==
    /\ sender \in Senders \cup {"none"}
    /\ message = <<>> /\ left = <<>> /\ shown = <<>> /\ failed = {}
    /\ token = FALSE
    /\ stream = NoStream /\ spoken = 0
    /\ finished = [patched |-> FALSE, buffer |-> <<>>, sent |-> <<>>]

-----------------------------------------------------------------------------
\* What the dispatcher hands to send(): so many files in the metadata and chunks
\* of text, with or without a chat_id, and whether the channel holds what an
\* answer to this chat takes (login, context token, frame, forced mail).
Handed == [files : 0 .. MaxFiles, chunks : 0 .. MaxChunks, addressed : BOOLEAN, ready : BOOLEAN]

TelegramParts(m) == <<Text(1)>>
SlackParts(m) == IF m.addressed THEN <<Text(1)>> ELSE <<>>
DiscordParts(m) == IF m.addressed THEN <<Text(1)>> ELSE <<>>
QQParts(m) == IF m.ready THEN <<Text(1)>> ELSE <<>>
DingTalkParts(m) == IF m.addressed THEN <<Text(1)>> ELSE <<>>
EmailParts(m) == IF m.addressed /\ m.ready THEN <<Text(1)>> ELSE <<>>
WecomParts(m) == IF m.ready /\ m.chunks > 0 THEN <<Text(1)>> ELSE <<>>

\* WeChat sends the files one by one and splits the text; ...
WeixinParts(m) == IF m.ready THEN Files(m.files) \o Chunks(m.chunks) ELSE <<>>

\* ... Feishu one image or file, with the text as its caption, or the text.
FeishuParts(m) ==
    IF m.files = 0 THEN <<Text(1)>>
    ELSE <<File(1)>> \o (IF m.chunks > 0 THEN <<Text(1)>> ELSE <<>>)

Parts(m) ==
    CASE sender = "telegram" -> TelegramParts(m)
      [] sender = "slack" -> SlackParts(m)
      [] sender = "discord" -> DiscordParts(m)
      [] sender = "qq" -> QQParts(m)
      [] sender = "dingtalk" -> DingTalkParts(m)
      [] sender = "email" -> EmailParts(m)
      [] sender = "wecom" -> WecomParts(m)
      [] sender = "weixin" -> WeixinParts(m)
      [] sender = "feishu" -> FeishuParts(m)

\* _dispatch_outbound takes the next message, when the last one is done with.
Dispatch ==
    /\ sender # "none" /\ left = <<>>
    /\ sender = "dingtalk" => token
    /\ \E m \in Handed : message' = Parts(m)
    /\ left' = message' /\ shown' = <<>> /\ failed' = {}
    /\ UNCHANGED <<sender, token, streamVars>>

\* DingTalk's _get_access_token; when it fails the message is dropped.
FetchToken ==
    /\ sender = "dingtalk" /\ left = <<>> /\ ~token
    /\ token' = TRUE
    /\ UNCHANGED <<sender, wholeVars, streamVars>>

TokenExpires ==
    /\ token /\ left = <<>> /\ token' = FALSE
    /\ UNCHANGED <<sender, wholeVars, streamVars>>

\* A call is accepted.
Accepted ==
    /\ left # <<>>
    /\ shown' = Append(shown, Head(left)) /\ left' = Tail(left)
    /\ UNCHANGED <<sender, message, failed, token, streamVars>>

FirstPart == Head(message)

Raises(rest) ==
    /\ failed' = failed \cup {Head(left)}
    /\ left' = rest
    /\ UNCHANGED <<sender, message, shown, token, streamVars>>

\* WeChat: a file that fails is replaced by a notice, and the rest goes on; ...
WeixinFileRaises ==
    /\ sender = "weixin" /\ left # <<>> /\ Head(left).what = "file"
    /\ Raises(<<Notice(Head(left).nr)>> \o Tail(left))

\* ... a notice that raises leaves send(), a chunk that raises ends it; ...
WeixinTextRaises ==
    /\ sender = "weixin" /\ left # <<>> /\ Head(left).what # "file"
    /\ Raises(<<>>)

\* ... a text refused with an errcode is only logged.
WeixinTextRefused ==
    /\ sender = "weixin" /\ left # <<>> /\ Head(left).what # "file"
    /\ Raises(Tail(left))

\* Mutant: what a file's upload raises leaves send(), as it does in other channels.
FeishuMediaRaises_LeavesSend ==
    /\ sender = "feishu" /\ left # <<>> /\ FirstPart.what = "file" /\ failed = {}
    /\ Raises(<<>>)

\* Feishu: when the file or its caption fails, the text, or a notice if there is
\* none, is sent in the place of both.
FeishuMediaRaises ==
    /\ sender = "feishu" /\ left # <<>> /\ FirstPart.what = "file" /\ failed = {}
    /\ Raises(IF Text(1) \in Range(message) THEN <<Text(1)>> ELSE <<Notice(1)>>)

\* The exception of the fallback, or of a text without a file, goes to the dispatcher.
FeishuTextRaises ==
    /\ sender = "feishu" /\ left # <<>>
    /\ FirstPart.what = "text" \/ failed # {}
    /\ Raises(<<>>)

\* The other channels make one call; WeCom logs what it raises, the others leave
\* that to the dispatcher.
PlainRaises ==
    /\ sender \in PlainSenders /\ left # <<>>
    /\ Raises(<<>>)

-----------------------------------------------------------------------------
\* send_delta.  Feishu: the first delta makes a message of its own, whose id may
\* be missing in the answer; one that raises leaves no state, so that the next
\* delta is the first.
FirstDelta ==
    /\ sender = "feishu" /\ left = <<>> /\ ~stream.open /\ spoken < MaxDeltas
    /\ spoken' = spoken + 1
    /\ \/ \E id \in BOOLEAN :
             stream' = [open |-> TRUE, id |-> id, buffer |-> <<spoken'>>, sent |-> <<spoken'>>]
       \/ stream' = NoStream
    /\ UNCHANGED <<sender, wholeVars, token, finished>>

\* _flush_stream_state(force): the message is patched to the buffer; a failure
\* keeps the text it has.
Flushed(s) == IF s.id THEN {s, [s EXCEPT !.sent = s.buffer]} ELSE {s}

\* Further deltas are patched in when the interval has passed.
NextDelta ==
    /\ sender = "feishu" /\ left = <<>> /\ stream.open /\ spoken < MaxDeltas
    /\ spoken' = spoken + 1
    /\ LET longer == [stream EXCEPT !.buffer = Append(@, spoken')]
       IN stream' \in {longer} \cup Flushed(longer)
    /\ UNCHANGED <<sender, wholeVars, token, finished>>

\* The end of the stream: a last flush, and the state goes, patched or not.
EndStream ==
    /\ sender = "feishu" /\ left = <<>> /\ spoken > 0
    /\ IF stream.open
       THEN \E s \in Flushed(stream) :
               finished' = [patched |-> s.sent = s.buffer, buffer |-> s.buffer, sent |-> s.sent]
       ELSE finished' = finished
    /\ stream' = NoStream /\ spoken' = 0
    /\ UNCHANGED <<sender, wholeVars, token>>

\* The others send each delta as a message; the end sends nothing.  The message
\* marked _streamed that follows is sent by nobody.
PlainDelta ==
    /\ sender \notin {"none", "feishu"} /\ left = <<>>
    /\ message' = <<Text(1)>> /\ left' = message'
    /\ shown' = <<>> /\ failed' = {}
    /\ UNCHANGED <<sender, token, streamVars>>

SendNext ==
    \/ Dispatch \/ FetchToken \/ TokenExpires \/ Accepted
    \/ WeixinFileRaises \/ WeixinTextRaises \/ WeixinTextRefused
    \/ FeishuMediaRaises \/ FeishuTextRaises \/ PlainRaises
    \/ FirstDelta \/ NextDelta \/ EndStream \/ PlainDelta

SendSpec == SendInit /\ [][SendNext]_sendVars

-----------------------------------------------------------------------------
\* The variables have their types.
SendTypeOK ==
    LET part == [what : {"file", "notice", "text"}, nr : 1 .. MaxFiles + MaxChunks + 1]
    IN /\ sender \in Senders \cup {"none"} /\ token \in BOOLEAN
       /\ {message, left, shown} \subseteq Seq(part) /\ failed \subseteq part
       /\ spoken \in 0 .. MaxDeltas
       /\ stream \in [open : BOOLEAN, id : BOOLEAN,
                       buffer : Seq(1 .. MaxDeltas), sent : Seq(1 .. MaxDeltas)]

Texts(s) == {p \in Range(s) : p.what = "text"}
TextsInOrder(s) ==
    \A j, k \in DOMAIN s :
       j < k /\ s[j].what = "text" /\ s[k].what = "text" => s[j].nr < s[k].nr
Lost(p) == p \in Range(message) /\ p \notin Range(shown)

\* When send() is through, a failed file has cost the reader nothing but that
\* file: the text is there, once and in order; WeChat has put a notice in the
\* place of each file that is missing.  Only a notice or a text that failed, with
\* WeChat a text that was refused, takes something else with it.
FailedFileCostsOnlyItself ==
    left = <<>> =>
        /\ (\A p \in failed : p.what = "file") =>
              /\ Texts(shown) = Texts(message)
              /\ sender = "weixin" => \A n \in 1 .. MaxFiles :
                                        Lost(File(n)) => Notice(n) \in Range(shown)
        /\ TextsInOrder(shown)

Contiguous(s) == \A k \in DOMAIN s : s[k] = s[1] + k - 1

\* A message of Feishu that shows a stream has no holes, whatever patches failed:
\* it begins with the first delta that got through, what it lacks is at its end,
\* and a patch that succeeds makes up for all that failed before.
StreamHasNoHoles ==
    /\ stream.open => /\ Contiguous(stream.buffer) /\ Last(stream.buffer) = spoken
                      /\ IsPrefix(stream.sent, stream.buffer)
    /\ Contiguous(finished.buffer) /\ IsPrefix(finished.sent, finished.buffer)
    /\ finished.patched => finished.sent = finished.buffer

\* What reaches the reader of an answer: a file or a patch that fails takes
\* nothing else with it.
AnswersStayWhole == FailedFileCostsOnlyItself /\ StreamHasNoHoles
==============================================================================
