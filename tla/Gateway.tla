------------------------------- MODULE Gateway -------------------------------
(***************************************************************************)
(* openpipixia/app/gateway.py with bus/queue.py and channels/manager.py:   *)
(* one worker takes inbound messages in order, runs an agent turn for each *)
(* and publishes its output; one dispatcher hands outbound messages to the *)
(* channel (channels/local.py); sub-agents run beside the worker; stop()   *)
(* takes all of it down while it goes on.                                  *)
(*                                                                         *)
(* Everything runs on one event loop, so an action is the code between two *)
(* suspension points.  queue.put on an unbounded queue does not suspend.   *)
(* A turn is the session it speaks in, the deltas it streams, the          *)
(* sub-agents it spawns, and how it ends; resuming the turn that spawned a *)
(* sub-agent is a turn as well, beside those of the worker.  What is said  *)
(* is left out: a message or a task stands for all that its turn puts in   *)
(* the session.  The session and memory services are those of ADK and of   *)
(* runtime/markdown_memory_service.py; the heartbeat and the cron service  *)
(* are in modules of their own.                                            *)
(***************************************************************************)
EXTENDS Integers, Sequences, FiniteSets

CONSTANTS
  MaxMsgs,    \* how many messages the channels publish; the n-th one is n
  Chats,
  ChatOf,     \* the chat a message came from, which is its session key
  Users,
  SenderOf,   \* who sent it: a session belongs to a user
  KindOf,     \* "text", or the commands "new" and "help"
  Wants,      \* messages that carry _wants_stream
  MaxDeltas,  \* deltas a turn streams at most
  Tasks,      \* sub-agent task ids, each a fresh uuid
  Notify,     \* the tasks spawned with notify_on_complete
  MaxSub,     \* _subagent_max_concurrency
  None

Msgs == 1 .. MaxMsgs

ASSUME GatewayAssumption ==
  /\ MaxMsgs \in Nat
  /\ ChatOf \in [Msgs -> Chats] /\ SenderOf \in [Msgs -> Users]
  /\ KindOf \in [Msgs -> {"text", "new", "help"}]
  /\ Wants \subseteq Msgs
  /\ MaxDeltas \in Nat /\ MaxSub \in Nat \ {0} /\ Notify \subseteq Tasks
  /\ Tasks \cap Nat = {} /\ None \notin Nat \cup Tasks
  /\ None \notin [user : Users, chat : Chats, nr : Nat]

VARIABLES
  life,        \* "off", "on", or where stop() waits: "beats", "subs", "worker",
               \* "dispatcher"
  hooks,       \* the tools' publisher and sub-agent dispatcher are configured
  inbound, outbound,  \* the queues of the bus
  worker,      \* _inbound_task: "off", "idle", "turn", "snapshot", "cancelled"
  hand,        \* the message the worker processes, or None
  turn,        \* the session of the worker's turn or flush, what the turn or flush
               \* has read of it, and how many deltas were streamed
  inflight,    \* _inflight_user_requests
  session,     \* _session_overrides: how often each chat's session was replaced
  subs,        \* sub-agent tasks: "none", "queued", "running", "resuming",
               \* "done", "failed" (to resume), "cancelled" or "gone"
  awaited,     \* the tasks _stop_subagent_tasks took from _subagent_tasks
  dispatcher,  \* _dispatch_task: "off", "on", "cancelled"
  parent,      \* the session of the turn that spawned a task, or None
  view,        \* what a resumed turn has read of its session
  said,        \* the session a message's or a resumed turn has spoken in, or None
  kept,        \* what the memory service has of what was said
  buffer,      \* _stream_buffers: the turns whose deltas a chat's buffer holds
  arrived,     \* history: how many messages were published to the bus
  answered,    \* history: the message whose answer was shown last, 0 before
  broken,      \* history: turns whose stream end was never shown
  late,        \* history: tasks whose resumed turn came when /new had read the session
  unflushed    \* history: sessions that /new closed without a flush

bus     == <<inbound, outbound>>
work    == <<worker, hand, turn, inflight>>
channel == <<dispatcher, buffer>>
memory  == <<parent, view, said, kept, late, unflushed>>
history == <<arrived, answered, broken>>
vars == <<life, hooks, bus, work, session, subs, awaited, memory, channel, history>>

NoTurn == [session |-> None, seen |-> {}, deltas |-> 0]

\* ADK keeps a session under its user and its id, which is the chat's key and, after
\* /new, a fresh suffix.
SessionOf(user, chat, nr) == [user |-> user, chat |-> chat, nr |-> nr]
Speakers == Msgs \cup Tasks
SaidIn(s) == {x \in Speakers : said[x] = s}

\* The kinds of outbound messages: a streamed delta and its end, the final text of a
\* streamed turn, any other answer (of a message), and the notification of a task.
Out(kind, of) == [kind |-> kind, of |-> of]
Kinds == {"delta", "end", "streamed", "reply", "note"}

Init ==
  /\ life = "off" /\ hooks = FALSE
  /\ inbound = <<>> /\ outbound = <<>>
  /\ worker = "off" /\ hand = None /\ turn = NoTurn /\ inflight = 0
  /\ session = [c \in Chats |-> 0]
  /\ subs = [t \in Tasks |-> "none"] /\ awaited = {}
  /\ parent = [t \in Tasks |-> None] /\ view = [t \in Tasks |-> {}]
  /\ said = [x \in Speakers |-> None] /\ kept = {}
  /\ late = {} /\ unflushed = {}
  /\ dispatcher = "off" /\ buffer = [c \in Chats |-> {}]
  /\ arrived = 0 /\ answered = 0 /\ broken = {}

-----------------------------------------------------------------------------
(* start() and the channels *)

Start ==
  /\ life = "off"
  /\ life' = "on" /\ hooks' = TRUE
  /\ worker' = "idle" /\ dispatcher' = "on"
  /\ UNCHANGED <<bus, hand, turn, inflight, session, subs, awaited, memory, buffer,
                 history>>

\* A channel publishes what a user sent.
Arrives ==
  /\ life = "on" /\ arrived < MaxMsgs
  /\ arrived' = arrived + 1
  /\ inbound' = Append(inbound, arrived')
  /\ UNCHANGED <<life, hooks, outbound, work, session, subs, awaited, memory, channel,
                 answered, broken>>

-----------------------------------------------------------------------------
(* _consume_inbound and process_message *)

\* Publishing appends to the queue.
Publish_AtHead(msgs) == outbound' = msgs \o outbound
Publish(msgs) == outbound' = outbound \o msgs

\* The session that a message's turn runs in, and that /new closes.
ActiveSession_IgnoresOverride(m) == SessionOf(SenderOf[m], ChatOf[m], 0)
ActiveSession(m) == SessionOf(SenderOf[m], ChatOf[m], session[ChatOf[m]])

Take(m) ==
  /\ worker = "idle" /\ inbound # <<>> /\ m = Head(inbound)
  /\ inbound' = Tail(inbound)

\* A turn reads its session and adds the message to it.
TakeText ==
  \E m \in Msgs :
    /\ Take(m) /\ KindOf[m] = "text"
    /\ worker' = "turn" /\ hand' = m
    /\ said' = [said EXCEPT ![m] = ActiveSession(m)]
    /\ turn' = [session |-> ActiveSession(m), deltas |-> 0,
                seen |-> SaidIn(ActiveSession(m)) \cup {m}]
    /\ inflight' = inflight + 1
    /\ UNCHANGED <<life, hooks, outbound, session, subs, awaited, parent, view, kept,
                   late, unflushed, channel, history>>

\* /help is answered without a suspension.
TakeHelp ==
  \E m \in Msgs :
    /\ Take(m) /\ KindOf[m] = "help"
    /\ Publish(<<Out("reply", m)>>)
    /\ UNCHANGED <<life, hooks, work, session, subs, awaited, memory, channel, history>>

\* /new first flushes the sender's session to memory: it reads the session, and then
\* waits for the memory service.
FlushRead_NewSession(s) == SaidIn([s EXCEPT !.nr = @ + 1])
FlushRead(s) == SaidIn(s)

TakeNew ==
  \E m \in Msgs :
    /\ Take(m) /\ KindOf[m] = "new"
    /\ worker' = "snapshot" /\ hand' = m
    /\ turn' = [session |-> ActiveSession(m), deltas |-> 0,
                seen |-> FlushRead(ActiveSession(m))]
    /\ inflight' = inflight + 1
    /\ UNCHANGED <<life, hooks, outbound, session, subs, awaited, memory, channel, history>>

\* What the finally block and the loop leave behind.
Release_WorkerDies(ok) ==
  /\ worker' = IF ok THEN "idle" ELSE "off"
  /\ hand' = None /\ turn' = NoTurn
  /\ inflight' = inflight - 1
Release(ok) ==
  /\ worker' = "idle" /\ hand' = None /\ turn' = NoTurn
  /\ inflight' = IF inflight > 0 THEN inflight - 1 ELSE 0

\* The flush has ended, or has failed, which is logged; the chat's session is replaced,
\* for every user of the chat.
NewRotates ==
  /\ worker = "snapshot"
  /\ LET c == ChatOf[hand]
     IN  \E flushed \in BOOLEAN :
           /\ kept' = IF flushed THEN kept \cup turn.seen ELSE kept
           /\ unflushed' = unflushed \cup
                {SessionOf(u, c, session[c]) :
                   u \in IF flushed THEN Users \ {SenderOf[hand]} ELSE Users}
           /\ session' = [session EXCEPT ![c] = @ + 1]
  /\ Publish(<<Out("reply", hand)>>)
  /\ Release(TRUE)
  /\ UNCHANGED <<life, hooks, inbound, subs, awaited, parent, view, said, late, channel,
                 history>>

TurnStreams ==
  /\ worker = "turn" /\ hand \in Wants /\ turn.deltas < MaxDeltas
  /\ Publish(<<Out("delta", hand)>>)
  /\ turn' = [turn EXCEPT !.deltas = @ + 1]
  /\ UNCHANGED <<life, hooks, inbound, worker, hand, inflight, session, subs,
                 awaited, memory, channel, history>>

\* What a turn that ends well publishes last.
TurnOutput_NoStreamEnd(m) ==
  IF m \in Wants THEN <<Out("streamed", m)>> ELSE <<Out("reply", m)>>
TurnOutput(m) ==
  IF m \in Wants THEN <<Out("end", m), Out("streamed", m)>>
  ELSE <<Out("reply", m)>>

\* After the agent, its callback gives what the turn has read to the memory service.
TurnEnds ==
  /\ worker = "turn"
  /\ kept' = kept \cup turn.seen
  /\ Publish(TurnOutput(hand))
  /\ Release(TRUE)
  /\ UNCHANGED <<life, hooks, inbound, session, subs, awaited, parent, view, said, late,
                 unflushed, channel, history>>

\* The turn raises, in the agent or in its callback: nothing more is published, neither
\* an answer nor the end of the stream, and nothing is given to the memory service.
TurnFails ==
  /\ worker = "turn"
  /\ Release(FALSE)
  /\ broken' = broken \cup {hand}
  /\ UNCHANGED <<life, hooks, bus, session, subs, awaited, memory, channel, arrived,
                 answered>>

\* The cancelled worker meets CancelledError; the message in hand is lost.
WorkerCancelled ==
  /\ worker = "cancelled"
  /\ worker' = "off" /\ hand' = None /\ turn' = NoTurn
  /\ inflight' = IF hand = None THEN inflight ELSE inflight - 1
  /\ broken' = IF hand = None THEN broken ELSE broken \cup {hand}
  /\ UNCHANGED <<life, hooks, bus, session, subs, awaited, memory, channel, arrived,
                 answered>>

-----------------------------------------------------------------------------
(* Sub-agents *)

\* The tool spawn_subagent, called by a turn in session s, and
\* _dispatch_subagent_request.
Spawns(s) ==
  /\ hooks
  /\ \E t \in Tasks :
       /\ subs[t] = "none"
       /\ subs' = [subs EXCEPT ![t] = "queued"]
       /\ parent' = [parent EXCEPT ![t] = s]
  /\ UNCHANGED <<life, hooks, bus, work, session, awaited, view, said, kept, late,
                 unflushed, channel, history>>

TurnSpawns == worker = "turn" /\ Spawns(turn.session)

\* Tasks that hold the semaphore; a cancelled one has not let go of it yet, and is
\* counted as holding it.
Holding == {t \in Tasks : subs[t] \in {"running", "resuming", "cancelled"}}

MaySubStart == Cardinality(Holding) < MaxSub

SubStarts(t) ==
  /\ subs[t] = "queued" /\ MaySubStart
  /\ subs' = [subs EXCEPT ![t] = "running"]
  /\ UNCHANGED <<life, hooks, bus, work, session, awaited, memory, channel, history>>

\* The prompt has been executed, or has failed: either way the turn that spawned the
\* task is resumed.  That is a turn of its own, in the session of the first one: it may
\* run beside a turn or a flush of the worker, or after /new has closed the session.
Resumes(t) ==
  /\ said' = [said EXCEPT ![t] = parent[t]]
  /\ view' = [view EXCEPT ![t] = SaidIn(parent[t]) \cup {t}]
  /\ late' = IF \/ parent[t].nr < session[parent[t].chat]
                \/ worker = "snapshot" /\ turn.session = parent[t]
             THEN late \cup {t} ELSE late

SubExecutes_FailureIsFinal(t) ==
  /\ subs[t] = "running"
  /\ subs' \in {[subs EXCEPT ![t] = "resuming"], [subs EXCEPT ![t] = "gone"]}
  /\ Resumes(t)
  /\ UNCHANGED <<life, hooks, bus, work, session, awaited, parent, kept, unflushed,
                 channel, history>>
SubExecutes(t) ==
  /\ subs[t] = "running"
  /\ subs' = [subs EXCEPT ![t] = "resuming"]
  /\ Resumes(t)
  /\ UNCHANGED <<life, hooks, bus, work, session, awaited, parent, kept, unflushed,
                 channel, history>>

ResumeSpawns(t) == subs[t] = "resuming" /\ Spawns(parent[t])

\* The resumed turn has ended, and its callback gave what it has read to the memory
\* service, or it has failed: either way the user is notified, if that was asked for.
SubEnds(t) ==
  /\ subs[t] = "resuming"
  /\ \/ /\ subs' = [subs EXCEPT ![t] = "done"]
        /\ kept' = kept \cup view[t]
     \/ /\ subs' = [subs EXCEPT ![t] = "failed"]
        /\ UNCHANGED kept
  /\ view' = [view EXCEPT ![t] = {}]
  /\ Publish(IF t \in Notify THEN <<Out("note", t)>> ELSE <<>>)
  /\ UNCHANGED <<life, hooks, inbound, work, session, awaited, parent, said, late,
                 unflushed, channel, history>>

SubCancelled(t) ==
  /\ subs[t] = "cancelled"
  /\ subs' = [subs EXCEPT ![t] = "gone"]
  /\ UNCHANGED <<life, hooks, bus, work, session, awaited, memory, channel, history>>

-----------------------------------------------------------------------------
(* _dispatch_outbound: taking a message and sending it is one step, as nothing but a
   cancellation can tell the two apart, and that one may lose the message in hand *)

\* Turns that end here without the end of their stream being shown.
BrokenBy(out) == IF out.kind = "end" THEN {out.of} ELSE {}

\* LocalChannel.send_delta and send; the final text of a streamed turn is not sent.
Delivered(out) ==
  /\ buffer' = CASE out.kind = "delta" ->
                        [buffer EXCEPT ![ChatOf[out.of]] = @ \cup {out.of}]
                 [] out.kind = "end" -> [buffer EXCEPT ![ChatOf[out.of]] = {}]
                 [] OTHER -> buffer
  /\ answered' = IF out.kind \in {"reply", "end"} THEN out.of ELSE answered

DispatchSends ==
  /\ dispatcher = "on" /\ outbound # <<>>
  /\ outbound' = Tail(outbound)
  /\ Delivered(Head(outbound))
  /\ UNCHANGED <<life, hooks, inbound, work, session, subs, awaited, memory, dispatcher,
                 arrived, broken>>

\* The channel raises: the message is logged and dropped.
SendFails ==
  /\ dispatcher = "on" /\ outbound # <<>> /\ Head(outbound).kind # "streamed"
  /\ outbound' = Tail(outbound)
  /\ broken' = broken \cup BrokenBy(Head(outbound))
  /\ UNCHANGED <<life, hooks, inbound, work, session, subs, awaited, memory, channel,
                 arrived, answered>>

DispatcherCancelled ==
  /\ dispatcher = "cancelled"
  /\ dispatcher' = "off"
  /\ \/ UNCHANGED <<outbound, broken>>
     \/ /\ outbound # <<>>
        /\ outbound' = Tail(outbound)
        /\ broken' = broken \cup BrokenBy(Head(outbound))
  /\ UNCHANGED <<life, hooks, inbound, work, session, subs, awaited, memory, buffer,
                 arrived, answered>>

-----------------------------------------------------------------------------
(* stop(), from await to await *)

StopBegins ==
  /\ life = "on"
  /\ life' = "beats"
  /\ UNCHANGED <<hooks, bus, work, session, subs, awaited, memory, channel, history>>

\* _subagent_tasks: the done callback takes a task off it.
Registered == {t \in Tasks : subs[t] \in {"queued", "running", "resuming"}}

\* The heartbeat runner has stopped: the tools lose their hooks, and every sub-agent
\* on the list is cancelled.
StopSubs_KeepsHooks ==
  /\ life = "beats"
  /\ life' = "subs"
  /\ awaited' = Registered
  /\ subs' = [t \in Tasks |-> IF t \in Registered THEN "cancelled" ELSE subs[t]]
  /\ UNCHANGED <<hooks, bus, work, session, memory, channel, history>>
StopSubs ==
  /\ life = "beats"
  /\ life' = "subs"
  /\ hooks' = FALSE
  /\ awaited' = Registered
  /\ subs' = [t \in Tasks |-> IF t \in Registered THEN "cancelled" ELSE subs[t]]
  /\ UNCHANGED <<bus, work, session, memory, channel, history>>

StopWorker ==
  /\ life = "subs" /\ \A t \in awaited : subs[t] = "gone"
  /\ life' = "worker"
  /\ awaited' = {}
  /\ worker' = "cancelled"
  /\ UNCHANGED <<hooks, bus, hand, turn, inflight, session, subs, memory, channel, history>>

StopDispatcher ==
  /\ life = "worker" /\ worker = "off"
  /\ life' = "dispatcher"
  /\ dispatcher' = "cancelled"
  /\ UNCHANGED <<hooks, bus, work, session, subs, awaited, memory, buffer, history>>

StopReturns ==
  /\ life = "dispatcher" /\ dispatcher = "off"
  /\ life' = "off"
  /\ UNCHANGED <<hooks, bus, work, session, subs, awaited, memory, channel, history>>

-----------------------------------------------------------------------------
WorkerStep ==
  \/ TakeText \/ TakeHelp \/ TakeNew \/ NewRotates
  \/ TurnStreams \/ TurnSpawns \/ TurnEnds \/ TurnFails \/ WorkerCancelled

SubStep(t) ==
  SubStarts(t) \/ SubExecutes(t) \/ ResumeSpawns(t) \/ SubEnds(t) \/ SubCancelled(t)

DispatcherStep == DispatchSends \/ SendFails \/ DispatcherCancelled

StopStep == StopSubs \/ StopWorker \/ StopDispatcher \/ StopReturns

Next ==
  \/ Start \/ Arrives \/ StopBegins \/ StopStep
  \/ WorkerStep \/ DispatcherStep
  \/ \E t \in Tasks : SubStep(t)

Spec == Init /\ [][Next]_vars

\* The event loop runs every task that is ready, and turns, sends and the heartbeat
\* runner's stop() end.
Fairness ==
  /\ WF_vars(WorkerStep) /\ WF_vars(DispatcherStep) /\ WF_vars(StopStep)
  /\ \A t \in Tasks : WF_vars(SubStep(t))

FairSpec == Spec /\ Fairness

-----------------------------------------------------------------------------
(* Properties *)

OutMsg == [kind : Kinds, of : Msgs \cup Tasks]

Sessions == [user : Users, chat : Chats, nr : Nat]

MemoryTypes ==
  /\ parent \in [Tasks -> Sessions \cup {None}]
  /\ view \in [Tasks -> SUBSET Speakers]
  /\ said \in [Speakers -> Sessions \cup {None}]
  /\ kept \subseteq Speakers /\ late \subseteq Tasks
  /\ unflushed \subseteq Sessions

\* The variables have the types the code gives them.
TypeOK ==
  /\ life \in {"off", "on", "beats", "subs", "worker", "dispatcher"}
  /\ hooks \in BOOLEAN
  /\ inbound \in Seq(Msgs) /\ outbound \in Seq(OutMsg)
  /\ worker \in {"off", "idle", "turn", "snapshot", "cancelled"}
  /\ hand \in Msgs \cup {None}
  /\ turn \in [session : Sessions \cup {None}, seen : SUBSET Speakers, deltas : Nat]
  /\ inflight \in Nat /\ session \in [Chats -> Nat]
  /\ subs \in [Tasks -> {"none", "queued", "running", "resuming", "done", "failed",
                         "cancelled", "gone"}]
  /\ awaited \subseteq Tasks
  /\ dispatcher \in {"off", "on", "cancelled"}
  /\ buffer \in [Chats -> SUBSET Msgs]
  /\ arrived \in 0 .. MaxMsgs /\ answered \in 0 .. MaxMsgs
  /\ broken \subseteq Msgs
  /\ MemoryTypes

\* The gateway is busy exactly while the worker has a message in hand, however the
\* turn ends: the heartbeat is neither let in early nor locked out for good by a
\* turn that raised or was cancelled (lines 124, 680-692).
BusyWhileServing == inflight = IF hand = None THEN 0 ELSE 1

\* Answers are shown in the order in which the messages came in, each once, whatever
\* sub-agents publish in between ("Single worker keeps message order deterministic",
\* line 677), also across a restart, which the queues survive.
AnsweredInOrder == [][answered' # answered => answered' > answered]_vars

\* What a chat shows as one growing text is the text of one turn: deltas of two turns
\* meet in a buffer only if the earlier one raised, was cancelled, or its stream end
\* could not be sent (lines 415-423; local.py 56-64).
StreamOfOneTurn ==
  \A c \in Chats : \A m, n \in buffer[c] : m = n \/ m \in broken \/ n \in broken

\* The session has been replaced by a /new.
Closed(s) == s.nr < session[s.chat]

\* The turn of a message, or the resumed turn of a task, that has ended and did not raise.
EndedWell(x) == IF x \in Msgs THEN hand # x /\ x \notin broken ELSE subs[x] = "done"

\* What was said in a session that /new has closed is in the memory: the callback of the
\* turn that said it, of a later one, or the flush has given it there (lines 502-508;
\* app/agent.py 42-52).  Only what a turn said that raised or was cancelled may be
\* missing, and only where the session was closed without a flush (it failed, or it was
\* for another user of the chat), or the resumed turn came after the flush had read it.
ClosedSessionsRemembered ==
  \A x \in Speakers :
    said[x] # None /\ Closed(said[x]) =>
      \/ x \in kept
      \/ ~EndedWell(x) /\ (said[x] \in unflushed \/ x \in late)

\* No more sub-agents execute than the semaphore admits.
SubagentBound == Cardinality({t \in Tasks : subs[t] \in {"running", "resuming"}})
                   <= MaxSub

\* When stop() has returned nothing is left running: a turn that still runs while the
\* sub-agents are taken down cannot start one more (lines 483-488).
StopQuiesces ==
  life = "off" =>
    /\ worker = "off" /\ dispatcher = "off"
    /\ \A t \in Tasks : subs[t] \in {"none", "done", "failed", "gone"}

\* Turns and sub-agents are counted as long as they run and not longer, whichever way
\* they end, and stop() leaves none of them.
NothingLeftBehind == TypeOK /\ BusyWhileServing /\ SubagentBound /\ StopQuiesces

\* Every message is taken and done with, unless the gateway is stopped: a turn that
\* raises does not end the worker.
MessageServed ==
  \A m \in Msgs :
    arrived >= m ~> \/ hand # m /\ \A i \in DOMAIN inbound : inbound[i] # m
                    \/ life # "on"

\* A sub-agent that was accepted comes to the notification of its user, even when its
\* own run or the parent's resumption fails, unless the gateway is stopped.
SubagentNotifies ==
  \A t \in Notify :
    subs[t] = "queued" ~> \/ \E i \in DOMAIN outbound : outbound[i] = Out("note", t)
                          \/ life # "on"
==============================================================================
