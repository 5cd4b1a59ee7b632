--------------------------- MODULE Gateway_proofs ----------------------------
(***************************************************************************)
(* What holds of Gateway for every number of messages, every mix of chats, *)
(* commands and streamed turns, every set of sub-agents and every permit   *)
(* count, over any number of stops and starts.                             *)
(***************************************************************************)
EXTENDS Gateway, FiniteSetTheorems, SequenceTheorems, TLAPS

-----------------------------------------------------------------------------
(* The inductive invariant *)

\* Who runs while the gateway starts, serves and stops.
Life ==
  /\ life = "off" => worker = "off" /\ dispatcher = "off"
  /\ life \in {"on", "beats", "subs"} => worker \in {"idle", "turn", "snapshot"}
  /\ life = "worker" => worker \in {"cancelled", "off"}
  /\ life = "dispatcher" => worker = "off"
  /\ life \in {"on", "beats", "subs", "worker"} => dispatcher = "on"
  /\ hooks => life \in {"on", "beats"}
  /\ life \notin {"on", "beats"} => Registered = {}
  /\ \A t \in Tasks : subs[t] = "cancelled" => life = "subs" /\ t \in awaited

\* What the worker has in hand.
Serving ==
  /\ worker \in {"off", "idle"} => hand = None
  /\ worker = "turn" => hand \in Msgs /\ KindOf[hand] = "text"
  /\ worker = "snapshot" => hand \in Msgs /\ KindOf[hand] = "new"

\* The outbound messages that come of an inbound one, and those that answer it.
Speaks(i) == outbound[i].kind # "note"
Answers(i) == outbound[i].kind \in {"reply", "end"}

\* The queues and the worker hold the messages in the order of their arrival.
Order ==
  /\ \A k \in 1 .. Len(inbound) : inbound[k] <= arrived /\ answered < inbound[k]
  /\ \A k, l \in 1 .. Len(inbound) : k < l => inbound[k] < inbound[l]
  /\ answered <= arrived
  /\ hand # None => /\ answered < hand /\ hand <= arrived
                    /\ \A k \in 1 .. Len(inbound) : hand < inbound[k]
  /\ \A i \in 1 .. Len(outbound) : Speaks(i) =>
       /\ outbound[i].of \in Msgs /\ outbound[i].of <= arrived
       /\ \A k \in 1 .. Len(inbound) : outbound[i].of < inbound[k]
       /\ hand # None => outbound[i].of <= hand
       /\ Answers(i) => answered < outbound[i].of
       /\ Answers(i) /\ hand # None => outbound[i].of < hand
  /\ \A i, j \in 1 .. Len(outbound) : i < j /\ Speaks(i) /\ Speaks(j) =>
       /\ outbound[i].of <= outbound[j].of
       /\ Answers(i) /\ Answers(j) => outbound[i].of < outbound[j].of

\* A turn that streams, and one whose stream the user sees the beginning of.
Streamed(m) == m \in Wants /\ KindOf[m] = "text"

\* The end of the stream of m is still to come, after the i-th outbound message.
EndsAfter(i, m) ==
  \/ hand = m
  \/ \E j \in 1 .. Len(outbound) : i < j /\ outbound[j] = Out("end", m)

\* The worker has come at least as far as m.
Started(m) ==
  /\ m <= arrived
  /\ hand # None => m <= hand
  /\ \A k \in 1 .. Len(inbound) : m < inbound[k]

Streams ==
  /\ \A i \in 1 .. Len(outbound) : outbound[i].kind = "delta" =>
       /\ Streamed(outbound[i].of)
       /\ outbound[i].of \in broken \/ EndsAfter(i, outbound[i].of)
  /\ \A c \in Chats : \A m \in buffer[c] :
       /\ ChatOf[m] = c /\ Streamed(m) /\ Started(m)
       /\ m \in broken \/ EndsAfter(0, m)
       /\ \A i \in 1 .. Len(outbound) : Speaks(i) => m <= outbound[i].of

\* Of the sub-agents that were ever spawned there are finitely many, and no more
\* hold a permit than there are.
Spawned == {t \in Tasks : subs[t] # "none"}
Active == {t \in Tasks : subs[t] \in {"running", "resuming"}}
Permits == IsFiniteSet(Spawned) /\ Cardinality(Active) <= MaxSub

\* What was said, and what was read of it: a session is opened before something is said
\* in it, the worker works in the newest session of its chat, a flush has read all that
\* was said in its session before, and so has a resumed turn read what it said itself.
Memory ==
  /\ \A x \in Speakers : said[x] # None =>
       /\ said[x].nr <= session[said[x].chat]
       /\ x \in Msgs => KindOf[x] = "text"
  /\ worker \in {"turn", "snapshot"} => turn.session = ActiveSession(hand)
  /\ worker = "turn" => hand \in turn.seen
  /\ worker = "snapshot" =>
       \A x \in SaidIn(turn.session) : x \in turn.seen \/ x \in late
  /\ \A t \in Tasks :
       /\ subs[t] \in {"queued", "running", "resuming"} =>
            parent[t] # None /\ parent[t].nr <= session[parent[t].chat]
       /\ subs[t] = "resuming" => t \in view[t]
  /\ \A x \in Speakers : said[x] # None /\ EndedWell(x) => x \in kept
  /\ ClosedSessionsRemembered

-----------------------------------------------------------------------------
(* The queues *)

\* An inbound message is a number, and neither a task nor nothing.
LEMMA MsgFacts ==
  /\ Msgs \subseteq Nat /\ None \notin Msgs /\ None \notin Tasks
  /\ \A m \in Msgs : m > 0 /\ m <= MaxMsgs /\ m \notin Tasks
BY GatewayAssumption DEF Msgs

\* Publishing one message puts it behind the others.
LEMMA PublishOne ==
  ASSUME TypeOK, NEW x \in OutMsg, Publish(<<x>>)
  PROVE  /\ outbound' \in Seq(OutMsg)
         /\ Len(outbound) \in Nat /\ Len(outbound') = Len(outbound) + 1
         /\ \A i \in 1 .. Len(outbound) : outbound'[i] = outbound[i]
         /\ outbound'[Len(outbound) + 1] = x
<1>1. outbound' = Append(outbound, x) /\ outbound \in Seq(OutMsg)
  BY AppendIsConcat DEF Publish, TypeOK
<1> QED
  BY <1>1, AppendProperties, LenProperties

\* Publishing two messages puts them behind the others, in their order.
LEMMA PublishTwo ==
  ASSUME TypeOK, NEW x \in OutMsg, NEW y \in OutMsg, Publish(<<x, y>>)
  PROVE  /\ outbound' \in Seq(OutMsg)
         /\ Len(outbound) \in Nat /\ Len(outbound') = Len(outbound) + 2
         /\ \A i \in 1 .. Len(outbound) : outbound'[i] = outbound[i]
         /\ outbound'[Len(outbound) + 1] = x /\ outbound'[Len(outbound) + 2] = y
<1>1. outbound \in Seq(OutMsg) /\ <<x, y>> \in Seq(OutMsg) /\ Len(<<x, y>>) = 2
  BY DEF TypeOK
<1>2. /\ outbound' \in Seq(OutMsg) /\ Len(outbound') = Len(outbound) + 2
      /\ \A i \in 1 .. Len(outbound) + 2 : outbound'[i] =
           IF i <= Len(outbound) THEN outbound[i] ELSE <<x, y>>[i - Len(outbound)]
  BY <1>1, ConcatProperties DEF Publish
<1>3. Len(outbound) \in Nat
  BY <1>1, LenProperties
<1> QED
  BY <1>2, <1>3

\* Taking the first outbound message moves the others up.
LEMMA PopFacts ==
  ASSUME TypeOK, outbound # <<>>, outbound' = Tail(outbound)
  PROVE  /\ outbound' \in Seq(OutMsg) /\ Head(outbound) = outbound[1]
         /\ Head(outbound) \in OutMsg
         /\ Len(outbound) \in Nat \ {0} /\ Len(outbound') = Len(outbound) - 1
         /\ \A i \in 1 .. Len(outbound') : outbound'[i] = outbound[i + 1]
BY HeadTailProperties, EmptySeq DEF TypeOK

\* The worker takes the first inbound message.
LEMMA TakeFacts ==
  ASSUME TypeOK, NEW m \in Msgs, Take(m)
  PROVE  /\ worker = "idle" /\ m = inbound[1]
         /\ inbound' \in Seq(Msgs)
         /\ Len(inbound) \in Nat \ {0} /\ Len(inbound') = Len(inbound) - 1
         /\ \A k \in 1 .. Len(inbound') : inbound'[k] = inbound[k + 1]
BY HeadTailProperties, EmptySeq DEF TypeOK, Take

\* What is put in the outbound queue has the type of its messages.
LEMMA OutFacts ==
  ASSUME NEW kind \in Kinds, NEW of \in Msgs \cup Tasks
  PROVE  Out(kind, of) \in OutMsg /\ Out(kind, of).kind = kind /\ Out(kind, of).of = of
BY DEF Out, OutMsg

\* The messages in the outbound queue.
LEMMA OutboundType ==
  ASSUME TypeOK
  PROVE  /\ Len(outbound) \in Nat
         /\ \A i \in 1 .. Len(outbound) : /\ outbound[i].kind \in Kinds
                                          /\ outbound[i].of \in Msgs \cup Tasks
<1>1. outbound \in Seq(OutMsg)
  BY DEF TypeOK
<1>2. \A i \in 1 .. Len(outbound) : outbound[i] \in OutMsg
  BY <1>1, ElementOfSeq
<1> QED
  BY <1>1, <1>2, LenProperties DEF OutMsg

-----------------------------------------------------------------------------
(* Types *)

Inv ==
  TypeOK /\ BusyWhileServing /\ Permits /\ Life /\ Serving /\ Order /\ Streams /\ Memory

\* The initial state satisfies the invariant.
LEMMA InitInv == Init => Inv
<1> SUFFICES ASSUME Init PROVE Inv
  OBVIOUS
<1> USE DEF Init
<1>1. TypeOK
  <2>1. inbound \in Seq(Msgs) /\ outbound \in Seq(OutMsg)
    BY EmptySeq
  <2>2. /\ turn \in [session : Sessions \cup {None}, seen : SUBSET Speakers, deltas : Nat]
        /\ session \in [Chats -> Nat] /\ buffer \in [Chats -> SUBSET Msgs]
        /\ subs \in [Tasks -> {"none", "queued", "running", "resuming", "done", "failed",
                               "cancelled", "gone"}]
        /\ MemoryTypes
    BY DEF NoTurn, MemoryTypes
  <2>3. arrived \in 0 .. MaxMsgs /\ answered \in 0 .. MaxMsgs
    BY GatewayAssumption
  <2> QED
    BY <2>1, <2>2, <2>3 DEF TypeOK
<1>2. Permits
  <2>1. Spawned = {} /\ Active = {}
    BY DEF Spawned, Active
  <2> QED
    BY <2>1, FS_EmptySet, GatewayAssumption DEF Permits
<1>3. BusyWhileServing /\ Life /\ Serving
  BY DEF BusyWhileServing, Life, Serving, Registered
<1>4. Order /\ Streams
  BY EmptySeq DEF Order, Streams
<1>5. Memory
  BY DEF Memory, ClosedSessionsRemembered
<1> QED
  BY <1>1, <1>2, <1>3, <1>4, <1>5 DEF Inv

\* The message in hand, when there must be one.
LEMMA HandFacts ==
  ASSUME TypeOK, Serving, BusyWhileServing
  PROVE  /\ worker \in {"turn", "snapshot"} => hand \in Msgs /\ hand # None /\ inflight = 1
         /\ worker = "idle" => hand = None /\ inflight = 0
         /\ hand # None => hand \in Msgs /\ inflight = 1
BY MsgFacts DEF TypeOK, Serving, BusyWhileServing

\* The session of a message's turn.
LEMMA ActiveFacts ==
  ASSUME TypeOK, NEW m \in Msgs
  PROVE  /\ ActiveSession(m) \in Sessions /\ ActiveSession(m).chat = ChatOf[m]
         /\ ActiveSession(m).user = SenderOf[m]
         /\ ActiveSession(m).nr = session[ChatOf[m]]
         /\ ChatOf[m] \in Chats /\ SenderOf[m] \in Users /\ session[ChatOf[m]] \in Nat
<1>1. ChatOf[m] \in Chats /\ SenderOf[m] \in Users
  BY GatewayAssumption
<1>2. session[ChatOf[m]] \in Nat
  BY <1>1 DEF TypeOK
<1> QED
  BY <1>1, <1>2 DEF ActiveSession, SessionOf, Sessions

\* Every step keeps the types of what is said, read and kept: a task that runs has the
\* session of the turn that spawned it.
LEMMA NextMemoryTypes == Inv /\ [Next]_vars => MemoryTypes'
<1> SUFFICES ASSUME Inv, [Next]_vars PROVE MemoryTypes'
  OBVIOUS
<1>1. TypeOK /\ MemoryTypes /\ Serving /\ Memory
  BY DEF Inv, TypeOK
<1>2. turn \in [session : Sessions \cup {None}, seen : SUBSET Speakers, deltas : Nat]
  BY <1>1 DEF TypeOK
<1> USE DEF MemoryTypes
<1>3. CASE TakeText
  <2>1. PICK m \in Msgs : /\ said' = [said EXCEPT ![m] = ActiveSession(m)]
                          /\ UNCHANGED <<parent, view, kept, late, unflushed>>
    BY <1>3 DEF TakeText
  <2> QED
    BY <1>1, <2>1, ActiveFacts
<1>4. CASE NewRotates
  <2>1. hand \in Msgs
    BY <1>1, <1>4 DEF NewRotates, Serving
  <2>2. ChatOf[hand] \in Chats /\ session[ChatOf[hand]] \in Nat
    BY <1>1, <2>1, ActiveFacts
  <2>3. \A u \in Users : SessionOf(u, ChatOf[hand], session[ChatOf[hand]]) \in Sessions
    BY <2>2 DEF SessionOf, Sessions
  <2>4. unflushed' \subseteq Sessions
    BY <1>1, <1>4, <2>3 DEF NewRotates
  <2> QED
    BY <1>1, <1>2, <1>4, <2>4 DEF NewRotates
<1>5. CASE TurnEnds
  BY <1>1, <1>2, <1>5 DEF TurnEnds
<1>6. ASSUME NEW s \in Sessions \cup {None}, Spawns(s) PROVE MemoryTypes'
  BY <1>1, <1>6 DEF Spawns
<1>7. CASE TurnSpawns
  BY <1>2, <1>6, <1>7 DEF TurnSpawns
<1>8. ASSUME NEW t \in Tasks, ResumeSpawns(t) PROVE MemoryTypes'
  BY <1>1, <1>6, <1>8 DEF ResumeSpawns
<1>9. ASSUME NEW t \in Tasks, SubExecutes(t) PROVE MemoryTypes'
  BY <1>1, <1>9 DEF SubExecutes, Resumes, SaidIn, Speakers
<1>10. ASSUME NEW t \in Tasks, SubEnds(t) PROVE MemoryTypes'
  BY <1>1, <1>10 DEF SubEnds
<1>11. CASE UNCHANGED memory
  BY <1>1, <1>11 DEF memory
<1> QED
  BY <1>3, <1>4, <1>5, <1>7, <1>8, <1>9, <1>10, <1>11
     DEF Next, WorkerStep, DispatcherStep, StopStep, SubStep, Start, Arrives, StopBegins,
         StopSubs, StopWorker, StopDispatcher, StopReturns, TakeHelp, TakeNew, TurnStreams,
         TurnFails, WorkerCancelled, SubStarts, SubCancelled, DispatchSends, SendFails,
         DispatcherCancelled, vars

\* Every step keeps the types: in particular a turn is only released after it began,
\* and what the channel looks up the chat of is the number of a message.
LEMMA NextTypeOK == Inv /\ [Next]_vars => TypeOK'
<1> SUFFICES ASSUME Inv, [Next]_vars PROVE TypeOK'
  OBVIOUS
<1>1. /\ TypeOK /\ BusyWhileServing /\ Serving /\ Order
      /\ MemoryTypes'
  BY NextMemoryTypes DEF Inv
<1>2. CASE Start
  BY <1>1, <1>2 DEF Start, bus, history, TypeOK
<1>3. CASE Arrives
  <2>1. arrived' \in Msgs
    BY <1>1, <1>3, GatewayAssumption DEF Arrives, TypeOK, Msgs
  <2>2. inbound' \in Seq(Msgs)
    BY <1>1, <1>3, <2>1, AppendProperties DEF Arrives, TypeOK
  <2> QED
    BY <1>1, <1>3, <2>1, <2>2 DEF Arrives, work, channel, TypeOK, Msgs
<1>4. CASE StopBegins
  BY <1>1, <1>4 DEF StopBegins, bus, work, channel, history, TypeOK
<1>5. CASE StopStep
  <2>1. CASE StopSubs
    BY <1>1, <2>1 DEF StopSubs, bus, work, channel, history, TypeOK, Registered
  <2>2. CASE StopWorker
    BY <1>1, <2>2 DEF StopWorker, bus, channel, history, TypeOK
  <2>3. CASE StopDispatcher
    BY <1>1, <2>3 DEF StopDispatcher, bus, work, history, TypeOK
  <2>4. CASE StopReturns
    BY <1>1, <2>4 DEF StopReturns, bus, work, channel, history, TypeOK
  <2> QED
    BY <1>5, <2>1, <2>2, <2>3, <2>4 DEF StopStep
<1>6. CASE TakeText \/ TakeNew
  <2>1. PICK m \in Msgs :
          /\ Take(m) /\ worker' \in {"turn", "snapshot"} /\ hand' = m
          /\ \E seen \in SUBSET Speakers :
               turn' = [session |-> ActiveSession(m), deltas |-> 0, seen |-> seen]
          /\ inflight' = inflight + 1
          /\ UNCHANGED <<life, hooks, outbound, session, subs, awaited, channel, history>>
    BY <1>6 DEF TakeText, TakeNew, FlushRead, SaidIn, Speakers
  <2>2. ActiveSession(m) \in Sessions
    BY <1>1, ActiveFacts
  <2>3. turn' \in [session : Sessions \cup {None}, seen : SUBSET Speakers, deltas : Nat]
    BY <2>1, <2>2
  <2> QED
    BY <1>1, <2>1, <2>3, TakeFacts DEF channel, history, TypeOK
<1>7. CASE TakeHelp
  <2>1. PICK m \in Msgs :
          /\ Take(m) /\ Publish(<<Out("reply", m)>>)
          /\ UNCHANGED <<life, hooks, work, session, subs, awaited, channel, history>>
    BY <1>7 DEF TakeHelp
  <2>2. Out("reply", m) \in OutMsg
    BY OutFacts DEF Kinds
  <2> QED
    BY <1>1, <2>1, <2>2, TakeFacts, PublishOne DEF work, channel, history, TypeOK
<1>8. CASE NewRotates
  <2>1. hand \in Msgs /\ inflight = 1
    BY <1>1, <1>8, HandFacts DEF NewRotates
  <2>2. Out("reply", hand) \in OutMsg
    BY <2>1, OutFacts DEF Kinds
  <2>3. session' \in [Chats -> Nat]
    BY <1>1, <1>8, <2>1, GatewayAssumption DEF NewRotates, TypeOK
  <2> QED
    BY <1>1, <1>8, <2>1, <2>2, <2>3, PublishOne
       DEF NewRotates, Release, NoTurn, channel, history, TypeOK
<1>9. CASE TurnStreams
  <2>1. hand \in Msgs
    BY <1>1, <1>9, HandFacts DEF TurnStreams
  <2>2. Out("delta", hand) \in OutMsg
    BY <2>1, OutFacts DEF Kinds
  <2>3. turn' \in [session : Sessions \cup {None}, seen : SUBSET Speakers, deltas : Nat]
    <3>1. \A S, E : turn \in [session : S, seen : E, deltas : Nat]
                    => turn' \in [session : S, seen : E, deltas : Nat]
      BY <1>9 DEF TurnStreams
    <3> QED
      BY <1>1, <3>1, Zenon DEF TypeOK
  <2> QED
    BY <1>1, <1>9, <2>2, <2>3, PublishOne DEF TurnStreams, channel, history, TypeOK
<1>10. CASE TurnSpawns
  BY <1>1, <1>10 DEF TurnSpawns, Spawns, bus, work, channel, history, TypeOK
<1>11. CASE TurnEnds
  <2>1. hand \in Msgs /\ inflight = 1
    BY <1>1, <1>11, HandFacts DEF TurnEnds
  <2>2. \A k \in Kinds : Out(k, hand) \in OutMsg
    BY <2>1, OutFacts
  <2>3. outbound' \in Seq(OutMsg)
    BY <1>1, <1>11, <2>2, PublishOne, PublishTwo DEF TurnEnds, TurnOutput, Kinds
  <2> QED
    BY <1>1, <1>11, <2>1, <2>3 DEF TurnEnds, Release, NoTurn, channel, history, TypeOK
<1>12. CASE TurnFails
  <2>1. hand \in Msgs /\ inflight = 1
    BY <1>1, <1>12, HandFacts DEF TurnFails
  <2> QED
    BY <1>1, <1>12, <2>1 DEF TurnFails, Release, NoTurn, bus, channel, TypeOK
<1>13. CASE WorkerCancelled
  BY <1>1, <1>13, HandFacts DEF WorkerCancelled, NoTurn, bus, channel, TypeOK
<1>14. ASSUME NEW t \in Tasks, SubStep(t) PROVE TypeOK'
  <2>1. CASE SubStarts(t) \/ SubExecutes(t) \/ ResumeSpawns(t) \/ SubCancelled(t)
    BY <1>1, <2>1, ZenonT(60)
       DEF SubStarts, SubExecutes, ResumeSpawns, Spawns, SubCancelled, bus, work, channel,
           history, TypeOK
  <2>2. CASE SubEnds(t)
    <3>1. Out("note", t) \in OutMsg
      BY OutFacts DEF Kinds
    <3>2. outbound' \in Seq(OutMsg)
      <4>1. CASE t \in Notify
        BY <1>1, <2>2, <3>1, <4>1, PublishOne DEF SubEnds
      <4>2. CASE t \notin Notify
        BY <1>1, <2>2, <4>2, ConcatEmptySeq DEF SubEnds, Publish, TypeOK
      <4> QED
        BY <4>1, <4>2
    <3> QED
      BY <1>1, <2>2, <3>2 DEF SubEnds, work, channel, history, TypeOK
  <2> QED
    BY <1>14, <2>1, <2>2 DEF SubStep
<1>15. CASE DispatchSends
  <2>1. outbound' \in Seq(OutMsg) /\ Head(outbound) = outbound[1] /\ 1 \in 1 .. Len(outbound)
    BY <1>1, <1>15, PopFacts DEF DispatchSends
  <2>2. Head(outbound).kind # "note" => Head(outbound).of \in Msgs
    BY <1>1, <2>1 DEF Order, Speaks
  <2>3. buffer' \in [Chats -> SUBSET Msgs] /\ answered' \in 0 .. MaxMsgs
    <3>1. CASE Head(outbound).kind = "delta"
      BY <1>1, <1>15, <2>2, <3>1, GatewayAssumption DEF DispatchSends, Delivered, TypeOK
    <3>2. CASE Head(outbound).kind = "end"
      BY <1>1, <1>15, <2>2, <3>2, GatewayAssumption
         DEF DispatchSends, Delivered, TypeOK, Msgs
    <3>3. CASE Head(outbound).kind \notin {"delta", "end"}
      BY <1>1, <1>15, <2>2, <3>3, GatewayAssumption
         DEF DispatchSends, Delivered, TypeOK, Msgs
    <3> QED
      BY <3>1, <3>2, <3>3
  <2> QED
    BY <1>1, <1>15, <2>1, <2>3 DEF DispatchSends, work, TypeOK
<1>16. CASE SendFails \/ DispatcherCancelled
  <2>1. outbound # <<>> => Head(outbound) = outbound[1] /\ 1 \in 1 .. Len(outbound)
    BY <1>1, HeadTailProperties, EmptySeq DEF TypeOK
  <2>2. outbound # <<>> => BrokenBy(Head(outbound)) \subseteq Msgs
    BY <1>1, <2>1 DEF Order, Speaks, BrokenBy
  <2>3. outbound # <<>> => Tail(outbound) \in Seq(OutMsg)
    BY <1>1, HeadTailProperties DEF TypeOK
  <2> QED
    BY <1>1, <1>16, <2>2, <2>3
       DEF SendFails, DispatcherCancelled, work, channel, TypeOK
<1>17. CASE UNCHANGED vars
  BY <1>1, <1>17 DEF vars, bus, work, channel, history, TypeOK
<1> QED
  BY <1>2, <1>3, <1>4, <1>5, <1>6, <1>7, <1>8, <1>9, <1>10, <1>11, <1>12, <1>13,
     <1>14, <1>15, <1>16, <1>17 DEF Next, WorkerStep, DispatcherStep

-----------------------------------------------------------------------------
(* Life, Serving and BusyWhileServing *)

\* Every step keeps the phases of stop() and of the worker.
LEMMA NextServing ==
  Inv /\ [Next]_vars => Life' /\ Serving' /\ BusyWhileServing'
<1> SUFFICES ASSUME Inv, [Next]_vars PROVE Life' /\ Serving' /\ BusyWhileServing'
  OBVIOUS
<1>1. TypeOK /\ BusyWhileServing /\ Serving /\ Life
  BY DEF Inv
<1> USE DEF Life, Serving, BusyWhileServing, Registered
<1>2. CASE Start
  BY <1>1, <1>2 DEF Start
<1>3. CASE Arrives
  BY <1>1, <1>3 DEF Arrives, work, channel
<1>4. CASE StopBegins
  BY <1>1, <1>4 DEF StopBegins, work, channel
<1>5. CASE StopStep
  <2>1. CASE StopSubs
    BY <1>1, <2>1 DEF StopSubs, work, channel, TypeOK
  <2>2. CASE StopWorker
    BY <1>1, <2>2 DEF StopWorker, channel
  <2>3. CASE StopDispatcher
    BY <1>1, <2>3 DEF StopDispatcher, work
  <2>4. CASE StopReturns
    BY <1>1, <2>4 DEF StopReturns, work, channel
  <2> QED
    BY <1>5, <2>1, <2>2, <2>3, <2>4 DEF StopStep
<1>6. CASE TakeText \/ TakeNew
  <2>1. PICK m \in Msgs :
          /\ Take(m) /\ hand' = m
          /\ \/ worker' = "turn" /\ KindOf[m] = "text"
             \/ worker' = "snapshot" /\ KindOf[m] = "new"
          /\ inflight' = inflight + 1
          /\ UNCHANGED <<life, hooks, subs, awaited, channel>>
    BY <1>6 DEF TakeText, TakeNew
  <2> QED
    BY <1>1, <2>1, MsgFacts DEF Take, channel
<1>7. CASE TakeHelp
  BY <1>1, <1>7 DEF TakeHelp, work, channel
<1>8. CASE NewRotates
  BY <1>1, <1>8, HandFacts DEF NewRotates, Release, channel
<1>9. CASE TurnStreams
  BY <1>1, <1>9 DEF TurnStreams, channel
<1>10. CASE TurnSpawns
  BY <1>1, <1>10 DEF TurnSpawns, Spawns, work, channel, TypeOK
<1>11. CASE TurnEnds
  BY <1>1, <1>11, HandFacts DEF TurnEnds, Release, channel
<1>12. CASE TurnFails
  BY <1>1, <1>12, HandFacts DEF TurnFails, Release, channel
<1>13. CASE WorkerCancelled
  BY <1>1, <1>13, HandFacts DEF WorkerCancelled, channel
<1>14. ASSUME NEW t \in Tasks, SubStep(t)
       PROVE  Life' /\ Serving' /\ BusyWhileServing'
  <2>1. UNCHANGED <<life, hooks, worker, hand, inflight, awaited, dispatcher>>
    BY <1>14 DEF SubStep, SubStarts, SubExecutes, ResumeSpawns, Spawns, SubEnds, SubCancelled,
           work, channel
  <2>2. /\ \A u \in Tasks : subs'[u] = "cancelled" => subs[u] = "cancelled"
        /\ ~hooks => Registered' \subseteq Registered
    BY <1>1, <1>14 DEF SubStep, SubStarts, SubExecutes, ResumeSpawns, Spawns, SubEnds,
                       SubCancelled, TypeOK
  <2> QED
    BY <1>1, <2>1, <2>2
<1>15. CASE DispatchSends
  BY <1>1, <1>15 DEF DispatchSends, work
<1>16. CASE SendFails
  BY <1>1, <1>16 DEF SendFails, work, channel
<1>17. CASE DispatcherCancelled
  BY <1>1, <1>17 DEF DispatcherCancelled, work
<1>18. CASE UNCHANGED vars
  BY <1>1, <1>18 DEF vars, work, channel
<1> QED
  BY <1>2, <1>3, <1>4, <1>5, <1>6, <1>7, <1>8, <1>9, <1>10, <1>11, <1>12, <1>13,
     <1>14, <1>15, <1>16, <1>17, <1>18 DEF Next, WorkerStep, DispatcherStep

-----------------------------------------------------------------------------
(* Memory *)

\* A session is closed for good, and only the newest session of a chat is open.
LEMMA ClosedFacts ==
  ASSUME TypeOK, NEW s \in Sessions
  PROVE  /\ s.nr \in Nat /\ s.chat \in Chats /\ session[s.chat] \in Nat
         /\ s.nr <= session[s.chat] => (Closed(s) <=> s.nr # session[s.chat])
BY DEF TypeOK, Sessions, Closed

\* What the worker's message says it says in the newest session of its chat.
LEMMA MemoryTakeText == Inv /\ TakeText => Memory'
<1> SUFFICES ASSUME Inv, TakeText PROVE Memory'
  OBVIOUS
<1>1. TypeOK /\ MemoryTypes /\ Memory /\ Serving
  BY DEF Inv, TypeOK
<1>2. PICK m \in Msgs :
        /\ worker' = "turn" /\ hand' = m /\ worker = "idle" /\ KindOf[m] = "text"
        /\ said' = [said EXCEPT ![m] = ActiveSession(m)]
        /\ turn' = [session |-> ActiveSession(m), deltas |-> 0,
                    seen |-> SaidIn(ActiveSession(m)) \cup {m}]
        /\ UNCHANGED <<session, subs, parent, view, kept, late, unflushed, broken>>
  BY DEF TakeText, Take, history
<1>3. /\ ActiveSession(m) \in Sessions /\ ActiveSession(m).chat = ChatOf[m]
      /\ ActiveSession(m).nr = session[ChatOf[m]] /\ session[ChatOf[m]] \in Nat
  BY <1>1, ActiveFacts
<1>4. /\ said'[m] = ActiveSession(m)
      /\ \A x \in Speakers \ {m} : said'[x] = said[x]
  BY <1>1, <1>2 DEF MemoryTypes, Speakers
<1>5. hand = None
  BY <1>1, <1>2 DEF Serving
<1>6. \A x \in Speakers \ {m} : EndedWell(x)' => EndedWell(x)
  BY <1>2, <1>5, MsgFacts DEF EndedWell
<1>7. ~EndedWell(m)'
  BY <1>2 DEF EndedWell
<1>8. ~Closed(said[m])'
  BY <1>2, <1>3, <1>4 DEF Closed
<1>9. ClosedSessionsRemembered'
  BY <1>1, <1>2, <1>4, <1>6, <1>8 DEF Memory, ClosedSessionsRemembered, Closed
<1>10. \A x \in Speakers : said'[x] # None =>
         /\ said'[x].nr <= session'[said'[x].chat]
         /\ x \in Msgs => KindOf[x] = "text"
  BY <1>1, <1>2, <1>3, <1>4 DEF Memory
<1>11. turn'.session = ActiveSession(hand)' /\ hand' \in turn'.seen
  BY <1>2 DEF ActiveSession
<1> QED
  BY <1>1, <1>2, <1>4, <1>6, <1>7, <1>9, <1>10, <1>11 DEF Memory

\* The flush reads the session before it waits.
LEMMA MemoryTakeNew == Inv /\ TakeNew => Memory'
<1> SUFFICES ASSUME Inv, TakeNew PROVE Memory'
  OBVIOUS
<1>1. TypeOK /\ Memory /\ Serving
  BY DEF Inv
<1>2. PICK m \in Msgs :
        /\ worker' = "snapshot" /\ hand' = m /\ worker = "idle" /\ KindOf[m] = "new"
        /\ turn' = [session |-> ActiveSession(m), deltas |-> 0,
                    seen |-> SaidIn(ActiveSession(m))]
        /\ UNCHANGED <<session, subs, parent, view, said, kept, late, unflushed, broken>>
  BY DEF TakeNew, Take, FlushRead, memory, history
<1>3. hand = None
  BY <1>1, <1>2 DEF Serving
<1>4. \A x \in Speakers : EndedWell(x)' => EndedWell(x)
  BY <1>2, <1>3, MsgFacts DEF EndedWell
<1>5. ClosedSessionsRemembered'
  BY <1>1, <1>2, <1>4 DEF Memory, ClosedSessionsRemembered, Closed
<1>6. turn'.session = ActiveSession(hand)' /\ SaidIn(turn.session)' = turn'.seen
  BY <1>2 DEF ActiveSession, SaidIn
<1> QED
  BY <1>1, <1>2, <1>4, <1>5, <1>6 DEF Memory

\* /new closes the newest session of the chat for each of its users: what the sender said
\* in it was read by the flush, or by none if that failed.
LEMMA MemoryNewRotates == Inv /\ NewRotates => Memory'
<1> SUFFICES ASSUME Inv, NewRotates PROVE Memory'
  OBVIOUS
<1>1. /\ TypeOK /\ MemoryTypes /\ Memory /\ Serving
      /\ worker = "snapshot" /\ worker' = "idle" /\ hand' = None
  BY DEF Inv, TypeOK, NewRotates, Release
<1>2. hand \in Msgs /\ KindOf[hand] = "new"
  BY <1>1 DEF Serving
<1> DEFINE c == ChatOf[hand]
<1>3. PICK flushed \in BOOLEAN :
        /\ kept' = IF flushed THEN kept \cup turn.seen ELSE kept
        /\ unflushed' = unflushed \cup
             {SessionOf(u, c, session[c]) :
                u \in IF flushed THEN Users \ {SenderOf[hand]} ELSE Users}
        /\ session' = [session EXCEPT ![c] = @ + 1]
        /\ UNCHANGED <<subs, parent, view, said, late, broken>>
  BY DEF NewRotates, history
<1>4. /\ c \in Chats /\ session[c] \in Nat
      /\ turn.session = SessionOf(SenderOf[hand], c, session[c])
  BY <1>1, <1>2, ActiveFacts DEF Memory, ActiveSession
<1>5. /\ session'[c] = session[c] + 1
      /\ \A d \in Chats : session[d] \in Nat /\ session[d] <= session'[d]
      /\ \A d \in Chats \ {c} : session'[d] = session[d]
  BY <1>1, <1>3, <1>4 DEF TypeOK
<1>6. \A s \in Sessions : s.nr <= session[s.chat] => s.nr <= session'[s.chat]
  BY <1>5 DEF Sessions
<1>7. \A x \in Speakers : EndedWell(x)' => EndedWell(x) \/ x = hand
  BY <1>3 DEF EndedWell
<1>8. said[hand] = None
  BY <1>1, <1>2 DEF Memory, Speakers
<1>9. \A x \in Speakers : said[x] # None /\ EndedWell(x)' => x \in kept'
  BY <1>1, <1>3, <1>7, <1>8 DEF Memory
<1>10. ASSUME NEW x \in Speakers, said[x] # None, Closed(said[x])'
       PROVE  x \in kept' \/ (~EndedWell(x)' /\ (said[x] \in unflushed' \/ x \in late'))
  <2>1. said[x] \in Sessions /\ said[x].nr <= session[said[x].chat]
    BY <1>1, <1>10 DEF Memory, MemoryTypes
  <2>2. CASE Closed(said[x])
    <3>1. x \in kept \/ (~EndedWell(x) /\ (said[x] \in unflushed \/ x \in late))
      BY <1>1, <1>10, <2>2 DEF Memory, ClosedSessionsRemembered
    <3> QED
      BY <1>3, <1>9, <1>10, <3>1
  <2>3. CASE ~Closed(said[x])
    <3>1. said[x].nr = session[said[x].chat]
      BY <1>1, <2>1, <2>3, ClosedFacts
    <3>2. said[x].chat = c
      <4>1. said[x].nr < session'[said[x].chat]
        BY <1>3, <1>10 DEF Closed
      <4> QED
        BY <1>5, <2>1, <3>1, <4>1 DEF Sessions
    <3>3. /\ said[x] = SessionOf(said[x].user, c, session[c])
          /\ said[x].user \in Users
      BY <2>1, <3>1, <3>2 DEF Sessions, SessionOf
    <3>4. CASE flushed /\ said[x].user = SenderOf[hand]
      <4>1. x \in SaidIn(turn.session)
        BY <1>4, <3>3, <3>4 DEF SaidIn
      <4>2. x \in turn.seen \/ x \in late
        BY <1>1, <4>1 DEF Memory
      <4> QED
        BY <1>3, <1>9, <1>10, <3>4, <4>2
    <3>5. CASE ~(flushed /\ said[x].user = SenderOf[hand])
      <4>1. said[x] \in unflushed'
        BY <1>3, <3>3, <3>5
      <4> QED
        BY <1>9, <1>10, <4>1
    <3> QED
      BY <3>4, <3>5
  <2> QED
    BY <2>2, <2>3
<1>11. ClosedSessionsRemembered'
  BY <1>3, <1>10 DEF ClosedSessionsRemembered
<1>12. \A x \in Speakers : said'[x] # None =>
         /\ said'[x].nr <= session'[said'[x].chat]
         /\ x \in Msgs => KindOf[x] = "text"
  BY <1>1, <1>3, <1>6 DEF Memory, MemoryTypes
<1>13. \A t \in Tasks : subs[t] \in {"queued", "running", "resuming"} =>
         parent[t] # None /\ parent[t].nr <= session'[parent[t].chat]
  BY <1>1, <1>6 DEF Memory, MemoryTypes
<1>14. \A t \in Tasks : subs[t] = "resuming" => t \in view[t]
  BY <1>1 DEF Memory
<1> QED
  BY <1>1, <1>3, <1>9, <1>11, <1>12, <1>13, <1>14 DEF Memory

\* A step that says nothing, opens no session and reads none keeps Memory, if the memory
\* service has what those turns said that it lets end well.
LEMMA MemoryStays ==
  ASSUME Memory, UNCHANGED <<session, parent, said, late, unflushed>>, kept \subseteq kept',
         \A x \in Speakers : said[x] # None /\ EndedWell(x)' => EndedWell(x) \/ x \in kept',
         worker' \in {"turn", "snapshot"} =>
           /\ worker' = worker /\ hand' = hand
           /\ turn'.session = turn.session /\ turn'.seen = turn.seen,
         \A t \in Tasks :
           /\ subs'[t] \in {"queued", "running", "resuming"} =>
                subs[t] \in {"queued", "running", "resuming"}
           /\ subs'[t] = "resuming" => subs[t] = "resuming" /\ view'[t] = view[t]
  PROVE  Memory'
<1>1. \A x \in Speakers : said[x] # None /\ EndedWell(x)' => x \in kept'
  BY DEF Memory
<1>2. ClosedSessionsRemembered'
  BY <1>1 DEF Memory, ClosedSessionsRemembered, Closed
<1>3. worker' = "turn" => hand' \in turn'.seen
  BY DEF Memory
<1>4. worker' = "snapshot" =>
        \A x \in SaidIn(turn.session) : x \in turn'.seen \/ x \in late'
  BY DEF Memory
<1>5. worker' \in {"turn", "snapshot"} => turn'.session = ActiveSession(hand)'
  BY DEF Memory, ActiveSession
<1>6. worker' = "snapshot" => SaidIn(turn.session) = SaidIn(turn.session)'
  BY DEF SaidIn
<1>7. \A t \in Tasks : subs'[t] \in {"queued", "running", "resuming"} =>
        parent'[t] # None /\ parent'[t].nr <= session'[parent'[t].chat]
  BY DEF Memory
<1>8. \A t \in Tasks : subs'[t] = "resuming" => t \in view'[t]
  BY DEF Memory
<1>9. \A x \in Speakers : said'[x] # None =>
        /\ said'[x].nr <= session'[said'[x].chat]
        /\ x \in Msgs => KindOf[x] = "text"
  BY DEF Memory
<1>10. worker' = "snapshot" =>
         \A x \in SaidIn(turn.session)' : x \in turn'.seen \/ x \in late'
  BY <1>4, <1>6
<1> QED
  BY <1>1, <1>2, <1>3, <1>5, <1>7, <1>8, <1>9, <1>10 DEF Memory

\* The turn of the worker ends: what it has read it has given to the memory service.
LEMMA MemoryRelease == Inv /\ (TurnEnds \/ TurnFails \/ WorkerCancelled) => Memory'
<1> SUFFICES ASSUME Inv, TurnEnds \/ TurnFails \/ WorkerCancelled PROVE Memory'
  OBVIOUS
<1>1. Memory /\ Serving
  BY DEF Inv
<1>2. /\ UNCHANGED <<session, parent, said, view, late, unflushed, subs>>
      /\ worker' \in {"idle", "off"} /\ hand' = None
  BY DEF TurnEnds, TurnFails, WorkerCancelled, Release, memory
<1>3. kept \subseteq kept' /\ broken \subseteq broken'
  BY DEF TurnEnds, TurnFails, WorkerCancelled, memory, history
<1>4. hand # None => hand \in kept' \/ hand \in broken'
  BY <1>1 DEF TurnEnds, TurnFails, WorkerCancelled, Memory
<1>5. \A x \in Speakers : EndedWell(x)' => EndedWell(x) \/ x \in kept'
  BY <1>2, <1>3, <1>4, MsgFacts DEF EndedWell
<1> QED
  BY <1>1, <1>2, <1>3, <1>5, MemoryStays

\* A turn has a sub-agent: the task belongs to the turn's session, which is not a later
\* one than the newest.
LEMMA MemorySpawns ==
  ASSUME TypeOK, Memory, NEW s \in Sessions, s.nr <= session[s.chat], Spawns(s)
  PROVE  Memory'
<1>1. None \notin Sessions
  BY GatewayAssumption DEF Sessions
<1>2. PICK t \in Tasks : /\ subs[t] = "none"
                         /\ subs' = [subs EXCEPT ![t] = "queued"]
                         /\ parent' = [parent EXCEPT ![t] = s]
  BY DEF Spawns
<1>3. UNCHANGED <<session, said, view, kept, late, unflushed, worker, hand, turn, broken>>
  BY DEF Spawns, work, history
<1>4. /\ subs'[t] = "queued" /\ parent'[t] = s
      /\ \A u \in Tasks \ {t} : subs'[u] = subs[u] /\ parent'[u] = parent[u]
  BY <1>2 DEF TypeOK, MemoryTypes
<1>5. \A x \in Speakers : EndedWell(x)' => EndedWell(x)
  BY <1>3, <1>4 DEF EndedWell, Speakers
<1>6. ClosedSessionsRemembered'
  BY <1>3, <1>5 DEF Memory, ClosedSessionsRemembered, Closed
<1>7. \A u \in Tasks :
        /\ subs'[u] \in {"queued", "running", "resuming"} =>
             parent'[u] # None /\ parent'[u].nr <= session[parent'[u].chat]
        /\ subs'[u] = "resuming" => u \in view[u]
  BY <1>1, <1>4 DEF Memory
<1>8. worker \in {"turn", "snapshot"} => turn.session = ActiveSession(hand)'
  BY <1>3 DEF Memory, ActiveSession
<1>9. SaidIn(turn.session)' = SaidIn(turn.session)
  BY <1>3 DEF SaidIn
<1> QED
  BY <1>3, <1>5, <1>6, <1>7, <1>8, <1>9 DEF Memory

\* A resumed turn speaks in the session of the turn that spawned it: if that is closed,
\* or its flush under way, the task is one that came late.
LEMMA MemoryResumes ==
  ASSUME TypeOK, Memory, NEW t \in Tasks, SubExecutes(t)
  PROVE  Memory'
<1>1. /\ subs[t] = "running" /\ subs' = [subs EXCEPT ![t] = "resuming"] /\ Resumes(t)
      /\ UNCHANGED <<session, parent, kept, unflushed, worker, hand, turn, broken>>
  BY DEF SubExecutes, work, history
<1>2. /\ parent[t] \in Sessions /\ parent[t].nr <= session[parent[t].chat]
      /\ t \in Speakers /\ t \notin Msgs
  BY <1>1, MsgFacts DEF Memory, TypeOK, MemoryTypes, Speakers
<1>3. /\ subs'[t] = "resuming" /\ said'[t] = parent[t] /\ t \in view'[t]
      /\ \A u \in Tasks \ {t} : subs'[u] = subs[u] /\ view'[u] = view[u]
      /\ \A x \in Speakers \ {t} : said'[x] = said[x]
  BY <1>1, <1>2 DEF Resumes, TypeOK, MemoryTypes
<1>4. ~EndedWell(t)' /\ \A x \in Speakers \ {t} : EndedWell(x)' => EndedWell(x)
  BY <1>1, <1>2, <1>3 DEF EndedWell, Speakers
<1>5. /\ late \subseteq late'
      /\ Closed(parent[t]) => t \in late'
      /\ worker = "snapshot" /\ turn.session = parent[t] => t \in late'
  BY <1>1 DEF Resumes, Closed
<1>6. ClosedSessionsRemembered'
  BY <1>1, <1>3, <1>4, <1>5 DEF Memory, ClosedSessionsRemembered, Closed
<1>7. \A x \in Speakers : said'[x] # None =>
        /\ said'[x].nr <= session'[said'[x].chat]
        /\ x \in Msgs => KindOf[x] = "text"
  BY <1>1, <1>2, <1>3 DEF Memory
<1>8. worker \in {"turn", "snapshot"} => turn.session = ActiveSession(hand)'
  BY <1>1 DEF Memory, ActiveSession
<1>9. worker = "snapshot" =>
        \A x \in SaidIn(turn.session)' : x \in turn.seen \/ x \in late'
  <2>1. \A x \in SaidIn(turn.session)' :
          x \in Speakers /\ (x = t \/ x \in SaidIn(turn.session)) /\ said'[x] = turn.session
    BY <1>1, <1>3 DEF SaidIn
  <2> QED
    BY <1>3, <1>5, <2>1 DEF Memory
<1>10. \A u \in Tasks :
         /\ subs'[u] \in {"queued", "running", "resuming"} =>
              parent[u] # None /\ parent[u].nr <= session[parent[u].chat]
         /\ subs'[u] = "resuming" => u \in view'[u]
  BY <1>1, <1>3 DEF Memory
<1>11. \A x \in Speakers : said'[x] # None /\ EndedWell(x)' => x \in kept
  BY <1>3, <1>4 DEF Memory
<1> QED
  BY <1>1, <1>6, <1>7, <1>8, <1>9, <1>10, <1>11 DEF Memory

\* A resumed turn that ends well has given what it has read to the memory service.
LEMMA MemorySubEnds ==
  ASSUME TypeOK, Memory, NEW t \in Tasks, SubEnds(t)
  PROVE  Memory'
<1>1. /\ subs[t] = "resuming" /\ view' = [view EXCEPT ![t] = {}]
      /\ \/ subs' = [subs EXCEPT ![t] = "done"] /\ kept' = kept \cup view[t]
         \/ subs' = [subs EXCEPT ![t] = "failed"] /\ kept' = kept
      /\ UNCHANGED <<session, parent, said, late, unflushed, worker, hand, turn, broken>>
  BY DEF SubEnds, work, history
<1>2. t \in view[t]
  BY <1>1 DEF Memory
<1>3. /\ subs'[t] \in {"done", "failed"} /\ (subs'[t] = "done" => t \in kept')
      /\ \A u \in Tasks \ {t} : subs'[u] = subs[u] /\ view'[u] = view[u]
  BY <1>1, <1>2 DEF TypeOK, MemoryTypes
<1>4. \A x \in Speakers : EndedWell(x)' => EndedWell(x) \/ x \in kept'
  BY <1>1, <1>3 DEF EndedWell, Speakers
<1>5. kept \subseteq kept'
  BY <1>1
<1> QED
  BY <1>1, <1>3, <1>4, <1>5, MemoryStays

\* Every step keeps Memory.
LEMMA NextMemory == Inv /\ [Next]_vars => Memory'
<1> SUFFICES ASSUME Inv, [Next]_vars PROVE Memory'
  OBVIOUS
<1>1. TypeOK /\ MemoryTypes /\ Memory /\ Serving
  BY DEF Inv, TypeOK
<1>2. ASSUME UNCHANGED <<session, memory, subs, hand>>, broken \subseteq broken',
             worker' \in {"turn", "snapshot"} =>
               /\ worker' = worker
               /\ turn'.session = turn.session /\ turn'.seen = turn.seen
      PROVE  Memory'
  <2>1. \A x \in Speakers : EndedWell(x)' => EndedWell(x)
    BY <1>2 DEF EndedWell
  <2> QED
    BY <1>1, <1>2, <2>1, MemoryStays DEF memory
<1>3. CASE TakeText \/ TakeNew \/ NewRotates \/ TurnEnds \/ TurnFails \/ WorkerCancelled
  BY <1>3, MemoryTakeText, MemoryTakeNew, MemoryNewRotates, MemoryRelease
<1>4. CASE TurnSpawns
  <2>1. worker = "turn" /\ hand \in Msgs /\ turn.session = ActiveSession(hand)
    BY <1>1, <1>4 DEF TurnSpawns, Serving, Memory
  <2>2. turn.session \in Sessions /\ turn.session.nr <= session[turn.session.chat]
    BY <1>1, <2>1, ActiveFacts
  <2> QED
    BY <1>1, <1>4, <2>2, MemorySpawns DEF TurnSpawns
<1>5. ASSUME NEW t \in Tasks, SubStep(t) PROVE Memory'
  <2>1. CASE SubExecutes(t) \/ SubEnds(t)
    BY <1>1, <2>1, MemoryResumes, MemorySubEnds
  <2>2. CASE ResumeSpawns(t)
    <3>1. parent[t] \in Sessions /\ parent[t].nr <= session[parent[t].chat]
      BY <1>1, <2>2 DEF ResumeSpawns, Memory, MemoryTypes
    <3> QED
      BY <1>1, <2>2, <3>1, MemorySpawns DEF ResumeSpawns
  <2>3. CASE SubStarts(t) \/ SubCancelled(t)
    <3>1. /\ UNCHANGED <<session, memory, worker, hand, turn, broken>>
          /\ \A u \in Tasks : \/ subs'[u] = subs[u]
                              \/ subs[u] = "queued" /\ subs'[u] = "running"
                              \/ subs'[u] = "gone"
      BY <1>1, <2>3 DEF SubStarts, SubCancelled, work, history, TypeOK
    <3>2. \A x \in Speakers : EndedWell(x)' => EndedWell(x)
      BY <3>1 DEF EndedWell, Speakers
    <3> QED
      BY <1>1, <3>1, <3>2, MemoryStays DEF memory
  <2> QED
    BY <1>5, <2>1, <2>2, <2>3 DEF SubStep
<1>6. CASE StopSubs
  <2>1. /\ UNCHANGED <<session, memory, worker, hand, turn, broken>>
        /\ \A u \in Tasks : subs'[u] = subs[u] \/ subs'[u] = "cancelled"
    BY <1>1, <1>6 DEF StopSubs, work, history, TypeOK
  <2>2. \A x \in Speakers : EndedWell(x)' => EndedWell(x)
    BY <2>1 DEF EndedWell, Speakers
  <2> QED
    BY <1>1, <2>1, <2>2, MemoryStays DEF memory
<1>7. CASE Start \/ StopWorker
  <2>1. worker' \in {"idle", "cancelled"} /\ UNCHANGED <<session, memory, subs, hand, broken>>
    BY <1>7 DEF Start, StopWorker, history
  <2> QED
    BY <1>2, <2>1
<1>8. CASE TurnStreams
  <2>1. /\ turn' = [turn EXCEPT !.deltas = @ + 1]
        /\ UNCHANGED <<session, memory, subs, worker, hand, broken>>
    BY <1>8 DEF TurnStreams, history
  <2>2. turn'.session = turn.session /\ turn'.seen = turn.seen
    BY <1>1, <2>1 DEF TypeOK
  <2> QED
    BY <1>2, <2>1, <2>2
<1>9. CASE Arrives \/ StopBegins \/ StopDispatcher \/ StopReturns \/ TakeHelp
           \/ DispatchSends \/ SendFails \/ DispatcherCancelled
  <2>1. UNCHANGED <<session, memory, subs, worker, hand, turn>> /\ broken \subseteq broken'
    BY <1>9 DEF Arrives, StopBegins, StopDispatcher, StopReturns, TakeHelp, DispatchSends,
                SendFails, DispatcherCancelled, work, history
  <2> QED
    BY <1>2, <2>1
<1>10. CASE UNCHANGED vars
  BY <1>2, <1>10 DEF vars, work, history
<1> QED
  BY <1>3, <1>4, <1>5, <1>6, <1>7, <1>8, <1>9, <1>10
     DEF Next, WorkerStep, DispatcherStep, StopStep

-----------------------------------------------------------------------------
(* Permits *)

\* Every step keeps Permits: a sub-agent starts only while fewer hold the semaphore.
LEMMA NextPermits == Inv /\ [Next]_vars => Permits'
<1> SUFFICES ASSUME Inv, [Next]_vars PROVE Permits'
  OBVIOUS
<1>1. TypeOK /\ Permits /\ MaxSub \in Nat \ {0}
  BY GatewayAssumption DEF Inv
<1>2. IsFiniteSet(Spawned) /\ Active \subseteq Spawned /\ IsFiniteSet(Active)
  <2>1. Active \subseteq Spawned
    BY DEF Active, Spawned
  <2> QED
    BY <1>1, <2>1, FS_Subset DEF Permits
<1>3. Cardinality(Active) \in Nat /\ Cardinality(Active) <= MaxSub
  BY <1>1, <1>2, FS_CardinalityType DEF Permits
<1>4. ASSUME Spawned' = Spawned, Active' \subseteq Active PROVE Permits'
  BY <1>1, <1>2, <1>3, <1>4, FS_Subset, FS_CardinalityType DEF Permits
<1>5. ASSUME NEW s, Spawns(s) PROVE Permits'
  <2>1. PICK t \in Tasks : subs[t] = "none" /\ subs' = [subs EXCEPT ![t] = "queued"]
    BY <1>5 DEF Spawns
  <2>2. Spawned' = Spawned \cup {t} /\ Active' = Active
    BY <1>1, <2>1 DEF Spawned, Active, TypeOK
  <2> QED
    BY <1>1, <1>2, <2>2, FS_AddElement DEF Permits
<1>6. CASE StopSubs
  <2>1. Spawned' = Spawned /\ Active' \subseteq Active
    BY <1>1, <1>6 DEF StopSubs, Registered, Spawned, Active, TypeOK
  <2> QED
    BY <1>4, <2>1
<1>7. ASSUME NEW t \in Tasks, SubStarts(t) PROVE Permits'
  <2>1. Spawned' = Spawned /\ Active' = Active \cup {t} /\ t \in Spawned
    BY <1>1, <1>7 DEF SubStarts, Spawned, Active, TypeOK
  <2>2. /\ Holding \subseteq Spawned /\ Active \subseteq Holding
        /\ Cardinality(Holding) < MaxSub
    BY <1>7 DEF SubStarts, MaySubStart, Holding, Spawned, Active
  <2>3. IsFiniteSet(Holding) /\ Cardinality(Active) <= Cardinality(Holding)
    BY <1>2, <2>2, FS_Subset
  <2>4. Cardinality(Holding) \in Nat
    BY <2>3, FS_CardinalityType
  <2>5. Cardinality(Active \cup {t}) <= Cardinality(Active) + 1
    <3>1. Cardinality(Active \cup {t}) = IF t \in Active THEN Cardinality(Active)
                                         ELSE Cardinality(Active) + 1
      BY <1>2, FS_AddElement
    <3> QED
      BY <1>3, <3>1
  <2>6. IsFiniteSet(Active') /\ Cardinality(Active') \in Nat
    BY <1>2, <2>1, FS_AddElement, FS_CardinalityType
  <2>7. Cardinality(Active') <= MaxSub
    BY <1>1, <1>3, <2>1, <2>2, <2>3, <2>4, <2>5, <2>6
  <2> QED
    BY <1>2, <2>1, <2>7 DEF Permits
<1>8. ASSUME NEW t \in Tasks, SubExecutes(t) \/ SubEnds(t) \/ SubCancelled(t)
      PROVE  Permits'
  <2>1. Spawned' = Spawned /\ Active' \subseteq Active
    BY <1>1, <1>8 DEF SubExecutes, SubEnds, SubCancelled, Spawned, Active, TypeOK
  <2> QED
    BY <1>4, <2>1
<1>9. CASE UNCHANGED subs
  <2>1. Spawned' = Spawned /\ Active' = Active
    BY <1>9 DEF Spawned, Active
  <2> QED
    BY <1>4, <2>1
<1> QED
  BY <1>5, <1>6, <1>7, <1>8, <1>9
     DEF Next, WorkerStep, DispatcherStep, StopStep, SubStep, Start, Arrives, StopBegins,
         StopWorker, StopDispatcher, StopReturns, TakeText, TakeHelp, TakeNew, NewRotates,
         TurnStreams, TurnSpawns, ResumeSpawns, TurnEnds, TurnFails, WorkerCancelled, DispatchSends, SendFails,
         DispatcherCancelled, vars

-----------------------------------------------------------------------------
(* Order *)

\* The numbers the order is about.
LEMMA OrderTypes ==
  ASSUME TypeOK
  PROVE  /\ Len(inbound) \in Nat /\ \A k \in 1 .. Len(inbound) : inbound[k] \in Msgs
         /\ arrived \in Nat /\ answered \in Nat /\ Msgs \subseteq Nat
         /\ \A m \in Msgs : m > 0
<1>1. inbound \in Seq(Msgs) /\ MaxMsgs \in Nat
  BY GatewayAssumption DEF TypeOK
<1>2. Len(inbound) \in Nat /\ \A k \in 1 .. Len(inbound) : inbound[k] \in Msgs
  BY <1>1, LenProperties, ElementOfSeq
<1> QED
  BY <1>1, <1>2, MsgFacts DEF TypeOK

\* Publishing a message of the one in hand, while it is in hand or as its answer.
LEMMA OrderPublish ==
  ASSUME TypeOK, Order, NEW x \in OutMsg, Publish(<<x>>),
         UNCHANGED <<inbound, arrived, answered>>, hand # None, hand \in Msgs,
         x.of = hand, x.kind # "note",
         \/ hand' = hand /\ x.kind \notin {"reply", "end"}
         \/ hand' = None
  PROVE  Order'
<1> DEFINE n == Len(outbound)
<1>1. /\ n \in Nat /\ Len(outbound') = n + 1
      /\ \A i \in 1 .. n : outbound'[i] = outbound[i]
      /\ outbound'[n + 1] = x
  BY PublishOne
<1>2. \A i \in 1 .. n + 1 : i \in 1 .. n \/ i = n + 1
  BY <1>1
<1>3. \A i \in 1 .. n : outbound[i].kind # "note" =>
        /\ outbound[i].of \in Nat /\ outbound[i].of <= hand
        /\ outbound[i].kind \in {"reply", "end"} => outbound[i].of < hand
  BY OrderTypes DEF Order, Speaks, Answers
<1>4. hand \in Nat /\ answered < hand /\ hand <= arrived
      /\ \A k \in 1 .. Len(inbound) : hand < inbound[k]
  BY OrderTypes DEF Order
<1>5. ASSUME NEW i \in 1 .. n + 1, Speaks(i)'
      PROVE  /\ outbound'[i].of \in Msgs /\ outbound'[i].of <= arrived
             /\ \A k \in 1 .. Len(inbound) : outbound'[i].of < inbound[k]
             /\ hand' # None => outbound'[i].of <= hand'
             /\ Answers(i)' => answered < outbound'[i].of
             /\ Answers(i)' /\ hand' # None => outbound'[i].of < hand'
  <2>1. CASE i \in 1 .. n
    BY <1>1, <1>5, <2>1 DEF Order, Speaks, Answers
  <2>2. CASE i = n + 1
    BY <1>1, <1>4, <2>2 DEF Answers
  <2> QED
    BY <1>2, <2>1, <2>2
<1>6. ASSUME NEW i \in 1 .. n + 1, NEW j \in 1 .. n + 1,
             i < j, Speaks(i)', Speaks(j)'
      PROVE  /\ outbound'[i].of <= outbound'[j].of
             /\ Answers(i)' /\ Answers(j)' => outbound'[i].of < outbound'[j].of
  <2>1. CASE j \in 1 .. n
    BY <1>1, <1>6, <2>1 DEF Order, Speaks, Answers
  <2>2. CASE j = n + 1
    BY <1>1, <1>3, <1>6, <2>2 DEF Speaks, Answers
  <2> QED
    BY <1>2, <2>1, <2>2
<1>7. /\ \A k \in 1 .. Len(inbound) : inbound[k] <= arrived /\ answered < inbound[k]
      /\ \A k, l \in 1 .. Len(inbound) : k < l => inbound[k] < inbound[l]
      /\ answered <= arrived
  BY DEF Order
<1>8. /\ hand' # None => hand' = hand
      /\ UNCHANGED <<inbound, arrived, answered>> /\ Len(outbound') = n + 1
  BY <1>1
<1> HIDE DEF n
<1> QED
  BY <1>4, <1>5, <1>6, <1>7, <1>8 DEF Order

\* Taking a message off either queue, and letting go of the one in hand.
LEMMA OrderPop ==
  ASSUME TypeOK, Order, outbound # <<>>, outbound' = Tail(outbound),
         UNCHANGED <<inbound, arrived, hand>>,
         \/ answered' = answered
         \/ answered' = outbound[1].of /\ Answers(1)
  PROVE  Order'
<1>1. /\ Len(outbound) \in Nat \ {0} /\ Len(outbound') = Len(outbound) - 1
      /\ \A i \in 1 .. Len(outbound') : outbound'[i] = outbound[i + 1]
  BY PopFacts
<1>2. \A i \in 1 .. Len(outbound') :
        i + 1 \in 1 .. Len(outbound) /\ 1 \in 1 .. Len(outbound) /\ 1 < i + 1
  BY <1>1
<1>3. 1 \in 1 .. Len(outbound)
  BY <1>1
<1>4. Answers(1) => Speaks(1)
  BY DEF Answers, Speaks
<1>5. /\ \A k \in 1 .. Len(inbound) : answered' < inbound[k]
      /\ answered' <= arrived
      /\ hand # None => answered' < hand
  BY <1>3, <1>4 DEF Order
<1>6. ASSUME NEW i \in 1 .. Len(outbound'), Speaks(i)'
      PROVE  /\ outbound'[i].of \in Msgs /\ outbound'[i].of <= arrived
             /\ \A k \in 1 .. Len(inbound) : outbound'[i].of < inbound[k]
             /\ hand # None => outbound'[i].of <= hand
             /\ Answers(i)' => answered' < outbound'[i].of
             /\ Answers(i)' /\ hand # None => outbound'[i].of < hand
  <2>1. Speaks(i + 1) /\ (Answers(i)' => Answers(i + 1)) /\ outbound'[i] = outbound[i + 1]
    BY <1>1, <1>6 DEF Speaks, Answers
  <2> QED
    BY <1>2, <1>3, <1>4, <2>1 DEF Order
<1>7. ASSUME NEW i \in 1 .. Len(outbound'), NEW j \in 1 .. Len(outbound'),
             i < j, Speaks(i)', Speaks(j)'
      PROVE  /\ outbound'[i].of <= outbound'[j].of
             /\ Answers(i)' /\ Answers(j)' => outbound'[i].of < outbound'[j].of
  <2>1. i + 1 < j + 1
    BY <1>1, <1>7
  <2> QED
    BY <1>1, <1>2, <1>7, <2>1 DEF Order, Speaks, Answers
<1> QED
  BY <1>5, <1>6, <1>7 DEF Order

\* A step that leaves the queues alone, and the worker's hand or only empties it.
LEMMA OrderKept ==
  ASSUME TypeOK, Order, UNCHANGED <<inbound, outbound, arrived, answered>>,
         hand' = hand \/ hand' = None
  PROVE  Order'
<1>1. CASE hand' = hand
  BY <1>1 DEF Order, Speaks, Answers
<1>2. CASE hand' = None
  BY <1>2 DEF Order, Speaks, Answers
<1> QED
  BY <1>1, <1>2

\* The worker takes a message.
LEMMA OrderTake ==
  ASSUME TypeOK, Order, NEW m \in Msgs, Take(m), hand = None,
         UNCHANGED <<outbound, arrived, answered>>, hand' = m
  PROVE  Order'
<1>1. /\ m = inbound[1] /\ Len(inbound) \in Nat \ {0} /\ Len(inbound') = Len(inbound) - 1
      /\ \A k \in 1 .. Len(inbound') : inbound'[k] = inbound[k + 1]
  BY TakeFacts
<1>2. \A k \in 1 .. Len(inbound') :
        k + 1 \in 1 .. Len(inbound) /\ 1 \in 1 .. Len(inbound) /\ 1 < k + 1
  BY <1>1
<1>3. 1 \in 1 .. Len(inbound)
  BY <1>1
<1>4. /\ \A k \in 1 .. Len(inbound') :
           inbound'[k] <= arrived /\ answered < inbound'[k] /\ m < inbound'[k]
      /\ answered < m /\ m <= arrived /\ answered <= arrived
  BY <1>1, <1>2, <1>3 DEF Order
<1>5. \A k, l \in 1 .. Len(inbound') : k < l => inbound'[k] < inbound'[l]
  <2> SUFFICES ASSUME NEW k \in 1 .. Len(inbound'), NEW l \in 1 .. Len(inbound'), k < l
               PROVE  inbound'[k] < inbound'[l]
    OBVIOUS
  <2>1. k + 1 < l + 1
    BY <1>1
  <2> QED
    BY <1>1, <1>2, <2>1 DEF Order
<1>6. \A i \in 1 .. Len(outbound) : Speaks(i) =>
        /\ outbound[i].of \in Msgs /\ outbound[i].of <= arrived /\ outbound[i].of < m
        /\ \A k \in 1 .. Len(inbound') : outbound[i].of < inbound'[k]
        /\ Answers(i) => answered < outbound[i].of
  BY <1>1, <1>2, <1>3 DEF Order
<1>7. \A i \in 1 .. Len(outbound) : Speaks(i) => outbound[i].of <= m
  BY <1>6, OrderTypes
<1>8. \A i, j \in 1 .. Len(outbound) : i < j /\ Speaks(i) /\ Speaks(j) =>
        /\ outbound[i].of <= outbound[j].of
        /\ Answers(i) /\ Answers(j) => outbound[i].of < outbound[j].of
  BY DEF Order
<1> QED
  BY <1>4, <1>5, <1>6, <1>7, <1>8 DEF Order, Speaks, Answers

\* The end of a stream and the final text after it, as the turn in hand ends.
LEMMA OrderStreamEnd ==
  ASSUME TypeOK, Order, NEW x \in OutMsg, NEW y \in OutMsg, Publish(<<x, y>>),
         UNCHANGED <<inbound, arrived, answered>>, hand # None, hand \in Msgs,
         x = Out("end", hand), y = Out("streamed", hand), hand' = None
  PROVE  Order'
<1> DEFINE n == Len(outbound)
<1>1. /\ n \in Nat /\ Len(outbound') = n + 2
      /\ \A i \in 1 .. n : outbound'[i] = outbound[i]
      /\ outbound'[n + 1] = x /\ outbound'[n + 2] = y
      /\ x.of = hand /\ x.kind = "end" /\ y.of = hand /\ y.kind = "streamed"
  BY PublishTwo DEF Out
<1>2. \A i \in 1 .. n + 2 : i \in 1 .. n \/ i = n + 1 \/ i = n + 2
  BY <1>1
<1>3. \A i \in 1 .. n : outbound[i].kind # "note" =>
        /\ outbound[i].of \in Nat /\ outbound[i].of <= hand
        /\ outbound[i].kind \in {"reply", "end"} => outbound[i].of < hand
  BY OrderTypes DEF Order, Speaks, Answers
<1>4. hand \in Nat /\ answered < hand /\ hand <= arrived
      /\ \A k \in 1 .. Len(inbound) : hand < inbound[k]
  BY OrderTypes DEF Order
<1>5. ASSUME NEW i \in 1 .. n + 2, Speaks(i)'
      PROVE  /\ outbound'[i].of \in Msgs /\ outbound'[i].of <= arrived
             /\ \A k \in 1 .. Len(inbound) : outbound'[i].of < inbound[k]
             /\ Answers(i)' => answered < outbound'[i].of
  <2>1. CASE i \in 1 .. n
    BY <1>1, <1>5, <2>1 DEF Order, Speaks, Answers
  <2>2. CASE i = n + 1 \/ i = n + 2
    BY <1>1, <1>4, <2>2 DEF Answers
  <2> QED
    BY <1>2, <2>1, <2>2
<1>6. ASSUME NEW i \in 1 .. n + 2, NEW j \in 1 .. n + 2,
             i < j, Speaks(i)', Speaks(j)'
      PROVE  /\ outbound'[i].of <= outbound'[j].of
             /\ Answers(i)' /\ Answers(j)' => outbound'[i].of < outbound'[j].of
  <2>1. CASE i \in 1 .. n /\ j \in 1 .. n
    BY <1>1, <1>6, <2>1 DEF Order, Speaks, Answers
  <2>2. CASE i \in 1 .. n /\ (j = n + 1 \/ j = n + 2)
    BY <1>1, <1>3, <1>6, <2>2 DEF Speaks, Answers
  <2>3. CASE i = n + 1 /\ j = n + 2
    BY <1>1, <1>4, <2>3 DEF Answers
  <2> QED
    BY <1>1, <1>2, <1>6, <2>1, <2>2, <2>3
<1>7. /\ \A k \in 1 .. Len(inbound) : inbound[k] <= arrived /\ answered < inbound[k]
      /\ \A k, l \in 1 .. Len(inbound) : k < l => inbound[k] < inbound[l]
      /\ answered <= arrived
  BY DEF Order
<1>8. UNCHANGED <<inbound, arrived, answered>> /\ Len(outbound') = n + 2
  BY <1>1
<1> HIDE DEF n
<1> QED
  BY <1>5, <1>6, <1>7, <1>8 DEF Order

\* A notification goes between the answers without disturbing them.
LEMMA OrderNote ==
  ASSUME TypeOK, Order, NEW x \in OutMsg, Publish(<<x>>), x.kind = "note",
         UNCHANGED <<inbound, arrived, answered, hand>>
  PROVE  Order'
<1> DEFINE n == Len(outbound)
<1>1. /\ n \in Nat /\ Len(outbound') = n + 1
      /\ \A i \in 1 .. n : outbound'[i] = outbound[i]
      /\ outbound'[n + 1] = x
  BY PublishOne
<1>2. \A i \in 1 .. n + 1 :
        Speaks(i)' => i \in 1 .. n /\ Speaks(i) /\ outbound'[i] = outbound[i]
                      /\ (Answers(i)' => Answers(i))
  BY <1>1 DEF Speaks, Answers
<1>3. UNCHANGED <<inbound, arrived, answered, hand>> /\ Len(outbound') = n + 1
  BY <1>1
<1>4. ASSUME NEW i \in 1 .. n + 1, Speaks(i)'
      PROVE  /\ outbound'[i].of \in Msgs /\ outbound'[i].of <= arrived
             /\ \A k \in 1 .. Len(inbound) : outbound'[i].of < inbound[k]
             /\ hand # None => outbound'[i].of <= hand
             /\ Answers(i)' => answered < outbound'[i].of
             /\ Answers(i)' /\ hand # None => outbound'[i].of < hand
  BY <1>2, <1>4 DEF Order
<1>5. ASSUME NEW i \in 1 .. n + 1, NEW j \in 1 .. n + 1,
             i < j, Speaks(i)', Speaks(j)'
      PROVE  /\ outbound'[i].of <= outbound'[j].of
             /\ Answers(i)' /\ Answers(j)' => outbound'[i].of < outbound'[j].of
  BY <1>2, <1>5 DEF Order
<1>6. /\ \A k \in 1 .. Len(inbound) : inbound[k] <= arrived /\ answered < inbound[k]
      /\ \A k, l \in 1 .. Len(inbound) : k < l => inbound[k] < inbound[l]
      /\ answered <= arrived
      /\ hand # None => /\ answered < hand /\ hand <= arrived
                        /\ \A k \in 1 .. Len(inbound) : hand < inbound[k]
  BY DEF Order
<1> HIDE DEF n
<1> QED
  BY <1>3, <1>4, <1>5, <1>6 DEF Order

\* A message comes in behind all the others.
LEMMA OrderArrives ==
  ASSUME TypeOK, Order, Arrives
  PROVE  Order'
<1> DEFINE n == Len(inbound)
<1>1. /\ n \in Nat /\ Len(inbound') = n + 1
      /\ \A k \in 1 .. n : inbound'[k] = inbound[k]
      /\ inbound'[n + 1] = arrived + 1
  <2>1. arrived + 1 \in Msgs /\ inbound \in Seq(Msgs) /\ inbound' = Append(inbound, arrived + 1)
    BY GatewayAssumption DEF Arrives, TypeOK, Msgs
  <2> QED
    BY <2>1, AppendProperties, LenProperties
<1>2. \A k \in 1 .. n + 1 : k \in 1 .. n \/ k = n + 1
  BY <1>1
<1>3. UNCHANGED <<outbound, hand, answered>> /\ arrived' = arrived + 1
  BY DEF Arrives, work
<1>4. /\ \A k \in 1 .. n : inbound[k] \in Nat
      /\ arrived \in Nat /\ answered \in Nat
      /\ hand # None => hand \in Nat
      /\ \A i \in 1 .. Len(outbound) : Speaks(i) => outbound[i].of \in Nat
  BY OrderTypes DEF TypeOK, Order
<1>5. /\ \A k \in 1 .. n + 1 : inbound'[k] <= arrived + 1 /\ answered < inbound'[k]
      /\ answered <= arrived + 1
  BY <1>1, <1>2, <1>4 DEF Order
<1>6. ASSUME NEW k \in 1 .. n + 1, NEW l \in 1 .. n + 1, k < l
      PROVE  inbound'[k] < inbound'[l]
  <2>1. k \in 1 .. n
    BY <1>1, <1>6
  <2>2. inbound[k] \in Nat /\ inbound[k] <= arrived
    BY <1>4, <2>1 DEF Order
  <2>3. CASE l \in 1 .. n
    BY <1>1, <1>6, <2>1, <2>3 DEF Order
  <2>4. CASE l = n + 1
    BY <1>1, <1>4, <2>1, <2>2, <2>4
  <2> QED
    BY <1>2, <2>3, <2>4
<1>7. hand # None => /\ answered < hand /\ hand <= arrived + 1
                     /\ \A k \in 1 .. n + 1 : hand < inbound'[k]
  BY <1>1, <1>2, <1>4 DEF Order
<1>8. \A i \in 1 .. Len(outbound) : Speaks(i) =>
        /\ outbound[i].of \in Msgs /\ outbound[i].of <= arrived + 1
        /\ \A k \in 1 .. n + 1 : outbound[i].of < inbound'[k]
        /\ hand # None => outbound[i].of <= hand
        /\ Answers(i) => answered < outbound[i].of
        /\ Answers(i) /\ hand # None => outbound[i].of < hand
  BY <1>1, <1>2, <1>4, SMTT(30) DEF Order
<1>9. \A i, j \in 1 .. Len(outbound) : i < j /\ Speaks(i) /\ Speaks(j) =>
        /\ outbound[i].of <= outbound[j].of
        /\ Answers(i) /\ Answers(j) => outbound[i].of < outbound[j].of
  BY DEF Order
<1>10. Len(inbound') = n + 1
  BY <1>1
<1> HIDE DEF n
<1> QED
  BY <1>3, <1>5, <1>6, <1>7, <1>8, <1>9, <1>10 DEF Order, Speaks, Answers

\* The worker takes /help and answers it.
LEMMA OrderHelp ==
  ASSUME TypeOK, Order, NEW m \in Msgs, Take(m), hand = None,
         NEW x \in OutMsg, Publish(<<x>>), x.of = m, x.kind = "reply",
         UNCHANGED <<arrived, answered, hand>>
  PROVE  Order'
<1> DEFINE n == Len(outbound)
<1>1. /\ m = inbound[1] /\ Len(inbound) \in Nat \ {0} /\ Len(inbound') = Len(inbound) - 1
      /\ \A k \in 1 .. Len(inbound') : inbound'[k] = inbound[k + 1]
  BY TakeFacts
<1>2. \A k \in 1 .. Len(inbound') :
        k + 1 \in 1 .. Len(inbound) /\ 1 \in 1 .. Len(inbound) /\ 1 < k + 1
  BY <1>1
<1>3. 1 \in 1 .. Len(inbound)
  BY <1>1
<1>4. /\ \A k \in 1 .. Len(inbound') :
           inbound'[k] <= arrived /\ answered < inbound'[k] /\ m < inbound'[k]
      /\ answered < m /\ m <= arrived /\ answered <= arrived
  BY <1>1, <1>2, <1>3 DEF Order
<1>5. \A k, l \in 1 .. Len(inbound') : k < l => inbound'[k] < inbound'[l]
  <2> SUFFICES ASSUME NEW k \in 1 .. Len(inbound'), NEW l \in 1 .. Len(inbound'), k < l
               PROVE  inbound'[k] < inbound'[l]
    OBVIOUS
  <2>1. k + 1 < l + 1
    BY <1>1
  <2> QED
    BY <1>1, <1>2, <2>1 DEF Order
<1>6. \A i \in 1 .. n : Speaks(i) =>
        /\ outbound[i].of \in Msgs /\ outbound[i].of <= arrived /\ outbound[i].of < m
        /\ \A k \in 1 .. Len(inbound') : outbound[i].of < inbound'[k]
        /\ Answers(i) => answered < outbound[i].of
  BY <1>1, <1>2, <1>3 DEF Order
<1>7. \A i \in 1 .. n : Speaks(i) => outbound[i].of <= m
  BY <1>6, OrderTypes
<1>8. /\ n \in Nat /\ Len(outbound') = n + 1
      /\ \A i \in 1 .. n : outbound'[i] = outbound[i]
      /\ outbound'[n + 1] = x
  BY PublishOne
<1>9. \A i \in 1 .. n + 1 : i \in 1 .. n \/ i = n + 1
  BY <1>8
<1>10. ASSUME NEW i \in 1 .. n + 1, Speaks(i)'
       PROVE  /\ outbound'[i].of \in Msgs /\ outbound'[i].of <= arrived
              /\ \A k \in 1 .. Len(inbound') : outbound'[i].of < inbound'[k]
              /\ Answers(i)' => answered < outbound'[i].of
  <2>1. CASE i \in 1 .. n
    BY <1>6, <1>8, <1>10, <2>1 DEF Speaks, Answers
  <2>2. CASE i = n + 1
    BY <1>4, <1>8, <2>2
  <2> QED
    BY <1>9, <2>1, <2>2
<1>11. ASSUME NEW i \in 1 .. n + 1, NEW j \in 1 .. n + 1,
              i < j, Speaks(i)', Speaks(j)'
       PROVE  /\ outbound'[i].of <= outbound'[j].of
              /\ Answers(i)' /\ Answers(j)' => outbound'[i].of < outbound'[j].of
  <2>1. CASE j \in 1 .. n
    BY <1>8, <1>11, <2>1 DEF Order, Speaks, Answers
  <2>2. CASE j = n + 1
    BY <1>6, <1>7, <1>8, <1>11, <2>2 DEF Speaks
  <2> QED
    BY <1>9, <2>1, <2>2
<1>12. UNCHANGED <<arrived, answered, hand>> /\ Len(outbound') = n + 1
  BY <1>8
<1> HIDE DEF n
<1> QED
  BY <1>4, <1>5, <1>10, <1>11, <1>12 DEF Order

\* Every step keeps the messages in the order of their arrival.
LEMMA NextOrder == Inv /\ [Next]_vars => Order'
<1> SUFFICES ASSUME Inv, [Next]_vars PROVE Order'
  OBVIOUS
<1>1. TypeOK /\ BusyWhileServing /\ Serving /\ Order
  BY DEF Inv
<1>2. CASE Arrives
  BY <1>1, <1>2, OrderArrives
<1>3. CASE TakeText \/ TakeNew
  <2>1. PICK m \in Msgs :
          /\ Take(m) /\ hand' = m /\ UNCHANGED <<outbound, arrived, answered>>
    BY <1>3 DEF TakeText, TakeNew, history
  <2>2. hand = None
    BY <1>1, <2>1 DEF Take, Serving
  <2> QED
    BY <1>1, <2>1, <2>2, OrderTake
<1>4. CASE TakeHelp
  <2>1. PICK m \in Msgs :
          /\ Take(m) /\ Publish(<<Out("reply", m)>>)
          /\ UNCHANGED <<arrived, answered, hand>>
    BY <1>4 DEF TakeHelp, history, work
  <2>2. hand = None
    BY <1>1, <2>1 DEF Take, Serving
  <2>3. /\ Out("reply", m) \in OutMsg
        /\ Out("reply", m).of = m /\ Out("reply", m).kind = "reply"
    BY OutFacts DEF Kinds
  <2> QED
    BY <1>1, <2>1, <2>2, <2>3, OrderHelp
<1>5. CASE NewRotates \/ TurnEnds \/ TurnStreams
  <2>1. hand \in Msgs /\ hand # None
    BY <1>1, <1>5, HandFacts DEF NewRotates, TurnEnds, TurnStreams
  <2>2. /\ UNCHANGED <<inbound, arrived, answered>>
        /\ hand' = IF TurnStreams THEN hand ELSE None
    BY <1>5, <2>1 DEF NewRotates, TurnEnds, TurnStreams, Release, history
  <2>3. \A kind \in Kinds : /\ Out(kind, hand) \in OutMsg
                            /\ Out(kind, hand).kind = kind /\ Out(kind, hand).of = hand
    BY <2>1, OutFacts
  <2>4. CASE Publish(<<Out("reply", hand)>>) /\ hand' = None
    BY <1>1, <2>1, <2>2, <2>3, <2>4, OrderPublish DEF Kinds
  <2>5. CASE Publish(<<Out("delta", hand)>>) /\ hand' = hand
    BY <1>1, <2>1, <2>2, <2>3, <2>5, OrderPublish DEF Kinds
  <2>6. CASE Publish(<<Out("end", hand), Out("streamed", hand)>>) /\ hand' = None
    BY <1>1, <2>1, <2>2, <2>3, <2>6, OrderStreamEnd DEF Kinds
  <2> QED
    BY <1>5, <2>4, <2>5, <2>6
       DEF NewRotates, TurnEnds, TurnStreams, TurnOutput, Release
<1>6. CASE TurnFails \/ WorkerCancelled
  BY <1>1, <1>6, OrderKept DEF TurnFails, WorkerCancelled, Release, bus
<1>7. ASSUME NEW t \in Tasks, SubEnds(t) PROVE Order'
  <2>1. UNCHANGED <<inbound, arrived, answered, hand>>
    BY <1>7 DEF SubEnds, history, work
  <2>2. CASE t \in Notify
    <3>1. Out("note", t) \in OutMsg /\ Out("note", t).kind = "note"
      BY OutFacts DEF Kinds
    <3> QED
      BY <1>1, <1>7, <2>1, <2>2, <3>1, OrderNote DEF SubEnds
  <2>3. CASE t \notin Notify
    <3>1. outbound' = outbound
      BY <1>1, <1>7, <2>3, ConcatEmptySeq DEF SubEnds, Publish, TypeOK
    <3> QED
      BY <1>1, <2>1, <3>1, OrderKept
  <2> QED
    BY <2>2, <2>3
<1>8. CASE DispatchSends
  <2>1. Head(outbound) = outbound[1] /\ outbound # <<>> /\ outbound' = Tail(outbound)
    BY <1>1, <1>8, PopFacts DEF DispatchSends
  <2>2. /\ UNCHANGED <<inbound, arrived, hand>>
        /\ \/ answered' = answered
           \/ answered' = outbound[1].of /\ Answers(1)
    BY <1>8, <2>1 DEF DispatchSends, Delivered, Answers, work
  <2> QED
    BY <1>1, <2>1, <2>2, OrderPop
<1>9. CASE SendFails
  BY <1>1, <1>9, OrderPop DEF SendFails, work
<1>10. CASE DispatcherCancelled
  <2>1. UNCHANGED <<inbound, arrived, hand, answered>>
    BY <1>10 DEF DispatcherCancelled, work
  <2>2. \/ outbound' = outbound
        \/ outbound # <<>> /\ outbound' = Tail(outbound)
    BY <1>10 DEF DispatcherCancelled
  <2> QED
    BY <1>1, <2>1, <2>2, OrderPop, OrderKept
<1>11. CASE UNCHANGED <<inbound, outbound, hand, arrived, answered>>
  BY <1>1, <1>11, OrderKept
<1> QED
  BY <1>2, <1>3, <1>4, <1>5, <1>6, <1>7, <1>8, <1>9, <1>10, <1>11
     DEF Next, WorkerStep, DispatcherStep, StopStep, SubStep, Start, StopBegins,
         StopSubs, StopWorker, StopDispatcher, StopReturns, TurnSpawns, SubStarts,
         SubExecutes, ResumeSpawns, Spawns, SubCancelled, vars, work, bus, history

-----------------------------------------------------------------------------
(* Streams *)

\* What is streamed is an inbound message.
LEMMA StreamedFacts ==
  ASSUME TypeOK
  PROVE  /\ \A m : Streamed(m) => m \in Msgs /\ m \in Nat /\ m # None
         /\ \A c \in Chats : \A m \in buffer[c] : m \in Msgs /\ m \in Nat
BY MsgFacts, GatewayAssumption DEF Streamed, TypeOK

\* Streams is kept by a step that publishes, if the hand that is emptied leaves the
\* end of its stream behind, and what is new is not of an earlier message.
LEMMA StreamsGrow ==
  ASSUME TypeOK, Streams, NEW n \in Nat, n = Len(outbound), Len(outbound') \in Nat,
         n <= Len(outbound'), \A i \in 1 .. n : outbound'[i] = outbound[i],
         buffer' = buffer, broken \subseteq broken',
         \A m \in Msgs : Started(m) => Started(m)',
         \A m \in Msgs : hand = m /\ Streamed(m) =>
           \/ hand' = m \/ m \in broken'
           \/ \E j \in n + 1 .. Len(outbound') : outbound'[j] = Out("end", m),
         \A i \in n + 1 .. Len(outbound') :
           /\ outbound'[i].kind = "delta" =>
                outbound'[i].of = hand' /\ Streamed(outbound'[i].of)
           /\ outbound'[i].kind # "note" =>
                \A m \in Msgs : Started(m) => m <= outbound'[i].of
  PROVE  Streams'
<1>1. \A i \in 1 .. Len(outbound') : i \in 1 .. n \/ i \in n + 1 .. Len(outbound')
  OBVIOUS
<1>2. 1 .. n \subseteq 1 .. Len(outbound')
  OBVIOUS
<1>3. \A j \in n + 1 .. Len(outbound') : j \in 1 .. Len(outbound') /\ n < j
  OBVIOUS
<1>4. ASSUME NEW i \in 0 .. n, NEW m, Streamed(m), m \in broken \/ EndsAfter(i, m)
      PROVE  m \in broken' \/ EndsAfter(i, m)'
  <2>1. CASE m \in broken
    BY <2>1
  <2>2. CASE hand = m
    <3>1. \/ hand' = m \/ m \in broken'
          \/ \E j \in n + 1 .. Len(outbound') : outbound'[j] = Out("end", m)
      BY <1>4, <2>2, StreamedFacts
    <3>2. \A j \in n + 1 .. Len(outbound') : i < j
      OBVIOUS
    <3> QED
      BY <1>3, <3>1, <3>2 DEF EndsAfter
  <2>3. CASE \E j \in 1 .. Len(outbound) : i < j /\ outbound[j] = Out("end", m)
    <3>1. PICK j \in 1 .. n : i < j /\ outbound[j] = Out("end", m)
      BY <2>3
    <3>2. j \in 1 .. Len(outbound') /\ outbound'[j] = Out("end", m)
      BY <1>2, <3>1
    <3> QED
      BY <3>1, <3>2 DEF EndsAfter
  <2> QED
    BY <1>4, <2>1, <2>2, <2>3 DEF EndsAfter
<1>5. ASSUME NEW i \in 1 .. Len(outbound'), outbound'[i].kind = "delta"
      PROVE  /\ Streamed(outbound'[i].of)
             /\ outbound'[i].of \in broken' \/ EndsAfter(i, outbound[i].of)'
  <2>1. CASE i \in 1 .. n
    <3>1. outbound'[i] = outbound[i] /\ i \in 0 .. n
      BY <2>1
    <3>2. Streamed(outbound[i].of)
          /\ (outbound[i].of \in broken \/ EndsAfter(i, outbound[i].of))
      BY <1>5, <2>1, <3>1 DEF Streams
    <3>3. PICK m : m = outbound[i].of
      OBVIOUS
    <3>4. m \in broken' \/ EndsAfter(i, m)'
      BY <1>4, <3>1, <3>2, <3>3
    <3>5. m = outbound'[i].of
      BY <3>1, <3>3
    <3> QED
      BY <3>2, <3>3, <3>4, <3>5 DEF EndsAfter
  <2>2. CASE i \in n + 1 .. Len(outbound')
    BY <1>5, <2>2 DEF EndsAfter
  <2> QED
    BY <1>1, <2>1, <2>2
<1>6. ASSUME NEW c \in Chats, NEW m \in buffer[c]
      PROVE  /\ ChatOf[m] = c /\ Streamed(m) /\ Started(m)'
             /\ m \in broken' \/ EndsAfter(0, m)'
             /\ \A i \in 1 .. Len(outbound') : Speaks(i)' => m <= outbound'[i].of
  <2>1. /\ ChatOf[m] = c /\ Streamed(m) /\ Started(m) /\ m \in Msgs
        /\ m \in broken \/ EndsAfter(0, m)
        /\ \A i \in 1 .. n : Speaks(i) => m <= outbound[i].of
    BY StreamedFacts DEF Streams
  <2>2. m \in broken' \/ EndsAfter(0, m)'
    BY <1>4, <2>1
  <2>3. ASSUME NEW i \in 1 .. Len(outbound'), Speaks(i)'
        PROVE  m <= outbound'[i].of
    <3>1. CASE i \in 1 .. n
      BY <2>1, <2>3, <3>1 DEF Speaks
    <3>2. CASE i \in n + 1 .. Len(outbound')
      BY <2>1, <2>3, <3>2 DEF Speaks
    <3> QED
      BY <1>1, <3>1, <3>2
  <2> QED
    BY <2>1, <2>2, <2>3
<1> QED
  BY <1>5, <1>6 DEF Streams, Streamed

\* The buffers when the first message of the outbound queue has been sent or lost.
LEMMA StreamsPop ==
  ASSUME TypeOK, Order, Streams, outbound # <<>>, outbound' = Tail(outbound),
         UNCHANGED <<inbound, arrived, hand>>, broken \subseteq broken',
         \/ Delivered(Head(outbound))
         \/ buffer' = buffer /\ BrokenBy(Head(outbound)) \subseteq broken'
  PROVE  Streams'
<1>1. /\ Len(outbound) \in Nat \ {0} /\ Len(outbound') = Len(outbound) - 1
      /\ \A i \in 1 .. Len(outbound') : outbound'[i] = outbound[i + 1]
      /\ Head(outbound) = outbound[1]
  BY PopFacts
<1>2. /\ \A i \in 1 .. Len(outbound') : i + 1 \in 1 .. Len(outbound) /\ 1 < i + 1
      /\ 1 \in 1 .. Len(outbound)
  BY <1>1
<1>3. \A m : Started(m)' <=> Started(m)
  BY DEF Started
<1>4. ASSUME NEW i \in Nat, NEW m, m \in broken \/ EndsAfter(i + 1, m)
      PROVE  m \in broken' \/ EndsAfter(i, m)'
  <2>1. CASE m \in broken \/ hand = m
    BY <2>1 DEF EndsAfter
  <2>2. CASE \E j \in 1 .. Len(outbound) : i + 1 < j /\ outbound[j] = Out("end", m)
    <3>1. PICK j \in 1 .. Len(outbound) : i + 1 < j /\ outbound[j] = Out("end", m)
      BY <2>2
    <3>2. j - 1 \in 1 .. Len(outbound') /\ i < j - 1 /\ (j - 1) + 1 = j
      BY <1>1, <3>1
    <3>3. outbound'[j - 1] = Out("end", m)
      BY <1>1, <3>1, <3>2
    <3> QED
      BY <3>2, <3>3 DEF EndsAfter
  <2> QED
    BY <1>4, <2>1, <2>2 DEF EndsAfter
<1>5. ASSUME NEW i \in 1 .. Len(outbound'), outbound'[i].kind = "delta"
      PROVE  /\ Streamed(outbound'[i].of)
             /\ outbound'[i].of \in broken' \/ EndsAfter(i, outbound[i].of)'
  <2>1. PICK m : m = outbound'[i].of
    OBVIOUS
  <2>2. outbound[i + 1] = outbound'[i] /\ i + 1 \in 1 .. Len(outbound) /\ i \in Nat
    BY <1>1, <1>2
  <2>3. Streamed(m) /\ (m \in broken \/ EndsAfter(i + 1, m))
    BY <1>5, <2>1, <2>2 DEF Streams
  <2>4. m \in broken' \/ EndsAfter(i, m)'
    BY <1>4, <2>2, <2>3
  <2> QED
    BY <2>1, <2>3, <2>4 DEF EndsAfter
<1>6. ASSUME NEW c \in Chats, NEW m \in buffer[c]
      PROVE  /\ ChatOf[m] = c /\ Streamed(m) /\ Started(m)'
             /\ \A i \in 1 .. Len(outbound') : Speaks(i)' => m <= outbound'[i].of
  <2>1. /\ ChatOf[m] = c /\ Streamed(m) /\ Started(m)
        /\ \A i \in 1 .. Len(outbound) : Speaks(i) => m <= outbound[i].of
    BY DEF Streams
  <2> QED
    BY <1>1, <1>2, <1>3, <2>1 DEF Speaks
<1>7. ASSUME NEW c \in Chats, NEW m \in buffer[c],
             outbound[1] # Out("end", m) \/ m \in broken'
      PROVE  m \in broken' \/ EndsAfter(0, m)'
  <2>1. m \in broken \/ EndsAfter(0, m)
    BY DEF Streams
  <2>2. CASE m \in broken'
    BY <2>2
  <2>3. CASE hand = m
    BY <2>3 DEF EndsAfter
  <2>4. CASE \E j \in 1 .. Len(outbound) : 0 < j /\ outbound[j] = Out("end", m)
    <3>1. PICK j \in 1 .. Len(outbound) : 0 < j /\ outbound[j] = Out("end", m)
      BY <2>4
    <3>2. CASE j = 1
      BY <1>7, <3>1, <3>2
    <3>3. CASE 1 < j
      <4>1. EndsAfter(1, m)
        BY <3>1, <3>3 DEF EndsAfter
      <4> QED
        BY <1>4, <4>1
    <3> QED
      BY <1>1, <3>1, <3>2, <3>3
  <2> QED
    BY <2>1, <2>2, <2>3, <2>4 DEF EndsAfter
<1>8. ASSUME NEW c \in Chats, NEW m \in buffer'[c]
      PROVE  /\ ChatOf[m] = c /\ Streamed(m) /\ Started(m)'
             /\ m \in broken' \/ EndsAfter(0, m)'
             /\ \A i \in 1 .. Len(outbound') : Speaks(i)' => m <= outbound'[i].of
  <2>1. CASE m \in buffer[c] /\ (outbound[1] # Out("end", m) \/ m \in broken')
    BY <1>6, <1>7, <2>1
  <2>2. CASE m \in buffer[c] /\ outbound[1] = Out("end", m) /\ m \notin broken'
    <3>1. outbound[1].kind = "end" /\ outbound[1].of = m
      BY <2>2 DEF Out
    <3>2. ChatOf[m] = c
      BY <2>2 DEF Streams
    <3>3. buffer' = [buffer EXCEPT ![ChatOf[m]] = {}]
      BY <1>1, <2>2, <3>1 DEF Delivered, BrokenBy
    <3>4. buffer'[c] = {}
      BY <3>2, <3>3 DEF TypeOK
    <3> QED
      BY <3>4
  <2>3. CASE m \notin buffer[c]
    <3>1. /\ outbound[1].kind = "delta"
          /\ buffer' = [buffer EXCEPT ![ChatOf[outbound[1].of]] = @ \cup {outbound[1].of}]
      <4>1. outbound[1].kind = "end" =>
              buffer' \in {buffer, [buffer EXCEPT ![ChatOf[outbound[1].of]] = {}]}
        BY <1>1 DEF Delivered
      <4>2. \A d : [buffer EXCEPT ![d] = {}][c] \subseteq buffer[c]
        BY DEF TypeOK
      <4>3. outbound[1].kind # "end"
        BY <2>3, <4>1, <4>2
      <4> QED
        BY <1>1, <2>3, <4>3 DEF Delivered
    <3>2. c = ChatOf[outbound[1].of] /\ m = outbound[1].of
      BY <2>3, <3>1 DEF TypeOK
    <3>3. /\ Streamed(m)
          /\ m \in broken \/ EndsAfter(1, m)
      BY <1>2, <3>1, <3>2 DEF Streams
    <3>4. m \in broken' \/ EndsAfter(0, m)'
      BY <1>4, <3>3
    <3>5. Started(m)'
      <4>1. Speaks(1)
        BY <3>1 DEF Speaks
      <4>2. Started(m)
        BY <1>2, <3>2, <4>1 DEF Order, Started
      <4> QED
        BY <1>3, <4>2
    <3>6. ASSUME NEW i \in 1 .. Len(outbound'), Speaks(i)'
          PROVE  m <= outbound'[i].of
      BY <1>1, <1>2, <3>1, <3>2, <3>6 DEF Order, Speaks
    <3> QED
      BY <3>2, <3>3, <3>4, <3>5, <3>6
  <2> QED
    BY <2>1, <2>2, <2>3
<1> QED
  BY <1>5, <1>8 DEF Streams, Streamed

\* Streams is kept by a step that leaves the outbound queue alone.
LEMMA StreamsStay ==
  ASSUME TypeOK, Streams, UNCHANGED <<outbound, buffer>>, broken \subseteq broken',
         \A m \in Msgs : Started(m) => Started(m)',
         hand' = hand \/ hand = None \/ hand \in broken'
  PROVE  Streams'
<1>1. Len(outbound) \in Nat /\ Len(outbound') = Len(outbound) /\ outbound' = outbound
  BY OutboundType
<1>2. Len(outbound) + 1 .. Len(outbound') = {}
  BY <1>1
<1>3. PICK n \in Nat : n = Len(outbound) /\ n + 1 .. Len(outbound') = {}
  BY <1>1, <1>2
<1>4. \A m \in Msgs : hand = m => hand' = m \/ m \in broken'
  BY MsgFacts
<1> QED
  BY <1>1, <1>3, <1>4, StreamsGrow

\* Streams is kept by a step that publishes one message, which is no delta or is one
\* of the turn in hand.
LEMMA StreamsPublish ==
  ASSUME TypeOK, Streams, UNCHANGED <<buffer, broken>>,
         NEW x \in OutMsg, Publish(<<x>>),
         \A m \in Msgs : Started(m) => Started(m)',
         x.kind = "delta" => x.of = hand' /\ Streamed(x.of),
         x.kind # "note" => \A m \in Msgs : Started(m) => m <= x.of,
         \A m \in Msgs : hand = m /\ Streamed(m) => hand' = m \/ x = Out("end", m)
  PROVE  Streams'
<1>1. PICK n \in Nat : n = Len(outbound) /\ n + 1 .. Len(outbound') = {n + 1}
                       /\ Len(outbound') \in Nat /\ n <= Len(outbound')
  BY PublishOne
<1>2. outbound'[n + 1] = x /\ \A i \in 1 .. n : outbound'[i] = outbound[i]
  BY <1>1, PublishOne
<1>3. n + 1 \in n + 1 .. Len(outbound')
  BY <1>1
<1>4. \A m \in Msgs : hand = m /\ Streamed(m) =>
        \/ hand' = m
        \/ \E j \in n + 1 .. Len(outbound') : outbound'[j] = Out("end", m)
  BY <1>2, <1>3
<1>5. \A i \in n + 1 .. Len(outbound') :
        /\ outbound'[i].kind = "delta" => outbound'[i].of = hand' /\ Streamed(outbound'[i].of)
        /\ outbound'[i].kind # "note" => \A m \in Msgs : Started(m) => m <= outbound'[i].of
  BY <1>1, <1>2
<1> QED
  BY <1>1, <1>2, <1>4, <1>5, StreamsGrow

\* Every step keeps Streams: whatever is streamed is ended, and before anything of a
\* later message is shown, or its turn is known to be broken.
LEMMA NextStreams == Inv /\ [Next]_vars => Streams'
<1> SUFFICES ASSUME Inv, [Next]_vars PROVE Streams'
  OBVIOUS
<1>1. TypeOK /\ BusyWhileServing /\ Serving /\ Order /\ Streams
  BY DEF Inv
<1>2. \A m \in Msgs : m \in Nat /\ m # None
  BY MsgFacts
<1>3. \A m \in Msgs : KindOf[m] # "text" \/ m \notin Wants => ~ Streamed(m)
  BY DEF Streamed
<1>4. CASE Arrives
  <2>1. UNCHANGED <<outbound, buffer, broken, hand>>
    BY <1>4 DEF Arrives, work, channel
  <2>2. /\ arrived' = arrived + 1 /\ arrived \in Nat
        /\ \A k \in 1 .. Len(inbound') :
             \/ k \in 1 .. Len(inbound) /\ inbound'[k] = inbound[k]
             \/ inbound'[k] = arrived + 1
    <3>1. arrived + 1 \in Msgs /\ inbound \in Seq(Msgs)
          /\ inbound' = Append(inbound, arrived + 1)
      BY <1>1, <1>4, GatewayAssumption DEF Arrives, TypeOK, Msgs
    <3>2. Len(inbound) \in Nat /\ Len(inbound') = Len(inbound) + 1
          /\ \A k \in 1 .. Len(inbound) : inbound'[k] = inbound[k]
          /\ inbound'[Len(inbound) + 1] = arrived + 1
      BY <3>1, AppendProperties, LenProperties
    <3>3. \A k \in 1 .. Len(inbound) + 1 : k \in 1 .. Len(inbound) \/ k = Len(inbound) + 1
      BY <3>2
    <3> QED
      BY <1>1, <1>4, <3>2, <3>3, OrderTypes DEF Arrives
  <2>3. \A m \in Msgs : Started(m) => Started(m)'
    BY <1>2, <2>1, <2>2 DEF Started
  <2> QED
    BY <1>1, <2>1, <2>3, StreamsStay
<1>5. CASE TakeText \/ TakeNew \/ TakeHelp
  <2>1. PICK m \in Msgs :
          /\ Take(m) /\ UNCHANGED <<buffer, broken, arrived>>
          /\ \/ hand' = m /\ outbound' = outbound
             \/ hand' = hand /\ Publish(<<Out("reply", m)>>)
    BY <1>5 DEF TakeText, TakeNew, TakeHelp, channel, history, work
  <2>2. hand = None
    BY <1>1, <2>1 DEF Take, Serving
  <2>3. /\ m = inbound[1] /\ 1 \in 1 .. Len(inbound)
        /\ \A k \in 1 .. Len(inbound') :
             k + 1 \in 1 .. Len(inbound) /\ inbound'[k] = inbound[k + 1]
    BY <1>1, <2>1, TakeFacts
  <2>4. \A l \in Msgs : Started(l) => Started(l)' /\ l <= m
    BY <1>2, <2>1, <2>2, <2>3 DEF Started
  <2>5. /\ Out("reply", m) \in OutMsg
        /\ Out("reply", m).of = m /\ Out("reply", m).kind = "reply"
    BY OutFacts DEF Kinds
  <2>6. CASE outbound' = outbound
    BY <1>1, <2>1, <2>2, <2>4, <2>6, StreamsStay
  <2>7. CASE Publish(<<Out("reply", m)>>)
    BY <1>1, <1>2, <2>1, <2>2, <2>4, <2>5, <2>7, StreamsPublish
  <2> QED
    BY <2>1, <2>6, <2>7
<1>6. CASE NewRotates \/ TurnEnds \/ TurnStreams
  <2>1. /\ hand \in Msgs /\ hand # None
        /\ NewRotates => KindOf[hand] = "new"
        /\ TurnStreams => KindOf[hand] = "text"
    BY <1>1, <1>6, HandFacts DEF NewRotates, TurnEnds, TurnStreams, Serving
  <2>2. /\ UNCHANGED <<inbound, arrived, buffer, broken>>
        /\ hand' = hand \/ hand' = None
    BY <1>6, <2>1 DEF NewRotates, TurnEnds, TurnStreams, Release, history, channel
  <2>3. \A m \in Msgs : Started(m) => Started(m)' /\ m <= hand
    BY <2>1, <2>2 DEF Started
  <2>4. \A kind \in Kinds : /\ Out(kind, hand) \in OutMsg
                            /\ Out(kind, hand).kind = kind /\ Out(kind, hand).of = hand
    BY <2>1, OutFacts
  <2>5. CASE NewRotates \/ (TurnEnds /\ hand \notin Wants)
    <3>1. Publish(<<Out("reply", hand)>>)
      BY <2>5 DEF NewRotates, TurnEnds, TurnOutput
    <3>2. ~ Streamed(hand)
      BY <1>3, <2>1, <2>5
    <3> QED
      BY <1>1, <2>1, <2>2, <2>3, <2>4, <3>1, <3>2, StreamsPublish DEF Kinds
  <2>6. CASE TurnStreams
    <3>1. Publish(<<Out("delta", hand)>>) /\ hand' = hand /\ Streamed(hand)
      BY <2>1, <2>6 DEF TurnStreams, Streamed
    <3> QED
      BY <1>1, <2>1, <2>2, <2>3, <2>4, <3>1, StreamsPublish DEF Kinds
  <2>7. CASE TurnEnds /\ hand \in Wants
    <3> DEFINE x == Out("end", hand)
               y == Out("streamed", hand)
    <3>1. Publish(<<x, y>>)
      BY <2>7 DEF TurnEnds, TurnOutput
    <3>2. /\ x \in OutMsg /\ x.kind = "end" /\ x.of = hand
          /\ y \in OutMsg /\ y.kind = "streamed" /\ y.of = hand
      BY <2>4 DEF Kinds
    <3>3. PICK n \in Nat :
            /\ n = Len(outbound) /\ Len(outbound') = n + 2
            /\ \A i \in 1 .. n : outbound'[i] = outbound[i]
            /\ outbound'[n + 1] = x /\ outbound'[n + 2] = y
      BY <1>1, <3>1, <3>2, PublishTwo
    <3>4. /\ \A i \in n + 1 .. Len(outbound') : outbound'[i] = x \/ outbound'[i] = y
          /\ n + 1 \in n + 1 .. Len(outbound') /\ n <= Len(outbound')
          /\ Len(outbound') \in Nat
      <4>1. \A i \in n + 1 .. n + 2 : i = n + 1 \/ i = n + 2
        OBVIOUS
      <4> QED
        BY <3>3, <4>1
    <3>5. \A m \in Msgs : hand = m =>
            \E j \in n + 1 .. Len(outbound') : outbound'[j] = Out("end", m)
      BY <3>3, <3>4
    <3>6. \A i \in n + 1 .. Len(outbound') :
            /\ outbound'[i].kind # "delta"
            /\ \A m \in Msgs : Started(m) => m <= outbound'[i].of
      BY <2>3, <3>2, <3>4
    <3> QED
      BY <1>1, <2>2, <2>3, <3>3, <3>4, <3>5, <3>6, StreamsGrow
  <2> QED
    BY <1>6, <2>5, <2>6, <2>7, Zenon
<1>7. CASE TurnFails \/ WorkerCancelled
  <2>1. UNCHANGED <<inbound, outbound, buffer, arrived>> /\ hand' = None
    BY <1>7 DEF TurnFails, WorkerCancelled, Release, bus, channel
  <2>2. broken \subseteq broken' /\ (hand = None \/ hand \in broken')
    BY <1>7 DEF TurnFails, WorkerCancelled
  <2>3. \A m \in Msgs : Started(m) => Started(m)'
    BY <2>1 DEF Started
  <2> QED
    BY <1>1, <2>1, <2>2, <2>3, StreamsStay
<1>8. ASSUME NEW t \in Tasks, SubEnds(t) PROVE Streams'
  <2>1. UNCHANGED <<inbound, arrived, broken, buffer, hand>>
    BY <1>8 DEF SubEnds, history, work, channel
  <2>2. \A m \in Msgs : Started(m) => Started(m)'
    BY <2>1 DEF Started
  <2>3. CASE t \in Notify
    <3>1. Out("note", t) \in OutMsg /\ Out("note", t).kind = "note"
      BY OutFacts DEF Kinds
    <3> QED
      BY <1>1, <1>8, <2>1, <2>2, <2>3, <3>1, StreamsPublish DEF SubEnds
  <2>4. CASE t \notin Notify
    <3>1. outbound' = outbound
      BY <1>1, <1>8, <2>4, ConcatEmptySeq DEF SubEnds, Publish, TypeOK
    <3> QED
      BY <1>1, <2>1, <2>2, <3>1, StreamsStay
  <2> QED
    BY <2>3, <2>4
<1>9. CASE UNCHANGED <<inbound, outbound, hand, arrived, broken, buffer>>
  <2>1. \A m \in Msgs : Started(m) => Started(m)'
    BY <1>9 DEF Started
  <2> QED
    BY <1>1, <1>9, <2>1, StreamsStay
<1>10. CASE DispatchSends
  BY <1>1, <1>10, StreamsPop DEF DispatchSends, work
<1>11. CASE SendFails
  BY <1>1, <1>11, StreamsPop DEF SendFails, work, channel
<1>12. CASE DispatcherCancelled
  <2>1. UNCHANGED <<inbound, arrived, hand, buffer>>
    BY <1>12 DEF DispatcherCancelled, work
  <2>2. CASE UNCHANGED <<outbound, broken>>
    BY <1>9, <2>1, <2>2
  <2>3. CASE /\ outbound # <<>> /\ outbound' = Tail(outbound)
             /\ broken' = broken \cup BrokenBy(Head(outbound))
    BY <1>1, <2>1, <2>3, StreamsPop
  <2> QED
    BY <1>12, <2>2, <2>3 DEF DispatcherCancelled
<1> QED
  BY <1>4, <1>5, <1>6, <1>7, <1>8, <1>9, <1>10, <1>11, <1>12
     DEF Next, WorkerStep, DispatcherStep, StopStep, SubStep, Start, StopBegins,
         StopSubs, StopWorker, StopDispatcher, StopReturns, TurnSpawns, SubStarts,
         SubExecutes, ResumeSpawns, Spawns, SubCancelled, vars, work, bus, history, channel

-----------------------------------------------------------------------------
(* The theorems *)

\* The invariant is inductive.
LEMMA NextInv == Inv /\ [Next]_vars => Inv'
BY NextTypeOK, NextServing, NextPermits, NextOrder, NextStreams, NextMemory DEF Inv

\* The invariant holds of every behaviour.
THEOREM InvariantHolds == Spec => []Inv
BY InitInv, NextInv, PTL DEF Spec

\* Whatever messages, turns and sub-agents come in whatever order, the gateway is busy
\* exactly while a message is in hand, no more sub-agents execute than the semaphore
\* admits, and once stop() has returned nothing runs (gateway.py 124, 483-488,
\* 680-692).
THEOREM NothingIsLeftBehind == Spec => []NothingLeftBehind
<1>1. Inv => NothingLeftBehind
  <2> SUFFICES ASSUME Inv PROVE NothingLeftBehind
    OBVIOUS
  <2>1. SubagentBound
    BY DEF Inv, Permits, Active, SubagentBound
  <2>2. StopQuiesces
    BY DEF Inv, TypeOK, Life, Registered, StopQuiesces
  <2> QED
    BY <2>1, <2>2 DEF Inv, NothingLeftBehind
<1> QED
  BY <1>1, InvariantHolds, PTL

\* What was said in a session that /new has closed is in the memory, for every mix of
\* users, chats, failures and sub-agents: the flush has read what no callback has given,
\* unless it failed or was another user's (lines 502-508; app/agent.py 42-52).
THEOREM ClosedSessionsAreRemembered == Spec => []ClosedSessionsRemembered
<1>1. Inv => ClosedSessionsRemembered
  BY DEF Inv, Memory
<1> QED
  BY <1>1, InvariantHolds, PTL

\* What a chat shows as one growing text is the text of one turn, or of turns of which
\* all but one were broken (lines 415-423; local.py 56-64).
THEOREM StreamsStayApart == Spec => []StreamOfOneTurn
<1>1. Inv => StreamOfOneTurn
  <2> SUFFICES ASSUME Inv, NEW c \in Chats, NEW m \in buffer[c], NEW n \in buffer[c],
                      m \notin broken, n \notin broken
               PROVE  m = n
    BY DEF StreamOfOneTurn
  <2>1. TypeOK /\ Streams
    BY DEF Inv
  <2>2. ASSUME NEW k \in buffer[c], NEW l \in buffer[c], k \notin broken PROVE l <= k
    <3>1. /\ EndsAfter(0, k) /\ k \in Msgs /\ k # None /\ Started(l)
          /\ \A i \in 1 .. Len(outbound) : Speaks(i) => l <= outbound[i].of
      BY <2>1, <2>2, StreamedFacts, MsgFacts DEF Streams
    <3>2. CASE hand = k
      BY <3>1, <3>2 DEF Started
    <3>3. CASE \E j \in 1 .. Len(outbound) : 0 < j /\ outbound[j] = Out("end", k)
      BY <3>1, <3>3 DEF Speaks, Out
    <3> QED
      BY <3>1, <3>2, <3>3 DEF EndsAfter
  <2>3. m <= n /\ n <= m /\ m \in Nat /\ n \in Nat
    BY <2>1, <2>2, StreamedFacts
  <2> QED
    BY <2>3
<1> QED
  BY <1>1, InvariantHolds, PTL

\* Answers are shown in the order in which the messages came in, each at most once,
\* across failed turns, notifications, stops and restarts (line 677).
THEOREM AnswersKeepOrder == Spec => AnsweredInOrder
<1>1. Inv /\ [Next]_vars => [answered' # answered => answered' > answered]_vars
  <2> SUFFICES ASSUME Inv, Next, answered' # answered PROVE answered' > answered
    OBVIOUS
  <2>1. DispatchSends
    BY DEF Next, WorkerStep, DispatcherStep, StopStep, SubStep, Start, Arrives,
           StopBegins, StopSubs, StopWorker, StopDispatcher, StopReturns, TakeText,
           TakeHelp, TakeNew, NewRotates, TurnStreams, TurnSpawns, TurnEnds, TurnFails,
           WorkerCancelled, SubStarts, SubExecutes, ResumeSpawns, Spawns, SubEnds, SubCancelled, SendFails,
           DispatcherCancelled, history
  <2>2. TypeOK /\ Order
    BY DEF Inv
  <2>3. /\ Head(outbound) = outbound[1] /\ 1 \in 1 .. Len(outbound)
        /\ answered' = outbound[1].of /\ Answers(1)
    BY <2>1, <2>2, PopFacts DEF DispatchSends, Delivered, Answers
  <2>4. answered < outbound[1].of /\ outbound[1].of \in Nat /\ answered \in Nat
    BY <2>2, <2>3, OrderTypes DEF Order, Speaks, Answers
  <2> QED
    BY <2>3, <2>4
<1> QED
  BY <1>1, InvariantHolds, PTL DEF Spec, AnsweredInOrder

==============================================================================
