------------------------------ MODULE Tools_proofs ------------------------------
(***************************************************************************)
(* What the modules of the tools keep, for every value of the constants.   *)
(***************************************************************************)
EXTENDS MCTools, Enumeration_proofs, FiniteSetTheorems, SequenceTheorems, TLAPS

-----------------------------------------------------------------------------
\* A call of the browser tool.

\* Before an answer nothing was done; a call is sent on after a 404 only, which
\* says that nothing was.
ToolInv ==
    /\ at \in {"idle", "checked", "dispatched", "sent", "answered"}
    /\ done \in {0, 1} /\ woken \in BOOLEAN
    /\ at \in {"checked", "dispatched", "sent"} => done = 0
    /\ at # "idle" => woken = FALSE
    /\ at = "answered" /\ response = "notfound" => done = 0
    /\ at = "answered" /\ response = "ok" => done = 1
    /\ woken => done = 1 /\ kind = "hook"

\* Every step of a call keeps the invariant, an answered hook that is sent to the
\* next path included.
LEMMA ToolStep == ToolInv /\ [ToolNext]_toolVars => ToolInv'
<1> SUFFICES ASSUME ToolInv, [ToolNext]_toolVars PROVE ToolInv'
    OBVIOUS
<1>1. ASSUME NEW k \in CallKinds, NEW t \in Targets, CallBrowser(k, t) PROVE ToolInv'
    BY <1>1 DEF CallBrowser, ToolInv
<1>2. CASE Refused
    BY <1>2 DEF Refused, Returns, ToolInv
<1>3. CASE ProxyRefuses
    BY <1>3 DEF ProxyRefuses, Returns, ToolInv
<1>4. CASE DispatchDenied
    BY <1>4 DEF DispatchDenied, Returns, ToolInv
<1>5. CASE Dispatch
    BY <1>5 DEF Dispatch, ToolInv
<1>6. CASE Handles
    BY <1>6 DEF Handles, ToolInv
<1>7. CASE SendToProxy
    BY <1>7 DEF SendToProxy, ToolInv
<1>8. CASE RelayRefuses
    BY <1>8 DEF RelayRefuses, ToolInv
<1>9. CASE SendToRelay
    BY <1>9 DEF SendToRelay, ToolInv
<1>10. CASE RemoteAnswers
    <2>1. done = 0 /\ done + 1 = 1 /\ woken = FALSE
        BY <1>10 DEF RemoteAnswers, ToolInv
    <2> QED
        BY <1>10, <2>1 DEF RemoteAnswers, ToolInv
<1>11. CASE TryNextPath
    BY <1>11 DEF TryNextPath, FallsBack, ToolInv
<1>12. CASE Reply
    BY <1>12 DEF Reply, Returns, Parsed, ToolInv
<1>13. CASE UNCHANGED toolVars
    BY <1>13 DEF toolVars, ToolInv
<1> QED
    BY <1>1, <1>2, <1>3, <1>4, <1>5, <1>6, <1>7, <1>8, <1>9, <1>10, <1>11, <1>12, <1>13
    DEF ToolNext, RunBasicRoute, RunAgentRoute

\* A call is carried out once at most, by whatever target and path, and a heartbeat
\* is asked for after a hook that was carried out only.
THEOREM CallsHaveOneEffect == ToolSpec => []OneEffectPerCall
<1>1. ToolInit => ToolInv
    BY DEF ToolInit, ToolInv
<1>2. ToolInv => OneEffectPerCall
    BY DEF ToolInv, OneEffectPerCall
<1> QED
    BY <1>1, <1>2, ToolStep, PTL DEF ToolSpec

-----------------------------------------------------------------------------
(* What is said in a turn *)

Routes == Chats \cup {Nobody, Target, JobChat}

\* The turn in progress of an origin, of run 0 if there is none.
TurnRecords == [run : Nat, route : Routes, says : 0 .. MaxSays]

DeliveryTypes ==
    /\ settings \in [mode : Modes, ok : BOOLEAN, alerts : BOOLEAN]
    /\ lastRoute \in Chats \cup {Nobody} /\ busy \in BOOLEAN
    /\ begun \in 0 .. MaxRuns /\ runner \in 0 .. begun

\* Every turn is one that was begun, with the route that it began with.
TurnsBegun ==
    /\ turns \in [Turns -> TurnRecords]
    /\ origins \in Seq(Routes) /\ Len(origins) = begun
    /\ \A t \in Turns : turns[t].run <= begun
    /\ \A t \in Turns : InTurn(t) => turns[t].route = origins[turns[t].run]

\* A run of the heartbeat is answered when its turn is over, and then only is
\* anything published as its answer.
AnsweredRuns ==
    /\ DOMAIN answers \subseteq 1 .. begun
    /\ turns["heartbeat"].run \notin DOMAIN answers
    /\ \A m \in out : m.kind = "heartbeat" => m.run \in DOMAIN answers

\* What was published or put into the outbox was so by a turn that was begun.
SaidInTurns ==
    /\ \A m \in out \cup outbox : m.run \in 1 .. begun
    /\ TurnsKeepTheirRoutes

\* The answers published of a run.
Heard(o, r) == {m \in o : m.run = r /\ m.kind = "heartbeat"}

IsShown(result) == IF result \in {"text", "lengthy"} THEN settings.alerts ELSE settings.ok

Reaches(result) == IsShown(result) /\ settings.mode # "none"

AnswersHeard ==
    \A r \in DOMAIN answers :
        IF Reaches(answers[r]) THEN \E m \in out : Heard(out, r) = {m} ELSE Heard(out, r) = {}

\* What is told last is what happened, of whatever run it is.
ToldTrue ==
    /\ told.run \in 0 .. begun
    /\ snapshot.delivery = told /\ snapshot.runner \in 0 .. begun
    /\ told.delivered \in BOOLEAN
    /\ told.run # 0 => (told.delivered <=> Said(told.run, "heartbeat", told.to) \in out)

DeliveryInv ==
    DeliveryTypes /\ TurnsBegun /\ AnsweredRuns /\ SaidInTurns /\ AnswersHeard /\ ToldTrue

\* The invariant holds before anything happens.
LEMMA DeliveryInitially == DeliveryInit => DeliveryInv
<1> SUFFICES ASSUME DeliveryInit PROVE DeliveryInv
    OBVIOUS
<1>1. MaxRuns \in Nat /\ MaxSays \in Nat
    BY DeliveryAssumption
<1>2. DeliveryTypes
    <2>1. 0 \in 0 .. MaxRuns /\ 0 \in 0 .. 0
        BY <1>1
    <2> QED
        BY <2>1 DEF DeliveryInit, DeliveryTypes
<1>3. NoTurn \in TurnRecords
    BY <1>1 DEF NoTurn, TurnRecords, Routes
<1>4. TurnsBegun
    BY <1>3 DEF DeliveryInit, TurnsBegun, InTurn, NoTurn
<1>5. DOMAIN answers = {} /\ out = {} /\ outbox = {}
    BY DEF DeliveryInit
<1>6. AnsweredRuns /\ AnswersHeard
    BY <1>5 DEF AnsweredRuns, AnswersHeard
<1>7. SaidInTurns
    BY <1>5 DEF SaidInTurns, TurnsKeepTheirRoutes
<1>8. ToldTrue
    BY DEF DeliveryInit, ToldTrue, NotTold
<1> QED
    BY <1>2, <1>4, <1>6, <1>7, <1>8 DEF DeliveryInv

\* The three kinds of steps that most of the actions are: a turn begins, says
\* something, or ends, with its answer or without.

TurnBegan ==
    /\ \E t \in Turns, route \in Routes : Begins(t, route)
    /\ lastRoute' \in Chats \cup {Nobody} /\ busy' \in BOOLEAN
    /\ UNCHANGED <<settings, out, outbox, told, snapshot, runner, answers>>

Spoken(t, m) ==
    /\ m.run = turns[t].run /\ m.kind = "tool"
    /\ ~m.named => m.to = turns[t].route

TurnSpoke ==
    /\ \E t \in Turns :
          /\ InTurn(t) /\ turns[t].says < MaxSays
          /\ turns' = [turns EXCEPT ![t].says = @ + 1]
          /\ \/ UNCHANGED <<out, outbox>>
             \/ \E m : Spoken(t, m) /\ out' = out \cup {m} /\ UNCHANGED outbox
             \/ \E m : Spoken(t, m) /\ outbox' = outbox \cup {m} /\ UNCHANGED out
    /\ UNCHANGED <<settings, lastRoute, busy, begun, told, snapshot, runner, answers, origins>>

TurnOver ==
    /\ \E t \in {"user", "cron"} :
          /\ InTurn(t) /\ TurnEnds(t)
          /\ \/ UNCHANGED out
             \/ out' = out \cup {Said(turns[t].run, "answer", turns[t].route)}
    /\ busy' \in BOOLEAN
    /\ UNCHANGED <<settings, lastRoute, begun, outbox, told, snapshot, runner, answers, origins>>

\* What a tool says in a turn is of that turn, and of its route unless a chat is named.
LEMMA SpeaksSpoken ==
    ASSUME NEW t \in Turns, DeliveryInv, Speaks(t) \/ \E isFile \in BOOLEAN : SendsFile(t, isFile)
    PROVE  TurnSpoke
<1>1. ASSUME NEW to, NEW m, NEW n,
             m = [Said(turns[t].run, "tool", to) EXCEPT !.nth = n, !.named = to # RouteOf(t)]
      PROVE  Spoken(t, m)
    <2>1. m.run = turns[t].run /\ m.kind = "tool" /\ m.to = to /\ m.named = (to # RouteOf(t))
        BY <1>1 DEF Said
    <2> QED
        BY <2>1 DEF Spoken, RouteOf
<1>2. ASSUME Sends(t)
      PROVE  \E m : /\ Spoken(t, m)
                    /\ \/ out' = out \cup {m} /\ UNCHANGED outbox
                       \/ outbox' = outbox \cup {m} /\ UNCHANGED out
    <2>1. PICK to \in ResolvedRoutes(t), onLoop \in BOOLEAN :
              QueuedOrRecorded([Said(turns[t].run, "tool", to) EXCEPT
                  !.nth = turns[t].says + 1, !.named = to # RouteOf(t)], onLoop)
        BY <1>2 DEF Sends
    <2>2. PICK m : m = [Said(turns[t].run, "tool", to) EXCEPT
                  !.nth = turns[t].says + 1, !.named = to # RouteOf(t)]
        OBVIOUS
    <2>3. Spoken(t, m)
        BY <1>1, <2>2
    <2>4. \/ out' = out \cup {m} /\ UNCHANGED outbox
          \/ outbox' = outbox \cup {m} /\ UNCHANGED out
        BY <2>1, <2>2 DEF QueuedOrRecorded
    <2> QED
        BY <2>3, <2>4
<1>3. CASE Speaks(t)
    BY <1>2, <1>3 DEF Speaks, TurnSpoke
<1>4. ASSUME NEW isFile \in BOOLEAN, SendsFile(t, isFile) PROVE TurnSpoke
    <2>1. CASE ~isFile
        BY <1>4, <2>1 DEF SendsFile, TurnSpoke
    <2>2. CASE isFile
        BY <1>2, <1>4, <2>2 DEF SendsFile, TurnSpoke
    <2> QED
        BY <2>1, <2>2
<1> QED
    BY <1>3, <1>4

\* Every step is one of these, or one of the heartbeat's own.
LEMMA DeliverySteps ==
    DeliveryInv /\ [DeliveryNext]_deliveryVars =>
        \/ TurnBegan \/ TurnSpoke \/ TurnOver
        \/ \E tasks \in TaskFiles : HeartbeatSkips(tasks)
        \/ HeartbeatFails
        \/ \E result \in Answers : HeartbeatAnswered(result)
        \/ UNCHANGED deliveryVars
<1> SUFFICES ASSUME DeliveryInv, DeliveryNext
             PROVE  \/ TurnBegan \/ TurnSpoke \/ TurnOver
                    \/ \E tasks \in TaskFiles : HeartbeatSkips(tasks)
                    \/ HeartbeatFails
                    \/ \E result \in Answers : HeartbeatAnswered(result)
    OBVIOUS
<1>1. /\ lastRoute \in Chats \cup {Nobody} /\ busy \in BOOLEAN
      /\ TRUE \in BOOLEAN /\ FALSE \in BOOLEAN
    BY DEF DeliveryInv, DeliveryTypes
<1>2. /\ "user" \in Turns /\ "heartbeat" \in Turns /\ "cron" \in Turns
      /\ Chats \subseteq Routes /\ Nobody \in Routes /\ JobChat \in Routes
    BY DEF Turns, Routes
<1>3. ASSUME NEW chat \in Chats, UserWrites(chat) PROVE TurnBegan
    <2>1. Begins("user", chat)
        BY <1>3 DEF UserWrites
    <2>2. \E t \in Turns, route \in Routes : Begins(t, route)
        BY <1>2, <2>1
    <2> QED
        BY <1>1, <1>3, <2>2 DEF UserWrites, TurnBegan
<1>4. ASSUME NEW tasks \in TaskFiles, HeartbeatBegins(tasks) PROVE TurnBegan
    <2>1. Begins("heartbeat", Nobody)
        BY <1>4 DEF HeartbeatBegins
    <2>2. \E t \in Turns, route \in Routes : Begins(t, route)
        BY <1>2, <2>1
    <2> QED
        BY <1>1, <1>4, <2>2 DEF HeartbeatBegins, TurnBegan
<1>5. CASE CronBegins
    <2>1. Begins("cron", JobChat)
        BY <1>5 DEF CronBegins
    <2>2. \E t \in Turns, route \in Routes : Begins(t, route)
        BY <1>2, <2>1
    <2> QED
        BY <1>1, <1>5, <2>2 DEF CronBegins, TurnBegan
<1>6. CASE UserAnswered
    BY <1>1, <1>6 DEF UserAnswered, TurnOver
<1>7. ASSUME NEW deliver \in BOOLEAN, CronAnswered(deliver) PROVE TurnOver
    BY <1>1, <1>7 DEF CronAnswered, TurnOver
<1> QED
    BY <1>3, <1>4, <1>5, <1>6, <1>7, SpeaksSpoken DEF DeliveryNext

\* The heartbeat's target is a chat unless none is wanted.
LEMMA TargetNowFacts ==
    ASSUME DeliveryTypes
    PROVE  (TargetNow = "nobody") <=> (settings.mode = "none")
<1>1. Modes \subseteq {"none", "channel", "last"} /\ "nobody" \notin Chats
    BY DeliveryAssumption DEF Nobody, Target, JobChat
<1>2. settings.mode \in Modes
    BY DEF DeliveryTypes
<1>3. lastRoute # "nobody"
    BY <1>1 DEF DeliveryTypes, Nobody
<1>4. CASE settings.mode = "none"
    BY <1>4 DEF TargetNow
<1>5. CASE settings.mode = "channel"
    BY <1>5 DEF TargetNow, Target
<1>6. CASE settings.mode = "last"
    BY <1>3, <1>6 DEF TargetNow
<1> QED
    BY <1>1, <1>2, <1>4, <1>5, <1>6

\* What is told of an answer: that it was delivered exactly if it is one to show
\* and there is a target.
LEMMA OutcomeFacts ==
    ASSUME DeliveryTypes, NEW r, NEW result \in Answers
    PROVE  /\ Outcome(r, result).run = r
           /\ Outcome(r, result).delivered \in BOOLEAN
           /\ Outcome(r, result).delivered <=> Reaches(result)
<1>1. settings.ok \in BOOLEAN /\ settings.alerts \in BOOLEAN
    BY DEF DeliveryTypes
<1>2. (TargetNow = "nobody") <=> (settings.mode = "none")
    BY TargetNowFacts
<1>3. ShouldSkip(result) <=> result \notin {"text", "lengthy"}
    BY DEF ShouldSkip, Answers
<1>4. CASE TargetNow = "nobody"
    <2>1. Outcome(r, result) = [run |-> r, kind |-> "target-none", delivered |-> FALSE, to |-> Nobody]
        BY <1>4 DEF Outcome
    <2> QED
        BY <1>2, <1>4, <2>1 DEF Reaches
<1>5. CASE TargetNow # "nobody" /\ ShouldSkip(result)
    <2>1. Outcome(r, result) = [run |-> r, kind |-> IF settings.ok THEN "ok" ELSE "ok-muted",
                                delivered |-> settings.ok, to |-> TargetNow]
        BY <1>5 DEF Outcome
    <2> QED
        BY <1>1, <1>2, <1>3, <1>5, <2>1 DEF Reaches, IsShown
<1>6. CASE TargetNow # "nobody" /\ ~ShouldSkip(result)
    <2>1. Outcome(r, result) = [run |-> r, kind |-> IF settings.alerts THEN "alert" ELSE "alert-muted",
                                delivered |-> settings.alerts, to |-> TargetNow]
        BY <1>6 DEF Outcome
    <2> QED
        BY <1>1, <1>2, <1>3, <1>6, <2>1 DEF Reaches, IsShown
<1> QED
    BY <1>4, <1>5, <1>6

\* A turn that begins is the newest, and its route is written down.
LEMMA BeginKeeps ==
    ASSUME DeliveryInv, TurnBegan
    PROVE  DeliveryInv'
<1>1. PICK t \in Turns, route \in Routes : Begins(t, route)
    BY DEF TurnBegan
<1>2. UNCHANGED <<settings, out, outbox, told, snapshot, runner, answers>>
    BY DEF TurnBegan
<1>3. MaxRuns \in Nat /\ MaxSays \in Nat
    BY DeliveryAssumption
<1>4. begun \in Nat /\ begun < MaxRuns /\ begun' = begun + 1 /\ runner \in 0 .. begun
    BY <1>1, <1>3 DEF Begins, DeliveryInv, DeliveryTypes
<1>5. DeliveryTypes'
    <2>1. begun' \in 0 .. MaxRuns /\ runner \in 0 .. begun'
        BY <1>3, <1>4
    <2> QED
        BY <1>2, <2>1 DEF DeliveryInv, DeliveryTypes, TurnBegan
<1>6. turns \in [Turns -> TurnRecords] /\ origins \in Seq(Routes) /\ Len(origins) = begun
    BY DEF DeliveryInv, TurnsBegun
<1>7. /\ origins' \in Seq(Routes) /\ Len(origins') = begun'
      /\ origins'[begun + 1] = route
      /\ \A i \in 1 .. begun : origins'[i] = origins[i]
    BY <1>1, <1>4, <1>6 DEF Begins
<1>8. PICK new : new = [run |-> begun + 1, route |-> route, says |-> 0]
    OBVIOUS
<1>9. new \in TurnRecords /\ new.run = begun + 1 /\ new.route = route
    BY <1>3, <1>4, <1>8 DEF TurnRecords
<1>10. turns' = [turns EXCEPT ![t] = new]
    BY <1>1, <1>8 DEF Begins
<1>11. ASSUME NEW u \in Turns
       PROVE  /\ turns[u].run \in Nat /\ turns[u].run <= begun
              /\ turns'[u] = IF u = t THEN new ELSE turns[u]
              /\ InTurn(u) => turns[u].route = origins[turns[u].run]
    BY <1>6, <1>10 DEF DeliveryInv, TurnsBegun, TurnRecords
<1>12. TurnsBegun'
    <2>1. turns' \in [Turns -> TurnRecords]
        BY <1>6, <1>9, <1>10
    <2>2. ASSUME NEW u \in Turns
          PROVE  turns'[u].run <= begun' /\ (turns'[u].run # 0 => turns'[u].route = origins'[turns'[u].run])
        <3>1. CASE u = t
            BY <1>4, <1>7, <1>9, <1>11, <3>1
        <3>2. CASE u # t
            BY <1>4, <1>7, <1>11, <3>2 DEF InTurn
        <3> QED
            BY <3>1, <3>2
    <2> QED
        BY <1>7, <2>1, <2>2 DEF TurnsBegun, InTurn
<1>13. AnsweredRuns'
    <2>1. DOMAIN answers \subseteq 1 .. begun /\ turns["heartbeat"].run \notin DOMAIN answers
        BY DEF DeliveryInv, AnsweredRuns
    <2>2. turns'["heartbeat"].run \notin DOMAIN answers
        BY <1>4, <1>9, <1>11, <2>1 DEF Turns
    <2>3. DOMAIN answers \subseteq 1 .. begun'
        BY <1>4, <2>1
    <2> QED
        BY <1>2, <2>2, <2>3 DEF DeliveryInv, AnsweredRuns
<1>14. SaidInTurns'
    <2>1. ASSUME NEW m \in out \cup outbox PROVE m.run \in 1 .. begun' /\ origins'[m.run] = origins[m.run]
        BY <1>4, <1>7 DEF DeliveryInv, SaidInTurns
    <2> QED
        BY <1>2, <2>1 DEF DeliveryInv, SaidInTurns, TurnsKeepTheirRoutes
<1>15. AnswersHeard'
    BY <1>2 DEF DeliveryInv, AnswersHeard, Reaches, IsShown
<1>16. ToldTrue'
    BY <1>2, <1>4 DEF DeliveryInv, ToldTrue
<1> QED
    BY <1>5, <1>12, <1>13, <1>14, <1>15, <1>16 DEF DeliveryInv

\* A step that begins no turn leaves those in progress as they are, or over.
LEMMA TurnsStay ==
    ASSUME DeliveryInv, UNCHANGED <<begun, origins>>,
           turns' \in [Turns -> TurnRecords],
           \A u \in Turns : turns'[u].run = 0 \/ (turns'[u].run = turns[u].run /\ turns'[u].route = turns[u].route)
    PROVE  TurnsBegun'
<1>1. begun \in Nat
    BY DeliveryAssumption DEF DeliveryInv, DeliveryTypes
<1>2. ASSUME NEW u \in Turns
      PROVE  /\ turns'[u].run <= begun
             /\ turns'[u].run # 0 => turns'[u].route = origins[turns'[u].run]
    BY <1>1, <1>2 DEF DeliveryInv, TurnsBegun, InTurn
<1> QED
    BY <1>2 DEF DeliveryInv, TurnsBegun, InTurn

\* Something more that is said in a turn, and is no answer of a heartbeat, disturbs
\* nothing that is known of those.
LEMMA SaidKeeps ==
    ASSUME DeliveryInv, NEW m, NEW t \in Turns,
           UNCHANGED <<settings, begun, origins, told, snapshot, answers>>,
           turns'["heartbeat"].run \in {0, turns["heartbeat"].run},
           InTurn(t), m.run = turns[t].run, m.kind \in {"answer", "tool"},
           m.kind = "answer" \/ ~m.named => m.to = turns[t].route,
           out \subseteq out', out' \subseteq out \cup {m},
           outbox' \subseteq outbox \cup {m}
    PROVE  AnsweredRuns' /\ SaidInTurns' /\ AnswersHeard' /\ ToldTrue'
<1>1. begun \in Nat /\ turns[t].run \in Nat /\ turns[t].run <= begun /\ turns[t].run # 0
    BY DeliveryAssumption DEF DeliveryInv, DeliveryTypes, TurnsBegun, TurnRecords, InTurn
<1>2. m.run \in 1 .. begun /\ m.kind # "heartbeat"
    BY <1>1
<1>3. m.kind = "answer" \/ (m.kind = "tool" /\ ~m.named) => m.to = origins[m.run]
    BY DEF DeliveryInv, TurnsBegun
<1>4. AnsweredRuns'
    <2>1. DOMAIN answers \subseteq 1 .. begun /\ turns["heartbeat"].run \notin DOMAIN answers
        BY DEF DeliveryInv, AnsweredRuns
    <2>2. turns'["heartbeat"].run \notin DOMAIN answers
        BY <2>1
    <2>3. \A n \in out' : n.kind = "heartbeat" => n.run \in DOMAIN answers
        BY <1>2 DEF DeliveryInv, AnsweredRuns
    <2> QED
        BY <2>1, <2>2, <2>3 DEF AnsweredRuns
<1>5. SaidInTurns'
    BY <1>2, <1>3 DEF DeliveryInv, SaidInTurns, TurnsKeepTheirRoutes
<1>6. ASSUME NEW r PROVE Heard(out', r) = Heard(out, r)
    BY <1>2 DEF Heard
<1>7. AnswersHeard'
    <2>1. ASSUME NEW r \in DOMAIN answers
          PROVE  IF Reaches(answers[r]) THEN \E n \in out' : Heard(out', r) = {n} ELSE Heard(out', r) = {}
        BY <1>6 DEF DeliveryInv, AnswersHeard
    <2> QED
        BY <2>1 DEF AnswersHeard, Reaches, IsShown
<1>8. ToldTrue'
    <2>1. Said(told.run, "heartbeat", told.to) # m
        BY <1>2 DEF Said
    <2> QED
        BY <2>1 DEF DeliveryInv, ToldTrue
<1> QED
    BY <1>4, <1>5, <1>7, <1>8

\* What a tool says keeps the invariant.
LEMMA SpeakKeeps ==
    ASSUME DeliveryInv, TurnSpoke
    PROVE  DeliveryInv'
<1>1. PICK t \in Turns :
          /\ InTurn(t) /\ turns[t].says < MaxSays
          /\ turns' = [turns EXCEPT ![t].says = @ + 1]
          /\ \/ UNCHANGED <<out, outbox>>
             \/ \E m : Spoken(t, m) /\ out' = out \cup {m} /\ UNCHANGED outbox
             \/ \E m : Spoken(t, m) /\ outbox' = outbox \cup {m} /\ UNCHANGED out
    BY DEF TurnSpoke
<1>2. UNCHANGED <<settings, lastRoute, busy, begun, told, snapshot, runner, answers, origins>>
    BY DEF TurnSpoke
<1>3. DeliveryTypes'
    BY <1>2 DEF DeliveryInv, DeliveryTypes
<1>4. turns \in [Turns -> TurnRecords]
    BY DEF DeliveryInv, TurnsBegun
<1>5. PICK new : new = [turns[t] EXCEPT !.says = @ + 1]
    OBVIOUS
<1>6. new \in TurnRecords /\ new.run = turns[t].run /\ new.route = turns[t].route
    <2>1. /\ turns[t].run \in Nat /\ turns[t].route \in Routes /\ turns[t].says \in 0 .. MaxSays
          /\ turns[t] \in TurnRecords
        BY <1>4 DEF TurnRecords
    <2>2. MaxSays \in Nat /\ turns[t].says + 1 \in 0 .. MaxSays
        BY <1>1, <2>1, DeliveryAssumption
    <2> QED
        BY <1>5, <2>1, <2>2 DEF TurnRecords
<1>7. turns' = [turns EXCEPT ![t] = new]
    BY <1>1, <1>4, <1>5
<1>8. turns' \in [Turns -> TurnRecords]
    BY <1>4, <1>6, <1>7
<1>9. ASSUME NEW u \in Turns PROVE turns'[u].run = turns[u].run /\ turns'[u].route = turns[u].route
    BY <1>4, <1>6, <1>7
<1>10. TurnsBegun'
    BY <1>2, <1>8, <1>9, TurnsStay
<1>11. turns'["heartbeat"].run \in {0, turns["heartbeat"].run}
    BY <1>9 DEF Turns
<1>12. \E m : m.run = turns[t].run /\ m.kind = "tool" /\ ~m.named /\ m.to = turns[t].route
    <2>1. PICK m : m = Said(turns[t].run, "tool", turns[t].route)
        OBVIOUS
    <2>2. m.run = turns[t].run /\ m.kind = "tool" /\ ~m.named /\ m.to = turns[t].route
        BY <2>1 DEF Said
    <2> QED
        BY <2>2
<1>13. \E m : /\ Spoken(t, m) /\ out \subseteq out' /\ out' \subseteq out \cup {m}
              /\ outbox' \subseteq outbox \cup {m}
    BY <1>1, <1>12 DEF Spoken
<1>14. AnsweredRuns' /\ SaidInTurns' /\ AnswersHeard' /\ ToldTrue'
    BY <1>1, <1>2, <1>11, <1>13, SaidKeeps DEF Spoken
<1> QED
    BY <1>3, <1>10, <1>14 DEF DeliveryInv

\* A turn that is over leaves the others as they are.
LEMMA TurnEndsFacts ==
    ASSUME DeliveryInv, NEW t \in Turns, TurnEnds(t)
    PROVE  /\ turns' \in [Turns -> TurnRecords]
           /\ turns'[t].run = 0
           /\ \A u \in Turns : turns'[u].run = 0 \/ (turns'[u].run = turns[u].run /\ turns'[u].route = turns[u].route)
<1>1. NoTurn \in TurnRecords /\ NoTurn.run = 0
    BY DeliveryAssumption DEF NoTurn, TurnRecords, Routes
<1>2. turns \in [Turns -> TurnRecords]
    BY DEF DeliveryInv, TurnsBegun
<1>3. turns' = [turns EXCEPT ![t] = NoTurn]
    BY DEF TurnEnds
<1> QED
    BY <1>1, <1>2, <1>3

\* The end of a user's or a job's turn keeps the invariant.
LEMMA OverKeeps ==
    ASSUME DeliveryInv, TurnOver
    PROVE  DeliveryInv'
<1>1. PICK t \in {"user", "cron"} :
          /\ InTurn(t) /\ TurnEnds(t)
          /\ \/ UNCHANGED out
             \/ out' = out \cup {Said(turns[t].run, "answer", turns[t].route)}
    BY DEF TurnOver
<1>2. UNCHANGED <<settings, lastRoute, begun, outbox, told, snapshot, runner, answers, origins>>
    BY DEF TurnOver
<1>3. DeliveryTypes'
    BY <1>2 DEF DeliveryInv, DeliveryTypes, TurnOver
<1>4. t \in Turns
    BY DEF Turns
<1>5. TurnsBegun'
    BY <1>1, <1>2, <1>4, TurnEndsFacts, TurnsStay
<1>6. turns'["heartbeat"].run \in {0, turns["heartbeat"].run}
    BY <1>1, <1>4, TurnEndsFacts DEF Turns
<1>7. PICK m : m = Said(turns[t].run, "answer", turns[t].route)
    OBVIOUS
<1>8. m.run = turns[t].run /\ m.kind = "answer" /\ m.to = turns[t].route
    BY <1>7 DEF Said
<1>9. AnsweredRuns' /\ SaidInTurns' /\ AnswersHeard' /\ ToldTrue'
    BY <1>1, <1>2, <1>4, <1>6, <1>7, <1>8, SaidKeeps
<1> QED
    BY <1>3, <1>5, <1>9 DEF DeliveryInv

\* A run that is skipped is one of its own, of which nothing is heard.
LEMMA SkipKeeps ==
    ASSUME DeliveryInv, NEW tasks \in TaskFiles, HeartbeatSkips(tasks)
    PROVE  DeliveryInv'
<1>1. UNCHANGED <<settings, lastRoute, busy, turns, out, outbox, answers>>
    BY DEF HeartbeatSkips
<1>2. MaxRuns \in Nat /\ begun \in Nat /\ begun < MaxRuns /\ begun' = begun + 1 /\ runner \in 0 .. begun
    BY DeliveryAssumption DEF HeartbeatSkips, DeliveryInv, DeliveryTypes
<1>3. DeliveryTypes'
    <2>1. begun' \in 0 .. MaxRuns /\ runner' \in 0 .. begun'
        BY <1>2 DEF HeartbeatSkips
    <2> QED
        BY <1>1, <2>1 DEF DeliveryInv, DeliveryTypes
<1>4. origins \in Seq(Routes) /\ Len(origins) = begun /\ origins' = Append(origins, Nobody) /\ Nobody \in Routes
    BY DEF HeartbeatSkips, DeliveryInv, TurnsBegun, Routes
<1>5. /\ origins' \in Seq(Routes) /\ Len(origins') = begun'
      /\ \A i \in 1 .. begun : origins'[i] = origins[i]
    BY <1>2, <1>4
<1>6. TurnsBegun'
    <2>1. ASSUME NEW u \in Turns
          PROVE  /\ turns[u].run <= begun'
                 /\ turns[u].run # 0 => turns[u].route = origins'[turns[u].run]
        <3>1. turns[u].run \in Nat /\ turns[u].run <= begun
            BY DEF DeliveryInv, TurnsBegun, TurnRecords
        <3> QED
            BY <1>2, <1>5, <3>1 DEF DeliveryInv, TurnsBegun, InTurn
    <2> QED
        BY <1>1, <1>5, <2>1 DEF DeliveryInv, TurnsBegun, InTurn
<1>7. AnsweredRuns'
    <2>1. DOMAIN answers \subseteq 1 .. begun'
        BY <1>2 DEF DeliveryInv, AnsweredRuns
    <2> QED
        BY <1>1, <2>1 DEF DeliveryInv, AnsweredRuns
<1>8. SaidInTurns'
    <2>1. ASSUME NEW m \in out \cup outbox PROVE m.run \in 1 .. begun' /\ origins'[m.run] = origins[m.run]
        BY <1>2, <1>5 DEF DeliveryInv, SaidInTurns
    <2> QED
        BY <1>1, <2>1 DEF DeliveryInv, SaidInTurns, TurnsKeepTheirRoutes
<1>9. AnswersHeard'
    BY <1>1 DEF DeliveryInv, AnswersHeard, Reaches, IsShown
<1>10. ToldTrue'
    <2>1. told' = [run |-> begun', kind |-> SkipKind(tasks), delivered |-> FALSE, to |-> Nobody]
        BY DEF HeartbeatSkips
    <2>2. told'.run = begun' /\ told'.delivered = FALSE
        BY <2>1
    <2>3. snapshot'.delivery = told' /\ snapshot'.runner = runner
        BY DEF HeartbeatSkips, Persists, HeartbeatStatus
    <2>4. \A m \in out : m.run # begun'
        BY <1>2 DEF DeliveryInv, SaidInTurns
    <2>5. Said(told'.run, "heartbeat", told'.to) \notin out
        <3>1. Said(told'.run, "heartbeat", told'.to).run = begun'
            BY <2>2 DEF Said
        <3> QED
            BY <2>4, <3>1
    <2>6. told'.run \in 0 .. begun' /\ snapshot'.runner \in 0 .. begun'
        BY <1>2, <2>2, <2>3
    <2> QED
        BY <1>1, <2>2, <2>3, <2>5, <2>6 DEF ToldTrue
<1> QED
    BY <1>3, <1>6, <1>7, <1>8, <1>9, <1>10 DEF DeliveryInv

\* A run that fails changes nothing that is known of the answers.
LEMMA FailKeeps ==
    ASSUME DeliveryInv, HeartbeatFails
    PROVE  DeliveryInv'
<1>1. UNCHANGED <<settings, lastRoute, busy, begun, out, outbox, told, answers, origins>>
    BY DEF HeartbeatFails
<1>2. "heartbeat" \in Turns /\ TurnEnds("heartbeat") /\ InTurn("heartbeat")
    BY DEF HeartbeatFails, Turns
<1>3. begun \in Nat /\ turns["heartbeat"].run \in 0 .. begun /\ runner' = turns["heartbeat"].run
    BY <1>2, DeliveryAssumption DEF HeartbeatFails, DeliveryInv, DeliveryTypes, TurnsBegun, TurnRecords
<1>4. DeliveryTypes'
    BY <1>1, <1>3 DEF DeliveryInv, DeliveryTypes
<1>5. TurnsBegun'
    BY <1>1, <1>2, TurnEndsFacts, TurnsStay
<1>6. turns'["heartbeat"].run = 0
    BY <1>2, TurnEndsFacts
<1>7. AnsweredRuns'
    <2>1. 0 \notin DOMAIN answers
        BY <1>3 DEF DeliveryInv, AnsweredRuns
    <2> QED
        BY <1>1, <1>6, <2>1 DEF DeliveryInv, AnsweredRuns
<1>8. SaidInTurns'
    BY <1>1 DEF DeliveryInv, SaidInTurns, TurnsKeepTheirRoutes
<1>9. AnswersHeard'
    BY <1>1 DEF DeliveryInv, AnswersHeard, Reaches, IsShown
<1>10. ToldTrue'
    <2>1. snapshot'.delivery = told /\ snapshot'.runner = runner
        BY DEF HeartbeatFails, Persists, HeartbeatStatus
    <2> QED
        BY <1>1, <2>1 DEF DeliveryInv, DeliveryTypes, ToldTrue
<1> QED
    BY <1>4, <1>5, <1>7, <1>8, <1>9, <1>10 DEF DeliveryInv

\* The answer of a run reaches its target, once, or nobody, and that is told of it.
LEMMA AnsweredKeeps ==
    ASSUME DeliveryInv, NEW result \in Answers, HeartbeatAnswered(result)
    PROVE  DeliveryInv'
<1>1. UNCHANGED <<settings, lastRoute, busy, begun, outbox, origins>>
    BY DEF HeartbeatAnswered
<1>2. "heartbeat" \in Turns /\ TurnEnds("heartbeat") /\ InTurn("heartbeat")
    BY DEF HeartbeatAnswered, Turns
<1>3. PICK r : r = turns["heartbeat"].run
    OBVIOUS
<1>4. begun \in Nat /\ r \in 1 .. begun /\ r \notin DOMAIN answers /\ DOMAIN answers \subseteq 1 .. begun
    BY <1>2, <1>3, DeliveryAssumption
    DEF DeliveryInv, DeliveryTypes, TurnsBegun, TurnRecords, InTurn, AnsweredRuns
<1>5. /\ told' = Outcome(r, result)
      /\ out' = out \cup (IF told'.delivered THEN {Said(r, "heartbeat", told'.to)} ELSE {})
      /\ answers' = [i \in DOMAIN answers \cup {r} |-> IF i = r THEN result ELSE answers[i]]
      /\ runner' = r
    BY <1>3 DEF HeartbeatAnswered
<1>6. snapshot'.delivery = told' /\ snapshot'.runner = runner
    BY DEF HeartbeatAnswered, Persists, HeartbeatStatus
<1>7. told'.run = r /\ told'.delivered \in BOOLEAN /\ (told'.delivered <=> Reaches(result))
    BY <1>5, OutcomeFacts DEF DeliveryInv
<1>8. PICK said : said = Said(r, "heartbeat", told'.to)
    OBVIOUS
<1>9. said.run = r /\ said.kind = "heartbeat"
    BY <1>8 DEF Said
<1>10. (told'.delivered /\ out' = out \cup {said}) \/ (~told'.delivered /\ out' = out)
    BY <1>5, <1>7, <1>8
<1>11. DeliveryTypes'
    BY <1>1, <1>4, <1>5 DEF DeliveryInv, DeliveryTypes
<1>12. TurnsBegun'
    BY <1>1, <1>2, TurnEndsFacts, TurnsStay
<1>13. DOMAIN answers' = DOMAIN answers \cup {r}
    BY <1>5
<1>14. AnsweredRuns'
    <2>1. turns'["heartbeat"].run = 0
        BY <1>2, TurnEndsFacts
    <2>2. DOMAIN answers' \subseteq 1 .. begun /\ 0 \notin DOMAIN answers'
        BY <1>4, <1>13
    <2>3. \A m \in out' : m.kind = "heartbeat" => m.run \in DOMAIN answers'
        BY <1>9, <1>10, <1>13 DEF DeliveryInv, AnsweredRuns
    <2> QED
        BY <1>1, <2>1, <2>2, <2>3 DEF AnsweredRuns
<1>15. SaidInTurns'
    <2>1. \A m \in out' : m \in out \/ (m.run \in 1 .. begun /\ m.kind = "heartbeat")
        BY <1>4, <1>9, <1>10
    <2> QED
        BY <1>1, <2>1 DEF DeliveryInv, SaidInTurns, TurnsKeepTheirRoutes
<1>16. ASSUME NEW i \in DOMAIN answers PROVE Heard(out', i) = Heard(out, i) /\ answers'[i] = answers[i]
    BY <1>4, <1>5, <1>9, <1>10 DEF Heard
<1>17. Heard(out, r) = {}
    BY <1>4 DEF Heard, DeliveryInv, AnsweredRuns
<1>18. Heard(out', r) = IF told'.delivered THEN {said} ELSE {}
    BY <1>9, <1>10, <1>17 DEF Heard
<1>19. AnswersHeard'
    <2>1. ASSUME NEW i \in DOMAIN answers
          PROVE  IF Reaches(answers'[i]) THEN \E m \in out' : Heard(out', i) = {m} ELSE Heard(out', i) = {}
        BY <1>10, <1>16 DEF DeliveryInv, AnswersHeard
    <2>2. IF Reaches(answers'[r]) THEN \E m \in out' : Heard(out', r) = {m} ELSE Heard(out', r) = {}
        <3>1. answers'[r] = result
            BY <1>5
        <3> QED
            BY <1>7, <1>10, <1>18, <3>1
    <2>3. \A i \in DOMAIN answers' :
             IF Reaches(answers'[i]) THEN \E m \in out' : Heard(out', i) = {m} ELSE Heard(out', i) = {}
        BY <1>13, <2>1, <2>2
    <2> QED
        BY <1>1, <2>3 DEF AnswersHeard, Reaches, IsShown
<1>20. ToldTrue'
    <2>1. told'.delivered <=> said \in out'
        <3>1. said \notin out
            BY <1>4, <1>9 DEF DeliveryInv, AnsweredRuns
        <3> QED
            BY <1>10, <3>1
    <2>2. told'.run \in 0 .. begun /\ snapshot'.runner \in 0 .. begun
        BY <1>4, <1>6, <1>7 DEF DeliveryInv, DeliveryTypes
    <2> QED
        BY <1>1, <1>6, <1>7, <1>8, <2>1, <2>2 DEF ToldTrue
<1> QED
    BY <1>11, <1>12, <1>14, <1>15, <1>19, <1>20 DEF DeliveryInv

\* Every step of a turn keeps the invariant.
LEMMA DeliveryStep == DeliveryInv /\ [DeliveryNext]_deliveryVars => DeliveryInv'
<1> SUFFICES ASSUME DeliveryInv, [DeliveryNext]_deliveryVars PROVE DeliveryInv'
    OBVIOUS
<1>1. CASE UNCHANGED deliveryVars
    <2>1. /\ UNCHANGED <<settings, lastRoute, busy, turns, begun, out>>
          /\ UNCHANGED <<outbox, told, snapshot, runner, answers, origins>>
        BY <1>1 DEF deliveryVars
    <2> QED
        BY <2>1 DEF DeliveryInv, DeliveryTypes, TurnsBegun, InTurn, AnsweredRuns, SaidInTurns,
            TurnsKeepTheirRoutes, AnswersHeard, Reaches, IsShown, ToldTrue
<1> QED
    BY <1>1, DeliverySteps, BeginKeeps, SpeakKeeps, OverKeeps, SkipKeeps, FailKeeps, AnsweredKeeps

\* The invariant says what the runs check: who hears of an answer, and what is told.
LEMMA DeliveryInvSays == DeliveryInv => DeliveryTypeOK /\ AlertsReachOne /\ TurnsKeepTheirRoutes
<1> SUFFICES ASSUME DeliveryInv PROVE DeliveryTypeOK /\ AlertsReachOne
    BY DEF DeliveryInv, SaidInTurns
<1>1. DeliveryTypeOK
    <2>1. MaxRuns \in Nat /\ begun \in 0 .. MaxRuns
        BY DeliveryAssumption DEF DeliveryInv, DeliveryTypes
    <2>2. ASSUME NEW t \in Turns PROVE turns[t].run \in 0 .. MaxRuns /\ turns[t].says \in 0 .. MaxSays
        BY <2>1 DEF DeliveryInv, TurnsBegun, TurnRecords
    <2> QED
        BY <2>2 DEF DeliveryInv, DeliveryTypes, ToldTrue, DeliveryTypeOK
<1>2. ASSUME NEW r \in DOMAIN answers
      PROVE  LET heard == {m \in out : m.run = r /\ m.kind = "heartbeat"}
                 visible == IF answers[r] \in {"text", "lengthy"} THEN settings.alerts ELSE settings.ok
             IN  Cardinality(heard) = IF visible /\ settings.mode # "none" THEN 1 ELSE 0
    <2>1. Cardinality(Heard(out, r)) = IF Reaches(answers[r]) THEN 1 ELSE 0
        BY FS_EmptySet, FS_Singleton DEF DeliveryInv, AnswersHeard
    <2> QED
        BY <2>1 DEF Heard, Reaches, IsShown
<1>3. told.run # 0 => told.delivered = (Said(told.run, "heartbeat", told.to) \in out)
    BY DEF DeliveryInv, ToldTrue
<1> QED
    BY <1>1, <1>2, <1>3 DEF AlertsReachOne, DeliveryInv, ToldTrue

\* Whoever's turns overlap: an answer of the heartbeat reaches one chat or none, as the
\* settings have it, the status tells what became of it, and what a tool says without
\* naming a chat goes to the chat of its own turn.
THEOREM SayingsReachTheirs == DeliverySpec => []RoutesKept
<1>1. DeliveryInv => RoutesKept
    BY DeliveryInvSays DEF RoutesKept
<1> QED
    BY <1>1, DeliveryInitially, DeliveryStep, PTL DEF DeliverySpec

-----------------------------------------------------------------------------
(* The tabs of both browser runtimes *)

\* No two places of a sequence hold the same.
Distinct(s) == \A i, j \in 1 .. Len(s) : s[i] = s[j] => i = j

\* The elements of a sequence are what its places hold.
LEMMA SetOfSeq ==
    ASSUME NEW S, NEW s \in Seq(S)
    PROVE  /\ ToSet(s) = {s[i] : i \in 1 .. Len(s)}
           /\ ToSet(s) \subseteq S
           /\ \A e : e \in ToSet(s) <=> \E i \in 1 .. Len(s) : s[i] = e
           /\ s = <<>> => ToSet(s) = {}
           /\ s # <<>> => Last(s) \in ToSet(s)
<1>1. Len(s) \in Nat /\ DOMAIN s = 1 .. Len(s) /\ \A i \in 1 .. Len(s) : s[i] \in S
    BY LenProperties, ElementOfSeq
<1>2. s # <<>> => Len(s) \in 1 .. Len(s)
    BY <1>1, EmptySeq
<1>3. s = <<>> => 1 .. Len(s) = {}
    OBVIOUS
<1>4. ToSet(s) = {s[i] : i \in 1 .. Len(s)}
    BY <1>1 DEF ToSet
<1> QED
    BY <1>1, <1>2, <1>3, <1>4 DEF Last

\* The empty sequence holds nothing.
LEMMA SetOfNone == ToSet(<<>>) = {} /\ Distinct(<<>>)
<1>1. DOMAIN <<>> = {} /\ Len(<<>>) = 0 /\ 1 .. 0 = {}
    OBVIOUS
<1> QED
    BY <1>1 DEF ToSet, Distinct

\* What is appended to a sequence that lacks it is added to its elements.
LEMMA SetOfAppend ==
    ASSUME NEW S, NEW s \in Seq(S), NEW e \in S
    PROVE  /\ Append(s, e) \in Seq(S)
           /\ ToSet(Append(s, e)) = ToSet(s) \cup {e}
           /\ Distinct(s) /\ e \notin ToSet(s) => Distinct(Append(s, e))
           /\ Append(s, e) # <<>> /\ Last(Append(s, e)) = e
<1> DEFINE t == Append(s, e)
<1>1. /\ Len(s) \in Nat /\ t \in Seq(S) /\ Len(t) = Len(s) + 1
      /\ \A i \in 1 .. Len(s) : t[i] = s[i]
      /\ t[Len(s) + 1] = e /\ 1 .. Len(t) = 1 .. Len(s) \cup {Len(s) + 1}
      /\ Len(s) + 1 \notin 1 .. Len(s)
    BY AppendProperties, LenProperties
<1> HIDE DEF t
<1>2. \A x : x \in ToSet(t) <=> \E i \in 1 .. Len(t) : t[i] = x
    BY <1>1, SetOfSeq
<1>3. \A x : x \in ToSet(s) <=> \E i \in 1 .. Len(s) : s[i] = x
    BY SetOfSeq
<1>4. ToSet(t) = ToSet(s) \cup {e}
    BY <1>1, <1>2, <1>3
<1>5. ASSUME Distinct(s), e \notin ToSet(s) PROVE Distinct(t)
    BY <1>1, <1>3, <1>5 DEF Distinct
<1>6. t # <<>> /\ Last(t) = e
    BY <1>1, EmptySeq DEF Last
<1> QED
    BY <1>1, <1>4, <1>5, <1>6 DEF t

\* Two sequences without a common element, one after the other.
LEMMA SetOfConcat ==
    ASSUME NEW S, NEW s \in Seq(S), NEW t \in Seq(S)
    PROVE  /\ s \o t \in Seq(S)
           /\ ToSet(s \o t) = ToSet(s) \cup ToSet(t)
           /\ Distinct(s) /\ Distinct(t) /\ ToSet(s) \cap ToSet(t) = {} => Distinct(s \o t)
<1> DEFINE u == s \o t
<1>1. /\ Len(s) \in Nat /\ Len(t) \in Nat /\ u \in Seq(S) /\ Len(u) = Len(s) + Len(t)
      /\ \A i \in 1 .. Len(s) + Len(t) : u[i] = IF i <= Len(s) THEN s[i] ELSE t[i - Len(s)]
    BY ConcatProperties, LenProperties
<1> HIDE DEF u
<1>2. /\ \A x : x \in ToSet(u) <=> \E i \in 1 .. Len(u) : u[i] = x
      /\ \A x : x \in ToSet(s) <=> \E i \in 1 .. Len(s) : s[i] = x
      /\ \A x : x \in ToSet(t) <=> \E i \in 1 .. Len(t) : t[i] = x
    BY <1>1, SetOfSeq
<1>3. \A x \in ToSet(u) : x \in ToSet(s) \cup ToSet(t)
    BY <1>1, <1>2
<1>4. ASSUME NEW x \in ToSet(s) PROVE x \in ToSet(u)
    <2>1. PICK i \in 1 .. Len(s) : s[i] = x
        BY <1>2
    <2>2. i \in 1 .. Len(u) /\ u[i] = x
        BY <1>1, <2>1
    <2> QED
        BY <1>2, <2>2
<1>5. ASSUME NEW x \in ToSet(t) PROVE x \in ToSet(u)
    <2>1. PICK i \in 1 .. Len(t) : t[i] = x
        BY <1>2
    <2>2. /\ i + Len(s) \in 1 .. Len(u) /\ i + Len(s) \in 1 .. Len(s) + Len(t)
          /\ ~(i + Len(s) <= Len(s)) /\ (i + Len(s)) - Len(s) = i
        BY <1>1
    <2>3. u[i + Len(s)] = x
        BY <1>1, <2>1, <2>2
    <2> QED
        BY <1>2, <2>2, <2>3
<1>6. ASSUME Distinct(s), Distinct(t), ToSet(s) \cap ToSet(t) = {},
             NEW i \in 1 .. Len(u), NEW j \in 1 .. Len(u), u[i] = u[j]
      PROVE  i = j
    <2>1. CASE i <= Len(s) /\ j <= Len(s)
        BY <1>1, <1>6, <2>1 DEF Distinct
    <2>2. CASE i > Len(s) /\ j > Len(s)
        <3>1. i - Len(s) \in 1 .. Len(t) /\ j - Len(s) \in 1 .. Len(t) /\ t[i - Len(s)] = t[j - Len(s)]
            BY <1>1, <1>6, <2>2
        <3> QED
            BY <1>1, <1>6, <3>1 DEF Distinct
    <2>3. ASSUME NEW k \in 1 .. Len(u), NEW l \in 1 .. Len(u), k <= Len(s), l > Len(s), u[k] = u[l]
          PROVE  FALSE
        <3>1. k \in 1 .. Len(s) /\ u[k] = s[k] /\ l - Len(s) \in 1 .. Len(t) /\ u[l] = t[l - Len(s)]
            BY <1>1, <2>3
        <3>2. u[k] \in ToSet(s) /\ u[k] \in ToSet(t)
            BY <1>2, <2>3, <3>1
        <3> QED
            BY <1>6, <3>2
    <2> QED
        BY <1>1, <1>6, <2>1, <2>2, <2>3
<1> QED
    BY <1>1, <1>3, <1>4, <1>5, <1>6 DEF u, Distinct

\* A sequence of distinct elements without one of them.
LEMMA SetOfRemoval ==
    ASSUME NEW S, NEW s \in Seq(S), NEW e, Distinct(s)
    PROVE  /\ RemoveFirst(s, e) \in Seq(S)
           /\ ToSet(RemoveFirst(s, e)) = ToSet(s) \ {e}
           /\ Distinct(RemoveFirst(s, e))
<1>1. \A x : x \in ToSet(s) <=> \E i \in 1 .. Len(s) : s[i] = x
    BY SetOfSeq
<1>2. CASE e \notin ToSet(s)
    <2>1. RemoveFirst(s, e) = s
        BY <1>1, <1>2 DEF RemoveFirst
    <2> QED
        BY <1>2, <2>1
<1>3. CASE e \in ToSet(s)
    <2>1. PICK k \in 1 .. Len(s) : s[k] = e
        BY <1>1, <1>3
    <2>2. {i \in 1 .. Len(s) : s[i] = e} = {k}
        BY <2>1 DEF Distinct
    <2>3. k \in Nat /\ Len(s) \in Nat /\ 1 <= k /\ k <= Len(s)
        BY <2>1, LenProperties
    <2>4. Min({k}) = k
        BY <2>3 DEF Min
    <2>5. SelectInSeq(s, LAMBDA v : v = e) = k
        BY <2>2, <2>4 DEF SelectInSeq
    <2>6. RemoveFirst(s, e) = RemoveAt(s, k)
        BY <2>1, <2>5 DEF RemoveFirst
    <2>7. PICK a, b : a = SubSeq(s, 1, k - 1) /\ b = SubSeq(s, k + 1, Len(s))
        OBVIOUS
    <2>8. /\ a \in Seq(S) /\ Len(a) = k - 1
          /\ \A i \in 1 .. k - 1 : a[i] = s[i]
        BY <2>3, <2>7, SubSeqProperties
    <2>9. /\ b \in Seq(S) /\ Len(b) = Len(s) - k
          /\ \A i \in 1 .. Len(s) - k : b[i] = s[k + i]
        BY <2>3, <2>7, SubSeqProperties
    <2>10. Distinct(a) /\ Distinct(b)
        <3>1. \A i \in 1 .. k - 1 : i \in 1 .. Len(s)
            BY <2>3
        <3>2. \A i \in 1 .. Len(s) - k : k + i \in 1 .. Len(s)
            BY <2>3
        <3>3. Distinct(a)
            BY <2>8, <3>1 DEF Distinct
        <3>4. ASSUME NEW i \in 1 .. Len(s) - k, NEW j \in 1 .. Len(s) - k, b[i] = b[j] PROVE i = j
            <4>1. k + i = k + j
                BY <2>9, <3>2, <3>4 DEF Distinct
            <4> QED
                BY <2>3, <4>1
        <3> QED
            BY <2>9, <3>3, <3>4 DEF Distinct
    <2>11. /\ \A x : x \in ToSet(a) <=> \E i \in 1 .. k - 1 : s[i] = x
           /\ \A x : x \in ToSet(b) <=> \E i \in 1 .. Len(s) - k : s[k + i] = x
        <3>1. \A x : x \in ToSet(a) <=> \E i \in 1 .. Len(a) : a[i] = x
            BY <2>8, SetOfSeq
        <3>2. \A x : x \in ToSet(b) <=> \E i \in 1 .. Len(b) : b[i] = x
            BY <2>9, SetOfSeq
        <3>3. \A x : x \in ToSet(a) <=> \E i \in 1 .. k - 1 : s[i] = x
            BY <2>8, <3>1
        <3>4. ASSUME NEW x PROVE x \in ToSet(b) <=> \E i \in 1 .. Len(s) - k : s[k + i] = x
            <4>1. x \in ToSet(b) <=> \E i \in 1 .. Len(s) - k : b[i] = x
                BY <2>9, <3>2
            <4> QED
                BY <2>9, <4>1
        <3> QED
            BY <3>3, <3>4
    <2>12. ToSet(a) \cap ToSet(b) = {}
        BY <2>3, <2>11 DEF Distinct
    <2>13. ASSUME NEW x \in ToSet(a) \cup ToSet(b) PROVE x \in ToSet(s) \ {e}
        BY <1>1, <2>1, <2>3, <2>11, <2>13 DEF Distinct
    <2>14. ASSUME NEW x \in ToSet(s) \ {e} PROVE x \in ToSet(a) \cup ToSet(b)
        <3>1. PICK i \in 1 .. Len(s) : s[i] = x
            BY <1>1
        <3>2. CASE i < k
            BY <2>3, <2>11, <3>1, <3>2
        <3>3. CASE i > k
            <4>1. i - k \in 1 .. Len(s) - k /\ s[k + (i - k)] = x
                BY <2>3, <3>1, <3>3
            <4> QED
                BY <2>11, <4>1
        <3> QED
            BY <2>1, <2>3, <3>1, <3>2, <3>3
    <2>15. RemoveFirst(s, e) = a \o b
        BY <2>6, <2>7 DEF RemoveAt
    <2>16. ToSet(a) \cup ToSet(b) = ToSet(s) \ {e}
        BY <2>13, <2>14
    <2> QED
        BY <2>8, <2>9, <2>10, <2>12, <2>15, <2>16, SetOfConcat
<1> QED
    BY <1>2, <1>3

-----------------------------------------------------------------------------
(* The browser of this process's memory *)

MemInv == memTabs \in Seq(MemPages) /\ Distinct(memTabs)

\* What a call about a tab is about is open.
LEMMA MemResolved ==
    ASSUME MemInv, NEW id, NEW g, MemResolve(id, g)
    PROVE  g \in InMemory /\ g \in MemPages
<1>1. InMemory \subseteq MemPages /\ (memTabs # <<>> => Last(memTabs) \in InMemory)
    BY SetOfSeq DEF MemInv, InMemory
<1> QED
    BY <1>1 DEF MemResolve

\* The steps of the runtime keep the tabs distinct, and are those of a list of tabs.
LEMMA MemoryStep ==
    MemInv /\ [MemoryNext]_memoryVars =>
        MemInv' /\ [MemoryTabs!TabListNext]_<<InMemory, memLast>>
<1> SUFFICES ASSUME MemInv, [MemoryNext]_memoryVars
             PROVE  MemInv' /\ [MemoryTabs!TabListNext]_<<InMemory, memLast>>
    OBVIOUS
<1>1. CASE UNCHANGED <<memTabs, memLast>>
    BY <1>1 DEF MemInv, InMemory
<1>2. CASE StopMemory
    <2>1. memTabs' = <<>> /\ memLast' = NoTab
        BY <1>2 DEF StopMemory
    <2>2. MemInv'
        BY <2>1 DEF MemInv, Distinct
    <2>3. InMemory' = {}
        BY <2>1, SetOfNone DEF InMemory
    <2>4. MemoryTabs!Go
        BY <2>1, <2>3 DEF MemoryTabs!Go
    <2> QED
        BY <2>2, <2>4 DEF MemoryTabs!TabListNext
<1>3. ASSUME NEW g \in MemPages, MemOpen(g)
      PROVE  MemInv' /\ MemoryTabs!TabListNext
    <2>1. g \notin InMemory /\ memTabs' = Append(memTabs, g) /\ memLast' = g
        BY <1>3 DEF MemOpen
    <2>2. MemInv' /\ InMemory' = InMemory \cup {g}
        BY <1>3, <2>1, SetOfAppend DEF MemInv, InMemory
    <2>3. MemoryTabs!Choose(g)
        BY <2>1, <2>2 DEF MemoryTabs!Choose
    <2> QED
        BY <1>3, <2>2, <2>3 DEF MemoryTabs!TabListNext
<1>4. ASSUME NEW id, NEW g, MemResolve(id, g), memLast' = g, UNCHANGED memTabs
      PROVE  MemInv' /\ MemoryTabs!TabListNext
    <2>1. g \in InMemory /\ g \in MemPages
        BY <1>4, MemResolved
    <2>2. MemInv' /\ InMemory' = InMemory
        BY <1>4 DEF MemInv, InMemory
    <2>3. MemoryTabs!Choose(g)
        BY <1>4, <2>1, <2>2 DEF MemoryTabs!Choose
    <2> QED
        BY <2>1, <2>2, <2>3 DEF MemoryTabs!TabListNext
<1>5. ASSUME NEW id, NEW g, MemClose(id, g)
      PROVE  MemInv' /\ MemoryTabs!TabListNext
    <2>1. g \in MemPages /\ memTabs' = RemoveFirst(memTabs, g)
        BY <1>5, MemResolved DEF MemClose
    <2>2. MemInv' /\ InMemory' = InMemory \ {g}
        BY <2>1, SetOfRemoval DEF MemInv, InMemory
    <2>3. memTabs' # <<>> => Last(memTabs') \in InMemory'
        BY <2>2, SetOfSeq DEF MemInv, InMemory
    <2>4. memLast' = IF memTabs' = <<>> THEN NoTab ELSE Last(memTabs')
        BY <1>5 DEF MemClose
    <2>5. MemoryTabs!Close(g)
        BY <2>2, <2>3, <2>4 DEF MemoryTabs!Close
    <2> QED
        BY <2>1, <2>2, <2>5 DEF MemoryTabs!TabListNext
<1>6. ASSUME NEW id, NEW g,
             \/ MemFocus(id, g) \/ MemSnapshot(id, g) \/ MemNavigate(id, g) \/ MemScreenshot(id, g)
             \/ MemConsole(id, g) \/ MemUpload(id, g) \/ MemDialog(id, g)
      PROVE  MemInv' /\ [MemoryTabs!TabListNext]_<<InMemory, memLast>>
    <2>1. MemResolve(id, g) /\ memLast' \in {g, memLast} /\ UNCHANGED memTabs
        BY <1>6 DEF MemFocus, MemSnapshot, MemNavigate, MemScreenshot, MemConsole, MemUpload, MemDialog
    <2> QED
        BY <1>1, <1>4, <2>1
<1> QED
    BY <1>1, <1>2, <1>3, <1>5, <1>6 DEF MemoryNext, memoryVars, StartMemory, MemAct, MemPdf

\* The runtime of this process's memory is a list of tabs in which a call that names
\* none gets the one of the call before it.
THEOREM MemoryIsTabList == MemorySpec => MemoryKeepsTabs
<1>1. MemoryInit => MemInv /\ MemoryTabs!TabListInit
    BY SetOfNone DEF MemoryInit, MemInv, InMemory, MemoryTabs!TabListInit
<1> QED
    BY <1>1, MemoryStep, PTL DEF MemorySpec, MemoryKeepsTabs, MemoryTabs!TabListSpec

-----------------------------------------------------------------------------
(* The browser that Playwright drives *)

\* A context is one of a browser that was started for the profile that is active, and
\* that profile is one of this process.
Connected ==
    /\ chrome \in {"off", "relay", "cdp", "unsupported"}
    /\ browser \in {"none", "launched", "attached"} /\ mode \in {"idle", "launch", "cdp", "relay"}
    /\ owns \subseteq {"browser", "context"}
    /\ context \in BOOLEAN /\ driver \in BOOLEAN
    /\ context => driver /\ browser # "none" /\ active = startedFor
    /\ context => startedFor \in Profiles /\ Local(startedFor)

\* No page is two, or is in the context and in the user's browser at once; without a
\* context there are none.
PagesApart ==
    /\ pages \in Seq(Pages) /\ theirs \in Seq(Pages) /\ tabs \in Seq(Pages)
    /\ Distinct(pages) /\ Distinct(theirs) /\ Live \cap ToSet(theirs) = {}
    /\ ~context => pages = <<>>

\* The page that was worked on last is the last target while it is there; once it is
\* gone it does not come back.
LastIsTarget ==
    /\ lastUsed \in Live => lastTarget = lastUsed
    /\ ~context => lastUsed = NoPage

\* The user's pages are in a context only if it is the user's.
UsersApart ==
    /\ UsersPagesStay
    /\ (browser = "attached" /\ "context" \notin owns) \/ users \cap Live = {}

BrowserInv == Connected /\ PagesApart /\ LastIsTarget /\ UsersApart

\* The page of the next call that names none.
Chosen == IF lastUsed \in Live THEN DefaultTab ELSE NoPage

\* It is the one that was worked on last, while that is there.
LEMMA ChosenIsLast ==
    /\ BrowserInv => Chosen = IF lastUsed \in Live THEN lastUsed ELSE NoPage
    /\ BrowserInv' => Chosen' = IF lastUsed' \in Live' THEN lastUsed' ELSE NoPage
    BY DEF BrowserInv, LastIsTarget, Chosen, DefaultTab, Synced

\* What a call finds is a page that is there.
LEMMA FoundIsLive ==
    ASSUME BrowserInv, NEW id, NEW g, pages # <<>>,
           (id \in Live /\ g = id) \/ (id = NoPage /\ g = DefaultTab)
    PROVE  g \in Live /\ g \in Pages
<1>1. Live \subseteq Pages /\ Last(pages) \in Live
    BY SetOfSeq DEF BrowserInv, PagesApart, Live
<1> QED
    BY <1>1 DEF DefaultTab

BrowserStep == BrowserInv' /\ [BrowserTabs!TabListNext]_<<Live, Chosen>>

\* A step that leaves the connection as it is keeps what is known of it.
LEMMA ConnectionStays ==
    ASSUME Connected, UNCHANGED connection
    PROVE  Connected' /\ UNCHANGED <<chrome, browser, context, owns>>
    BY DEF Connected, connection, Local

\* A call that works on a page makes it the chosen one.
LEMMA WorkKeeps ==
    ASSUME BrowserInv, NEW id, NEW g, UNCHANGED <<connection, world>>, Touches(g), context, pages # <<>>,
           (id \in Live /\ g = id) \/ (id = NoPage /\ g = DefaultTab)
    PROVE  BrowserStep
<1>1. g \in Live /\ g \in Pages
    BY FoundIsLive
<1>2. Connected' /\ UNCHANGED <<browser, context, owns, pages, theirs, users>> /\ Live' = Live
    BY ConnectionStays DEF BrowserInv, world, Live
<1>3. tabs' = pages /\ lastTarget' = g /\ lastUsed' = g
    BY DEF Touches
<1>4. BrowserInv'
    BY <1>2, <1>3 DEF BrowserInv, PagesApart, LastIsTarget, UsersApart, UsersPagesStay
<1>5. Chosen' = g
    BY <1>1, <1>2, <1>3, <1>4, ChosenIsLast
<1>6. BrowserTabs!Choose(g)
    BY <1>1, <1>2, <1>5 DEF BrowserTabs!Choose, Chosen
<1> QED
    BY <1>1, <1>4, <1>6 DEF BrowserStep, BrowserTabs!TabListNext, Chosen

\* A call that only syncs the tabs changes no choice.
LEMMA SyncKeeps ==
    ASSUME BrowserInv, UNCHANGED <<connection, world, lastUsed>>, tabs' = pages,
           lastTarget' = Synced(lastTarget)
    PROVE  BrowserStep
<1>1. Connected' /\ UNCHANGED <<browser, context, owns, pages, theirs, users>> /\ Live' = Live
    BY ConnectionStays DEF BrowserInv, world, Live
<1>2. lastUsed \in Live => lastTarget' = lastTarget
    BY DEF Synced, BrowserInv, LastIsTarget
<1>3. BrowserInv'
    BY <1>1, <1>2 DEF BrowserInv, PagesApart, LastIsTarget, UsersApart, UsersPagesStay
<1>4. Chosen' = Chosen
    BY <1>1, <1>3, ChosenIsLast
<1> QED
    BY <1>1, <1>3, <1>4 DEF BrowserStep

\* A new page is in no list.
LEMMA FreshFacts ==
    ASSUME BrowserInv, NEW g \in Pages, Fresh(g), pages' = Append(pages, g), UNCHANGED theirs
    PROVE  /\ pages' \in Seq(Pages) /\ Distinct(pages') /\ Live' = Live \cup {g}
           /\ Live' \cap ToSet(theirs') = {} /\ Live' \subseteq Pages
           /\ g # lastUsed /\ g \notin Live /\ g # lastTarget
<1>1. pages' \in Seq(Pages) /\ Distinct(pages') /\ Live' = Live \cup {g}
    BY SetOfAppend DEF BrowserInv, PagesApart, Live, Fresh
<1> QED
    BY <1>1, SetOfSeq DEF BrowserInv, PagesApart, Fresh, Live

\* A page that is opened by a call is the chosen one.
LEMMA OpenKeeps ==
    ASSUME BrowserInv, NEW p \in Profiles, NEW g \in Pages, OpenTab(p, g)
    PROVE  BrowserStep
<1>1. Connected' /\ UNCHANGED <<browser, context, owns, theirs, users>> /\ context
    BY ConnectionStays DEF BrowserInv, OpenTab, Usable
<1>2. /\ pages' \in Seq(Pages) /\ Distinct(pages') /\ Live' = Live \cup {g}
      /\ Live' \cap ToSet(theirs') = {} /\ g \notin Live
    BY <1>1, FreshFacts DEF OpenTab
<1>3. tabs' \in Seq(Pages) /\ lastTarget' = g /\ lastUsed' = g
    BY SetOfAppend DEF OpenTab, BrowserInv, PagesApart
<1>4. (browser = "attached" /\ "context" \notin owns) \/ users \cap Live' = {}
    BY <1>2 DEF BrowserInv, UsersApart, UsersPagesStay, OpenTab, Fresh
<1>5. BrowserInv'
    BY <1>1, <1>2, <1>3, <1>4 DEF BrowserInv, PagesApart, LastIsTarget, UsersApart, UsersPagesStay
<1>6. Chosen' = g
    BY <1>2, <1>3, <1>5, ChosenIsLast
<1>7. BrowserTabs!Choose(g)
    BY <1>2, <1>6 DEF BrowserTabs!Choose, Chosen
<1> QED
    BY <1>5, <1>7 DEF BrowserStep, BrowserTabs!TabListNext, Chosen

\* A page that comes by itself, or that a call opens and does not reach, changes no choice.
LEMMA AppearKeeps ==
    ASSUME BrowserInv, NEW g \in Pages, Fresh(g), context, UNCHANGED <<connection, tabState, theirs, lastUsed>>,
           pages' = Append(pages, g),
           \/ UNCHANGED users
           \/ users' = users \cup {g} /\ browser = "attached" /\ owns = {}
    PROVE  BrowserStep
<1>1. Connected' /\ UNCHANGED <<browser, context, owns, theirs, tabs, lastTarget, lastUsed>>
    BY ConnectionStays DEF BrowserInv, tabState
<1>2. /\ pages' \in Seq(Pages) /\ Distinct(pages') /\ Live' = Live \cup {g}
      /\ Live' \cap ToSet(theirs') = {} /\ Live' \subseteq Pages
      /\ g # lastUsed /\ g \notin Live
    BY <1>1, FreshFacts
<1>3. UsersApart'
    BY <1>1, <1>2 DEF BrowserInv, UsersApart, UsersPagesStay, Fresh
<1>4. BrowserInv'
    BY <1>1, <1>2, <1>3 DEF BrowserInv, PagesApart, LastIsTarget
<1>5. Chosen' = Chosen
    BY <1>1, <1>2, <1>4, ChosenIsLast
<1>6. BrowserTabs!Appear
    BY <1>2, <1>5 DEF BrowserTabs!Appear, Chosen
<1> QED
    BY <1>4, <1>6 DEF BrowserStep, BrowserTabs!TabListNext, Chosen

\* A page that is closed by a call leaves the choice open.
LEMMA CloseKeeps ==
    ASSUME BrowserInv, NEW p \in Profiles, NEW id, NEW g, CloseTab(p, id, g)
    PROVE  BrowserStep
<1>1. /\ Connected' /\ UNCHANGED <<browser, context, owns, theirs>> /\ context
      /\ pages' = RemoveFirst(pages, g) /\ tabs' = pages' /\ users' = users \ {g}
      /\ lastUsed' = NoPage
    BY ConnectionStays DEF BrowserInv, CloseTab, Finds, Usable
<1>2. g \in Live /\ g \in Pages
    BY FoundIsLive DEF CloseTab, Finds
<1>3. pages' \in Seq(Pages) /\ Distinct(pages') /\ Live' = Live \ {g}
    BY <1>1, SetOfRemoval DEF BrowserInv, PagesApart, Live
<1>4. Live' \subseteq Pages /\ NoPage \notin Pages
    BY <1>3, SetOfSeq, BrowserAssumption DEF BrowserInv, PagesApart, Live
<1>5. BrowserInv'
    BY <1>1, <1>3, <1>4 DEF BrowserInv, PagesApart, LastIsTarget, UsersApart, UsersPagesStay
<1>6. Chosen' = NoPage
    BY <1>1, <1>5, ChosenIsLast
<1>7. BrowserTabs!Close(g)
    BY <1>3, <1>6 DEF BrowserTabs!Close, Chosen
<1> QED
    BY <1>2, <1>5, <1>7 DEF BrowserStep, BrowserTabs!TabListNext, Chosen

\* Pages that go by themselves take nothing but the choice with them.
LEMMA GoKeeps ==
    ASSUME BrowserInv, UNCHANGED <<connection, tabState, lastUsed>>,
           pages' \in Seq(Pages), theirs' \in Seq(Pages), Distinct(pages'), Distinct(theirs'),
           Live' \subseteq Live, ToSet(theirs') \subseteq ToSet(theirs), pages = <<>> => pages' = <<>>,
           users' \subseteq users \cap (Live' \cup ToSet(theirs'))
    PROVE  BrowserStep
<1>1. Connected' /\ UNCHANGED <<browser, context, owns, tabs, lastTarget, lastUsed>>
    BY ConnectionStays DEF BrowserInv, tabState
<1>2. BrowserInv'
    BY <1>1 DEF BrowserInv, PagesApart, LastIsTarget, UsersApart, UsersPagesStay
<1>3. Chosen' \in IF Chosen \in Live' THEN {Chosen} ELSE Live' \cup {NoPage}
    <2>1. Chosen = IF lastUsed \in Live THEN lastUsed ELSE NoPage
        BY ChosenIsLast
    <2>2. Chosen' = IF lastUsed \in Live' THEN lastUsed ELSE NoPage
        BY <1>1, <1>2, ChosenIsLast
    <2> QED
        BY <2>1, <2>2
<1>4. BrowserTabs!Go
    BY <1>3 DEF BrowserTabs!Go, Chosen
<1> QED
    BY <1>2, <1>4 DEF BrowserStep, BrowserTabs!TabListNext, Chosen

\* A page that closes, in the context or in the user's browser.
LEMMA PageClosesKeeps ==
    ASSUME BrowserInv, NEW g \in Pages, PageCloses(g)
    PROVE  BrowserStep
<1>1. /\ UNCHANGED <<connection, tabState, lastUsed>>
      /\ pages' = RemoveFirst(pages, g) /\ theirs' = RemoveFirst(theirs, g) /\ users' = users \ {g}
    BY DEF PageCloses
<1>2. pages' \in Seq(Pages) /\ Distinct(pages') /\ Live' = Live \ {g}
    BY <1>1, SetOfRemoval DEF BrowserInv, PagesApart, Live
<1>3. theirs' \in Seq(Pages) /\ Distinct(theirs') /\ ToSet(theirs') = ToSet(theirs) \ {g}
    BY <1>1, SetOfRemoval DEF BrowserInv, PagesApart
<1>4. users' \subseteq users \cap (Live' \cup ToSet(theirs'))
    BY <1>1, <1>2, <1>3 DEF BrowserInv, UsersApart, UsersPagesStay
<1>5. ASSUME pages = <<>> PROVE pages' = <<>>
    <2>1. Live = {}
        BY <1>5, SetOfNone DEF Live
    <2>2. Live' = {}
        BY <1>2, <2>1
    <2>3. pages' # <<>> => Last(pages') \in Live'
        BY <1>2, SetOfSeq DEF Live
    <2> QED
        BY <2>2, <2>3
<1> QED
    BY <1>1, <1>2, <1>3, <1>4, <1>5, GoKeeps

\* The browser dies with the pages of the context.
LEMMA DiesKeeps ==
    ASSUME BrowserInv, BrowserDies
    PROVE  BrowserStep
<1>1. UNCHANGED <<connection, tabState, theirs, lastUsed>> /\ users' = users \ Live /\ pages' = <<>>
    BY DEF BrowserDies
<1>2. pages' \in Seq(Pages) /\ Distinct(pages') /\ Live' = {}
    BY <1>1, SetOfNone DEF Live
<1>3. users' \subseteq users \cap (Live' \cup ToSet(theirs'))
    BY <1>1, <1>2 DEF BrowserInv, UsersApart, UsersPagesStay
<1> QED
    BY <1>1, <1>2, <1>3, GoKeeps DEF BrowserInv, PagesApart

\* What the user opens in his own browser is no tab yet.
LEMMA UserOpensKeeps ==
    ASSUME BrowserInv, NEW g \in Pages, UserOpens(g)
    PROVE  BrowserStep
<1>1. /\ UNCHANGED <<connection, tabState, pages, lastUsed>> /\ Fresh(g)
      /\ theirs' = Append(theirs, g) /\ users' = users \cup {g}
    BY DEF UserOpens
<1>2. Connected' /\ UNCHANGED <<browser, context, owns, tabs, lastTarget, lastUsed, pages>> /\ Live' = Live
    BY <1>1, ConnectionStays DEF BrowserInv, tabState, Live
<1>3. theirs' \in Seq(Pages) /\ Distinct(theirs') /\ ToSet(theirs') = ToSet(theirs) \cup {g}
    BY <1>1, SetOfAppend DEF BrowserInv, PagesApart, Fresh
<1>4. g \notin Live
    BY <1>1 DEF Fresh
<1>5. BrowserInv'
    BY <1>1, <1>2, <1>3, <1>4 DEF BrowserInv, PagesApart, LastIsTarget, UsersApart, UsersPagesStay
<1>6. Chosen' = Chosen
    BY <1>2, <1>5, ChosenIsLast
<1> QED
    BY <1>2, <1>5, <1>6 DEF BrowserStep

\* A start that succeeds: without a context there were no pages, and no choice.
LEMMA StartKeeps ==
    ASSUME BrowserInv, NEW p \in Profiles, StartBrowser(p)
    PROVE  BrowserStep
<1>1. ~context /\ pages = <<>> /\ lastUsed = NoPage
    BY DEF BrowserInv, Connected, PagesApart, LastIsTarget, StartBrowser
<1>2. Live = {}
    BY <1>1, SetOfNone DEF Live
<1>3. Connected'
    BY DEF StartBrowser, BrowserInv, Connected, Local, Attaches
<1>4. /\ \/ pages' = theirs /\ theirs' = <<>>
         \/ pages' = <<>> /\ theirs' = theirs
      /\ tabs' = pages' /\ users' = users /\ lastUsed' = NoPage /\ context' = TRUE
    BY <1>1 DEF StartBrowser
<1>5. /\ pages' \in Seq(Pages) /\ theirs' \in Seq(Pages) /\ Distinct(pages') /\ Distinct(theirs')
      /\ ToSet(pages') \cap ToSet(theirs') = {}
      /\ ToSet(pages') \cup ToSet(theirs') = ToSet(theirs)
    <2>1. /\ theirs \in Seq(Pages) /\ Distinct(theirs)
          /\ <<>> \in Seq(Pages) /\ Distinct(<<>>) /\ ToSet(<<>>) = {}
        BY SetOfNone DEF BrowserInv, PagesApart
    <2>2. CASE pages' = theirs /\ theirs' = <<>>
        BY <2>1, <2>2
    <2>3. CASE pages' = <<>> /\ theirs' = theirs
        BY <2>1, <2>3
    <2> QED
        BY <1>4, <2>2, <2>3
<1>6. Live' = ToSet(pages') /\ Live' \subseteq Pages /\ NoPage \notin Live'
    BY <1>5, SetOfSeq, BrowserAssumption DEF Live
<1>7. (browser' = "attached" /\ "context" \notin owns') \/ Live' = {}
    <2>1. CASE Attaches(p)
        BY <1>6, <2>1, SetOfNone DEF StartBrowser
    <2>2. CASE ~Attaches(p)
        BY <1>6, <2>2, SetOfNone DEF StartBrowser
    <2> QED
        BY <2>1, <2>2
<1>8. UsersApart'
    BY <1>2, <1>4, <1>5, <1>6, <1>7 DEF BrowserInv, UsersApart, UsersPagesStay
<1>9. BrowserInv'
    BY <1>3, <1>4, <1>5, <1>6, <1>8 DEF BrowserInv, PagesApart, LastIsTarget, Live
<1>10. Chosen' = NoPage /\ Chosen = NoPage
    BY <1>2, <1>4, <1>6, <1>9, ChosenIsLast
<1>11. BrowserTabs!Appear
    BY <1>2, <1>6, <1>10 DEF BrowserTabs!Appear, Chosen
<1> QED
    BY <1>9, <1>11 DEF BrowserStep, BrowserTabs!TabListNext, Chosen

\* Steps that touch neither the pages nor the choice, and leave a context as it is.
LEMMA IdleKeeps ==
    ASSUME BrowserInv, Connected', UNCHANGED <<context, tabState, world, lastUsed>>,
           context => UNCHANGED <<browser, owns>>
    PROVE  BrowserStep
<1>1. UNCHANGED <<pages, theirs, users, tabs, lastTarget, lastUsed>> /\ Live' = Live
    BY DEF tabState, world, Live
<1>2. ~context => Live = {}
    BY SetOfNone DEF BrowserInv, PagesApart, Live
<1>3. UsersApart'
    BY <1>1, <1>2 DEF BrowserInv, Connected, UsersApart, UsersPagesStay
<1>4. BrowserInv'
    BY <1>1, <1>3 DEF BrowserInv, PagesApart, LastIsTarget
<1>5. Chosen' = Chosen
    BY <1>1, <1>4, ChosenIsLast
<1> QED
    BY <1>1, <1>4, <1>5 DEF BrowserStep

\* A start that fails, and the relay, which connects to nobody.
LEMMA StartsNothing ==
    ASSUME BrowserInv,
           (\E p \in Profiles : StartFails(p)) \/ StartRelay \/ StopRelay
    PROVE  BrowserStep
<1>1. ASSUME NEW p \in Profiles, StartFails(p)
      PROVE  Connected' /\ UNCHANGED <<context, tabState, world, lastUsed>> /\ ~context
    <2>1. ~context /\ UNCHANGED <<chrome, context, owns, active, mode, tabState, world, lastUsed>>
        BY <1>1 DEF StartFails, BrowserInv, Connected
    <2>2. driver' = TRUE /\ browser' \in {"none", "launched", "attached"}
        BY <1>1 DEF StartFails, BrowserInv, Connected
    <2> QED
        BY <2>1, <2>2 DEF BrowserInv, Connected
<1>2. CASE StartRelay
    <2>1. /\ UNCHANGED <<chrome, browser, context, owns, driver, startedFor, tabState, world, lastUsed>>
          /\ ~context /\ mode' = "relay"
        BY <1>2 DEF StartRelay, BrowserInv, Connected
    <2> QED
        BY <2>1, IdleKeeps DEF BrowserInv, Connected
<1>3. CASE StopRelay
    <2>1. /\ UNCHANGED <<chrome, browser, context, owns, driver, startedFor, tabState, world, lastUsed>>
          /\ mode' = "idle" /\ chrome = "relay"
          /\ active' = IF active = "chrome" THEN "none" ELSE active
        BY <1>3 DEF StopRelay, Relayed
    <2>2. context => active # "chrome"
        BY <2>1 DEF BrowserInv, Connected, Local
    <2>3. Connected'
        BY <2>1, <2>2 DEF BrowserInv, Connected, Local
    <2> QED
        BY <2>1, <2>3, IdleKeeps
<1> QED
    BY <1>1, <1>2, <1>3, IdleKeeps

\* A stop closes what is owned; what is the user's stays open in his browser.
LEMMA StopKeeps ==
    ASSUME BrowserInv, NEW p \in Profiles, StopBrowser(p)
    PROVE  BrowserStep
<1>1. /\ pages' = <<>> /\ tabs' = <<>> /\ lastUsed' = NoPage /\ users' = users
      /\ theirs' = KeptOpen /\ context' = FALSE
    BY DEF StopBrowser
<1>2. Connected'
    BY DEF StopBrowser, BrowserInv, Connected, Local
<1>3. Live' = {} /\ pages' \in Seq(Pages) /\ tabs' \in Seq(Pages) /\ Distinct(pages')
    BY <1>1, SetOfNone DEF Live
<1>4. /\ theirs' \in Seq(Pages) /\ Distinct(theirs')
      /\ ToSet(theirs') = IF browser = "attached" /\ "context" \notin owns
                          THEN ToSet(theirs) \cup Live ELSE ToSet(theirs)
    <2>1. CASE browser = "attached" /\ "context" \notin owns
        BY <1>1, <2>1, SetOfConcat DEF KeptOpen, BrowserInv, PagesApart, Live
    <2>2. CASE ~(browser = "attached" /\ "context" \notin owns)
        BY <1>1, <2>2 DEF KeptOpen, BrowserInv, PagesApart
    <2> QED
        BY <2>1, <2>2
<1>5. UsersApart'
    BY <1>1, <1>3, <1>4 DEF BrowserInv, UsersApart, UsersPagesStay
<1>6. BrowserInv'
    BY <1>1, <1>2, <1>3, <1>4, <1>5 DEF BrowserInv, PagesApart, LastIsTarget
<1>7. Chosen' = NoPage
    BY <1>3, <1>6, ChosenIsLast
<1>8. BrowserTabs!Go
    BY <1>3, <1>7 DEF BrowserTabs!Go, Chosen
<1> QED
    BY <1>6, <1>8 DEF BrowserStep, BrowserTabs!TabListNext, Chosen

\* Every step of the runtime, and of the browser between the calls, keeps the
\* invariant and is one of a list of tabs.
LEMMA BrowserSteps == BrowserInv /\ [BrowserNext]_browserVars => BrowserStep
<1> SUFFICES ASSUME BrowserInv, [BrowserNext]_browserVars PROVE BrowserStep
    OBVIOUS
<1>1. CASE UNCHANGED browserVars
    <2>1. UNCHANGED connection /\ UNCHANGED <<tabState, world, lastUsed>>
        BY <1>1 DEF browserVars
    <2>2. Connected' /\ UNCHANGED <<browser, context, owns>>
        BY <2>1, ConnectionStays DEF BrowserInv
    <2> QED
        BY <2>1, <2>2, IdleKeeps
<1>2. ASSUME NEW p \in Profiles, Tabs(p) PROVE BrowserStep
    BY <1>2, SyncKeeps DEF Tabs
<1>3. ASSUME NEW p \in Profiles, NEW g \in Pages, NEW id \in {g, NoPage}, Snapshot(p, id, g) PROVE BrowserStep
    BY <1>3, SyncKeeps DEF Snapshot
<1>4. ASSUME NEW p \in Profiles, NEW g \in Pages, OpenFails(p, g) PROVE BrowserStep
    <2>1. context
        BY <1>4 DEF OpenFails, Usable
    <2> QED
        BY <1>4, <2>1, AppearKeeps DEF OpenFails
<1>5. ASSUME NEW g \in Pages, NEW byUser \in BOOLEAN, PopUp(g, byUser) PROVE BrowserStep
    BY <1>5, AppearKeeps DEF PopUp
<1>6. ASSUME NEW p \in Profiles, NEW g \in Pages, NEW id \in {g, NoPage},
             \/ FocusTab(p, id, g) \/ Navigate(p, id, g) \/ Act(p, id, g) \/ Screenshot(p, id, g)
             \/ ConsoleMessages(p, id, g) \/ Upload(p, id, g)
      PROVE  BrowserStep
    <2>1. Finds(p, id, g) /\ Touches(g) /\ UNCHANGED <<connection, world>>
        BY <1>6 DEF FocusTab, Navigate, Act, Screenshot, ConsoleMessages, Upload
    <2>2. context /\ pages # <<>> /\ ((id \in Live /\ g = id) \/ (id = NoPage /\ g = DefaultTab))
        BY <2>1 DEF Finds, Usable
    <2> QED
        BY <2>1, <2>2, WorkKeeps
<1>7. ASSUME NEW p \in Profiles, NEW g \in Pages, NEW id \in {g, NoPage}, Dialog(p, id, g) PROVE BrowserStep
    BY <1>7, WorkKeeps DEF Dialog
<1> QED
    BY <1>1, <1>2, <1>3, <1>4, <1>5, <1>6, <1>7, OpenKeeps, CloseKeeps, PageClosesKeeps, DiesKeeps,
       UserOpensKeeps, StartKeeps, StartsNothing, StopKeeps
    DEF BrowserNext, PdfSave

\* The invariant holds before the browser is started.
LEMMA BrowserInitially == BrowserInit => BrowserInv /\ Live = {} /\ Chosen = NoPage
<1> SUFFICES ASSUME BrowserInit PROVE BrowserInv /\ Live = {} /\ Chosen = NoPage
    OBVIOUS
<1>1. /\ pages = <<>> /\ theirs = <<>> /\ tabs = <<>> /\ users = {} /\ lastUsed = NoPage
      /\ Live = {} /\ context = FALSE
    BY SetOfNone DEF BrowserInit, Live
<1>2. Connected
    BY BrowserAssumption DEF BrowserInit, Connected
<1>3. UsersApart
    BY <1>1 DEF UsersApart, UsersPagesStay
<1> QED
    BY <1>1, <1>2, <1>3, SetOfNone DEF BrowserInv, PagesApart, LastIsTarget, Chosen

\* The runtime's types, its profiles and the user's pages, on every behaviour: no call
\* for a profile reaches the other's pages, and no start, stop or failure loses a page
\* that the user opened.
THEOREM BrowserInvariant == BrowserSpec => [](BrowserTypeOK /\ ProfilesDoNotMix /\ UsersPagesStay)
<1>1. BrowserInv => BrowserTypeOK
    BY SetOfSeq DEF BrowserInv, Connected, PagesApart, Live, BrowserTypeOK
<1>2. BrowserInv => ProfilesDoNotMix
    BY DEF BrowserInv, Connected, Usable, Profiles, ProfilesDoNotMix
<1>3. BrowserInv => UsersPagesStay
    BY DEF BrowserInv, UsersApart
<1> QED
    BY <1>1, <1>2, <1>3, BrowserInitially, BrowserSteps, PTL DEF BrowserSpec, BrowserStep

\* The runtime is a list of tabs in which a call that names none gets the one that
\* was worked on last, whatever pages came and went.
THEOREM BrowserIsTabList == BrowserSpec => BrowserKeepsTabs
<1>1. BrowserInit => BrowserTabs!TabListInit
    BY BrowserInitially DEF BrowserTabs!TabListInit, Chosen
<1> QED
    BY <1>1, BrowserInitially, BrowserSteps, PTL
    DEF BrowserSpec, BrowserStep, BrowserKeepsTabs, BrowserTabs!TabListSpec, Chosen

-----------------------------------------------------------------------------
(* The tools side by side *)

\* What the tools do together is what each does by itself.
LEMMA PartsBehave == MCSpec => BrowserSpec /\ MemorySpec /\ ToolSpec /\ DeliverySpec
<1>1. MCInit => BrowserInit /\ MemoryInit /\ ToolInit /\ DeliveryInit
    BY DEF MCInit
<1>2. [MCNext]_vars => [BrowserNext]_browserVars
    BY DEF MCNext, vars
<1>3. [MCNext]_vars => [MemoryNext]_memoryVars
    BY DEF MCNext, vars
<1>4. [MCNext]_vars => [ToolNext]_toolVars
    BY DEF MCNext, vars
<1>5. [MCNext]_vars => [DeliveryNext]_deliveryVars
    BY DEF MCNext, vars
<1> QED
    BY <1>1, <1>2, <1>3, <1>4, <1>5, PTL DEF MCSpec, BrowserSpec, MemorySpec, ToolSpec, DeliverySpec

\* Both browser runtimes keep a caller's tab; Playwright's keeps its profiles apart and
\* the user's pages.
THEOREM RuntimesAreTabLists == MCSpec => RuntimesKeepTabs
    BY PartsBehave, BrowserInvariant, BrowserIsTabList, MemoryIsTabList, PTL DEF RuntimesKeepTabs

-----------------------------------------------------------------------------
(* The markdown memory *)

\* An event of a session, by its writer and its number.
MemoryEvents == [by : Writers, nr : Nat \ {0}]
Happened(e) == e \in MemoryEvents /\ e.nr \in DOMAIN sessionLog[e.by]

MarkdownTypes ==
    /\ person \in [Writers -> Persons] /\ disturbed \in SUBSET Persons
    /\ sessionLog \in [Writers -> Seq(EventKinds)]
    /\ ingest \in [Writers -> [at : {"idle", "history", "memory", "save", "saving"},
                               known : SUBSET MemoryEvents, new : Seq(MemoryEvents)]]
    /\ historyFile \in Seq(MemoryEvents) /\ memoryFile \in Seq(MemoryEvents)
    /\ idFiles \in [Persons -> SUBSET MemoryEvents]
    /\ present \subseteq BothFiles /\ missed \subseteq Writers /\ raced \subseteq BothFiles

\* What the files have, and whatever a file may have lost that two processes made.
HistoryHas == IF "history" \in raced THEN MemoryEvents ELSE ToSet(historyFile)
MemoryHas == IF "memory" \in raced THEN MemoryEvents ELSE ToSet(memoryFile)
AllFiles == ToSet(historyFile) \cup ToSet(memoryFile)

\* What is in the files happened, and a fact that is remembered is in both.
Kept(e, u) ==
    /\ Happened(e) /\ person[e.by] = u /\ e \in HistoryHas
    /\ KindOf(e) = "fact" => e \in MemoryHas

FilesHappened == \A e \in AllFiles : Happened(e)

\* A file that is not there has nothing, and who found it missing is about to write it.
MadeToWrite ==
    /\ "history" \notin present => historyFile = <<>>
    /\ "memory" \notin present => memoryFile = <<>>
    /\ \A w \in missed : ingest[w].at \in BothFiles

KnownIsKept ==
    /\ \A u \in Persons : \A e \in idFiles[u] : Kept(e, u)
    /\ \A w \in Writers : ingest[w].at # "idle" => \A e \in ingest[w].known : Kept(e, person[w])

\* What an ingest adds: events of its session, in their order, where it says they are.
AddsInOrder(w) ==
    /\ \A k \in DOMAIN ingest[w].new : ingest[w].new[k].by = w /\ Happened(ingest[w].new[k])
    /\ \A j, k \in DOMAIN ingest[w].new : j < k => ingest[w].new[j].nr < ingest[w].new[k].nr
    /\ ingest[w].at # "history" => \A e \in ToSet(ingest[w].new) : e \in HistoryHas
    /\ ingest[w].at \in {"save", "saving"} =>
          \A e \in ToSet(ingest[w].new) : KindOf(e) = "fact" => e \in MemoryHas

NewIsOnItsWay == \A w \in Writers : ingest[w].at # "idle" => AddsInOrder(w)

\* Whose memory nothing has disturbed, has one ingest at a time.
OneAtATime ==
    \A w, v \in Writers :
       w # v /\ person[w] = person[v] /\ ingest[w].at # "idle" /\ ingest[v].at # "idle"
          => person[w] \in disturbed

\* With an event of a session, a set has what the session said before it.
FullUpTo(S) ==
    \A e \in S, d \in MemoryEvents :
       d.by = e.by /\ d.nr < e.nr /\ Happened(d) /\ KindOf(d) # "silent" => d \in S

\* A set has whatever of a user is in the two files.
HasAllOf(S, u) == \A e \in AllFiles : person[e.by] = u => e \in S

\* With no ingest for an undisturbed user, its ids are those in HISTORY.md, ...
IdsAreComplete ==
    \A u \in Persons \ disturbed :
       (\A w \in Writers : person[w] = u => ingest[w].at = "idle")
          => FullUpTo(idFiles[u]) /\ HasAllOf(idFiles[u], u)

\* ... and during one they are what it knows, or that and what it adds.
CompletesIds(w) ==
    LET known == ingest[w].known
        new   == ToSet(ingest[w].new)
    IN /\ \A e \in known, n \in new : e.by = w => e.nr < n.nr
       /\ FullUpTo(known \cup new)
       /\ HasAllOf(IF ingest[w].at = "history" THEN known ELSE known \cup new, person[w])
       /\ ingest[w].at \in {"history", "memory"} =>
             \A e \in ToSet(memoryFile) : person[e.by] = person[w] => e \in known

IngestIsComplete == \A w \in Writers : ingest[w].at # "idle" /\ person[w] \notin disturbed => CompletesIds(w)

\* The events of those whose memory nothing disturbed, D apart, are in a file in the
\* order of their session.
OrderedFor(s, P, D) ==
    \A j, k \in DOMAIN s : j < k /\ s[j].by = s[k].by /\ P[s[j].by] \notin D => s[j].nr < s[k].nr

MarkdownInv ==
    /\ MarkdownTypes /\ MadeToWrite /\ FilesHappened /\ KnownIsKept /\ NewIsOnItsWay /\ OneAtATime
    /\ IdsAreComplete /\ IngestIsComplete
    /\ OrderedFor(historyFile, person, disturbed) /\ OrderedFor(memoryFile, person, disturbed)

\* What a file becomes that something is appended to.
LEMMA FileGrows ==
    ASSUME NEW s \in Seq(MemoryEvents), NEW t \in Seq(MemoryEvents)
    PROVE  s \o t \in Seq(MemoryEvents) /\ ToSet(s \o t) = ToSet(s) \cup ToSet(t)
<1>1. /\ Len(s) \in Nat /\ Len(t) \in Nat /\ DOMAIN s = 1 .. Len(s) /\ DOMAIN t = 1 .. Len(t)
    BY LenProperties
<1>2. PICK u : u = s \o t
    OBVIOUS
<1>3. /\ u \in Seq(MemoryEvents) /\ DOMAIN u = 1 .. Len(s) + Len(t)
      /\ \A i \in 1 .. Len(s) + Len(t) : u[i] = IF i <= Len(s) THEN s[i] ELSE t[i - Len(s)]
    BY <1>2, ConcatProperties
<1>4. ASSUME NEW i \in DOMAIN u PROVE u[i] \in ToSet(s) \cup ToSet(t)
    <2>1. CASE i <= Len(s)
        BY <1>1, <1>3, <2>1 DEF ToSet
    <2>2. CASE i > Len(s)
        <3>1. i - Len(s) \in 1 .. Len(t) /\ u[i] = t[i - Len(s)]
            BY <1>1, <1>3, <2>2
        <3> QED
            BY <1>1, <3>1 DEF ToSet
    <2> QED
        BY <1>1, <1>3, <2>1, <2>2
<1>5. ASSUME NEW i \in DOMAIN s PROVE s[i] \in ToSet(u)
    <2>1. i \in DOMAIN u /\ u[i] = s[i]
        BY <1>1, <1>3
    <2> QED
        BY <2>1 DEF ToSet
<1>6. ASSUME NEW i \in DOMAIN t PROVE t[i] \in ToSet(u)
    <2>1. Len(s) + i \in DOMAIN u /\ u[Len(s) + i] = t[i]
        BY <1>1, <1>3
    <2> QED
        BY <2>1 DEF ToSet
<1>7. ToSet(u) = ToSet(s) \cup ToSet(t)
    BY <1>4, <1>5, <1>6 DEF ToSet
<1> QED
    BY <1>2, <1>3, <1>7

\* The order stays if what is appended is in order and comes after what is there.
LEMMA OrderGrows ==
    ASSUME NEW P, NEW D, NEW s \in Seq(MemoryEvents), NEW t \in Seq(MemoryEvents), NEW w,
           OrderedFor(s, P, D),
           \A k \in DOMAIN t : t[k].by = w,
           \A j, k \in DOMAIN t : j < k => t[j].nr < t[k].nr,
           P[w] \notin D => \A e \in ToSet(s), n \in ToSet(t) : e.by = w => e.nr < n.nr
    PROVE  OrderedFor(s \o t, P, D)
<1>1. /\ Len(s) \in Nat /\ Len(t) \in Nat /\ DOMAIN s = 1 .. Len(s) /\ DOMAIN t = 1 .. Len(t)
    BY LenProperties
<1>2. PICK u : u = s \o t
    OBVIOUS
<1>3. /\ DOMAIN u = 1 .. Len(s) + Len(t)
      /\ \A i \in 1 .. Len(s) + Len(t) : u[i] = IF i <= Len(s) THEN s[i] ELSE t[i - Len(s)]
    BY <1>2, ConcatProperties
<1>4. ASSUME NEW j \in DOMAIN u, NEW k \in DOMAIN u, j < k, u[j].by = u[k].by, P[u[j].by] \notin D
      PROVE  u[j].nr < u[k].nr
    <2>1. CASE k <= Len(s)
        <3>1. j \in DOMAIN s /\ k \in DOMAIN s /\ u[j] = s[j] /\ u[k] = s[k]
            BY <1>1, <1>3, <1>4, <2>1
        <3> QED
            BY <1>4, <3>1 DEF OrderedFor
    <2>2. CASE j > Len(s)
        <3>1. /\ j - Len(s) \in DOMAIN t /\ k - Len(s) \in DOMAIN t /\ j - Len(s) < k - Len(s)
              /\ u[j] = t[j - Len(s)] /\ u[k] = t[k - Len(s)]
            BY <1>1, <1>3, <1>4, <2>2
        <3> QED
            BY <3>1
    <2>3. CASE j <= Len(s) /\ k > Len(s)
        <3>1. /\ j \in DOMAIN s /\ k - Len(s) \in DOMAIN t
              /\ u[j] = s[j] /\ u[k] = t[k - Len(s)]
            BY <1>1, <1>3, <1>4, <2>3
        <3>2. u[j] \in ToSet(s) /\ u[k] \in ToSet(t) /\ u[k].by = w
            BY <3>1 DEF ToSet
        <3> QED
            BY <1>4, <3>2
    <2> QED
        BY <1>1, <1>3, <2>1, <2>2, <2>3
<1> QED
    BY <1>2, <1>4 DEF OrderedFor

\* What is new in a session: what has a text and is not known, all of it, in order.
LEMMA NewEventsFacts ==
    ASSUME MarkdownTypes, NEW w \in Writers, NEW known
    PROVE  LET new == NewEvents(w, known)
           IN  /\ new \in Seq(MemoryEvents)
               /\ \A k \in DOMAIN new : new[k].by = w /\ Happened(new[k]) /\ new[k] \notin known
               /\ \A j, k \in DOMAIN new : j < k => new[j].nr < new[k].nr
               /\ \A e \in MemoryEvents :
                     e.by = w /\ Happened(e) /\ KindOf(e) # "silent" => e \in known \cup ToSet(new)
               /\ \A e \in ToSet(new) : KindOf(e) # "silent"
<1>1. sessionLog[w] \in Seq(EventKinds) /\ DOMAIN sessionLog[w] = 1 .. Len(sessionLog[w]) /\ Len(sessionLog[w]) \in Nat
    <2>1. sessionLog[w] \in Seq(EventKinds)
        BY DEF MarkdownTypes
    <2> QED
        BY <2>1, LenProperties
<1>2. PICK all : all = [i \in DOMAIN sessionLog[w] |-> [by |-> w, nr |-> i]]
    OBVIOUS
<1>3. PICK D : D = {i \in DOMAIN sessionLog[w] : [by |-> w, nr |-> i] \notin known /\ sessionLog[w][i] # "silent"}
    OBVIOUS
<1>4. DOMAIN all = 1 .. Len(sessionLog[w]) /\ \A i \in DOMAIN all : all[i] = [by |-> w, nr |-> i]
    BY <1>1, <1>2
<1>5. all \in Seq(MemoryEvents)
    <2>1. \A i \in 1 .. Len(sessionLog[w]) : [by |-> w, nr |-> i] \in MemoryEvents
        BY <1>1 DEF MemoryEvents
    <2> QED
        BY <1>1, <1>2, <2>1
<1>6. D \in SUBSET DOMAIN all
    BY <1>1, <1>3, <1>4
<1>7. PICK new : new = NewEvents(w, known)
    OBVIOUS
<1>8. new = Picked(all, D)
    BY <1>2, <1>3, <1>7 DEF NewEvents, EventsAt
<1>9. /\ new \in Seq(MemoryEvents)
      /\ \A k \in DOMAIN new : \E i \in D : new[k] = all[i]
      /\ \A i \in D : \E k \in DOMAIN new : new[k] = all[i]
      /\ \A j, k \in DOMAIN new : j < k => \E a, b \in D : a < b /\ new[j] = all[a] /\ new[k] = all[b]
    BY <1>5, <1>6, <1>8, PickedKeepsOrder
<1>10. ASSUME NEW k \in DOMAIN new
       PROVE  new[k].by = w /\ Happened(new[k]) /\ new[k] \notin known /\ KindOf(new[k]) # "silent"
    <2>0. PICK i \in D : new[k] = all[i]
        BY <1>9
    <2>1. i \in DOMAIN all /\ new[k] = [by |-> w, nr |-> i]
        BY <1>4, <1>6, <2>0
    <2>2. new[k].by = w /\ new[k].nr = i /\ i \in DOMAIN sessionLog[w] /\ i \in Nat \ {0}
        BY <1>1, <1>3, <2>1
    <2> QED
        BY <1>3, <2>1, <2>2 DEF Happened, KindOf, MemoryEvents
<1>11. ASSUME NEW j \in DOMAIN new, NEW k \in DOMAIN new, j < k PROVE new[j].nr < new[k].nr
    <2>1. PICK a \in D, b \in D : a < b /\ new[j] = all[a] /\ new[k] = all[b]
        BY <1>9, <1>11
    <2>2. all[a] = [by |-> w, nr |-> a] /\ all[b] = [by |-> w, nr |-> b]
        BY <1>4, <1>6
    <2>3. new[j].nr = a /\ new[k].nr = b
        BY <2>1, <2>2
    <2> QED
        BY <2>1, <2>3
<1>12. ASSUME NEW e \in MemoryEvents, e.by = w, Happened(e), KindOf(e) # "silent", e \notin known
       PROVE  e \in ToSet(new)
    <2>1. e = [by |-> w, nr |-> e.nr] /\ e.nr \in DOMAIN sessionLog[w]
        BY <1>12 DEF Happened, MemoryEvents
    <2>2. e.nr \in D /\ all[e.nr] = e
        BY <1>1, <1>3, <1>4, <1>12, <2>1 DEF KindOf
    <2>3. PICK k \in DOMAIN new : new[k] = e
        BY <1>9, <2>2
    <2> QED
        BY <2>3 DEF ToSet
<1>13. \A e \in ToSet(new) : KindOf(e) # "silent"
    BY <1>10 DEF ToSet
<1> QED
    BY <1>7, <1>9, <1>10, <1>11, <1>12, <1>13

\* What is known of the parts of a state.
LEMMA MarkdownParts ==
    ASSUME MarkdownTypes, NEW w \in Writers
    PROVE  /\ person[w] \in Persons /\ sessionLog[w] \in Seq(EventKinds)
           /\ ingest[w].at \in {"idle", "history", "memory", "save", "saving"}
           /\ ingest[w].known \in SUBSET MemoryEvents /\ ingest[w].new \in Seq(MemoryEvents)
           /\ DOMAIN ingest[w].new = 1 .. Len(ingest[w].new) /\ Len(ingest[w].new) \in Nat
           /\ idFiles[person[w]] \in SUBSET MemoryEvents
           /\ DOMAIN sessionLog[w] = 1 .. Len(sessionLog[w]) /\ Len(sessionLog[w]) \in Nat
<1>1. ingest[w] \in [at : {"idle", "history", "memory", "save", "saving"},
                     known : SUBSET MemoryEvents, new : Seq(MemoryEvents)]
    BY DEF MarkdownTypes
<1>2. person[w] \in Persons /\ sessionLog[w] \in Seq(EventKinds)
    BY DEF MarkdownTypes
<1>3. ingest[w].new \in Seq(MemoryEvents)
    BY <1>1
<1>4. DOMAIN ingest[w].new = 1 .. Len(ingest[w].new) /\ Len(ingest[w].new) \in Nat
    BY <1>3, LenProperties
<1>5. DOMAIN sessionLog[w] = 1 .. Len(sessionLog[w]) /\ Len(sessionLog[w]) \in Nat
    BY <1>2, LenProperties
<1>6. idFiles[person[w]] \in SUBSET MemoryEvents
    BY <1>2 DEF MarkdownTypes
<1> QED
    BY <1>1, <1>2, <1>3, <1>4, <1>5, <1>6

\* A file that grows has what it had; one that two processes made is excused.
LEMMA StillThere ==
    ASSUME MarkdownTypes, raced \subseteq raced',
           "history" \in raced' \/ ToSet(historyFile) \subseteq ToSet(historyFile'),
           "memory" \in raced' \/ ToSet(memoryFile) \subseteq ToSet(memoryFile')
    PROVE  HistoryHas \subseteq HistoryHas' /\ MemoryHas \subseteq MemoryHas'
<1>1. ToSet(historyFile) \subseteq MemoryEvents /\ ToSet(memoryFile) \subseteq MemoryEvents
    BY SetOfSeq DEF MarkdownTypes
<1> QED
    BY <1>1 DEF HistoryHas, MemoryHas

\* While the sessions stay and the files grow, what is kept is kept.
LEMMA KeptStays ==
    ASSUME person' = person, sessionLog' = sessionLog,
           HistoryHas \subseteq HistoryHas', MemoryHas \subseteq MemoryHas'
    PROVE  /\ \A e : Happened(e)' <=> Happened(e)
           /\ \A e : KindOf(e)' = KindOf(e)
           /\ \A e, u : Kept(e, u) => Kept(e, u)'
           /\ \A S : FullUpTo(S) => FullUpTo(S)'
<1>1. \A e : Happened(e)' <=> Happened(e)
    BY DEF Happened
<1>2. \A e : KindOf(e)' = KindOf(e)
    BY DEF KindOf
<1>3. ASSUME NEW e, NEW u, Kept(e, u) PROVE Kept(e, u)'
    BY <1>1, <1>2, <1>3 DEF Kept
<1>4. ASSUME NEW S, FullUpTo(S) PROVE FullUpTo(S)'
    BY <1>1, <1>2, <1>4 DEF FullUpTo
<1> QED
    BY <1>1, <1>2, <1>3, <1>4

\* A new event is after all that happened in its session.
LEMMA TurnAddsKeeps ==
    ASSUME MarkdownInv, NEW w \in Writers, TurnAdds(w)
    PROVE  MarkdownInv'
<1>0. MarkdownTypes
    BY DEF MarkdownInv
<1>1. PICK k \in EventKinds : sessionLog' = [sessionLog EXCEPT ![w] = Append(@, k)]
    BY DEF TurnAdds
<1>2. UNCHANGED <<person, ingest, historyFile, memoryFile, idFiles, disturbed, present, missed, raced>>
    BY DEF TurnAdds, memoryFiles, headers
<1>2a. HistoryHas' = HistoryHas /\ MemoryHas' = MemoryHas /\ AllFiles' = AllFiles /\ MadeToWrite'
    BY <1>2 DEF HistoryHas, MemoryHas, AllFiles, MarkdownInv, MadeToWrite
<1>3. PICK n : n = Len(sessionLog[w])
    OBVIOUS
<1>4. /\ sessionLog' \in [Writers -> Seq(EventKinds)]
      /\ n \in Nat /\ DOMAIN sessionLog[w] = 1 .. n /\ DOMAIN sessionLog'[w] = 1 .. n + 1
      /\ \A i \in 1 .. n : sessionLog'[w][i] = sessionLog[w][i]
      /\ \A v \in Writers : v # w => sessionLog'[v] = sessionLog[v]
    <2>1. sessionLog \in [Writers -> Seq(EventKinds)] /\ sessionLog[w] \in Seq(EventKinds)
        BY <1>0 DEF MarkdownTypes
    <2>2. PICK s \in Seq(EventKinds) : s = sessionLog[w]
        BY <2>1
    <2>3. /\ Append(s, k) \in Seq(EventKinds) /\ Len(s) \in Nat /\ DOMAIN s = 1 .. Len(s)
          /\ DOMAIN Append(s, k) = 1 .. Len(s) + 1 /\ \A i \in 1 .. Len(s) : Append(s, k)[i] = s[i]
        BY <2>2, AppendProperties, LenProperties
    <2>4. sessionLog'[w] = Append(s, k) /\ \A v \in Writers : v # w => sessionLog'[v] = sessionLog[v]
        BY <1>1, <2>1, <2>2
    <2>5. sessionLog' \in [Writers -> Seq(EventKinds)]
        BY <1>1, <2>1, <2>2, <2>3
    <2> QED
        BY <1>3, <2>2, <2>3, <2>4, <2>5
<1>5. ASSUME NEW e, Happened(e) PROVE Happened(e)' /\ KindOf(e)' = KindOf(e)
    <2>1. e \in MemoryEvents /\ e.by \in Writers /\ e.nr \in DOMAIN sessionLog[e.by]
        BY <1>5 DEF Happened, MemoryEvents
    <2>2. e.nr \in DOMAIN sessionLog'[e.by] /\ sessionLog'[e.by][e.nr] = sessionLog[e.by][e.nr]
        BY <1>4, <2>1
    <2> QED
        BY <2>1, <2>2 DEF Happened, KindOf
<1>6. ASSUME NEW d, Happened(d)', NEW e, Happened(e), d.by = e.by, d.nr < e.nr
      PROVE  Happened(d)
    <2>1. d \in MemoryEvents /\ d.by \in Writers /\ d.nr \in DOMAIN sessionLog'[d.by] /\ d.nr \in Nat
        BY <1>6 DEF Happened, MemoryEvents
    <2>2. e \in MemoryEvents /\ e.nr \in DOMAIN sessionLog[e.by] /\ e.nr \in Nat
        BY <1>6 DEF Happened, MemoryEvents
    <2>3. CASE d.by = w
        <3>1. e.nr \in 1 .. n /\ d.nr \in 1 .. n + 1
            BY <1>4, <1>6, <2>1, <2>2, <2>3
        <3>2. d.nr \in 1 .. n
            BY <1>4, <1>6, <3>1
        <3> QED
            BY <1>4, <2>1, <2>3, <3>2 DEF Happened
    <2>4. CASE d.by # w
        BY <1>4, <2>1, <2>4 DEF Happened
    <2> QED
        BY <2>3, <2>4
<1>7. ASSUME NEW e, NEW u, Kept(e, u) PROVE Kept(e, u)'
    BY <1>2, <1>2a, <1>5, <1>7 DEF Kept
<1>8. ASSUME NEW S, FullUpTo(S), \A e \in S : Happened(e) PROVE FullUpTo(S)'
    <2>1. ASSUME NEW e \in S, NEW d \in MemoryEvents,
                 d.by = e.by, d.nr < e.nr, Happened(d)', KindOf(d)' # "silent"
          PROVE  d \in S
        <3>1. Happened(d) /\ KindOf(d) # "silent"
            BY <1>5, <1>6, <1>8, <2>1
        <3> QED
            BY <1>8, <2>1, <3>1 DEF FullUpTo
    <2> QED
        BY <2>1 DEF FullUpTo
<1>9. MarkdownTypes'
    BY <1>0, <1>2, <1>4 DEF MarkdownTypes
<1>10. FilesHappened' /\ KnownIsKept'
    <2>1. FilesHappened'
        BY <1>2, <1>5 DEF MarkdownInv, FilesHappened, AllFiles
    <2>2. KnownIsKept'
        BY <1>2, <1>7 DEF MarkdownInv, KnownIsKept
    <2> QED
        BY <2>1, <2>2
<1>11. NewIsOnItsWay'
    <2>1. ASSUME NEW v \in Writers, ingest[v].at # "idle", NEW e \in ToSet(ingest[v].new)
          PROVE  Happened(e)
        BY <2>1 DEF MarkdownInv, NewIsOnItsWay, AddsInOrder, ToSet
    <2>2. ASSUME NEW v \in Writers, ingest[v].at # "idle"
          PROVE  /\ \A i \in DOMAIN ingest[v].new : ingest[v].new[i].by = v /\ Happened(ingest[v].new[i])'
                 /\ \A i, j \in DOMAIN ingest[v].new : i < j => ingest[v].new[i].nr < ingest[v].new[j].nr
                 /\ ingest[v].at # "history" => \A e \in ToSet(ingest[v].new) : e \in HistoryHas
                 /\ ingest[v].at \in {"save", "saving"} =>
                       \A e \in ToSet(ingest[v].new) : KindOf(e)' = "fact" => e \in MemoryHas
        <3>2. /\ \A i \in DOMAIN ingest[v].new : ingest[v].new[i].by = v /\ Happened(ingest[v].new[i])
              /\ \A i, j \in DOMAIN ingest[v].new : i < j => ingest[v].new[i].nr < ingest[v].new[j].nr
              /\ ingest[v].at # "history" => \A e \in ToSet(ingest[v].new) : e \in HistoryHas
              /\ ingest[v].at \in {"save", "saving"} =>
                    \A e \in ToSet(ingest[v].new) : KindOf(e) = "fact" => e \in MemoryHas
            BY <2>2 DEF MarkdownInv, NewIsOnItsWay, AddsInOrder
        <3>3. \A e \in ToSet(ingest[v].new) : KindOf(e)' = KindOf(e)
            BY <1>5, <2>1, <2>2
        <3>4. \A i \in DOMAIN ingest[v].new : Happened(ingest[v].new[i])'
            BY <1>2, <1>5, <3>2
        <3>5. ingest[v].at \in {"save", "saving"} => \A e \in ToSet(ingest[v].new) : KindOf(e)' = "fact" => e \in MemoryHas
            BY <3>2, <3>3
        <3> QED
            BY <3>2, <3>4, <3>5
    <2> QED
        BY <1>2, <1>2a, <2>2 DEF NewIsOnItsWay, AddsInOrder
<1>12. OneAtATime'
    BY <1>2 DEF MarkdownInv, OneAtATime
<1>13. IdsAreComplete'
    <2>1. ASSUME NEW u \in Persons \ disturbed, \A v \in Writers : person[v] = u => ingest[v].at = "idle"
          PROVE  FullUpTo(idFiles[u])' /\ HasAllOf(idFiles[u], u)
        <3>1. FullUpTo(idFiles[u]) /\ HasAllOf(idFiles[u], u)
            BY <2>1 DEF MarkdownInv, IdsAreComplete
        <3>2. \A e \in idFiles[u] : Happened(e)
            BY DEF MarkdownInv, KnownIsKept, Kept
        <3>3. PICK S : S = idFiles[u]
            OBVIOUS
        <3>4. FullUpTo(S)'
            BY <1>8, <3>1, <3>2, <3>3
        <3>5. FullUpTo(idFiles[u])'
            BY <1>2, <3>3, <3>4
        <3> QED
            BY <3>1, <3>5
    <2> QED
        BY <1>2, <1>2a, <2>1 DEF IdsAreComplete, HasAllOf
<1>14. IngestIsComplete'
    <2>1. ASSUME NEW v \in Writers, ingest[v].at # "idle", person[v] \notin disturbed
          PROVE  LET known == ingest[v].known
                     new   == ToSet(ingest[v].new)
                 IN /\ \A e \in known, i \in new : e.by = v => e.nr < i.nr
                    /\ FullUpTo(known \cup new)'
                    /\ HasAllOf(IF ingest[v].at = "history" THEN known ELSE known \cup new, person[v])
                    /\ ingest[v].at \in {"history", "memory"} =>
                          \A e \in ToSet(memoryFile) : person[e.by] = person[v] => e \in known
        <3>1. PICK S : S = ingest[v].known \cup ToSet(ingest[v].new)
            OBVIOUS
        <3>2. FullUpTo(S)
            BY <2>1, <3>1 DEF MarkdownInv, IngestIsComplete, CompletesIds
        <3>3. \A e \in S : Happened(e)
            BY <2>1, <3>1 DEF MarkdownInv, KnownIsKept, Kept, NewIsOnItsWay, AddsInOrder, ToSet
        <3>4. FullUpTo(S)'
            BY <1>8, <3>2, <3>3
        <3>5. FullUpTo(ingest[v].known \cup ToSet(ingest[v].new))'
            BY <1>2, <3>1, <3>4
        <3> QED
            BY <2>1, <3>5 DEF MarkdownInv, IngestIsComplete, CompletesIds
    <2> QED
        BY <1>2, <1>2a, <2>1 DEF IngestIsComplete, CompletesIds, HasAllOf
<1>15. OrderedFor(historyFile, person, disturbed)' /\ OrderedFor(memoryFile, person, disturbed)'
    BY <1>2 DEF MarkdownInv
<1> QED
    BY <1>2a, <1>9, <1>10, <1>11, <1>12, <1>13, <1>14, <1>15 DEF MarkdownInv

\* What one ingest writes leaves the others as they were, where nothing overlaps.
LEMMA OthersStay ==
    ASSUME MarkdownInv, NEW w \in Writers,
           person' = person, sessionLog' = sessionLog, disturbed \subseteq disturbed',
           HistoryHas \subseteq HistoryHas', MemoryHas \subseteq MemoryHas',
           \A e \in ToSet(historyFile') : e \in ToSet(historyFile) \/ (e.by = w /\ ingest[w].at # "idle"),
           \A e \in ToSet(memoryFile') : e \in ToSet(memoryFile) \/ (e.by = w /\ ingest[w].at # "idle"),
           NEW v \in Writers, v # w, ingest'[v] = ingest[v], ingest[v].at # "idle"
    PROVE  /\ \A e \in ingest'[v].known : Kept(e, person[v])'
           /\ AddsInOrder(v)'
           /\ person'[v] \notin disturbed' => CompletesIds(v)'
<1>1. /\ \A e : Happened(e)' <=> Happened(e)
      /\ \A e : KindOf(e)' = KindOf(e)
      /\ \A e, u : Kept(e, u) => Kept(e, u)'
      /\ \A S : FullUpTo(S) => FullUpTo(S)'
    BY KeptStays
<1>2. \A e \in ingest'[v].known : Kept(e, person[v])'
    BY <1>1 DEF MarkdownInv, KnownIsKept
<1>3. AddsInOrder(v)'
    <2>1. AddsInOrder(v)
        BY DEF MarkdownInv, NewIsOnItsWay
    <2>2. \A k \in DOMAIN ingest'[v].new : ingest'[v].new[k].by = v /\ Happened(ingest[v].new[k])'
        BY <1>1, <2>1 DEF AddsInOrder
    <2>3. \A j, k \in DOMAIN ingest'[v].new : j < k => ingest'[v].new[j].nr < ingest'[v].new[k].nr
        BY <2>1 DEF AddsInOrder
    <2>4. ingest'[v].at # "history" => \A e \in ToSet(ingest'[v].new) : e \in HistoryHas'
        BY <2>1 DEF AddsInOrder
    <2>5. ingest'[v].at \in {"save", "saving"} =>
             \A e \in ToSet(ingest'[v].new) : KindOf(e)' = "fact" => e \in MemoryHas'
        BY <1>1, <2>1 DEF AddsInOrder
    <2> QED
        BY <2>2, <2>3, <2>4, <2>5 DEF AddsInOrder
<1>4. ASSUME person'[v] \notin disturbed' PROVE CompletesIds(v)'
    <2>1. CompletesIds(v) /\ person[v] \notin disturbed
        BY <1>4 DEF MarkdownInv, IngestIsComplete
    <2>2. ~(person[w] = person[v] /\ ingest[w].at # "idle")
        BY <2>1 DEF MarkdownInv, OneAtATime
    <2>3. \A e \in ToSet(historyFile') : person[e.by] = person[v] => e \in ToSet(historyFile)
        BY <2>2
    <2>4. \A e \in ToSet(memoryFile') : person[e.by] = person[v] => e \in ToSet(memoryFile)
        BY <2>2
    <2>5. PICK S : S = ingest[v].known \cup ToSet(ingest[v].new)
        OBVIOUS
    <2>6. FullUpTo(S)'
        BY <1>1, <2>1, <2>5 DEF CompletesIds
    <2>7. FullUpTo(ingest[v].known \cup ToSet(ingest[v].new))'
        BY <2>5, <2>6
    <2>8. PICK H : H = IF ingest[v].at = "history" THEN ingest[v].known ELSE S
        OBVIOUS
    <2>9. \A e \in AllFiles' : person'[e.by] = person'[v] => e \in H
        BY <2>1, <2>3, <2>4, <2>5, <2>8 DEF CompletesIds, HasAllOf, AllFiles
    <2>10. HasAllOf(IF ingest[v].at = "history" THEN ingest[v].known
                    ELSE ingest[v].known \cup ToSet(ingest[v].new), person[v])'
        BY <2>5, <2>8, <2>9 DEF HasAllOf
    <2>11. ingest'[v].at \in {"history", "memory"} =>
              \A e \in ToSet(memoryFile') : person'[e.by] = person'[v] => e \in ingest'[v].known
        BY <2>1, <2>4 DEF CompletesIds
    <2>12. \A e \in ingest'[v].known, n \in ToSet(ingest'[v].new) : e.by = v => e.nr < n.nr
        BY <2>1 DEF CompletesIds
    <2> QED
        BY <2>7, <2>10, <2>11, <2>12 DEF CompletesIds
<1> QED
    BY <1>2, <1>3, <1>4

\* While no id is written, what the ids are kept for stays.
LEMMA IdsStay ==
    ASSUME MarkdownInv, NEW w \in Writers,
           person' = person, sessionLog' = sessionLog, disturbed \subseteq disturbed',
           HistoryHas \subseteq HistoryHas', MemoryHas \subseteq MemoryHas',
           \A e \in ToSet(historyFile') : e \in ToSet(historyFile) \/ (e.by = w /\ ingest[w].at # "idle"),
           \A e \in ToSet(memoryFile') : e \in ToSet(memoryFile) \/ (e.by = w /\ ingest[w].at # "idle"),
           \A v \in Writers : v # w => ingest'[v] = ingest[v],
           NEW u \in Persons, idFiles'[u] = idFiles[u]
    PROVE  /\ \A e \in idFiles'[u] : Kept(e, u)'
           /\ u \notin disturbed' /\ (\A v \in Writers : person'[v] = u => ingest'[v].at = "idle")
                 /\ (person[w] = u => ingest[w].at = "idle")
              => FullUpTo(idFiles[u])' /\ HasAllOf(idFiles[u], u)'
<1>1. /\ \A e, x : Kept(e, x) => Kept(e, x)'
      /\ \A S : FullUpTo(S) => FullUpTo(S)'
    BY KeptStays
<1>2. \A e \in idFiles'[u] : Kept(e, u)'
    BY <1>1 DEF MarkdownInv, KnownIsKept
<1>3. ASSUME u \notin disturbed', \A v \in Writers : person'[v] = u => ingest'[v].at = "idle",
             person[w] = u => ingest[w].at = "idle"
      PROVE  FullUpTo(idFiles[u])' /\ HasAllOf(idFiles[u], u)'
    <2>1. \A v \in Writers : person[v] = u => ingest[v].at = "idle"
        BY <1>3
    <2>2. FullUpTo(idFiles[u]) /\ HasAllOf(idFiles[u], u)
        BY <1>3, <2>1 DEF MarkdownInv, IdsAreComplete
    <2>3. PICK S : S = idFiles[u]
        OBVIOUS
    <2>4. FullUpTo(S)'
        BY <1>1, <2>2, <2>3
    <2>5. FullUpTo(idFiles[u])'
        BY <2>3, <2>4
    <2>6. \A e \in AllFiles' : person'[e.by] = u => e \in idFiles'[u]
        BY <1>3, <2>2 DEF HasAllOf, AllFiles
    <2> QED
        BY <2>5, <2>6 DEF HasAllOf
<1> QED
    BY <1>2, <1>3

\* The ids are read: for an undisturbed user they are all that is in the files.
LEMMA ReadIdsKeeps ==
    ASSUME MarkdownInv, NEW w \in Writers, ReadIds(w)
    PROVE  MarkdownInv'
<1>0. MarkdownTypes
    BY DEF MarkdownInv
<1>1. PICK known, new : known = idFiles[person[w]] /\ new = NewEvents(w, known)
    OBVIOUS
<1>2. /\ ingest[w].at = "idle"
      /\ ingest' = [ingest EXCEPT ![w] = [at |-> "history", known |-> known, new |-> new]]
      /\ disturbed' = IF Others(w) = {} THEN disturbed ELSE disturbed \cup {person[w]}
      /\ UNCHANGED <<person, sessionLog, historyFile, memoryFile, idFiles, present, missed, raced>>
    BY <1>1 DEF ReadIds, memoryFiles, headers
<1>3. /\ new \in Seq(MemoryEvents)
      /\ \A k \in DOMAIN new : new[k].by = w /\ Happened(new[k]) /\ new[k] \notin known
      /\ \A j, k \in DOMAIN new : j < k => new[j].nr < new[k].nr
      /\ \A e \in MemoryEvents :
            e.by = w /\ Happened(e) /\ KindOf(e) # "silent" => e \in known \cup ToSet(new)
      /\ \A e \in ToSet(new) : KindOf(e) # "silent"
    BY <1>0, <1>1, NewEventsFacts
<1>4. /\ ingest'[w] = [at |-> "history", known |-> known, new |-> new]
      /\ \A v \in Writers : v # w => ingest'[v] = ingest[v]
    BY <1>0, <1>2 DEF MarkdownTypes
<1>5. person[w] \in Persons /\ known \in SUBSET MemoryEvents /\ disturbed \subseteq disturbed'
    BY <1>0, <1>1, <1>2, MarkdownParts
<1>6. MarkdownTypes'
    <2>1. ingest' \in [Writers -> [at : {"idle", "history", "memory", "save", "saving"},
                                   known : SUBSET MemoryEvents, new : Seq(MemoryEvents)]]
        BY <1>0, <1>2, <1>3, <1>5 DEF MarkdownTypes
    <2> QED
        BY <1>0, <1>2, <1>5, <2>1 DEF MarkdownTypes
<1>6a. HistoryHas \subseteq HistoryHas' /\ MemoryHas \subseteq MemoryHas' /\ MadeToWrite'
    <2>1. MadeToWrite'
        BY <1>2, <1>4 DEF MarkdownInv, MadeToWrite, BothFiles
    <2> QED
        BY <1>0, <1>2, <2>1, StillThere
<1>7. /\ \A e : Happened(e)' <=> Happened(e)
      /\ \A e : KindOf(e)' = KindOf(e)
      /\ \A e, u : Kept(e, u) => Kept(e, u)'
      /\ \A S : FullUpTo(S) => FullUpTo(S)'
    BY <1>2, <1>6a, KeptStays
<1>8. ASSUME NEW v \in Writers, v # w, ingest[v].at # "idle"
      PROVE  /\ \A e \in ingest'[v].known : Kept(e, person[v])'
             /\ AddsInOrder(v)'
             /\ person'[v] \notin disturbed' => CompletesIds(v)'
    BY <1>2, <1>4, <1>5, <1>6a, <1>8, OthersStay
<1>9. ASSUME NEW u \in Persons
      PROVE  /\ \A e \in idFiles'[u] : Kept(e, u)'
             /\ u \notin disturbed' /\ (\A v \in Writers : person'[v] = u => ingest'[v].at = "idle")
                => FullUpTo(idFiles[u])' /\ HasAllOf(idFiles[u], u)'
    BY <1>2, <1>4, <1>5, <1>6a, IdsStay
<1>10. \A e \in known : Kept(e, person[w])
    BY <1>1, <1>5 DEF MarkdownInv, KnownIsKept
<1>11. AddsInOrder(w)'
    <2>1. \A k \in DOMAIN ingest'[w].new : ingest'[w].new[k].by = w /\ Happened(ingest[w].new[k])'
        BY <1>3, <1>4, <1>7
    <2> QED
        BY <1>3, <1>4, <2>1 DEF AddsInOrder
<1>12. ASSUME person'[w] \notin disturbed' PROVE CompletesIds(w)'
    <2>1. person[w] \notin disturbed /\ Others(w) = {}
        BY <1>2, <1>12
    <2>2. \A v \in Writers : person[v] = person[w] => ingest[v].at = "idle"
        BY <1>2, <2>1 DEF Others
    <2>3. FullUpTo(known) /\ HasAllOf(known, person[w])
        BY <1>1, <1>5, <2>1, <2>2 DEF MarkdownInv, IdsAreComplete
    <2>4. ASSUME NEW e \in known, NEW n \in ToSet(new), e.by = w PROVE e.nr < n.nr
        <3>1. n \in MemoryEvents /\ n.by = w /\ Happened(n) /\ n \notin known /\ KindOf(n) # "silent"
            BY <1>3 DEF ToSet, Happened
        <3>2. e \in MemoryEvents
            BY <1>5
        <3>3. ~(n.nr < e.nr)
            BY <2>3, <2>4, <3>1 DEF FullUpTo
        <3>4. n.nr # e.nr
            <4>1. n = [by |-> n.by, nr |-> n.nr] /\ e = [by |-> e.by, nr |-> e.nr]
                BY <3>1, <3>2 DEF MemoryEvents
            <4> QED
                BY <2>4, <3>1, <4>1
        <3> QED
            BY <3>1, <3>2, <3>3, <3>4 DEF MemoryEvents
    <2>5. PICK S : S = known \cup ToSet(new)
        OBVIOUS
    <2>6. FullUpTo(S)
        <3>1. ASSUME NEW e \in S, NEW d \in MemoryEvents,
                     d.by = e.by, d.nr < e.nr, Happened(d), KindOf(d) # "silent"
              PROVE  d \in S
            <4>1. CASE e \in known
                BY <2>3, <2>5, <3>1, <4>1 DEF FullUpTo
            <4>2. CASE e \in ToSet(new)
                <5>1. e.by = w
                    BY <1>3, <4>2 DEF ToSet
                <5> QED
                    BY <1>3, <2>5, <3>1, <5>1
            <4> QED
                BY <2>5, <4>1, <4>2
        <3> QED
            BY <3>1 DEF FullUpTo
    <2>7. FullUpTo(S)'
        BY <1>7, <2>6
    <2>8. FullUpTo(ingest[w].known \cup ToSet(ingest[w].new))'
        BY <1>4, <2>5, <2>7
    <2>9. \A e \in AllFiles' : person'[e.by] = person'[w] => e \in known
        BY <1>2, <2>3 DEF HasAllOf, AllFiles
    <2>10. \A e \in ToSet(memoryFile') : person'[e.by] = person'[w] => e \in known
        BY <2>9 DEF AllFiles
    <2> QED
        BY <1>4, <2>4, <2>8, <2>9, <2>10 DEF CompletesIds, HasAllOf
<1>13. FilesHappened'
    BY <1>2, <1>7 DEF MarkdownInv, FilesHappened, AllFiles
<1>14. KnownIsKept'
    <2>1. \A e \in ingest'[w].known : Kept(e, person[w])'
        BY <1>2, <1>4, <1>7, <1>10
    <2>2. ASSUME NEW v \in Writers, ingest'[v].at # "idle"
          PROVE  \A e \in ingest'[v].known : Kept(e, person[v])'
        BY <1>4, <1>8, <2>1, <2>2
    <2> QED
        BY <1>9, <2>2 DEF KnownIsKept
<1>15. NewIsOnItsWay'
    BY <1>4, <1>8, <1>11 DEF NewIsOnItsWay
<1>16. OneAtATime'
    <2>1. ASSUME NEW v \in Writers, v # w, person[v] = person[w], ingest[v].at # "idle"
          PROVE  person[w] \in disturbed'
        <3>1. v \in Others(w)
            BY <2>1 DEF Others
        <3> QED
            BY <1>2, <3>1
    <2> QED
        BY <1>2, <1>4, <1>5, <2>1 DEF MarkdownInv, OneAtATime
<1>17. IdsAreComplete'
    BY <1>9 DEF IdsAreComplete
<1>18. IngestIsComplete'
    BY <1>4, <1>8, <1>12 DEF IngestIsComplete
<1>19. OrderedFor(historyFile, person, disturbed)' /\ OrderedFor(memoryFile, person, disturbed)'
    BY <1>2, <1>5 DEF MarkdownInv, OrderedFor
<1> QED
    BY <1>6, <1>6a, <1>13, <1>14, <1>15, <1>16, <1>17, <1>18, <1>19 DEF MarkdownInv

\* What of a step in an ingest the parts of the invariant need: that it goes on, and
\* what it makes of its own writer's part and of the ids.
LEMMA IngestGoesOn ==
    ASSUME MarkdownInv, MarkdownTypes', NEW w \in Writers, ingest[w].at # "idle",
           person' = person, sessionLog' = sessionLog, disturbed' = disturbed,
           HistoryHas \subseteq HistoryHas', MemoryHas \subseteq MemoryHas',
           \A e \in ToSet(historyFile') : e \in ToSet(historyFile) \/ e.by = w,
           \A e \in ToSet(memoryFile') : e \in ToSet(memoryFile) \/ e.by = w,
           \A v \in Writers : v # w => ingest'[v] = ingest[v],
           \A u \in Persons : u # person[w] => idFiles'[u] = idFiles[u],
           FilesHappened', MadeToWrite',
           \A e \in idFiles'[person[w]] : Kept(e, person[w])',
           ingest'[w].at # "idle" => (\A e \in ingest'[w].known : Kept(e, person[w])') /\ AddsInOrder(w)',
           ingest'[w].at # "idle" /\ person[w] \notin disturbed => CompletesIds(w)',
           ingest'[w].at = "idle" /\ person[w] \notin disturbed
              => FullUpTo(idFiles[person[w]])' /\ HasAllOf(idFiles[person[w]], person[w])',
           OrderedFor(historyFile, person, disturbed)', OrderedFor(memoryFile, person, disturbed)'
    PROVE  MarkdownInv'
<1>1. ASSUME NEW v \in Writers, v # w, ingest[v].at # "idle"
      PROVE  /\ \A e \in ingest'[v].known : Kept(e, person[v])'
             /\ AddsInOrder(v)'
             /\ person'[v] \notin disturbed' => CompletesIds(v)'
    BY <1>1, OthersStay
<1>2. ASSUME NEW u \in Persons, u # person[w]
      PROVE  /\ \A e \in idFiles'[u] : Kept(e, u)'
             /\ u \notin disturbed' /\ (\A v \in Writers : person'[v] = u => ingest'[v].at = "idle")
                => FullUpTo(idFiles[u])' /\ HasAllOf(idFiles[u], u)'
    BY <1>2, IdsStay
<1>3. KnownIsKept'
    <2>1. ASSUME NEW v \in Writers, ingest'[v].at # "idle"
          PROVE  \A e \in ingest'[v].known : Kept(e, person[v])'
        BY <1>1, <2>1
    <2>2. ASSUME NEW u \in Persons PROVE \A e \in idFiles'[u] : Kept(e, u)'
        <3>1. CASE u = person[w]
            BY <3>1
        <3> QED
            BY <1>2, <3>1
    <2> QED
        BY <2>1, <2>2 DEF KnownIsKept
<1>4. NewIsOnItsWay'
    BY <1>1 DEF NewIsOnItsWay
<1>5. OneAtATime'
    BY DEF MarkdownInv, OneAtATime
<1>6. IdsAreComplete'
    <2>1. ASSUME NEW u \in Persons \ disturbed',
                 \A v \in Writers : person'[v] = u => ingest'[v].at = "idle"
          PROVE  FullUpTo(idFiles[u])' /\ HasAllOf(idFiles[u], u)'
        <3>1. CASE u = person[w]
            <4>1. PICK p : p = person[w]
                OBVIOUS
            <4>2. FullUpTo(idFiles[person[w]])' /\ HasAllOf(idFiles[person[w]], person[w])'
                BY <2>1, <3>1
            <4> QED
                BY <3>1, <4>2
        <3>2. CASE u # person[w]
            BY <1>2, <2>1, <3>2
        <3> QED
            BY <3>1, <3>2
    <2> QED
        BY <2>1 DEF IdsAreComplete
<1>7. IngestIsComplete'
    BY <1>1 DEF IngestIsComplete
<1> QED
    BY <1>3, <1>4, <1>5, <1>6, <1>7 DEF MarkdownInv

\* The new events come after what HISTORY.md has of their session.
LEMMA AppendHistoryKeeps ==
    ASSUME MarkdownInv, NEW w \in Writers, AppendHistory(w)
    PROVE  MarkdownInv'
<1>0. MarkdownTypes
    BY DEF MarkdownInv
<1>1. PICK new \in Seq(MemoryEvents) : new = ingest[w].new
    BY <1>0, MarkdownParts
<1>2. /\ ingest[w].at = "history" /\ historyFile' = historyFile \o new
      /\ ingest' = [ingest EXCEPT ![w].at = "memory"]
      /\ UNCHANGED <<person, sessionLog, memoryFile, idFiles, disturbed, present, missed, raced>>
    BY <1>1 DEF AppendHistory, headers
<1>3. /\ ingest'[w] = [at |-> "memory", known |-> ingest[w].known, new |-> new]
      /\ \A v \in Writers : v # w => ingest'[v] = ingest[v]
    BY <1>0, <1>1, <1>2 DEF MarkdownTypes
<1>4. historyFile' \in Seq(MemoryEvents) /\ ToSet(historyFile') = ToSet(historyFile) \cup ToSet(new)
    BY <1>0, <1>2, FileGrows DEF MarkdownTypes
<1>4a. HistoryHas \subseteq HistoryHas' /\ MemoryHas \subseteq MemoryHas' /\ \A e \in ToSet(new) : Happened(e) => e \in HistoryHas'
    BY <1>0, <1>2, <1>4, StillThere DEF HistoryHas, Happened
<1>4b. MadeToWrite'
    BY <1>2, <1>3 DEF MarkdownInv, MadeToWrite, AppendHistory, BothFiles
<1>5. AddsInOrder(w)
    BY <1>2 DEF MarkdownInv, NewIsOnItsWay
<1>6. \A e \in ToSet(new) : e.by = w /\ Happened(e)
    BY <1>1, <1>5 DEF AddsInOrder, ToSet
<1>7. MarkdownTypes'
    <2>1. ingest' \in [Writers -> [at : {"idle", "history", "memory", "save", "saving"},
                                   known : SUBSET MemoryEvents, new : Seq(MemoryEvents)]]
        BY <1>0, <1>2 DEF MarkdownTypes
    <2> QED
        BY <1>0, <1>2, <1>4, <2>1 DEF MarkdownTypes
<1>8. /\ \A e : Happened(e)' <=> Happened(e)
      /\ \A e : KindOf(e)' = KindOf(e)
      /\ \A e, u : Kept(e, u) => Kept(e, u)'
      /\ \A S : FullUpTo(S) => FullUpTo(S)'
    BY <1>2, <1>4a, KeptStays
<1>9. FilesHappened'
    BY <1>2, <1>4, <1>6, <1>8 DEF MarkdownInv, FilesHappened, AllFiles
<1>10. \A e \in idFiles'[person[w]] : Kept(e, person[w])'
    BY <1>0, <1>2, <1>8, MarkdownParts DEF MarkdownInv, KnownIsKept
<1>11. \A e \in ingest'[w].known : Kept(e, person[w])'
    BY <1>2, <1>3, <1>8 DEF MarkdownInv, KnownIsKept
<1>12. AddsInOrder(w)'
    <2>1. \A k \in DOMAIN ingest'[w].new : ingest'[w].new[k].by = w /\ Happened(ingest[w].new[k])'
        BY <1>1, <1>3, <1>5, <1>8 DEF AddsInOrder
    <2>2. \A j, k \in DOMAIN ingest'[w].new : j < k => ingest'[w].new[j].nr < ingest'[w].new[k].nr
        BY <1>1, <1>3, <1>5 DEF AddsInOrder
    <2> QED
        BY <1>3, <1>4a, <1>6, <2>1, <2>2 DEF AddsInOrder
<1>13. person[w] \notin disturbed => CompletesIds(w)
    BY <1>2 DEF MarkdownInv, IngestIsComplete
<1>14. ASSUME person[w] \notin disturbed PROVE CompletesIds(w)'
    <2>1. PICK S : S = ingest[w].known \cup ToSet(new)
        OBVIOUS
    <2>2. FullUpTo(S)'
        BY <1>1, <1>8, <1>13, <1>14, <2>1 DEF CompletesIds
    <2>3. FullUpTo(ingest[w].known \cup ToSet(ingest[w].new))'
        BY <1>3, <2>1, <2>2
    <2>4. \A e \in AllFiles' : person'[e.by] = person'[w] => e \in S
        BY <1>2, <1>4, <1>13, <1>14, <2>1 DEF CompletesIds, HasAllOf, AllFiles
    <2>5. \A e \in ToSet(memoryFile') : person'[e.by] = person'[w] => e \in ingest[w].known
        BY <1>2, <1>13, <1>14 DEF CompletesIds
    <2>6. \A e \in ingest[w].known, n \in ToSet(new) : e.by = w => e.nr < n.nr
        BY <1>1, <1>13, <1>14 DEF CompletesIds
    <2> QED
        BY <1>3, <2>1, <2>3, <2>4, <2>5, <2>6 DEF CompletesIds, HasAllOf
<1>15. OrderedFor(historyFile, person, disturbed)' /\ OrderedFor(memoryFile, person, disturbed)'
    <2>1. ASSUME person[w] \notin disturbed, NEW e \in ToSet(historyFile), NEW n \in ToSet(new), e.by = w
          PROVE  e.nr < n.nr
        <3>1. e \in ingest[w].known
            BY <1>2, <1>13, <2>1 DEF CompletesIds, HasAllOf, AllFiles
        <3> QED
            BY <1>1, <1>13, <2>1, <3>1 DEF CompletesIds
    <2>2. /\ historyFile \in Seq(MemoryEvents) /\ OrderedFor(historyFile, person, disturbed)
          /\ OrderedFor(memoryFile, person, disturbed)
        BY <1>0 DEF MarkdownInv, MarkdownTypes
    <2>3. \A j, k \in DOMAIN new : j < k => new[j].nr < new[k].nr
        BY <1>1, <1>5 DEF AddsInOrder
    <2>4. \A k \in DOMAIN new : new[k].by = w
        BY <1>1, <1>5 DEF AddsInOrder
    <2>5. OrderedFor(historyFile \o new, person, disturbed)
        BY <2>1, <2>2, <2>3, <2>4, OrderGrows
    <2> QED
        BY <1>2, <2>2, <2>5
<1>16. /\ \A e \in ToSet(historyFile') : e \in ToSet(historyFile) \/ e.by = w
       /\ memoryFile' = memoryFile
       /\ ingest[w].at # "idle" /\ ingest'[w].at # "idle"
    BY <1>2, <1>3, <1>4, <1>6
<1> QED
    BY <1>2, <1>3, <1>4a, <1>4b, <1>7, <1>9, <1>10, <1>11, <1>12, <1>14, <1>15, <1>16, IngestGoesOn

\* And the facts among them after what MEMORY.md has.
LEMMA AppendMemoryKeeps ==
    ASSUME MarkdownInv, NEW w \in Writers, AppendMemory(w)
    PROVE  MarkdownInv'
<1>0. MarkdownTypes
    BY DEF MarkdownInv
<1>1. PICK new \in Seq(MemoryEvents) : new = ingest[w].new
    BY <1>0, MarkdownParts
<1>2. PICK D \in SUBSET DOMAIN new : D = {j \in DOMAIN new : KindOf(new[j]) = "fact"}
    OBVIOUS
<1>2a. PICK facts : facts = Picked(new, D)
    OBVIOUS
<1>3. /\ ingest[w].at = "memory" /\ memoryFile' = memoryFile \o facts
      /\ ingest' = [ingest EXCEPT ![w].at = "save"]
      /\ UNCHANGED <<person, sessionLog, historyFile, idFiles, disturbed, present, missed, raced>>
    BY <1>1, <1>2, <1>2a DEF AppendMemory, FactsAmong, headers
<1>4. /\ ingest'[w] = [at |-> "save", known |-> ingest[w].known, new |-> new]
      /\ \A v \in Writers : v # w => ingest'[v] = ingest[v]
    BY <1>0, <1>1, <1>3 DEF MarkdownTypes
<1>5. /\ facts \in Seq(MemoryEvents)
      /\ \A k \in DOMAIN facts : \E i \in D : facts[k] = new[i]
      /\ \A i \in D : \E k \in DOMAIN facts : facts[k] = new[i]
      /\ \A j, k \in DOMAIN facts : j < k => \E a, b \in D : a < b /\ facts[j] = new[a] /\ facts[k] = new[b]
    BY <1>2a, PickedKeepsOrder
<1>6. AddsInOrder(w)
    BY <1>3 DEF MarkdownInv, NewIsOnItsWay
<1>7. /\ \A k \in DOMAIN facts : facts[k] \in ToSet(new) /\ facts[k].by = w
      /\ \A j, k \in DOMAIN facts : j < k => facts[j].nr < facts[k].nr
      /\ \A e \in ToSet(new) : KindOf(e) = "fact" => e \in ToSet(facts)
    <2>1. ASSUME NEW k \in DOMAIN facts PROVE facts[k] \in ToSet(new) /\ facts[k].by = w
        <3>1. PICK i \in D : facts[k] = new[i]
            BY <1>5
        <3>2. i \in DOMAIN new /\ new[i].by = w
            BY <1>1, <1>6 DEF AddsInOrder
        <3> QED
            BY <3>1, <3>2 DEF ToSet
    <2>2. ASSUME NEW j \in DOMAIN facts, NEW k \in DOMAIN facts, j < k PROVE facts[j].nr < facts[k].nr
        <3>1. PICK a \in D, b \in D : a < b /\ facts[j] = new[a] /\ facts[k] = new[b]
            BY <1>5, <2>2
        <3>2. new[a].nr < new[b].nr
            BY <1>1, <1>6, <3>1 DEF AddsInOrder
        <3> QED
            BY <3>1, <3>2
    <2>3. ASSUME NEW e \in ToSet(new), KindOf(e) = "fact" PROVE e \in ToSet(facts)
        <3>1. PICK i \in DOMAIN new : e = new[i]
            BY DEF ToSet
        <3>2. i \in D
            BY <1>2, <2>3, <3>1
        <3> QED
            BY <1>5, <3>1, <3>2 DEF ToSet
    <2> QED
        BY <2>1, <2>2, <2>3
<1>8. memoryFile' \in Seq(MemoryEvents) /\ ToSet(memoryFile') = ToSet(memoryFile) \cup ToSet(facts)
    BY <1>0, <1>3, <1>5, FileGrows DEF MarkdownTypes
<1>8a. HistoryHas \subseteq HistoryHas' /\ MemoryHas \subseteq MemoryHas' /\ ToSet(facts) \subseteq MemoryHas'
    BY <1>0, <1>3, <1>5, <1>8, StillThere, SetOfSeq DEF MemoryHas
<1>8b. MadeToWrite'
    <2>1. facts # <<>> => "memory" \in present
        BY <1>1, <1>2, <1>2a DEF AppendMemory, FactsAmong
    <2>2. facts = <<>> => memoryFile' = memoryFile
        BY <1>0, <1>3 DEF MarkdownTypes
    <2>3. w \notin missed
        BY DEF AppendMemory
    <2> QED
        BY <1>3, <1>4, <2>1, <2>2, <2>3 DEF MarkdownInv, MadeToWrite
<1>9. \A e \in ToSet(facts) : e \in ToSet(new) /\ e.by = w
    BY <1>7 DEF ToSet
<1>10. MarkdownTypes'
    <2>1. ingest' \in [Writers -> [at : {"idle", "history", "memory", "save", "saving"},
                                   known : SUBSET MemoryEvents, new : Seq(MemoryEvents)]]
        BY <1>0, <1>3 DEF MarkdownTypes
    <2> QED
        BY <1>0, <1>3, <1>8, <2>1 DEF MarkdownTypes
<1>11. /\ \A e : Happened(e)' <=> Happened(e)
       /\ \A e : KindOf(e)' = KindOf(e)
       /\ \A e, u : Kept(e, u) => Kept(e, u)'
       /\ \A S : FullUpTo(S) => FullUpTo(S)'
    BY <1>3, <1>8a, KeptStays
<1>12. \A e \in ToSet(new) : e \in HistoryHas
    BY <1>1, <1>3, <1>6 DEF AddsInOrder
<1>13. FilesHappened'
    <2>1. \A e \in ToSet(new) : Happened(e)
        BY <1>1, <1>6 DEF AddsInOrder, ToSet
    <2> QED
        BY <1>3, <1>8, <1>9, <1>11, <2>1 DEF MarkdownInv, FilesHappened, AllFiles
<1>14. \A e \in idFiles'[person[w]] : Kept(e, person[w])'
    BY <1>0, <1>3, <1>11, MarkdownParts DEF MarkdownInv, KnownIsKept
<1>15. \A e \in ingest'[w].known : Kept(e, person[w])'
    BY <1>3, <1>4, <1>11 DEF MarkdownInv, KnownIsKept
<1>16. AddsInOrder(w)'
    <2>1. \A k \in DOMAIN ingest'[w].new : ingest'[w].new[k].by = w /\ Happened(ingest[w].new[k])'
        BY <1>1, <1>4, <1>6, <1>11 DEF AddsInOrder
    <2>2. \A j, k \in DOMAIN ingest'[w].new : j < k => ingest'[w].new[j].nr < ingest'[w].new[k].nr
        BY <1>1, <1>4, <1>6 DEF AddsInOrder
    <2>3. \A e \in ToSet(new) : KindOf(e)' = "fact" => e \in MemoryHas'
        BY <1>7, <1>8a, <1>11
    <2> QED
        BY <1>3, <1>4, <1>8a, <1>12, <2>1, <2>2, <2>3 DEF AddsInOrder
<1>17. person[w] \notin disturbed => CompletesIds(w)
    BY <1>3 DEF MarkdownInv, IngestIsComplete
<1>18. ASSUME person[w] \notin disturbed PROVE CompletesIds(w)'
    <2>1. PICK S : S = ingest[w].known \cup ToSet(new)
        OBVIOUS
    <2>2. FullUpTo(S)'
        BY <1>1, <1>11, <1>17, <1>18, <2>1 DEF CompletesIds
    <2>3. FullUpTo(ingest[w].known \cup ToSet(ingest[w].new))'
        BY <1>4, <2>1, <2>2
    <2>4. \A e \in AllFiles' : person'[e.by] = person'[w] => e \in S
        BY <1>1, <1>3, <1>8, <1>9, <1>17, <1>18, <2>1 DEF CompletesIds, HasAllOf, AllFiles
    <2>5. \A e \in ingest[w].known, n \in ToSet(new) : e.by = w => e.nr < n.nr
        BY <1>1, <1>17, <1>18 DEF CompletesIds
    <2> QED
        BY <1>4, <2>1, <2>3, <2>4, <2>5 DEF CompletesIds, HasAllOf
<1>19. OrderedFor(historyFile, person, disturbed)' /\ OrderedFor(memoryFile, person, disturbed)'
    <2>1. ASSUME person[w] \notin disturbed, NEW e \in ToSet(memoryFile), NEW n \in ToSet(facts), e.by = w
          PROVE  e.nr < n.nr
        <3>1. e \in ingest[w].known
            BY <1>3, <1>17, <2>1 DEF CompletesIds
        <3> QED
            BY <1>1, <1>9, <1>17, <2>1, <3>1 DEF CompletesIds
    <2>2. /\ memoryFile \in Seq(MemoryEvents) /\ OrderedFor(historyFile, person, disturbed)
          /\ OrderedFor(memoryFile, person, disturbed)
        BY <1>0 DEF MarkdownInv, MarkdownTypes
    <2>3. OrderedFor(memoryFile \o facts, person, disturbed)
        BY <1>5, <1>7, <2>1, <2>2, OrderGrows
    <2> QED
        BY <1>3, <2>2, <2>3
<1>20. /\ \A e \in ToSet(memoryFile') : e \in ToSet(memoryFile) \/ e.by = w
       /\ historyFile' = historyFile
       /\ ingest[w].at # "idle" /\ ingest'[w].at # "idle"
    BY <1>3, <1>4, <1>8, <1>9
<1> QED
    BY <1>3, <1>4, <1>8a, <1>8b, <1>10, <1>13, <1>14, <1>15, <1>16, <1>18, <1>19, <1>20, IngestGoesOn

\* The ids are gone while the file is written; who has them remembers them.
LEMMA EmptyIdsKeeps ==
    ASSUME MarkdownInv, NEW w \in Writers, EmptyIds(w)
    PROVE  MarkdownInv'
<1>0. MarkdownTypes /\ person[w] \in Persons
    BY MarkdownParts DEF MarkdownInv
<1>1. /\ ingest[w].at = "save" /\ idFiles' = [idFiles EXCEPT ![person[w]] = {}]
      /\ ingest' = [ingest EXCEPT ![w].at = "saving"]
      /\ UNCHANGED <<person, sessionLog, historyFile, memoryFile, disturbed, present, missed, raced>>
    BY DEF EmptyIds, headers
<1>2. /\ ingest'[w] = [at |-> "saving", known |-> ingest[w].known, new |-> ingest[w].new]
      /\ \A v \in Writers : v # w => ingest'[v] = ingest[v]
      /\ idFiles'[person[w]] = {} /\ \A u \in Persons : u # person[w] => idFiles'[u] = idFiles[u]
    BY <1>0, <1>1 DEF MarkdownTypes
<1>3. MarkdownTypes'
    <2>1. ingest' \in [Writers -> [at : {"idle", "history", "memory", "save", "saving"},
                                   known : SUBSET MemoryEvents, new : Seq(MemoryEvents)]]
        BY <1>0, <1>1 DEF MarkdownTypes
    <2> QED
        BY <1>0, <1>1, <2>1 DEF MarkdownTypes
<1>3a. HistoryHas \subseteq HistoryHas' /\ MemoryHas \subseteq MemoryHas' /\ MadeToWrite'
    <2>1. MadeToWrite'
        BY <1>1, <1>2 DEF MarkdownInv, MadeToWrite, BothFiles
    <2> QED
        BY <1>0, <1>1, <2>1, StillThere
<1>4. /\ \A e : Happened(e)' <=> Happened(e)
      /\ \A e : KindOf(e)' = KindOf(e)
      /\ \A e, u : Kept(e, u) => Kept(e, u)'
      /\ \A S : FullUpTo(S) => FullUpTo(S)'
    BY <1>1, <1>3a, KeptStays
<1>5. FilesHappened'
    BY <1>1, <1>4 DEF MarkdownInv, FilesHappened, AllFiles
<1>6. \A e \in ingest'[w].known : Kept(e, person[w])'
    BY <1>1, <1>2, <1>4 DEF MarkdownInv, KnownIsKept
<1>7. AddsInOrder(w)'
    <2>1. AddsInOrder(w)
        BY <1>1 DEF MarkdownInv, NewIsOnItsWay
    <2>2. \A k \in DOMAIN ingest'[w].new : ingest'[w].new[k].by = w /\ Happened(ingest[w].new[k])'
        BY <1>2, <1>4, <2>1 DEF AddsInOrder
    <2> QED
        BY <1>1, <1>2, <1>3a, <1>4, <2>1, <2>2 DEF AddsInOrder
<1>8. ASSUME person[w] \notin disturbed PROVE CompletesIds(w)'
    <2>1. CompletesIds(w)
        BY <1>1, <1>8 DEF MarkdownInv, IngestIsComplete
    <2>2. PICK S : S = ingest[w].known \cup ToSet(ingest[w].new)
        OBVIOUS
    <2>3. FullUpTo(S)'
        BY <1>4, <2>1, <2>2 DEF CompletesIds
    <2>4. FullUpTo(ingest[w].known \cup ToSet(ingest[w].new))'
        BY <1>2, <2>2, <2>3
    <2> QED
        BY <1>1, <1>2, <2>1, <2>4 DEF CompletesIds, HasAllOf, AllFiles
<1>9. OrderedFor(historyFile, person, disturbed)' /\ OrderedFor(memoryFile, person, disturbed)'
    BY <1>1 DEF MarkdownInv
<1>10. ingest[w].at # "idle" /\ ingest'[w].at # "idle"
    BY <1>1, <1>2
<1> QED
    BY <1>1, <1>2, <1>3, <1>5, <1>6, <1>7, <1>8, <1>9, <1>10, <1>3a, IngestGoesOn

\* The ids of what was known and of what is new are all that is in the files.
LEMMA SaveIdsKeeps ==
    ASSUME MarkdownInv, NEW w \in Writers, SaveIds(w)
    PROVE  MarkdownInv'
<1>0. /\ MarkdownTypes /\ person[w] \in Persons /\ ingest[w].known \in SUBSET MemoryEvents
      /\ ingest[w].new \in Seq(MemoryEvents) /\ DOMAIN ingest[w].new = 1 .. Len(ingest[w].new)
    BY MarkdownParts DEF MarkdownInv
<1>1. PICK S : S = ingest[w].known \cup ToSet(ingest[w].new)
    OBVIOUS
<1>2. /\ ingest[w].at = "saving" /\ idFiles' = [idFiles EXCEPT ![person[w]] = S]
      /\ ingest' = [ingest EXCEPT ![w] = Idle0]
      /\ UNCHANGED <<person, sessionLog, historyFile, memoryFile, disturbed, present, missed, raced>>
    BY <1>1 DEF SaveIds, headers
<1>3. /\ ingest'[w].at = "idle"
      /\ \A v \in Writers : v # w => ingest'[v] = ingest[v]
      /\ idFiles'[person[w]] = S /\ \A u \in Persons : u # person[w] => idFiles'[u] = idFiles[u]
    BY <1>0, <1>2 DEF MarkdownTypes, Idle0
<1>4. AddsInOrder(w)
    BY <1>2 DEF MarkdownInv, NewIsOnItsWay
<1>5. \A e \in ToSet(ingest[w].new) : e.by = w /\ Happened(e)
    BY <1>0, <1>4 DEF AddsInOrder, ToSet
<1>6. S \in SUBSET MemoryEvents
    BY <1>0, <1>1, <1>5 DEF Happened
<1>7. MarkdownTypes'
    <2>1. Idle0 \in [at : {"idle", "history", "memory", "save", "saving"},
                     known : SUBSET MemoryEvents, new : Seq(MemoryEvents)]
        <3>1. <<>> \in Seq(MemoryEvents)
            OBVIOUS
        <3> QED
            BY <3>1 DEF Idle0
    <2>2. ingest' \in [Writers -> [at : {"idle", "history", "memory", "save", "saving"},
                                   known : SUBSET MemoryEvents, new : Seq(MemoryEvents)]]
        BY <1>0, <1>2, <2>1 DEF MarkdownTypes
    <2> QED
        BY <1>0, <1>2, <1>6, <2>2 DEF MarkdownTypes
<1>7a. HistoryHas \subseteq HistoryHas' /\ MemoryHas \subseteq MemoryHas' /\ MadeToWrite'
    <2>1. MadeToWrite'
        BY <1>2, <1>3 DEF MarkdownInv, MadeToWrite, BothFiles
    <2> QED
        BY <1>0, <1>2, <2>1, StillThere
<1>8. /\ \A e : Happened(e)' <=> Happened(e)
      /\ \A e, u : Kept(e, u) => Kept(e, u)'
      /\ \A T : FullUpTo(T) => FullUpTo(T)'
    BY <1>2, <1>7a, KeptStays
<1>9. FilesHappened'
    BY <1>2, <1>8 DEF MarkdownInv, FilesHappened, AllFiles
<1>10. \A e \in S : Kept(e, person[w])
    <2>1. \A e \in ingest[w].known : Kept(e, person[w])
        BY <1>2 DEF MarkdownInv, KnownIsKept
    <2>2. \A e \in ToSet(ingest[w].new) : Kept(e, person[w])
        BY <1>2, <1>4, <1>5 DEF AddsInOrder, Kept
    <2> QED
        BY <1>1, <2>1, <2>2
<1>11. \A e \in idFiles'[person[w]] : Kept(e, person[w])'
    BY <1>2, <1>3, <1>8, <1>10
<1>12. ASSUME person[w] \notin disturbed
       PROVE  FullUpTo(idFiles[person[w]])' /\ HasAllOf(idFiles[person[w]], person[w])'
    <2>1. CompletesIds(w)
        BY <1>2, <1>12 DEF MarkdownInv, IngestIsComplete
    <2>2. FullUpTo(S)'
        BY <1>1, <1>8, <2>1 DEF CompletesIds
    <2>3. FullUpTo(idFiles[person[w]])'
        BY <1>2, <1>3, <2>2
    <2>4. \A e \in AllFiles' : person'[e.by] = person'[w] => e \in S
        BY <1>1, <1>2, <2>1 DEF CompletesIds, HasAllOf, AllFiles
    <2> QED
        BY <1>2, <1>3, <2>3, <2>4 DEF HasAllOf
<1>13. OrderedFor(historyFile, person, disturbed)' /\ OrderedFor(memoryFile, person, disturbed)'
    BY <1>2 DEF MarkdownInv
<1>14. ingest[w].at # "idle"
    BY <1>2
<1> QED
    BY <1>2, <1>3, <1>7, <1>7a, <1>9, <1>11, <1>12, <1>13, <1>14, IngestGoesOn

\* Whose ingest breaks off is disturbed; what is kept stays.
LEMMA IngestBreaksKeeps ==
    ASSUME MarkdownInv, NEW w \in Writers, IngestBreaks(w)
    PROVE  MarkdownInv'
<1>0. MarkdownTypes /\ person[w] \in Persons
    BY MarkdownParts DEF MarkdownInv
<1>1. /\ ingest[w].at # "idle" /\ ingest' = [ingest EXCEPT ![w] = Idle0]
      /\ disturbed' = disturbed \cup {person[w]}
      /\ UNCHANGED <<person, sessionLog, historyFile, memoryFile, idFiles, present, raced>>
    BY DEF IngestBreaks, memoryFiles
<1>2. ingest'[w].at = "idle" /\ \A v \in Writers : v # w => ingest'[v] = ingest[v]
    BY <1>0, <1>1 DEF MarkdownTypes, Idle0
<1>3. MarkdownTypes'
    <2>1. Idle0 \in [at : {"idle", "history", "memory", "save", "saving"},
                     known : SUBSET MemoryEvents, new : Seq(MemoryEvents)]
        <3>1. <<>> \in Seq(MemoryEvents)
            OBVIOUS
        <3> QED
            BY <3>1 DEF Idle0
    <2>2. ingest' \in [Writers -> [at : {"idle", "history", "memory", "save", "saving"},
                                   known : SUBSET MemoryEvents, new : Seq(MemoryEvents)]]
        BY <1>0, <1>1, <2>1 DEF MarkdownTypes
    <2>3. missed' \subseteq missed
        BY DEF IngestBreaks
    <2> QED
        BY <1>0, <1>1, <2>2, <2>3 DEF MarkdownTypes
<1>3a. HistoryHas \subseteq HistoryHas' /\ MemoryHas \subseteq MemoryHas' /\ MadeToWrite'
    <2>1. missed' = missed \ {w}
        BY DEF IngestBreaks
    <2>2. MadeToWrite'
        BY <1>1, <1>2, <2>1 DEF MarkdownInv, MadeToWrite
    <2> QED
        BY <1>0, <1>1, <2>2, StillThere
<1>4. \A e : Happened(e)' <=> Happened(e)
    BY <1>1, <1>3a, KeptStays
<1>5. ASSUME NEW v \in Writers, v # w, ingest[v].at # "idle"
      PROVE  /\ \A e \in ingest'[v].known : Kept(e, person[v])'
             /\ AddsInOrder(v)'
             /\ person'[v] \notin disturbed' => CompletesIds(v)'
    BY <1>1, <1>2, <1>3a, <1>5, OthersStay
<1>6. ASSUME NEW u \in Persons
      PROVE  /\ \A e \in idFiles'[u] : Kept(e, u)'
             /\ u \notin disturbed' /\ (\A v \in Writers : person'[v] = u => ingest'[v].at = "idle")
                => FullUpTo(idFiles[u])' /\ HasAllOf(idFiles[u], u)'
    BY <1>1, <1>2, <1>3a, IdsStay
<1>7. FilesHappened'
    BY <1>1, <1>4 DEF MarkdownInv, FilesHappened, AllFiles
<1>8. KnownIsKept'
    <2>1. ASSUME NEW v \in Writers, ingest'[v].at # "idle"
          PROVE  \A e \in ingest'[v].known : Kept(e, person[v])'
        BY <1>2, <1>5, <2>1
    <2> QED
        BY <1>6, <2>1 DEF KnownIsKept
<1>9. NewIsOnItsWay'
    BY <1>2, <1>5 DEF NewIsOnItsWay
<1>10. OneAtATime'
    BY <1>1, <1>2 DEF MarkdownInv, OneAtATime
<1>11. IdsAreComplete'
    BY <1>6 DEF IdsAreComplete
<1>12. IngestIsComplete'
    BY <1>2, <1>5 DEF IngestIsComplete
<1>13. OrderedFor(historyFile, person, disturbed)' /\ OrderedFor(memoryFile, person, disturbed)'
    BY <1>1 DEF MarkdownInv, OrderedFor
<1> QED
    BY <1>3, <1>3a, <1>7, <1>8, <1>9, <1>10, <1>11, <1>12, <1>13 DEF MarkdownInv

\* Who makes a file touches nothing else.
LEMMA SameIngests ==
    ASSUME MarkdownInv, MarkdownTypes', MadeToWrite', raced' = raced,
           UNCHANGED <<person, sessionLog, ingest, historyFile, memoryFile, idFiles, disturbed>>
    PROVE  MarkdownInv'
    BY DEF MarkdownInv, FilesHappened, KnownIsKept, NewIsOnItsWay, OneAtATime,
           IdsAreComplete, IngestIsComplete, OrderedFor, Kept, Happened, KindOf, AddsInOrder, CompletesIds,
           FullUpTo, HasAllOf, HistoryHas, MemoryHas, AllFiles

\* A file is found missing by an ingest that is to write it.
LEMMA MissFileKeeps ==
    ASSUME MarkdownInv, NEW w \in Writers, MissFile(w)
    PROVE  MarkdownInv'
<1>1. /\ ingest[w].at \in BothFiles /\ missed' = missed \cup {w}
      /\ UNCHANGED <<person, sessionLog, ingest, historyFile, memoryFile, idFiles, disturbed, present, raced>>
    BY DEF MissFile, memoryFiles
<1>2. MarkdownTypes' /\ MadeToWrite'
    BY <1>1 DEF MarkdownInv, MarkdownTypes, MadeToWrite
<1> QED
    BY <1>1, <1>2, SameIngests

\* The header empties a file that has nothing yet, or one that another has made: what
\* was in it is excused.
LEMMA WriteHeaderKeeps ==
    ASSUME MarkdownInv, NEW w \in Writers, WriteHeader(w)
    PROVE  MarkdownInv'
<1>0. MarkdownTypes /\ MadeToWrite
    BY DEF MarkdownInv
<1>1. PICK f : f = ingest[w].at
    OBVIOUS
<1>2. /\ f \in BothFiles /\ missed' = missed \ {w}
      /\ historyFile' = IF f = "history" THEN <<>> ELSE historyFile
      /\ memoryFile' = IF f = "memory" THEN <<>> ELSE memoryFile
      /\ raced' = IF f \in present THEN raced \cup {f} ELSE raced
      /\ present' = present \cup {f}
      /\ UNCHANGED <<person, sessionLog, ingest, idFiles, disturbed>>
    BY <1>0, <1>1 DEF WriteHeader, MadeToWrite
<1>3. <<>> \in Seq(MemoryEvents) /\ ToSet(<<>>) = {}
    BY DEF ToSet
<1>4. MarkdownTypes'
    BY <1>0, <1>2, <1>3 DEF MarkdownTypes
<1>5. MadeToWrite'
    BY <1>0, <1>2 DEF MadeToWrite
<1>6. ToSet(historyFile') \subseteq ToSet(historyFile) /\ ToSet(memoryFile') \subseteq ToSet(memoryFile)
    BY <1>2, <1>3
<1>7. HistoryHas \subseteq HistoryHas' /\ MemoryHas \subseteq MemoryHas'
    <2>1. "history" \in raced' \/ ToSet(historyFile) \subseteq ToSet(historyFile')
        BY <1>0, <1>2, <1>3 DEF MadeToWrite
    <2>2. "memory" \in raced' \/ ToSet(memoryFile) \subseteq ToSet(memoryFile')
        BY <1>0, <1>2, <1>3 DEF MadeToWrite
    <2> QED
        BY <1>0, <1>2, <2>1, <2>2, StillThere
<1>8. /\ \A e : Happened(e)' <=> Happened(e)
      /\ \A e : KindOf(e)' = KindOf(e)
      /\ \A e, u : Kept(e, u) => Kept(e, u)'
      /\ \A S : FullUpTo(S) => FullUpTo(S)'
    BY <1>2, <1>7, KeptStays
<1>9. FilesHappened'
    BY <1>6, <1>8 DEF MarkdownInv, FilesHappened, AllFiles
<1>10. person[w] \in Persons /\ ingest[w].at # "idle"
    BY <1>0, <1>1, <1>2 DEF MarkdownTypes, BothFiles
<1>11. \A e \in idFiles'[person[w]] : Kept(e, person[w])'
    BY <1>2, <1>8, <1>10 DEF MarkdownInv, KnownIsKept
<1>12. \A e \in ingest'[w].known : Kept(e, person[w])'
    BY <1>2, <1>8, <1>10 DEF MarkdownInv, KnownIsKept
<1>13. AddsInOrder(w)'
    <2>1. AddsInOrder(w)
        BY <1>10 DEF MarkdownInv, NewIsOnItsWay
    <2>2. \A k \in DOMAIN ingest'[w].new : ingest'[w].new[k].by = w /\ Happened(ingest[w].new[k])'
        BY <1>2, <1>8, <2>1 DEF AddsInOrder
    <2> QED
        BY <1>2, <1>7, <1>8, <2>1, <2>2 DEF AddsInOrder
<1>14. ASSUME person[w] \notin disturbed PROVE CompletesIds(w)'
    <2>1. CompletesIds(w)
        BY <1>10, <1>14 DEF MarkdownInv, IngestIsComplete
    <2>2. PICK S : S = ingest[w].known \cup ToSet(ingest[w].new)
        OBVIOUS
    <2>3. FullUpTo(S)'
        BY <1>8, <2>1, <2>2 DEF CompletesIds
    <2>4. FullUpTo(ingest[w].known \cup ToSet(ingest[w].new))'
        BY <1>2, <2>2, <2>3
    <2>5. \A e \in AllFiles' : e \in AllFiles
        BY <1>6 DEF AllFiles
    <2> QED
        BY <1>2, <1>6, <2>1, <2>4, <2>5 DEF CompletesIds, HasAllOf
<1>15. OrderedFor(historyFile, person, disturbed)' /\ OrderedFor(memoryFile, person, disturbed)'
    <2>1. \A P, D : OrderedFor(<<>>, P, D)
        BY DEF OrderedFor
    <2>2. OrderedFor(historyFile, person, disturbed) /\ OrderedFor(memoryFile, person, disturbed)
        BY DEF MarkdownInv
    <2> QED
        BY <1>2, <2>1, <2>2
<1> QED
    BY <1>2, <1>4, <1>5, <1>6, <1>7, <1>9, <1>10, <1>11, <1>12, <1>13, <1>14, <1>15, IngestGoesOn

\* Every step keeps the invariant, an ingest that is killed half-way included.
LEMMA MarkdownStep == MarkdownInv /\ [MarkdownNext]_markdownVars => MarkdownInv'
<1> SUFFICES ASSUME MarkdownInv, [MarkdownNext]_markdownVars PROVE MarkdownInv'
    OBVIOUS
<1>1. ASSUME NEW w \in Writers,
             \/ TurnAdds(w) \/ ReadIds(w) \/ MissFile(w) \/ WriteHeader(w)
             \/ AppendHistory(w) \/ AppendMemory(w) \/ EmptyIds(w) \/ SaveIds(w) \/ IngestBreaks(w)
      PROVE  MarkdownInv'
    BY <1>1, TurnAddsKeeps, ReadIdsKeeps, MissFileKeeps, WriteHeaderKeeps, AppendHistoryKeeps, AppendMemoryKeeps,
       EmptyIdsKeeps, SaveIdsKeeps, IngestBreaksKeeps
<1>2. CASE UNCHANGED markdownVars
    <2>1. UNCHANGED <<person, sessionLog, ingest, historyFile, memoryFile, idFiles, disturbed, present, missed, raced>>
        BY <1>2 DEF markdownVars, memoryFiles, headers
    <2>2. MarkdownTypes' /\ MadeToWrite'
        BY <2>1 DEF MarkdownInv, MarkdownTypes, MadeToWrite
    <2> QED
        BY <2>1, <2>2, SameIngests
<1> QED
    BY <1>1, <1>2 DEF MarkdownNext

\* It holds before anything is said.
LEMMA MarkdownStarts == MarkdownInit => MarkdownInv
<1> SUFFICES ASSUME MarkdownInit PROVE MarkdownInv
    OBVIOUS
<1>1. PICK none : none = <<>>
    OBVIOUS
<1>2. none \in Seq(MemoryEvents) /\ none \in Seq(EventKinds) /\ DOMAIN none = {} /\ ToSet(none) = {}
    BY <1>1 DEF ToSet
<1>3. /\ person \in [Writers -> Persons] /\ sessionLog = [w \in Writers |-> none]
      /\ ingest = [w \in Writers |-> [at |-> "idle", known |-> {}, new |-> none]]
      /\ historyFile = none /\ memoryFile = none /\ idFiles = [u \in Persons |-> {}] /\ disturbed = {}
      /\ present \subseteq BothFiles /\ missed = {} /\ raced = {}
    BY <1>1 DEF MarkdownInit, Idle0, BothFiles
<1>4. MarkdownTypes
    BY <1>2, <1>3 DEF MarkdownTypes
<1>5. \A w \in Writers : ingest[w].at = "idle"
    BY <1>3
<1>6. MadeToWrite /\ FilesHappened /\ KnownIsKept /\ NewIsOnItsWay /\ OneAtATime /\ IngestIsComplete
    BY <1>1, <1>2, <1>3, <1>5 DEF MadeToWrite, FilesHappened, AllFiles, KnownIsKept, NewIsOnItsWay, OneAtATime, IngestIsComplete
<1>7. IdsAreComplete
    BY <1>2, <1>3 DEF IdsAreComplete, FullUpTo, HasAllOf, AllFiles
<1>8. OrderedFor(historyFile, person, disturbed) /\ OrderedFor(memoryFile, person, disturbed)
    BY <1>2, <1>3 DEF OrderedFor
<1> QED
    BY <1>4, <1>6, <1>7, <1>8 DEF MarkdownInv

\* Whatever is killed or overlaps, an id that is kept stands for an event that is in
\* HISTORY.md, and in MEMORY.md if it is a fact, unless two processes both found that
\* file missing and one made it over what the other had written; and where nothing was
\* killed and nothing overlapped, each event is written once and in the order of its
\* session.
THEOREM MemoryWritesOnce == MarkdownSpec => []FactsWrittenOnce
<1>1. MarkdownInv => FactsWrittenOnce
    <2> SUFFICES ASSUME MarkdownInv PROVE FactsWrittenOnce
        OBVIOUS
    <2>1. RememberedIsWritten
        BY DEF MarkdownInv, KnownIsKept, Kept, RememberedIsWritten, SearchMemory, HistoryHas, MemoryHas
    <2>2. WrittenOnce
        BY DEF MarkdownInv, OrderedFor, WrittenOnce
    <2> QED
        BY <2>1, <2>2 DEF FactsWrittenOnce
<1> QED
    BY <1>1, MarkdownStarts, MarkdownStep, PTL DEF MarkdownSpec

-----------------------------------------------------------------------------
(* The pages of a file *)

Notes == [line : Nat, bytes : Nat]

PagesTypes ==
    lines \in Seq(Nat) /\ limit \in Nat /\ offset \in Nat /\ shown \in Seq(Notes) /\ changed \in BOOLEAN

\* What has been shown is below the offset, in order.
ShownInOrder ==
    /\ \A i \in DOMAIN shown : offset > 0 => shown[i].line < offset
    /\ \A i, j \in DOMAIN shown : i < j => shown[i].line < shown[j].line

\* Of a file that nobody writes it is all that is below the offset, which is no
\* further than its end.
ShownIsAll ==
    ~changed =>
       /\ Len(shown) = IF offset = 0 THEN Len(lines) ELSE offset - 1
       /\ offset <= Len(lines) + 1
       /\ \A i \in DOMAIN shown : shown[i] = [line |-> i, bytes |-> Cut(lines[i])]

PagesInv == PagesTypes /\ ShownInOrder /\ ShownIsAll

\* What is written is a sequence of lengths.
LEMMA LinesAreLengths ==
    ASSUME NEW s \in BoundedSeq(Sizes, MaxLines)
    PROVE  s \in Seq(Nat)
<1>1. PICK n \in 0 .. MaxLines : s \in [1 .. n -> Sizes]
    BY DEF BoundedSeq, SeqOf
<1>2. MaxLines \in Nat /\ Sizes \subseteq Nat
    BY PagesAssumption
<1>3. n \in Nat
    BY <1>2
<1>4. s = [i \in 1 .. n |-> s[i]] /\ \A i \in 1 .. n : s[i] \in Nat
    BY <1>1, <1>2
<1> QED
    BY <1>3, <1>4, IsASeq

\* The smaller of two.
LEMMA SmallerOfTwo ==
    ASSUME NEW a \in Int, NEW b \in Int
    PROVE  Min({a, b}) = IF a <= b THEN a ELSE b
<1>1. PICK m : m = IF a <= b THEN a ELSE b
    OBVIOUS
<1>2. m \in {a, b} /\ \A y \in {a, b} : m <= y
    BY <1>1
<1>3. \A x \in {a, b} : (\A y \in {a, b} : x <= y) => x = m
    BY <1>1, <1>2
<1>4. (CHOOSE x \in {a, b} : \A y \in {a, b} : x <= y) = m
    BY <1>2, <1>3
<1> QED
    BY <1>1, <1>4 DEF Min

\* The greatest of finitely many.
LEMMA GreatestOf ==
    ASSUME NEW S \in SUBSET Nat, IsFiniteSet(S), S # {}
    PROVE  Max(S) \in S /\ \A n \in S : n <= Max(S)
<1>1. \E n \in S : \A m \in S : m <= n
    BY GreatestExists
<1>2. PICK n \in S : \A m \in S : n >= m
    <2>1. PICK n \in S : \A m \in S : m <= n
        BY <1>1
    <2>2. \A m \in S : n >= m
        BY <2>1
    <2> QED
        BY <2>2
<1>3. Max(S) \in S /\ \A m \in S : Max(S) >= m
    BY <1>2 DEF Max
<1>4. \A m \in S : m <= Max(S)
    BY <1>3
<1> QED
    BY <1>3, <1>4

\* A page has a line at least and ends in the file.
LEMMA PageEnds ==
    ASSUME PagesInv, NEW from \in 1 .. Len(lines)
    PROVE  LastOf(from) \in from .. Len(lines)
<1>1. Len(lines) \in Nat /\ limit \in Nat /\ from \in Nat
    BY LenProperties DEF PagesInv, PagesTypes
<1>2. CASE limit > 0
    <2>1. from + limit - 1 \in Int /\ Len(lines) \in Int
        BY <1>1
    <2>2. ByLimit(from) = IF from + limit - 1 <= Len(lines) THEN from + limit - 1 ELSE Len(lines)
        BY <2>1, SmallerOfTwo DEF ByLimit
    <2> QED
        BY <1>1, <1>2, <2>2 DEF LastOf
<1>3. CASE ~(limit > 0)
    <2>1. PICK S : S = {from} \cup {to \in from .. Len(lines) : Bytes(from, to) <= Budget}
        OBVIOUS
    <2>2. S \subseteq from .. Len(lines) /\ S # {} /\ S \in SUBSET Nat
        BY <1>1, <2>1
    <2>3. IsFiniteSet(from .. Len(lines))
        BY <1>1, FS_Interval
    <2>4. IsFiniteSet(S)
        BY <2>2, <2>3, FS_Subset
    <2>5. Max(S) \in S
        BY <2>2, <2>4, GreatestOf
    <2> QED
        BY <1>3, <2>1, <2>2, <2>5 DEF LastOf, ByBudget
<1> QED
    BY <1>2, <1>3

\* A cut line has a number of bytes.
LEMMA CutIsNumber ==
    ASSUME NEW b \in Nat
    PROVE  Cut(b) \in Nat
<1>1. Budget \in Nat
    BY PagesAssumption
<1>2. Min({b, Budget}) = IF b <= Budget THEN b ELSE Budget
    BY <1>1, SmallerOfTwo
<1> QED
    BY <1>1, <1>2 DEF Cut

\* A page follows what was shown, line for line.
LEMMA ReadFileKeeps == PagesInv /\ ReadFile => PagesInv'
<1> SUFFICES ASSUME PagesInv, ReadFile PROVE PagesInv'
    OBVIOUS
<1>1. /\ lines \in Seq(Nat) /\ limit \in Nat /\ offset \in Nat /\ shown \in Seq(Notes) /\ changed \in BOOLEAN
    BY DEF PagesInv, PagesTypes
<1>2. PICK m : m = Len(lines)
    OBVIOUS
<1>3. PICK c : c = Len(shown)
    OBVIOUS
<1>4. /\ m \in Nat /\ DOMAIN lines = 1 .. m /\ c \in Nat /\ DOMAIN shown = 1 .. c
      /\ \A i \in 1 .. m : lines[i] \in Nat
      /\ \A i \in 1 .. c : shown[i] \in Notes
    BY <1>1, <1>2, <1>3, LenProperties, ElementOfSeq
<1>5. lines' = lines /\ limit' = limit /\ changed' = changed /\ offset > 0
    BY DEF ReadFile
<1>6. \A b : Cut(b)' = Cut(b)
    BY <1>5 DEF Cut
<1>7. /\ \A i \in 1 .. c : shown[i].line \in Nat /\ shown[i].line < offset
      /\ \A i, j \in 1 .. c : i < j => shown[i].line < shown[j].line
    <2>1. \A i \in 1 .. c : shown[i].line < offset
        BY <1>4, <1>5 DEF PagesInv, ShownInOrder
    <2>2. \A i, j \in 1 .. c : i < j => shown[i].line < shown[j].line
        BY <1>4 DEF PagesInv, ShownInOrder
    <2> QED
        BY <1>4, <2>1, <2>2 DEF Notes
<1>8. ~changed => /\ c = offset - 1 /\ offset <= m + 1
                  /\ \A i \in 1 .. c : shown[i] = [line |-> i, bytes |-> Cut(lines[i])]
    <2>1. ~changed => /\ Len(shown) = IF offset = 0 THEN Len(lines) ELSE offset - 1
                      /\ offset <= Len(lines) + 1
                      /\ \A i \in DOMAIN shown : shown[i] = [line |-> i, bytes |-> Cut(lines[i])]
        BY DEF PagesInv, ShownIsAll
    <2>2. offset # 0
        BY <1>1, <1>5
    <2> QED
        BY <1>2, <1>3, <1>4, <2>1, <2>2
<1>9. CASE offset > m
    <2>1. offset' = 0 /\ shown' = shown
        BY <1>2, <1>9 DEF ReadFile
    <2>2. ~changed => c = m
        BY <1>1, <1>4, <1>8, <1>9
    <2>3. PagesTypes'
        BY <1>1, <1>5, <2>1 DEF PagesTypes
    <2>4. ShownInOrder'
        BY <1>4, <1>7, <2>1 DEF ShownInOrder
    <2>5. ~changed' => \A i \in DOMAIN shown' : shown'[i] = [line |-> i, bytes |-> Cut(lines[i])']
        BY <1>4, <1>5, <1>6, <1>8, <2>1
    <2>6. ShownIsAll'
        BY <1>2, <1>3, <1>4, <1>5, <2>1, <2>2, <2>5 DEF ShownIsAll
    <2> QED
        BY <2>3, <2>4, <2>6 DEF PagesInv
<1>10. CASE ~(offset > m)
    <2>1. offset \in 1 .. m
        BY <1>1, <1>4, <1>5, <1>10
    <2>2. PICK last : last = LastOf(offset)
        OBVIOUS
    <2>3. last \in offset .. m
        BY <1>2, <2>1, <2>2, PageEnds
    <2>4. PICK n : n = last - offset + 1
        OBVIOUS
    <2>5. n \in Nat /\ n >= 1 /\ offset + n - 1 = last /\ last \in Nat /\ last <= m
        BY <1>1, <1>4, <2>3, <2>4
    <2>6. PICK page : page = [i \in 1 .. n |-> [line |-> offset + i - 1, bytes |-> Cut(lines[offset + i - 1])]]
        OBVIOUS
    <2>7. page \in Seq(Notes) /\ Len(page) = n
        <3>1. ASSUME NEW i \in 1 .. n
              PROVE  [line |-> offset + i - 1, bytes |-> Cut(lines[offset + i - 1])] \in Notes
            <4>1. offset + i - 1 \in 1 .. m /\ offset + i - 1 \in Nat
                BY <1>1, <1>4, <1>5, <2>5
            <4>2. Cut(lines[offset + i - 1]) \in Nat
                BY <1>4, <4>1, CutIsNumber
            <4> QED
                BY <4>1, <4>2 DEF Notes
        <3>2. page \in [1 .. n -> Notes]
            BY <2>6, <3>1
        <3> QED
            BY <2>5, <3>2
    <2>8. /\ shown' = shown \o page
          /\ offset' = IF last < m \/ Cut(lines[offset]) < lines[offset] THEN last + 1 ELSE 0
        BY <1>2, <1>10, <2>2, <2>4, <2>6 DEF ReadFile, NextOffset
    <2>9. /\ shown' \in Seq(Notes) /\ Len(shown') = c + n /\ DOMAIN shown' = 1 .. c + n
          /\ \A i \in 1 .. c + n : shown'[i] = IF i <= c THEN shown[i] ELSE page[i - c]
        <3>1. PICK u \in Seq(Notes) : u = shown
            BY <1>1
        <3>2. Len(u) = c
            BY <1>3, <3>1
        <3>3. PICK v : v = u \o page
            OBVIOUS
        <3>4. /\ v \in Seq(Notes) /\ Len(v) = Len(u) + Len(page)
              /\ \A i \in 1 .. Len(u) + Len(page) : v[i] = IF i <= Len(u) THEN u[i] ELSE page[i - Len(u)]
            BY <2>7, <3>3, ConcatProperties
        <3>5. DOMAIN v = 1 .. Len(v)
            BY <3>4, LenProperties
        <3>6. shown' = v
            BY <2>8, <3>1, <3>3
        <3> QED
            BY <2>7, <3>1, <3>2, <3>4, <3>5, <3>6
    <2>10. ASSUME NEW i \in 1 .. c + n
           PROVE  /\ i <= c => shown'[i] = shown[i] /\ i \in 1 .. c
                  /\ i > c => /\ shown'[i] = [line |-> offset + (i - c) - 1, bytes |-> Cut(lines[offset + (i - c) - 1])]
                              /\ offset + (i - c) - 1 <= last
        <3>1. CASE i <= c
            BY <1>4, <2>5, <2>9, <3>1
        <3>2. CASE i > c
            <4>1. i - c \in 1 .. n /\ ~(i <= c)
                BY <1>4, <2>5, <3>2
            <4>2. shown'[i] = page[i - c]
                BY <2>9, <4>1
            <4>3. offset + (i - c) - 1 <= last
                BY <1>1, <1>4, <2>5, <4>1
            <4> QED
                BY <2>6, <4>1, <4>2, <4>3
        <3> QED
            BY <1>4, <2>5, <3>1, <3>2
    <2>11. ASSUME NEW i \in 1 .. c + n
           PROVE  /\ i <= c => shown'[i].line = shown[i].line /\ shown'[i].line \in Nat /\ shown'[i].line < offset
                  /\ i > c => shown'[i].line = offset + (i - c) - 1 /\ shown'[i].line <= last
        <3>1. ASSUME i <= c
              PROVE  shown'[i].line = shown[i].line /\ shown'[i].line \in Nat /\ shown'[i].line < offset
            <4>1. i \in 1 .. c /\ shown'[i] = shown[i]
                BY <2>10, <3>1
            <4> QED
                BY <1>7, <4>1
        <3>2. ASSUME i > c PROVE shown'[i].line = offset + (i - c) - 1 /\ shown'[i].line <= last
            <4>1. /\ shown'[i] = [line |-> offset + (i - c) - 1, bytes |-> Cut(lines[offset + (i - c) - 1])]
                  /\ offset + (i - c) - 1 <= last
                BY <2>10, <3>2
            <4>2. shown'[i].line = offset + (i - c) - 1
                BY <4>1
            <4> QED
                BY <4>1, <4>2
        <3> QED
            BY <3>1, <3>2
    <2>12. PagesTypes'
        <3>1. offset' \in Nat
            BY <2>5, <2>8
        <3> QED
            BY <1>1, <1>5, <2>9, <3>1 DEF PagesTypes
    <2>13. ShownInOrder'
        <3>1. ASSUME NEW i \in 1 .. c + n, offset' > 0 PROVE shown'[i].line < offset'
            <4>1. offset' = last + 1
                BY <2>8, <3>1
            <4>2. shown'[i].line < offset \/ shown'[i].line <= last
                BY <1>4, <2>5, <2>11
            <4>3. shown'[i].line \in Int
                BY <1>1, <1>4, <2>5, <2>11
            <4> QED
                BY <1>1, <2>3, <2>5, <4>1, <4>2, <4>3
        <3>2. ASSUME NEW i \in 1 .. c + n, NEW j \in 1 .. c + n, i < j PROVE shown'[i].line < shown'[j].line
            <4>0. i \in Int /\ j \in Int /\ i <= c + n /\ j <= c + n /\ i >= 1 /\ j >= 1
                BY <1>4, <2>5
            <4>1. CASE j <= c
                <5>1. i <= c
                    BY <1>4, <3>2, <4>0, <4>1
                <5>2. i \in 1 .. c /\ j \in 1 .. c
                    BY <2>10, <4>1, <5>1
                <5>3. shown[i].line < shown[j].line
                    BY <1>7, <3>2, <5>2
                <5> QED
                    BY <2>11, <4>1, <5>1, <5>3
            <4>2. CASE j > c /\ i <= c
                <5>1. shown'[i].line \in Nat /\ shown'[i].line < offset /\ shown'[j].line = offset + (j - c) - 1
                    BY <2>11, <4>2
                <5> QED
                    BY <1>1, <1>4, <4>0, <4>2, <5>1
            <4>3. CASE i > c
                <5>1. j > c
                    BY <1>4, <3>2, <4>0, <4>3
                <5>2. shown'[i].line = offset + (i - c) - 1 /\ shown'[j].line = offset + (j - c) - 1
                    BY <2>11, <4>3, <5>1
                <5> QED
                    BY <1>1, <1>4, <3>2, <4>0, <5>2
            <4> QED
                BY <1>4, <4>0, <4>1, <4>2, <4>3
        <3> QED
            BY <2>9, <3>1, <3>2 DEF ShownInOrder
    <2>14. ASSUME ~changed
           PROVE  /\ c + n = IF offset' = 0 THEN m ELSE offset' - 1
                  /\ offset' <= m + 1
                  /\ \A i \in 1 .. c + n : shown'[i] = [line |-> i, bytes |-> Cut(lines[i])']
        <3>1. c = offset - 1 /\ c + n = last
            BY <1>1, <1>8, <2>5, <2>14
        <3>2. last = m \/ last < m
            BY <1>4, <2>5
        <3>3. c + n = (IF offset' = 0 THEN m ELSE offset' - 1) /\ offset' <= m + 1
            <4>1. CASE offset' = last + 1
                BY <1>4, <2>5, <3>1, <4>1
            <4>2. CASE offset' = 0 /\ last = m
                BY <1>4, <3>1, <4>2
            <4> QED
                BY <2>8, <3>2, <4>1, <4>2
        <3>4. ASSUME NEW i \in 1 .. c + n PROVE shown'[i] = [line |-> i, bytes |-> Cut(lines[i])]
            <4>1. CASE i <= c
                BY <1>8, <2>10, <2>14, <4>1
            <4>2. CASE i > c
                <5>1. offset + (i - c) - 1 = i
                    BY <1>1, <1>4, <2>5, <3>1
                <5> QED
                    BY <2>10, <4>2, <5>1
            <4> QED
                BY <1>4, <2>5, <4>1, <4>2
        <3> QED
            BY <1>5, <1>6, <3>3, <3>4
    <2>15. ShownIsAll'
        BY <1>2, <1>5, <2>9, <2>14 DEF ShownIsAll
    <2> QED
        BY <2>12, <2>13, <2>15 DEF PagesInv
<1> QED
    BY <1>9, <1>10

\* Every step keeps the invariant; of a file that is written it says less.
LEMMA PagesStep == PagesInv /\ [PagesNext]_pagesVars => PagesInv'
<1> SUFFICES ASSUME PagesInv, [PagesNext]_pagesVars PROVE PagesInv'
    OBVIOUS
<1>1. CASE ReadFile
    BY <1>1, ReadFileKeeps
<1>2. CASE WriteFile
    <2>1. lines' \in Seq(Nat) /\ changed' = TRUE /\ limit' = limit /\ offset' = offset /\ shown' = shown
        BY <1>2, LinesAreLengths DEF WriteFile
    <2> QED
        BY <2>1 DEF PagesInv, PagesTypes, ShownInOrder, ShownIsAll
<1>3. CASE UNCHANGED pagesVars
    BY <1>3 DEF pagesVars, PagesInv, PagesTypes, ShownInOrder, ShownIsAll, Cut
<1> QED
    BY <1>1, <1>2, <1>3 DEF PagesNext

\* Who follows the offsets is shown each line of a file that nobody writes, once and
\* in order, whatever the limit, the budget and the lengths of the lines.
THEOREM PagesShowTheFile == PagesSpec => []PagesCoverTheFile
<1>1. PagesInit => PagesInv
    <2> SUFFICES ASSUME PagesInit PROVE PagesInv
        OBVIOUS
    <2>1. lines \in Seq(Nat)
        <3>1. CASE Sizes = {}
            BY <3>1 DEF PagesInit
        <3>2. CASE Sizes # {}
            BY <3>2, LinesAreLengths DEF PagesInit
        <3> QED
            BY <3>1, <3>2
    <2>2. limit \in Nat /\ offset = 1 /\ changed = FALSE
        BY PagesAssumption DEF PagesInit
    <2>3. shown = <<>> /\ shown \in Seq(Notes) /\ Len(shown) = 0 /\ DOMAIN shown = {}
        BY DEF PagesInit
    <2>4. PICK m : m = Len(lines)
        OBVIOUS
    <2>5. m \in Nat
        BY <2>1, <2>4, LenProperties
    <2>6. PagesTypes /\ ShownInOrder
        BY <2>1, <2>2, <2>3 DEF PagesTypes, ShownInOrder
    <2>7. ShownIsAll
        BY <2>2, <2>3, <2>4, <2>5 DEF ShownIsAll
    <2> QED
        BY <2>6, <2>7 DEF PagesInv
<1>2. PagesInv => PagesCoverTheFile
    <2> SUFFICES ASSUME PagesInv PROVE PagesCoverTheFile
        OBVIOUS
    <2>1. ASSUME ~changed, offset = 0 PROVE shown = [i \in DOMAIN lines |-> [line |-> i, bytes |-> Cut(lines[i])]]
        <3>1. shown \in Seq(Notes) /\ lines \in Seq(Nat) /\ Len(shown) = Len(lines)
            BY <2>1 DEF PagesInv, PagesTypes, ShownIsAll
        <3>2. DOMAIN shown = 1 .. Len(shown) /\ DOMAIN lines = 1 .. Len(lines)
            BY <3>1, LenProperties
        <3>3. shown = [i \in DOMAIN shown |-> shown[i]]
            BY <3>1
        <3>4. \A i \in DOMAIN shown : shown[i] = [line |-> i, bytes |-> Cut(lines[i])]
            BY <2>1 DEF PagesInv, ShownIsAll
        <3> QED
            BY <3>1, <3>2, <3>3, <3>4
    <2> QED
        BY <2>1 DEF PagesInv, ShownInOrder, PagesCoverTheFile
<1> QED
    BY <1>1, <1>2, PagesStep, PTL DEF PagesSpec

-----------------------------------------------------------------------------
(* The configuration file *)

\* The values that a field may have.
ExportedTokens == {v.token : v \in ShellValues}
ExportedKeys == {v.key[p] : v \in ShellValues, p \in ProviderNames}
FieldValues == {"", "default", "written", "alias", "old"} \cup ExportedTokens \cup ExportedKeys

Contents == [on : [ProviderNames -> BOOLEAN], key : [ProviderNames -> FieldValues],
             model : FieldValues, aliasOn : BOOLEAN, aliasKey : FieldValues, aliasModel : FieldValues,
             oldKey : FieldValues, telegram : BOOLEAN, token : FieldValues, oldToken : FieldValues,
             url : FieldValues, oldUrl : FieldValues, local : BOOLEAN, oldEnv : FieldValues]

\* Nothing is left of older releases.
IsToday(c) ==
    /\ ~c.aliasOn /\ c.aliasKey = "" /\ c.aliasModel = "" /\ c.oldKey = ""
    /\ c.oldToken = "" /\ c.oldUrl = "" /\ c.oldEnv = ""

\* Two contents that have the same of older releases.
SameOlder(a, b) ==
    /\ a.aliasOn = b.aliasOn /\ a.aliasKey = b.aliasKey /\ a.aliasModel = b.aliasModel /\ a.oldKey = b.oldKey
    /\ a.oldToken = b.oldToken /\ a.oldUrl = b.oldUrl /\ a.oldEnv = b.oldEnv

\* Two contents that have the same where no fix of the providers comes.
SameChannels(a, b) == a.token = b.token /\ a.url = b.url /\ a.telegram = b.telegram /\ a.local = b.local

\* r is w with nothing replaced: a key that was missing is the shell's, the default
\* provider may be enabled if none was, and a channel if none was.
Fills(w, r) ==
    /\ \A p \in ProviderNames : IF w.key[p] # "" THEN r.key[p] = w.key[p] ELSE r.key[p] \in {"", shell.key[p]}
    /\ r.on["m"] = w.on["m"] /\ (w.on["g"] => r.on["g"])
    /\ r.on["g"] /\ ~w.on["g"] => ~w.on["m"]
    /\ w.model # "" => r.model = w.model
    /\ w.token # "" => r.token = w.token
    /\ w.url # "" => r.url = w.url
    /\ r.telegram = w.telegram /\ (w.local => r.local)

\* The file is what the user wrote, or both are in today's fields and nothing is replaced.
FileOf(w, r) == r = w \/ (IsToday(w) /\ IsToday(r) /\ Fills(w, r))

\* A content that doctor has nothing to do with.
Settled(c) ==
    /\ ProviderEnabled(c) /\ (c.aliasOn => c.on["m"])
    /\ c.key["m"] = "" => c.aliasKey = "" /\ c.oldKey = ""
    /\ c.local \/ c.telegram

ConfigTypes ==
    /\ file.state \in {"missing", "broken", "there"} /\ file.c \in Contents /\ wrote \in Contents
    /\ shell \in [key : [ProviderNames -> FieldValues], token : FieldValues] /\ fixed \in BOOLEAN
    /\ command.at \in {"none", "started", "saving", "truncated"} /\ command.c \in Contents
    /\ command.does \in {"none", "doctor", "dry", "install", "force"}
    /\ command = [does |-> command.does, at |-> command.at, env |-> command.env, c |-> command.c]
    /\ nEdits \in 0 .. MaxEdits /\ nCommands \in 0 .. MaxCommands

FileIsTheUsers ==
    /\ file.state = "there" => FileOf(wrote, file.c)
    /\ file.state # "there" => file.c = Defaults
    /\ file.state # "there" /\ command.at # "truncated" => wrote = Defaults
    /\ fixed /\ file.state = "there" => Settled(file.c)

\* What a command goes by is still so, and what it is about to write is the user's.
CommandIsRight ==
    /\ command.at = "started" /\ command.does \in {"doctor", "dry"} => command.env = Boot(file, ShellEnv)
    /\ command.at = "none" <=> command = NoCommand
    /\ command.at \in {"saving", "truncated"} => command.does \in {"doctor", "install", "force"}
    /\ command.at = "saving" =>
          /\ command.does = "doctor"  => command.c = Fixed(file, Boot(file, ShellEnv))
          /\ command.does = "install" => command.c = Loaded(file)
          /\ command.does = "force"   => command.c = Defaults
    /\ command.at = "truncated" =>
          /\ file.state = "broken" /\ ~fixed /\ IsToday(command.c)
          /\ IF command.does = "doctor" THEN Settled(command.c) /\ Fills(Today(wrote), command.c)
             ELSE FileOf(wrote, command.c)

ConfigInv == ConfigTypes /\ FileIsTheUsers /\ CommandIsRight

\* Nothing is a value too.
LEMMA NothingIsValue ==
    /\ "" \in FieldValues /\ "default" \in FieldValues
    /\ "written" \in FieldValues /\ "alias" \in FieldValues /\ "old" \in FieldValues
    BY DEF FieldValues

\* Contents, the defaults among them, keep their form in today's fields.
LEMMA NormalizedFacts ==
    ASSUME NEW c \in Contents
    PROVE  /\ Normalized(c) \in Contents /\ IsToday(Normalized(c))
           /\ Normalized(c).on = c.on /\ Normalized(c).key = c.key /\ Normalized(c).model = c.model
           /\ Normalized(c).token = c.token /\ Normalized(c).url = c.url
           /\ Normalized(c).telegram = c.telegram /\ Normalized(c).local = c.local
           /\ IsToday(c) => Normalized(c) = c
<1>1. PICK n : n = Normalized(c)
    OBVIOUS
<1>2. n = [c EXCEPT !.aliasOn = FALSE, !.aliasKey = "", !.aliasModel = "", !.oldKey = "",
                    !.oldToken = "", !.oldUrl = "", !.oldEnv = ""]
    BY <1>1 DEF Normalized
<1>3. n \in Contents
    <2>1. PICK f \in BOOLEAN : f = FALSE
        OBVIOUS
    <2>2. n = [c EXCEPT !.aliasOn = f, !.aliasKey = "", !.aliasModel = "", !.oldKey = "",
                        !.oldToken = "", !.oldUrl = "", !.oldEnv = ""]
        BY <1>2, <2>1
    <2> QED
        BY <2>2, NothingIsValue DEF Contents
<1>4. /\ n.on = c.on /\ n.key = c.key /\ n.model = c.model /\ n.token = c.token /\ n.url = c.url
      /\ n.telegram = c.telegram /\ n.local = c.local
      /\ n.aliasOn = FALSE /\ n.aliasKey = "" /\ n.aliasModel = "" /\ n.oldKey = ""
      /\ n.oldToken = "" /\ n.oldUrl = "" /\ n.oldEnv = ""
    BY <1>2 DEF Contents
<1>5. IsToday(n)
    BY <1>4 DEF IsToday
<1>6. ASSUME IsToday(c) PROVE n = c
    <2>1. c.aliasOn = FALSE
        BY <1>6 DEF IsToday, Contents
    <2> QED
        BY <1>2, <1>6, <2>1 DEF IsToday, Contents
<1> QED
    BY <1>1, <1>3, <1>4, <1>5, <1>6

LEMMA DefaultsFacts ==
    /\ Defaults \in Contents /\ IsToday(Defaults) /\ Normalized(Defaults) = Defaults
    /\ Fills(Defaults, Defaults)
<1>1. Defaults \in Contents
    <2>1. PICK f \in BOOLEAN : f = FALSE
        OBVIOUS
    <2>2. PICK t \in BOOLEAN : t = TRUE
        OBVIOUS
    <2>3. PICK o \in [ProviderNames -> BOOLEAN] : o = [p \in ProviderNames |-> p = "g"]
        <3>1. [p \in ProviderNames |-> p = "g"] \in [ProviderNames -> BOOLEAN]
            OBVIOUS
        <3> QED
            BY <3>1
    <2>4. PICK k \in [ProviderNames -> FieldValues] : k = [p \in ProviderNames |-> ""]
        BY NothingIsValue
    <2>5. Defaults = [on |-> o, key |-> k, model |-> "default", aliasOn |-> f, aliasKey |-> "",
                      aliasModel |-> "", oldKey |-> "", telegram |-> f, token |-> "", oldToken |-> "",
                      url |-> "default", oldUrl |-> "", local |-> t, oldEnv |-> ""]
        BY <2>1, <2>2, <2>3, <2>4 DEF Defaults
    <2> QED
        BY <2>5, NothingIsValue DEF Contents
<1>2. IsToday(Defaults)
    BY DEF Defaults, IsToday
<1>3. Normalized(Defaults) = Defaults
    BY <1>1, <1>2, NormalizedFacts
<1>4. Fills(Defaults, Defaults)
    BY DEF Fills, Defaults, ProviderNames
<1> QED
    BY <1>1, <1>2, <1>3, <1>4

\* What a content says, put into today's fields.
LEMMA TodayFacts ==
    ASSUME NEW c \in Contents
    PROVE  /\ Today(c) \in Contents /\ IsToday(Today(c))
           /\ Today(c).key["g"] = c.key["g"] /\ Today(c).key["m"] = Or(c.key["m"], Or(c.aliasKey, c.oldKey))
           /\ Today(c).on["g"] = c.on["g"] /\ Today(c).on["m"] = (c.on["m"] \/ c.aliasOn)
           /\ Today(c).model = Or(c.model, c.aliasModel)
           /\ Today(c).token = Or(c.token, c.oldToken) /\ Today(c).url = Or(c.url, c.oldUrl)
           /\ Today(c).telegram = c.telegram /\ Today(c).local = c.local
<1>1. PICK n \in Contents : n = Normalized(c)
    BY NormalizedFacts
<1>2. IsToday(n) /\ n.telegram = c.telegram /\ n.local = c.local
    BY <1>1, NormalizedFacts
<1>3. PICK k : k = [p \in ProviderNames |-> KeyOf(c, p)]
    OBVIOUS
<1>4. PICK o : o = [p \in ProviderNames |-> IsOn(c, p)]
    OBVIOUS
<1>5. k \in [ProviderNames -> FieldValues] /\ k["g"] = c.key["g"] /\ k["m"] = Or(c.key["m"], Or(c.aliasKey, c.oldKey))
    BY <1>3 DEF KeyOf, Or, Contents, ProviderNames
<1>6. o \in [ProviderNames -> BOOLEAN] /\ o["g"] = c.on["g"] /\ o["m"] = (c.on["m"] \/ c.aliasOn)
    BY <1>4 DEF IsOn, Contents, ProviderNames
<1>7. ModelOf(c) \in FieldValues /\ TokenOf(c) \in FieldValues /\ UrlOf(c) \in FieldValues
    BY DEF ModelOf, TokenOf, UrlOf, Or, Contents
<1>8. PICK t : t = Today(c)
    OBVIOUS
<1>9. t = [n EXCEPT !.key = k, !.on = o, !.model = ModelOf(c), !.token = TokenOf(c), !.url = UrlOf(c)]
    BY <1>1, <1>3, <1>4, <1>8 DEF Today
<1>10. t \in Contents
    BY <1>5, <1>6, <1>7, <1>9 DEF Contents
<1>11. /\ t.key = k /\ t.on = o /\ t.model = ModelOf(c) /\ t.token = TokenOf(c) /\ t.url = UrlOf(c)
       /\ t.telegram = n.telegram /\ t.local = n.local /\ SameOlder(t, n)
    BY <1>9 DEF Contents, SameOlder
<1>12. IsToday(t)
    BY <1>2, <1>11 DEF IsToday, SameOlder
<1> QED
    BY <1>2, <1>5, <1>6, <1>8, <1>10, <1>11, <1>12 DEF ModelOf, TokenOf, UrlOf

\* The keys and tokens of an environment.
IsEnvironment(e) == e.key \in [ProviderNames -> FieldValues] /\ e.token \in FieldValues

\* What doctor --fix makes of the provider part of a content, ...
ProviderFixed(c, r, e) ==
    LET m == KeyOf(r, "m")
        g == IsOn(r, "g") \/ ~IsOn(r, "m")
    IN  /\ c \in Contents /\ IsToday(c)
        /\ c.model = ModelOf(r) /\ c.on["m"] = IsOn(r, "m") /\ c.on["g"] = g
        /\ c.key["g"] = IF g THEN Or(r.key["g"], e.key["g"]) ELSE r.key["g"]
        /\ c.key["m"] = IF g THEN m ELSE Or(m, e.key["m"])

\* Its migration, its default and its key from the environment together.
LEMMA FixedProvider ==
    ASSUME NEW r \in Contents, NEW e, IsEnvironment(e)
    PROVE  LET c == BackfilledKey(EnsuredProvider(MigratedProvider(Normalized(r), r)), e)
           IN  ProviderFixed(c, r, e) /\ SameChannels(c, r)
<1>1. PICK n \in Contents : n = Normalized(r)
    BY NormalizedFacts
<1>2. IsToday(n) /\ n.on = r.on /\ n.key = r.key /\ n.model = r.model /\ SameChannels(n, r)
    BY <1>1, NormalizedFacts DEF SameChannels
<1>3. PICK m : m = Or(r.key["m"], Or(r.aliasKey, r.oldKey))
    OBVIOUS
<1>4. m \in FieldValues /\ ModelOf(r) \in FieldValues
    BY <1>3 DEF ModelOf, Or, Contents, ProviderNames
<1>5. PICK mOn \in BOOLEAN : mOn = (r.on["m"] \/ r.aliasOn)
    BY DEF Contents
<1>6. PICK a : a = MigratedProvider(n, r)
    OBVIOUS
<1>7. a = [n EXCEPT !.on["m"] = @ \/ r.aliasOn, !.key["m"] = Or(@, Or(r.aliasKey, r.oldKey)),
                    !.model = Or(@, r.aliasModel)]
    BY <1>6 DEF MigratedProvider
<1>8. /\ n.on["m"] = r.on["m"] /\ n.key["m"] = r.key["m"] /\ n.on["g"] = r.on["g"] /\ n.key["g"] = r.key["g"]
      /\ n.model = r.model
    BY <1>2
<1>9. a = [n EXCEPT !.on = [n.on EXCEPT !["m"] = mOn], !.key = [n.key EXCEPT !["m"] = m], !.model = ModelOf(r)]
    BY <1>3, <1>5, <1>7, <1>8 DEF Contents, ModelOf
<1>10. /\ a \in Contents /\ a.on = [n.on EXCEPT !["m"] = mOn] /\ a.key = [n.key EXCEPT !["m"] = m]
       /\ a.model = ModelOf(r) /\ SameChannels(a, n) /\ SameOlder(a, n)
    BY <1>4, <1>9 DEF Contents, ProviderNames, SameChannels, SameOlder
<1>11. a.on["m"] = mOn /\ a.on["g"] = r.on["g"] /\ a.key["m"] = m /\ a.key["g"] = r.key["g"]
    BY <1>8, <1>10 DEF Contents, ProviderNames
<1>12. PICK b : b = EnsuredProvider(a)
    OBVIOUS
<1>13. PICK gOn \in BOOLEAN : gOn = (r.on["g"] \/ ~mOn)
    OBVIOUS
<1>14. /\ b \in Contents /\ b.on["m"] = mOn /\ b.on["g"] = gOn /\ b.key = a.key /\ b.model = a.model
       /\ SameChannels(b, a) /\ SameOlder(b, a)
    <2>1. r.on["g"] \in BOOLEAN
        BY DEF Contents, ProviderNames
    <2>2. CASE r.on["g"] \/ mOn
        <3>1. b = a
            BY <1>11, <1>12, <2>2 DEF EnsuredProvider, ProviderEnabled
        <3>2. gOn = r.on["g"]
            BY <1>13, <2>1, <2>2
        <3> QED
            BY <1>10, <1>11, <3>1, <3>2 DEF SameChannels, SameOlder
    <2>3. CASE ~(r.on["g"] \/ mOn)
        <3>1. b = [a EXCEPT !.on["g"] = TRUE]
            BY <1>11, <1>12, <2>3 DEF EnsuredProvider, ProviderEnabled
        <3>2. b = [a EXCEPT !.on = [a.on EXCEPT !["g"] = TRUE]]
            BY <1>10, <3>1 DEF Contents
        <3>3. /\ b \in Contents /\ b.on = [a.on EXCEPT !["g"] = TRUE] /\ b.key = a.key /\ b.model = a.model
              /\ SameChannels(b, a) /\ SameOlder(b, a)
            BY <1>10, <3>2 DEF Contents, ProviderNames, SameChannels, SameOlder
        <3>4. b.on["m"] = a.on["m"] /\ b.on["g"] = TRUE
            BY <1>10, <3>3 DEF Contents, ProviderNames
        <3> QED
            BY <1>11, <1>13, <2>3, <3>3, <3>4
    <2> QED
        BY <2>2, <2>3
<1>15. PICK q \in ProviderNames : q = ActiveProvider(b) /\ (q = "g" <=> gOn)
    BY <1>13, <1>14 DEF ActiveProvider, ProviderNames
<1>16. PICK c : c = BackfilledKey(b, e)
    OBVIOUS
<1>17. c = [b EXCEPT !.key = [b.key EXCEPT ![q] = Or(b.key[q], e.key[q])]]
    BY <1>14, <1>15, <1>16 DEF BackfilledKey, Contents
<1>18. Or(b.key[q], e.key[q]) \in FieldValues
    BY <1>14, <1>15 DEF Or, Contents, IsEnvironment
<1>19. /\ c \in Contents /\ c.on = b.on /\ c.key = [b.key EXCEPT ![q] = Or(b.key[q], e.key[q])]
       /\ c.model = b.model /\ SameChannels(c, b) /\ SameOlder(c, b)
    BY <1>14, <1>15, <1>17, <1>18 DEF Contents, SameChannels, SameOlder
<1>20. \A p \in ProviderNames : c.key[p] = IF p = q THEN Or(b.key[p], e.key[p]) ELSE b.key[p]
    BY <1>14, <1>15, <1>19 DEF Contents
<1>21. /\ c.key["g"] = IF gOn THEN Or(r.key["g"], e.key["g"]) ELSE r.key["g"]
       /\ c.key["m"] = IF gOn THEN m ELSE Or(m, e.key["m"])
    BY <1>11, <1>14, <1>15, <1>20 DEF ProviderNames
<1>22. IsToday(c)
    <2>1. SameOlder(c, n)
        BY <1>10, <1>14, <1>19 DEF SameOlder
    <2> QED
        BY <1>2, <2>1 DEF IsToday, SameOlder
<1>23. c.on["m"] = mOn /\ c.on["g"] = gOn /\ c.model = ModelOf(r) /\ SameChannels(c, r)
    BY <1>2, <1>10, <1>14, <1>19 DEF SameChannels
<1>24. c = BackfilledKey(EnsuredProvider(MigratedProvider(Normalized(r), r)), e)
    BY <1>1, <1>6, <1>12, <1>16
<1>25. KeyOf(r, "m") = m /\ IsOn(r, "m") = mOn /\ (IsOn(r, "g") \/ ~IsOn(r, "m")) = gOn
    BY <1>3, <1>5, <1>13 DEF KeyOf, IsOn
<1>26. ProviderFixed(c, r, e)
    BY <1>19, <1>21, <1>22, <1>23, <1>25 DEF ProviderFixed
<1> QED
    BY <1>23, <1>24, <1>26

\* ... and of the whole: nothing is replaced that has a value.
LEMMA FixedFacts ==
    ASSUME NEW f, Raw(f) \in Contents, NEW e, IsEnvironment(e)
    PROVE  /\ Loaded(f) = Normalized(Raw(f))
           /\ ProviderFixed(Fixed(f, e), Raw(f), e)
           /\ TokenOf(Raw(f)) # "" => Fixed(f, e).token = TokenOf(Raw(f))
           /\ Fixed(f, e).url = UrlOf(Raw(f))
           /\ Fixed(f, e).telegram = Raw(f).telegram
           /\ Fixed(f, e).local = (Raw(f).local \/ ~Raw(f).telegram)
<1>1. PICK r \in Contents : r = Raw(f)
    OBVIOUS
<1>2. Loaded(f) = Normalized(r)
    BY <1>1, DefaultsFacts DEF Loaded, Raw
<1>3. PICK p : p = BackfilledKey(EnsuredProvider(MigratedProvider(Normalized(r), r)), e)
    OBVIOUS
<1>4. /\ p \in Contents /\ IsToday(p) /\ ProviderFixed(p, r, e)
      /\ p.token = r.token /\ p.url = r.url /\ p.telegram = r.telegram /\ p.local = r.local
    <2>1. ProviderFixed(p, r, e) /\ SameChannels(p, r)
        BY <1>3, FixedProvider
    <2> QED
        BY <2>1 DEF ProviderFixed, SameChannels
<1>5. PICK a : a = MigratedChannel(p, r)
    OBVIOUS
<1>6. PICK t \in FieldValues, u \in FieldValues : t = Or(r.token, r.oldToken) /\ u = Or(r.url, r.oldUrl)
    BY DEF Or, Contents
<1>7. a = [p EXCEPT !.token = t, !.url = u]
    BY <1>4, <1>5, <1>6 DEF MigratedChannel, Contents
<1>8. /\ a \in Contents /\ a.token = t /\ a.url = u /\ a.telegram = p.telegram /\ a.local = p.local
      /\ a.on = p.on /\ a.key = p.key /\ a.model = p.model /\ SameOlder(a, p)
    BY <1>4, <1>7 DEF Contents, SameOlder
<1>9. PICK b : b = EnsuredChannel(a)
    OBVIOUS
<1>10. PICK l \in BOOLEAN : l = (r.local \/ ~r.telegram)
    OBVIOUS
<1>11. b = [a EXCEPT !.local = l]
    BY <1>4, <1>8, <1>9, <1>10 DEF EnsuredChannel, Contents
<1>12. /\ b \in Contents /\ b.token = t /\ b.url = u /\ b.telegram = p.telegram /\ b.local = l
       /\ b.on = p.on /\ b.key = p.key /\ b.model = p.model /\ SameOlder(b, p)
    BY <1>8, <1>11 DEF Contents, SameOlder
<1>13. PICK c : c = BackfilledToken(b, e)
    OBVIOUS
<1>14. c = Fixed(f, e)
    BY <1>1, <1>2, <1>3, <1>5, <1>9, <1>13 DEF Fixed
<1>15. /\ c \in Contents /\ (t # "" => c.token = t) /\ c.url = u /\ c.telegram = p.telegram /\ c.local = l
       /\ c.on = p.on /\ c.key = p.key /\ c.model = p.model /\ SameOlder(c, p)
    <2>1. CASE b.telegram
        <3>1. PICK v \in FieldValues : v = Or(b.token, e.token)
            BY <1>12 DEF Or, Contents, IsEnvironment
        <3>2. c = [b EXCEPT !.token = v]
            BY <1>12, <1>13, <2>1, <3>1 DEF BackfilledToken, Contents
        <3>3. t # "" => v = t
            BY <1>12, <3>1 DEF Or
        <3> QED
            BY <1>12, <3>2, <3>3 DEF Contents, SameOlder
    <2>2. CASE ~b.telegram
        BY <1>12, <1>13, <2>2 DEF BackfilledToken
    <2> QED
        BY <2>1, <2>2
<1>16. IsToday(c)
    BY <1>4, <1>15 DEF IsToday, SameOlder
<1>21. ProviderFixed(c, r, e)
    BY <1>4, <1>15, <1>16 DEF ProviderFixed
<1>22. TokenOf(r) = t /\ UrlOf(r) = u
    BY <1>6 DEF TokenOf, UrlOf
<1> QED
    BY <1>1, <1>2, <1>4, <1>10, <1>14, <1>15, <1>21, <1>22

\* What a process has of the file and of the shell.
LEMMA BootFacts ==
    ASSUME NEW f, f.state = "there" => f.c \in Contents,
           shell \in [key : [ProviderNames -> FieldValues], token : FieldValues]
    PROVE  LET e == Boot(f, ShellEnv)
           IN  /\ IsEnvironment(e)
               /\ f.state # "there" => e = ShellEnv
               /\ f.state = "there" =>
                     /\ e.provider = ActiveProvider(f.c) /\ e.enabled = ProviderEnabled(f.c)
                     /\ e.channels = EnabledChannels(f.c) /\ e.token = f.c.token
                     /\ \A p \in ProviderNames : e.key[p] =
                           IF ProviderEnabled(f.c) /\ p = ActiveProvider(f.c)
                           THEN (IF f.c.key[p] = "" THEN shell.key[p] ELSE f.c.key[p]) ELSE ""
<1>1. PICK e : e = Boot(f, ShellEnv)
    OBVIOUS
<1>2. CASE f.state # "there"
    <2>1. e = ShellEnv
        BY <1>1, <1>2 DEF Boot
    <2>2. e.key = shell.key /\ e.token = shell.token
        BY <2>1 DEF ShellEnv
    <2>3. IsEnvironment(e)
        BY <2>2 DEF IsEnvironment
    <2> QED
        BY <1>1, <1>2, <2>1, <2>3
<1>3. CASE f.state = "there"
    <2>1. PICK c \in Contents : c = Normalized(f.c)
        BY <1>3, NormalizedFacts
    <2>2. c.on = f.c.on /\ c.key = f.c.key /\ c.token = f.c.token /\ c.telegram = f.c.telegram /\ c.local = f.c.local
        BY <1>3, <2>1, NormalizedFacts
    <2>3. /\ ActiveProvider(c) = ActiveProvider(f.c) /\ ProviderEnabled(c) = ProviderEnabled(f.c)
          /\ EnabledChannels(c) = EnabledChannels(f.c)
        BY <2>2 DEF ActiveProvider, ProviderEnabled, EnabledChannels
    <2>4. e = Applied(c, ShellEnv)
        BY <1>1, <1>3, <2>1 DEF Boot
    <2>5. PICK mapped : mapped = [p \in ProviderNames |->
                                     IF ProviderEnabled(c) /\ p = ActiveProvider(c) THEN c.key[p] ELSE ""]
        OBVIOUS
    <2>6. PICK k : k = [p \in ProviderNames |-> IF p \in Fallback(c) THEN ShellEnv.key[p] ELSE Mapped(c).key[p]]
        OBVIOUS
    <2>7. Mapped(c) = [provider |-> ActiveProvider(c), enabled |-> ProviderEnabled(c),
                       channels |-> EnabledChannels(c), key |-> mapped, token |-> c.token]
        BY <2>5 DEF Mapped, ChannelEnv
    <2>8. e = [Mapped(c) EXCEPT !.key = k]
        BY <2>4, <2>6 DEF Applied
    <2>9. /\ e.provider = ActiveProvider(c) /\ e.enabled = ProviderEnabled(c)
          /\ e.channels = EnabledChannels(c) /\ e.token = c.token /\ e.key = k
        BY <2>7, <2>8
    <2>10. Mapped(c).key = mapped /\ ShellEnv.key = shell.key
        BY <2>7 DEF ShellEnv
    <2>11. ASSUME NEW p \in ProviderNames
           PROVE  k[p] = IF ProviderEnabled(c) /\ p = ActiveProvider(c)
                         THEN (IF c.key[p] = "" THEN shell.key[p] ELSE c.key[p]) ELSE ""
        BY <2>5, <2>6, <2>10 DEF Fallback
    <2>12. \A p \in ProviderNames : k[p] \in FieldValues
        BY <2>11, NothingIsValue DEF Contents
    <2>13. k \in [ProviderNames -> FieldValues]
        BY <2>6, <2>12
    <2>14. IsEnvironment(e)
        BY <2>9, <2>13 DEF IsEnvironment, Contents
    <2>15. \A p \in ProviderNames : e.key[p] =
              IF ProviderEnabled(f.c) /\ p = ActiveProvider(f.c)
              THEN (IF f.c.key[p] = "" THEN shell.key[p] ELSE f.c.key[p]) ELSE ""
        BY <2>2, <2>3, <2>9, <2>11
    <2> QED
        BY <1>1, <1>3, <2>2, <2>3, <2>9, <2>14, <2>15
<1> QED
    BY <1>2, <1>3

\* Nothing is replaced in a content that stays, and two rounds are as good as one.
LEMMA FillsIsOrder ==
    /\ \A a : Fills(a, a)
    /\ \A a, b, c \in Contents : Fills(a, b) /\ Fills(b, c) => Fills(a, c)
<1>1. \A a : Fills(a, a)
    BY DEF Fills
<1>2. ASSUME NEW a \in Contents, NEW b \in Contents, NEW c \in Contents, Fills(a, b), Fills(b, c) PROVE Fills(a, c)
    <2>1. ASSUME NEW p \in ProviderNames
          PROVE  IF a.key[p] # "" THEN c.key[p] = a.key[p] ELSE c.key[p] \in {"", shell.key[p]}
        BY <1>2 DEF Fills
    <2>2. c.on["m"] = a.on["m"] /\ (a.on["g"] => c.on["g"]) /\ (c.on["g"] /\ ~a.on["g"] => ~a.on["m"])
        BY <1>2 DEF Fills
    <2>3. (a.token # "" => c.token = a.token) /\ c.telegram = a.telegram /\ (a.local => c.local)
        BY <1>2 DEF Fills
    <2>4. (a.model # "" => c.model = a.model) /\ (a.url # "" => c.url = a.url)
        BY <1>2 DEF Fills
    <2> QED
        BY <2>1, <2>2, <2>3, <2>4 DEF Fills
<1> QED
    BY <1>1, <1>2

\* The file says at least what the user wrote.
LEMMA FileSaysWhatWasWritten ==
    ASSUME NEW w \in Contents, NEW r \in Contents, FileOf(w, r)
    PROVE  Fills(Today(w), Today(r))
<1>1. CASE r = w
    BY <1>1, FillsIsOrder
<1>2. CASE IsToday(w) /\ IsToday(r) /\ Fills(w, r)
    <2>1. PICK x \in Contents : x = Today(w)
        BY TodayFacts
    <2>2. PICK y \in Contents : y = Today(r)
        BY TodayFacts
    <2>3. /\ x.key["g"] = w.key["g"] /\ x.key["m"] = w.key["m"] /\ x.on["g"] = w.on["g"] /\ x.on["m"] = (w.on["m"] \/ w.aliasOn)
          /\ x.model = w.model /\ x.token = w.token /\ x.url = w.url
          /\ x.telegram = w.telegram /\ x.local = w.local
        BY <1>2, <2>1, TodayFacts DEF IsToday, Or
    <2>4. /\ y.key["g"] = r.key["g"] /\ y.key["m"] = r.key["m"] /\ y.on["g"] = r.on["g"] /\ y.on["m"] = (r.on["m"] \/ r.aliasOn)
          /\ y.model = r.model /\ y.token = r.token /\ y.url = r.url
          /\ y.telegram = r.telegram /\ y.local = r.local
        BY <1>2, <2>2, TodayFacts DEF IsToday, Or
    <2>5. ~w.aliasOn /\ ~r.aliasOn
        BY <1>2 DEF IsToday
    <2>6. w.on["m"] \in BOOLEAN /\ r.on["m"] \in BOOLEAN
        BY DEF Contents, ProviderNames
    <2>7. x.on["m"] = w.on["m"] /\ y.on["m"] = r.on["m"]
        BY <2>3, <2>4, <2>5, <2>6
    <2>8. Fills(x, y)
        BY <1>2, <2>3, <2>4, <2>7, ZenonT(60) DEF Fills, ProviderNames
    <2> QED
        BY <2>1, <2>2, <2>8
<1> QED
    BY <1>1, <1>2 DEF FileOf

\* A doctor that goes by what its process was started with replaces nothing and leaves
\* nothing to do.
LEMMA FixedFills ==
    ASSUME NEW w \in Contents, NEW f, Raw(f) \in Contents, FileOf(w, Raw(f)),
           f.state # "there" => f.c = Defaults,
           shell \in [key : [ProviderNames -> FieldValues], token : FieldValues]
    PROVE  LET c == Fixed(f, Boot(f, ShellEnv))
           IN  c \in Contents /\ IsToday(c) /\ Settled(c) /\ Fills(Today(w), c)
<1>1. PICK r \in Contents : r = Raw(f)
    OBVIOUS
<1>2. PICK e : e = Boot(f, ShellEnv)
    OBVIOUS
<1>3. f.state = "there" => f.c = r
    BY <1>1 DEF Raw
<1>4. IsEnvironment(e)
    BY <1>1, <1>2, <1>3, BootFacts
<1>5. PICK c : c = Fixed(f, e)
    OBVIOUS
<1>6. ProviderFixed(c, r, e)
    BY <1>1, <1>4, <1>5, FixedFacts
<1>7. /\ TokenOf(r) # "" => c.token = TokenOf(r)
      /\ c.url = UrlOf(r) /\ c.telegram = r.telegram /\ c.local = (r.local \/ ~r.telegram)
    BY <1>1, <1>4, <1>5, FixedFacts
<1>8. c \in Contents /\ IsToday(c)
    BY <1>6 DEF ProviderFixed
<1>9. Settled(c)
    <2>1. ProviderEnabled(c)
        BY <1>6 DEF ProviderFixed, ProviderEnabled
    <2>2. c.local \/ c.telegram
        BY <1>7
    <2> QED
        BY <1>8, <2>1, <2>2 DEF Settled, IsToday
<1>10. ASSUME NEW p \in ProviderNames, r.key[p] = "" PROVE e.key[p] \in {"", shell.key[p]}
    <2>1. CASE f.state = "there"
        <3>1. f.c = r
            BY <1>3, <2>1
        <3>2. e.key[p] = IF ProviderEnabled(f.c) /\ p = ActiveProvider(f.c)
                         THEN (IF f.c.key[p] = "" THEN shell.key[p] ELSE f.c.key[p]) ELSE ""
            BY <1>2, <2>1, <3>1, BootFacts
        <3> QED
            BY <1>10, <3>1, <3>2
    <2>2. CASE f.state # "there"
        <3>1. e = ShellEnv
            BY <1>2, <2>2, BootFacts DEF Boot
        <3> QED
            BY <3>1 DEF ShellEnv
    <2> QED
        BY <2>1, <2>2
<1>11. PICK x \in Contents : x = Today(r)
    BY TodayFacts
<1>12. /\ x.key["g"] = r.key["g"] /\ x.key["m"] = KeyOf(r, "m") /\ x.on["g"] = r.on["g"] /\ x.on["m"] = IsOn(r, "m")
       /\ x.model = ModelOf(r) /\ x.token = TokenOf(r) /\ x.url = UrlOf(r)
       /\ x.telegram = r.telegram /\ x.local = r.local
    BY <1>11, TodayFacts DEF KeyOf, IsOn, ModelOf, TokenOf, UrlOf
<1>13. Fills(x, c)
    <2>1. IF x.key["g"] # "" THEN c.key["g"] = x.key["g"] ELSE c.key["g"] \in {"", shell.key["g"]}
        BY <1>6, <1>10, <1>12 DEF ProviderFixed, Or, ProviderNames
    <2>2. KeyOf(r, "m") = "" => r.key["m"] = ""
        BY DEF KeyOf, Or
    <2>3. IF x.key["m"] # "" THEN c.key["m"] = x.key["m"] ELSE c.key["m"] \in {"", shell.key["m"]}
        BY <1>6, <1>10, <1>12, <2>2 DEF ProviderFixed, Or, ProviderNames
    <2>4. \A p \in ProviderNames : IF x.key[p] # "" THEN c.key[p] = x.key[p] ELSE c.key[p] \in {"", shell.key[p]}
        BY <2>1, <2>3 DEF ProviderNames
    <2>5. /\ c.on["m"] = x.on["m"] /\ (x.on["g"] => c.on["g"])
          /\ c.on["g"] /\ ~x.on["g"] => ~x.on["m"]
        BY <1>6, <1>12 DEF ProviderFixed, IsOn
    <2>6. c.model = x.model /\ c.url = x.url
        BY <1>6, <1>7, <1>12 DEF ProviderFixed
    <2> QED
        BY <1>7, <1>12, <2>4, <2>5, <2>6 DEF Fills
<1>14. Fills(Today(w), x)
    BY <1>1, <1>11, FileSaysWhatWasWritten
<1>15. Fills(Today(w), c)
    BY <1>8, <1>13, <1>14, TodayFacts, FillsIsOrder
<1> QED
    BY <1>2, <1>5, <1>8, <1>9, <1>15

\* Where a doctor finds nothing to change there is nothing to do.
LEMMA UnchangedIsSettled ==
    ASSUME NEW f, Raw(f) \in Contents, NEW e, IsEnvironment(e), Fixed(f, e) = Loaded(f)
    PROVE  Settled(Raw(f))
<1>1. PICK r \in Contents : r = Raw(f)
    OBVIOUS
<1>2. PICK c : c = Fixed(f, e)
    OBVIOUS
<1>3. ProviderFixed(c, r, e) /\ c.telegram = r.telegram /\ c.local = (r.local \/ ~r.telegram) /\ c = Normalized(r)
    BY <1>1, <1>2, FixedFacts
<1>4. c.on = r.on /\ c.key = r.key /\ c.local = r.local
    BY <1>3, NormalizedFacts
<1>5. ProviderEnabled(r) /\ (r.aliasOn => r.on["m"])
    BY <1>3, <1>4 DEF ProviderFixed, IsOn, ProviderEnabled
<1>6. r.key["m"] = "" => r.aliasKey = "" /\ r.oldKey = ""
    BY <1>3, <1>4 DEF ProviderFixed, KeyOf, Or
<1>7. r.local \/ r.telegram
    BY <1>3, <1>4
<1> QED
    BY <1>1, <1>5, <1>6, <1>7 DEF Settled

\* A process started from another sees what one started by hand sees.
LEMMA BootTwice == \A f, e : Boot(f, Boot(f, e)) = Boot(f, e)
<1> SUFFICES ASSUME NEW f, NEW e, f.state = "there" PROVE Boot(f, Boot(f, e)) = Boot(f, e)
    BY DEF Boot
<1>1. PICK c : c = Normalized(f.c)
    OBVIOUS
<1>2. PICK k : k = [p \in ProviderNames |-> IF p \in Fallback(c) THEN e.key[p] ELSE Mapped(c).key[p]]
    OBVIOUS
<1>3. PICK a : a = Applied(c, e)
    OBVIOUS
<1>4. a = [Mapped(c) EXCEPT !.key = k]
    BY <1>2, <1>3 DEF Applied
<1>5. a.key = k
    BY <1>4 DEF Mapped
<1>6. [p \in ProviderNames |-> IF p \in Fallback(c) THEN a.key[p] ELSE Mapped(c).key[p]] = k
    BY <1>2, <1>5
<1>7. Applied(c, a) = a
    BY <1>4, <1>6 DEF Applied
<1> QED
    BY <1>1, <1>3, <1>7 DEF Boot

-----------------------------------------------------------------------------

\* What the shell exports is such a value.
LEMMA ShellIsTyped == ShellValues \subseteq [key : [ProviderNames -> FieldValues], token : FieldValues]
<1> SUFFICES ASSUME NEW v \in ShellValues PROVE v \in [key : [ProviderNames -> FieldValues], token : FieldValues]
    OBVIOUS
<1>1. v \in [key : [ProviderNames -> STRING], token : STRING]
    BY ConfigAssumption
<1>2. ASSUME NEW p \in ProviderNames PROVE v.key[p] \in FieldValues
    <2>1. v.key[p] \in ExportedKeys
        BY DEF ExportedKeys
    <2> QED
        BY <2>1 DEF FieldValues
<1>3. v.token \in FieldValues
    <2>1. v.token \in ExportedTokens
        BY DEF ExportedTokens
    <2> QED
        BY <2>1 DEF FieldValues
<1>4. v.key = [p \in ProviderNames |-> v.key[p]]
    BY <1>1
<1>5. v.key \in [ProviderNames -> FieldValues]
    BY <1>2, <1>4
<1>6. v = [key |-> v.key, token |-> v.token]
    BY <1>1
<1> QED
    BY <1>3, <1>5, <1>6

\* The commands and their phases hold at the start.
LEMMA ConfigStarts == ConfigInit => ConfigInv
<1> SUFFICES ASSUME ConfigInit PROVE ConfigInv
    OBVIOUS
<1>1. shell \in [key : [ProviderNames -> FieldValues], token : FieldValues]
    BY ShellIsTyped DEF ConfigInit
<1>2. PICK d \in Contents : d = Defaults
    BY DefaultsFacts
<1>3. file.state = "missing" /\ file.c = d /\ wrote = d
    BY <1>2 DEF ConfigInit, Missing
<1>4. command.at = "none" /\ command.does = "none" /\ command.c = d
      /\ command = [does |-> command.does, at |-> command.at, env |-> command.env, c |-> command.c]
    BY <1>2 DEF ConfigInit, NoCommand
<1>5. 0 \in 0 .. MaxEdits /\ 0 \in 0 .. MaxCommands
    BY ConfigAssumption
<1>6. ConfigTypes
    BY <1>1, <1>2, <1>3, <1>4, <1>5 DEF ConfigTypes, ConfigInit
<1>7. FileIsTheUsers
    BY <1>2, <1>3 DEF FileIsTheUsers, ConfigInit
<1>8. CommandIsRight
    BY <1>4 DEF CommandIsRight, ConfigInit
<1> QED
    BY <1>6, <1>7, <1>8 DEF ConfigInv

\* The content that doctor and load_config go by.
LEMMA RawFacts ==
    ASSUME ConfigInv
    PROVE  /\ Raw(file) \in Contents
           /\ file.state = "there" \/ wrote = Defaults => FileOf(wrote, Raw(file))
           /\ file.state # "there" => Loaded(file) = Defaults /\ Raw(file) = Defaults
           /\ file.state = "there" => Loaded(file) = Normalized(file.c) /\ Raw(file) = file.c
BY DEF ConfigInv, ConfigTypes, FileIsTheUsers, Raw, Loaded, FileOf

\* A user who changes one thing writes what a file may hold.
LEMMA ChangesAreContents == \A c \in Contents : OneChange(c) \subseteq Contents
<1> SUFFICES ASSUME NEW c \in Contents, NEW d \in OneChange(c) PROVE d \in Contents
    OBVIOUS
<1>1. PICK notG \in BOOLEAN, notM \in BOOLEAN : notG = ~c.on["g"] /\ notM = ~c.on["m"]
    OBVIOUS
<1>2. PICK notAlias \in BOOLEAN, notTelegram \in BOOLEAN, notLocal \in BOOLEAN :
          notAlias = ~c.aliasOn /\ notTelegram = ~c.telegram /\ notLocal = ~c.local
    OBVIOUS
<1>3. CASE d = [c EXCEPT !.on["g"] = ~@]
    <2>1. d = [c EXCEPT !.on = [c.on EXCEPT !["g"] = notG]]
        BY <1>1, <1>3 DEF Contents
    <2> QED
        BY <2>1 DEF Contents
<1>4. CASE d = [c EXCEPT !.on["m"] = ~@]
    <2>1. d = [c EXCEPT !.on = [c.on EXCEPT !["m"] = notM]]
        BY <1>1, <1>4 DEF Contents
    <2> QED
        BY <2>1 DEF Contents
<1>5. CASE d = [c EXCEPT !.aliasOn = ~@]
    <2>1. d = [c EXCEPT !.aliasOn = notAlias]
        BY <1>2, <1>5 DEF Contents
    <2> QED
        BY <2>1 DEF Contents
<1>6. CASE d = [c EXCEPT !.telegram = ~@]
    <2>1. d = [c EXCEPT !.telegram = notTelegram]
        BY <1>2, <1>6 DEF Contents
    <2> QED
        BY <2>1 DEF Contents
<1>7. CASE d = [c EXCEPT !.local = ~@]
    <2>1. d = [c EXCEPT !.local = notLocal]
        BY <1>2, <1>7 DEF Contents
    <2> QED
        BY <2>1 DEF Contents
<1>8. CASE d = [c EXCEPT !.key["g"] = "written"]
    <2>1. d = [c EXCEPT !.key = [c.key EXCEPT !["g"] = "written"]]
        BY <1>8 DEF Contents
    <2> QED
        BY <2>1, NothingIsValue DEF Contents
<1>9. CASE d = [c EXCEPT !.key["m"] = "written"]
    <2>1. d = [c EXCEPT !.key = [c.key EXCEPT !["m"] = "written"]]
        BY <1>9 DEF Contents
    <2> QED
        BY <2>1, NothingIsValue DEF Contents
<1>10. CASE d \in {[c EXCEPT !.model = "written"], [c EXCEPT !.model = ""]}
    BY <1>10, NothingIsValue DEF Contents
<1>11. CASE d \in {[c EXCEPT !.token = "written"], [c EXCEPT !.oldToken = "old"], [c EXCEPT !.oldKey = "old"]}
    BY <1>11, NothingIsValue DEF Contents
<1>12. CASE d \in {[c EXCEPT !.url = ""], [c EXCEPT !.oldUrl = "old"], [c EXCEPT !.oldEnv = "old"]}
    BY <1>12, NothingIsValue DEF Contents
<1>13. CASE d \in {[c EXCEPT !.aliasKey = "alias"], [c EXCEPT !.aliasModel = "alias"]}
    BY <1>13, NothingIsValue DEF Contents
<1> QED
    BY <1>3, <1>4, <1>5, <1>6, <1>7, <1>8, <1>9, <1>10, <1>11, <1>12, <1>13 DEF OneChange

\* The user's own steps.
LEMMA EditsKeep == ConfigInv /\ (Edits \/ Mistypes) => ConfigInv'
<1> SUFFICES ASSUME ConfigInv, Edits \/ Mistypes PROVE ConfigInv'
    OBVIOUS
<1>1. /\ command = NoCommand /\ command' = command /\ shell' = shell /\ fixed' = FALSE /\ nEdits' = nEdits + 1
      /\ nCommands' = nCommands /\ nEdits < MaxEdits
    BY DEF Edits, Mistypes
<1>2. command.at = "none"
    BY <1>1 DEF NoCommand
<1>3. PICK d \in Contents : d = Defaults
    BY DefaultsFacts
<1>4. /\ file'.state \in {"missing", "broken", "there"} /\ file'.c \in Contents /\ wrote' \in Contents
      /\ (file'.state = "there" => wrote' = file'.c) /\ (file'.state # "there" => file'.c = d /\ wrote' = d)
    <2>1. CASE Edits
        <3>1. PICK c \in OneChange(Raw(file)) : file' = [state |-> "there", c |-> c] /\ wrote' = c
            BY <2>1 DEF Edits
        <3>2. c \in Contents
            BY <3>1, RawFacts, ChangesAreContents
        <3> QED
            BY <3>1, <3>2
    <2>2. CASE Mistypes
        BY <1>3, <2>2 DEF Mistypes
    <2> QED
        BY <2>1, <2>2
<1>5. nEdits' \in 0 .. MaxEdits
    BY <1>1, ConfigAssumption DEF ConfigInv, ConfigTypes
<1>6. ConfigTypes'
    BY <1>1, <1>4, <1>5 DEF ConfigInv, ConfigTypes
<1>7. FileIsTheUsers'
    BY <1>1, <1>3, <1>4 DEF FileIsTheUsers, FileOf
<1>8. CommandIsRight'
    BY <1>1, <1>2 DEF CommandIsRight
<1> QED
    BY <1>6, <1>7, <1>8 DEF ConfigInv

\* A command starts, goes through without a save, or is killed.
LEMMA StartsKeep == ConfigInv /\ (\E does \in {"doctor", "dry", "install", "force"} : Starts(does)) => ConfigInv'
<1> SUFFICES ASSUME ConfigInv, NEW does \in {"doctor", "dry", "install", "force"}, Starts(does) PROVE ConfigInv'
    OBVIOUS
<1>1. /\ command = NoCommand /\ nCommands < MaxCommands /\ nCommands' = nCommands + 1
      /\ file' = file /\ shell' = shell /\ wrote' = wrote /\ fixed' = fixed /\ nEdits' = nEdits
    BY DEF Starts
<1>2. PICK d \in Contents : d = Defaults
    BY DefaultsFacts
<1>3. PICK e : e = IF does \in {"install", "force"} THEN ShellEnv ELSE Boot(file, ShellEnv)
    OBVIOUS
<1>4. command' = [does |-> does, at |-> "started", c |-> d, env |-> e]
    BY <1>2, <1>3 DEF Starts
<1>5. /\ command'.does = does /\ command'.at = "started" /\ command'.c = d /\ command'.env = e
      /\ command' = [does |-> command'.does, at |-> command'.at, env |-> command'.env, c |-> command'.c]
    BY <1>4
<1>6. command' # NoCommand /\ command.at = "none"
    <2>1. NoCommand.at = "none"
        BY DEF NoCommand
    <2> QED
        BY <1>1, <1>5, <2>1
<1>7. nCommands' \in 0 .. MaxCommands
    BY <1>1, ConfigAssumption DEF ConfigInv, ConfigTypes
<1>8. ConfigTypes'
    BY <1>1, <1>2, <1>5, <1>7 DEF ConfigInv, ConfigTypes
<1>9. FileIsTheUsers'
    BY <1>1, <1>5, <1>6 DEF ConfigInv, FileIsTheUsers, FileOf, Fills
<1>10. does \in {"doctor", "dry"} => e = Boot(file, ShellEnv)
    BY <1>3
<1>11. Boot(file, ShellEnv)' = Boot(file, ShellEnv)
    BY <1>1 DEF Boot, ShellEnv
<1>12. CommandIsRight'
    BY <1>5, <1>6, <1>10, <1>11 DEF CommandIsRight
<1> QED
    BY <1>8, <1>9, <1>12 DEF ConfigInv

\* What is true of a command that is at work, part by part.
LEMMA WhatIsAtWork ==
    /\ NoCommand.at = "none" /\ NoCommand.does = "none" /\ NoCommand.c = Defaults
    /\ NoCommand = [does |-> NoCommand.does, at |-> NoCommand.at, env |-> NoCommand.env, c |-> NoCommand.c]
    /\ ConfigInv /\ command.at # "none" => command # NoCommand
    BY DEF NoCommand, ConfigInv, CommandIsRight

\* Doctor without --fix writes nothing; with it, it saves what is new.
LEMMA DoctorFixesKeeps == ConfigInv /\ DoctorFixes => ConfigInv'
<1> SUFFICES ASSUME ConfigInv, DoctorFixes PROVE ConfigInv'
    OBVIOUS
<1>1. /\ command.at = "started" /\ command.does \in {"doctor", "dry"}
      /\ file' = file /\ shell' = shell /\ wrote' = wrote /\ nEdits' = nEdits /\ nCommands' = nCommands
    BY DEF DoctorFixes
<1>2. PICK c : c = Fixed(file, command.env)
    OBVIOUS
<1>3. PICK e : e = Boot(file, ShellEnv)
    OBVIOUS
<1>4. command.env = e
    BY <1>1, <1>3 DEF ConfigInv, CommandIsRight
<1>5. Raw(file) \in Contents
    BY RawFacts
<1>6. shell \in [key : [ProviderNames -> FieldValues], token : FieldValues] /\ file.c \in Contents
    BY DEF ConfigInv, ConfigTypes
<1>7. IsEnvironment(e)
    BY <1>3, <1>6, BootFacts
<1>8. c \in Contents
    BY <1>2, <1>4, <1>5, <1>7, FixedFacts DEF ProviderFixed
<1>9. CASE c # Loaded(file) /\ command.does = "doctor"
    <2>1. command' = [command EXCEPT !.at = "saving", !.c = c] /\ fixed' = fixed
        BY <1>2, <1>9 DEF DoctorFixes
    <2>2. command = [does |-> command.does, at |-> command.at, env |-> command.env, c |-> command.c]
        BY DEF ConfigInv, ConfigTypes
    <2>3. command' = [does |-> command.does, at |-> "saving", env |-> command.env, c |-> c]
        BY <2>1, <2>2
    <2>4. /\ command'.does = command.does /\ command'.at = "saving" /\ command'.c = c
          /\ command' = [does |-> command'.does, at |-> command'.at, env |-> command'.env, c |-> command'.c]
        BY <2>3
    <2>5. ConfigTypes'
        BY <1>1, <1>8, <2>1, <2>4 DEF ConfigInv, ConfigTypes
    <2>6. FileIsTheUsers'
        BY <1>1, <2>1, <2>4 DEF ConfigInv, FileIsTheUsers, FileOf, Fills
    <2>7. Fixed(file, Boot(file, ShellEnv))' = Fixed(file, Boot(file, ShellEnv))
        BY <1>1 DEF Boot, ShellEnv, Fixed, Loaded, Raw
    <2>8. c = Fixed(file, Boot(file, ShellEnv))
        BY <1>2, <1>3, <1>4
    <2>9. command' # NoCommand
        BY <2>4, WhatIsAtWork
    <2>10. CommandIsRight'
        BY <1>9, <2>4, <2>7, <2>8, <2>9 DEF CommandIsRight
    <2> QED
        BY <2>5, <2>6, <2>10 DEF ConfigInv
<1>10. CASE ~(c # Loaded(file) /\ command.does = "doctor")
    <2>1. command' = NoCommand
        BY <1>2, <1>10 DEF DoctorFixes
    <2>2. fixed' = (fixed \/ command.does = "doctor")
        BY <1>2, <1>10 DEF DoctorFixes
    <2>3. command.does = "doctor" /\ file.state = "there" => Settled(file.c)
        <3>1. ASSUME command.does = "doctor", file.state = "there" PROVE Settled(file.c)
            <4>1. Fixed(file, e) = Loaded(file)
                BY <1>2, <1>4, <1>10, <3>1
            <4>2. Settled(Raw(file))
                BY <1>5, <1>7, <4>1, UnchangedIsSettled
            <4> QED
                BY <3>1, <4>2 DEF Raw
        <3> QED
            BY <3>1
    <2>4. PICK d \in Contents : d = Defaults
        BY DefaultsFacts
    <2>5. /\ command'.does = "none" /\ command'.at = "none" /\ command'.c = d
          /\ command' = [does |-> command'.does, at |-> command'.at, env |-> command'.env, c |-> command'.c]
        BY <2>1, <2>4, WhatIsAtWork
    <2>6. fixed' \in BOOLEAN
        BY <2>2
    <2>7. ConfigTypes'
        BY <1>1, <2>4, <2>5, <2>6 DEF ConfigInv, ConfigTypes
    <2>8. Settled(file.c)' = Settled(file.c)
        BY <1>1 DEF Settled, ProviderEnabled
    <2>9. fixed' => fixed \/ command.does = "doctor"
        BY <2>2
    <2>10. FileIsTheUsers'
        <3>1. fixed' /\ file'.state = "there" => Settled(file.c)'
            BY <1>1, <2>3, <2>8, <2>9 DEF ConfigInv, FileIsTheUsers
        <3>2. file'.state = "there" => FileOf(wrote, file.c)'
            BY <1>1 DEF ConfigInv, FileIsTheUsers, FileOf, Fills
        <3> QED
            BY <1>1, <2>5, <3>1, <3>2 DEF ConfigInv, FileIsTheUsers
    <2>11. CommandIsRight'
        BY <2>1, <2>5 DEF CommandIsRight
    <2> QED
        BY <2>7, <2>10, <2>11 DEF ConfigInv
<1> QED
    BY <1>9, <1>10

\* An install is about to write the file in today's form, or the defaults.
LEMMA InstallsKeeps == ConfigInv /\ Installs => ConfigInv'
<1> SUFFICES ASSUME ConfigInv, Installs PROVE ConfigInv'
    OBVIOUS
<1>1. /\ command.at = "started" /\ command.does \in {"install", "force"} /\ fixed' = fixed
      /\ file' = file /\ shell' = shell /\ wrote' = wrote /\ nEdits' = nEdits /\ nCommands' = nCommands
    BY DEF Installs
<1>2. PICK c : c = IF command.does = "force" THEN Defaults ELSE Loaded(file)
    OBVIOUS
<1>3. command' = [command EXCEPT !.at = "saving", !.c = c]
    BY <1>2 DEF Installs
<1>4. command = [does |-> command.does, at |-> command.at, env |-> command.env, c |-> command.c]
    BY DEF ConfigInv, ConfigTypes
<1>5. command' = [does |-> command.does, at |-> "saving", env |-> command.env, c |-> c]
    BY <1>3, <1>4
<1>6. /\ command'.does = command.does /\ command'.at = "saving" /\ command'.c = c
      /\ command' = [does |-> command'.does, at |-> command'.at, env |-> command'.env, c |-> command'.c]
    BY <1>5
<1>7. Loaded(file) \in Contents
    BY RawFacts, NormalizedFacts, DefaultsFacts DEF ConfigInv, ConfigTypes
<1>8. c \in Contents
    BY <1>2, <1>7, DefaultsFacts
<1>9. ConfigTypes'
    BY <1>1, <1>6, <1>8 DEF ConfigInv, ConfigTypes
<1>10. FileIsTheUsers'
    BY <1>1, <1>6 DEF ConfigInv, FileIsTheUsers, FileOf, Fills
<1>11. Loaded(file)' = Loaded(file)
    BY <1>1 DEF Loaded
<1>12. command' # NoCommand
    BY <1>6, WhatIsAtWork
<1>13. CommandIsRight'
    BY <1>1, <1>2, <1>6, <1>11, <1>12 DEF CommandIsRight
<1> QED
    BY <1>9, <1>10, <1>13 DEF ConfigInv

\* A command that dies while it writes leaves an empty file.
LEMMA KilledKeeps == ConfigInv /\ Killed => ConfigInv'
<1> SUFFICES ASSUME ConfigInv, Killed PROVE ConfigInv'
    OBVIOUS
<1>1. /\ command' = NoCommand /\ file' = file /\ shell' = shell /\ fixed' = fixed
      /\ nEdits' = nEdits /\ nCommands' = nCommands
      /\ wrote' = IF command.at = "truncated" THEN Defaults ELSE wrote
    BY DEF Killed
<1>2. PICK d \in Contents : d = Defaults
    BY DefaultsFacts
<1>3. /\ command'.does = "none" /\ command'.at = "none" /\ command'.c = d
      /\ command' = [does |-> command'.does, at |-> command'.at, env |-> command'.env, c |-> command'.c]
    BY <1>1, <1>2, WhatIsAtWork
<1>4. wrote' \in Contents
    BY <1>1, <1>2 DEF ConfigInv, ConfigTypes
<1>5. ConfigTypes'
    BY <1>1, <1>2, <1>3, <1>4 DEF ConfigInv, ConfigTypes
<1>6. FileIsTheUsers'
    <2>1. CASE command.at = "truncated"
        <3>1. file.state = "broken" /\ ~fixed
            BY <2>1 DEF ConfigInv, CommandIsRight
        <3> QED
            BY <1>1, <2>1, <3>1 DEF ConfigInv, FileIsTheUsers
    <2>2. CASE command.at # "truncated"
        BY <1>1, <2>2 DEF ConfigInv, FileIsTheUsers, FileOf, Fills
    <2> QED
        BY <2>1, <2>2
<1>7. CommandIsRight'
    BY <1>1, <1>3 DEF CommandIsRight
<1> QED
    BY <1>5, <1>6, <1>7 DEF ConfigInv

\* The write of a command begins: the file is empty, and what the user left there is
\* nothing after install --force and has today's form after install.
LEMMA TruncatesKeeps == ConfigInv /\ Truncates => ConfigInv'
<1> SUFFICES ASSUME ConfigInv, Truncates PROVE ConfigInv'
    OBVIOUS
<1>1. PICK d \in Contents : d = Defaults
    BY DefaultsFacts
<1>2. /\ command.at = "saving" /\ command.does \in {"doctor", "install", "force"}
      /\ shell' = shell /\ nEdits' = nEdits /\ nCommands' = nCommands
      /\ file' = [state |-> "broken", c |-> d] /\ fixed' = FALSE
    BY <1>1 DEF Truncates, ConfigInv, CommandIsRight
<1>3. command' = [command EXCEPT !.at = "truncated"]
    BY DEF Truncates
<1>4. command = [does |-> command.does, at |-> command.at, env |-> command.env, c |-> command.c] /\ command.c \in Contents
    BY DEF ConfigInv, ConfigTypes
<1>5. command' = [does |-> command.does, at |-> "truncated", env |-> command.env, c |-> command.c]
    BY <1>3, <1>4
<1>6. /\ command'.does = command.does /\ command'.at = "truncated" /\ command'.c = command.c
      /\ command' = [does |-> command'.does, at |-> command'.at, env |-> command'.env, c |-> command'.c]
    BY <1>5
<1>7. /\ file.c \in Contents /\ wrote \in Contents
      /\ shell \in [key : [ProviderNames -> FieldValues], token : FieldValues]
    BY DEF ConfigInv, ConfigTypes
<1>8. PICK w \in Contents : w = wrote
    BY <1>7
<1>9. file.state \in {"broken", "missing"} => w = d
    BY <1>1, <1>2, <1>8 DEF ConfigInv, FileIsTheUsers
<1>10. PICK r \in Contents : r = Raw(file) /\ FileOf(w, r)
    BY <1>1, <1>8, <1>9, RawFacts DEF ConfigInv, ConfigTypes
<1>11. wrote' \in Contents /\ IsToday(command.c)
       /\ IF command.does = "doctor" THEN Settled(command.c) /\ Fills(Today(wrote'), command.c) ELSE FileOf(wrote', command.c)
    <2>1. CASE command.does = "doctor"
        <3>1. wrote' = w
            BY <1>2, <1>8, <2>1 DEF Truncates
        <3>2. command.c = Fixed(file, Boot(file, ShellEnv))
            BY <1>2, <2>1 DEF ConfigInv, CommandIsRight
        <3>3. file.state # "there" => file.c = Defaults
            BY DEF ConfigInv, FileIsTheUsers
        <3>4. IsToday(command.c) /\ Settled(command.c) /\ Fills(Today(w), command.c)
            BY <1>7, <1>10, <3>2, <3>3, FixedFills
        <3> QED
            BY <2>1, <3>1, <3>4
    <2>2. CASE command.does = "install"
        <3>1. wrote' = Normalized(w)
            BY <1>2, <1>8, <2>2 DEF Truncates
        <3>2. command.c = Normalized(r)
            <4>1. command.c = Loaded(file)
                BY <1>2, <2>2 DEF ConfigInv, CommandIsRight
            <4> QED
                BY <1>10, <4>1, DefaultsFacts DEF Loaded, Raw
        <3>3. Normalized(w) \in Contents /\ IsToday(Normalized(r))
            BY NormalizedFacts
        <3>4. FileOf(Normalized(w), Normalized(r))
            <4>1. CASE r = w
                BY <4>1 DEF FileOf
            <4>2. CASE IsToday(w) /\ IsToday(r) /\ Fills(w, r)
                <5>1. Normalized(w) = w /\ Normalized(r) = r
                    BY <4>2, NormalizedFacts
                <5> QED
                    BY <1>10, <5>1
            <4> QED
                BY <1>10, <4>1, <4>2 DEF FileOf
        <3> QED
            BY <2>2, <3>1, <3>2, <3>3, <3>4
    <2>3. CASE command.does = "force"
        <3>1. wrote' = d /\ command.c = d
            BY <1>1, <1>2, <2>3 DEF Truncates, ConfigInv, CommandIsRight
        <3>2. IsToday(d)
            BY <1>1, DefaultsFacts
        <3> QED
            BY <2>3, <3>1, <3>2 DEF FileOf
    <2> QED
        BY <1>2, <2>1, <2>2, <2>3
<1>12. ConfigTypes'
    BY <1>1, <1>2, <1>4, <1>6, <1>11 DEF ConfigInv, ConfigTypes
<1>13. file'.state = "broken" /\ file'.c = Defaults'
    BY <1>1, <1>2 DEF Defaults, ProviderNames
<1>14. FileIsTheUsers'
    BY <1>2, <1>6, <1>13 DEF FileIsTheUsers
<1>15. command' # NoCommand
    BY <1>6, WhatIsAtWork
<1>16. PICK v \in Contents : v = wrote'
    BY <1>11
<1>17. PICK x \in Contents : x = command.c
    BY <1>4
<1>18. IF command.does = "doctor" THEN Settled(x) /\ Fills(Today(v), x) ELSE FileOf(v, x)
    BY <1>11, <1>16, <1>17
<1>19. (IF command.does = "doctor" THEN Settled(command.c) /\ Fills(Today(wrote), command.c) ELSE FileOf(wrote, command.c))'
    <2>1. Today(wrote)' = Today(v) /\ wrote' = v /\ command.c' = x /\ command'.does = command.does /\ shell' = shell
        BY <1>2, <1>6, <1>16, <1>17
    <2>2. (Fills(Today(wrote), command.c))' = Fills(Today(v), x)
        BY <2>1 DEF Fills
    <2>3. (Settled(command.c))' = Settled(x)
        BY <2>1 DEF Settled, ProviderEnabled
    <2>4. (FileOf(wrote, command.c))' = FileOf(v, x)
        BY <2>1 DEF FileOf, Fills, IsToday
    <2> QED
        BY <1>18, <2>1, <2>2, <2>3, <2>4
<1>20. IsToday(command.c)'
    BY <1>6, <1>11 DEF IsToday
<1>21. CommandIsRight'
    BY <1>2, <1>6, <1>13, <1>15, <1>19, <1>20 DEF CommandIsRight
<1> QED
    BY <1>12, <1>14, <1>21 DEF ConfigInv

\* The write is over; after doctor what the user wrote has moved to today's fields.
LEMMA SavesKeeps == ConfigInv /\ Saves => ConfigInv'
<1> SUFFICES ASSUME ConfigInv, Saves PROVE ConfigInv'
    OBVIOUS
<1>1. /\ command.at = "truncated" /\ command.does \in {"doctor", "install", "force"}
      /\ command' = NoCommand /\ shell' = shell /\ nEdits' = nEdits /\ nCommands' = nCommands
      /\ file' = [state |-> "there", c |-> command.c]
      /\ wrote' = IF command.does = "doctor" THEN Today(wrote) ELSE wrote
    BY DEF Saves, ConfigInv, CommandIsRight
<1>2. fixed' = (command.does = "doctor")
    BY DEF Saves
<1>3. PICK x \in Contents : x = command.c
    BY DEF ConfigInv, ConfigTypes
<1>4. PICK w \in Contents : w = wrote
    BY DEF ConfigInv, ConfigTypes
<1>5. PICK d \in Contents : d = Defaults
    BY DefaultsFacts
<1>6. /\ command'.does = "none" /\ command'.at = "none" /\ command'.c = d
      /\ command' = [does |-> command'.does, at |-> command'.at, env |-> command'.env, c |-> command'.c]
    BY <1>1, <1>5, WhatIsAtWork
<1>7. /\ IsToday(x) /\ IF command.does = "doctor" THEN Settled(x) /\ Fills(Today(w), x) ELSE FileOf(w, x)
    BY <1>1, <1>3, <1>4 DEF ConfigInv, CommandIsRight
<1>8. PICK v \in Contents : v = wrote' /\ FileOf(v, x)
    <2>1. CASE command.does = "doctor"
        <3>1. Today(w) \in Contents /\ IsToday(Today(w))
            BY TodayFacts
        <3> QED
            BY <1>1, <1>4, <1>7, <2>1, <3>1 DEF FileOf
    <2>2. CASE command.does # "doctor"
        BY <1>1, <1>4, <1>7, <2>2
    <2> QED
        BY <2>1, <2>2
<1>9. fixed' \in BOOLEAN
    BY <1>2
<1>10. file'.state = "there" /\ file'.c = x
    BY <1>1, <1>3
<1>11. ConfigTypes'
    BY <1>1, <1>5, <1>6, <1>8, <1>9, <1>10 DEF ConfigInv, ConfigTypes
<1>12. FileOf(wrote, file.c)'
    BY <1>1, <1>8, <1>10 DEF FileOf, Fills
<1>13. fixed' => Settled(file.c)'
    BY <1>2, <1>7, <1>10 DEF Settled, ProviderEnabled
<1>14. FileIsTheUsers'
    BY <1>10, <1>12, <1>13 DEF FileIsTheUsers
<1>15. CommandIsRight'
    BY <1>1, <1>6 DEF CommandIsRight
<1> QED
    BY <1>11, <1>14, <1>15 DEF ConfigInv

\* No step of the user or of a command breaks the invariant.
LEMMA ConfigStep == ConfigInv /\ [ConfigNext]_configVars => ConfigInv'
<1>1. ASSUME ConfigInv, UNCHANGED configVars PROVE ConfigInv'
    <2>1. /\ file' = file /\ shell' = shell /\ command' = command /\ wrote' = wrote /\ fixed' = fixed
          /\ nEdits' = nEdits /\ nCommands' = nCommands
        BY <1>1 DEF configVars
    <2>2. ConfigTypes'
        BY <1>1, <2>1 DEF ConfigInv, ConfigTypes
    <2>3. FileIsTheUsers'
        BY <1>1, <2>1 DEF ConfigInv, FileIsTheUsers, FileOf, Fills, Settled, ProviderEnabled
    <2>4. Boot(file, ShellEnv)' = Boot(file, ShellEnv)
        BY <2>1 DEF Boot, ShellEnv
    <2>5. Fixed(file, Boot(file, ShellEnv))' = Fixed(file, Boot(file, ShellEnv)) /\ Loaded(file)' = Loaded(file)
        BY <2>1, <2>4 DEF Fixed, Loaded, Raw
    <2>6. (Fills(Today(wrote), command.c))' = Fills(Today(wrote), command.c)
        BY <2>1 DEF Fills
    <2>7. (FileOf(wrote, command.c))' = FileOf(wrote, command.c) /\ (Settled(command.c))' = Settled(command.c)
        BY <2>1 DEF FileOf, Fills, IsToday, Settled, ProviderEnabled
    <2>8. CommandIsRight'
        BY <1>1, <2>1, <2>4, <2>5, <2>6, <2>7 DEF ConfigInv, CommandIsRight, IsToday
    <2> QED
        BY <2>2, <2>3, <2>8 DEF ConfigInv
<1> QED
    BY <1>1, EditsKeep, StartsKeep, DoctorFixesKeeps, InstallsKeeps, TruncatesKeeps, SavesKeeps, KilledKeeps DEF ConfigNext

-----------------------------------------------------------------------------

\* What the file says answers to what the user wrote.
LEMMA UserValuesFollow == ConfigInv => UserValuesStay
<1> SUFFICES ASSUME ConfigInv, file.state = "there" PROVE UserValuesStay
    BY DEF UserValuesStay
<1>1. PICK w \in Contents : w = wrote
    BY DEF ConfigInv, ConfigTypes
<1>2. PICK r \in Contents : r = file.c
    BY DEF ConfigInv, ConfigTypes
<1>3. FileOf(w, r)
    BY <1>1, <1>2 DEF ConfigInv, FileIsTheUsers
<1>4. Fills(Today(w), Today(r))
    BY <1>3, FileSaysWhatWasWritten
<1>5. /\ Today(w).key["g"] = KeyOf(w, "g") /\ Today(w).key["m"] = KeyOf(w, "m") /\ Today(w).on["g"] = IsOn(w, "g")
      /\ Today(w).on["m"] = IsOn(w, "m") /\ Today(w).model = ModelOf(w)
      /\ Today(w).token = TokenOf(w) /\ Today(w).url = UrlOf(w)
      /\ Today(w).telegram = w.telegram /\ Today(w).local = w.local
    BY TodayFacts DEF KeyOf, IsOn, ModelOf, TokenOf, UrlOf
<1>6. /\ Today(r).key["g"] = KeyOf(r, "g") /\ Today(r).key["m"] = KeyOf(r, "m") /\ Today(r).on["g"] = IsOn(r, "g")
      /\ Today(r).on["m"] = IsOn(r, "m") /\ Today(r).model = ModelOf(r)
      /\ Today(r).token = TokenOf(r) /\ Today(r).url = UrlOf(r)
      /\ Today(r).telegram = r.telegram /\ Today(r).local = r.local
    BY TodayFacts DEF KeyOf, IsOn, ModelOf, TokenOf, UrlOf
<1>7. \A p \in ProviderNames : KeyOf(w, p) # "" => KeyOf(r, p) = KeyOf(w, p)
    BY <1>4, <1>5, <1>6 DEF Fills, ProviderNames
<1>8. \A p \in ProviderNames : IsOn(w, p) => IsOn(r, p)
    BY <1>4, <1>5, <1>6 DEF Fills, ProviderNames
<1>9. (TokenOf(w) # "" => TokenOf(r) = TokenOf(w)) /\ r.telegram = w.telegram /\ (w.local => r.local)
    BY <1>4, <1>5, <1>6 DEF Fills
<1>10. (ModelOf(w) # "" => ModelOf(r) = ModelOf(w)) /\ (UrlOf(w) # "" => UrlOf(r) = UrlOf(w))
    BY <1>4, <1>5, <1>6 DEF Fills
<1> QED
    BY <1>1, <1>2, <1>7, <1>8, <1>9, <1>10 DEF UserValuesStay

\* After doctor --fix a process has what the user meant.
LEMMA FixedMeans == ConfigInv => FixedConfigRuns
<1> SUFFICES ASSUME ConfigInv, fixed PROVE FixedConfigRuns
    BY DEF FixedConfigRuns
<1>1. PICK env : env = Boot(file, ShellEnv)
    OBVIOUS
<1>2. Boot(file, env) = env
    BY <1>1, BootTwice
<1>3. PICK w \in Contents : w = wrote
    BY DEF ConfigInv, ConfigTypes
<1>4. PICK meant \in ProviderNames : meant = IF ~IsOn(w, "g") /\ IsOn(w, "m") THEN "m" ELSE "g"
    BY DEF ProviderNames
<1>5. CASE file.state # "there"
    <2>1. w = Defaults
        BY <1>3, <1>5 DEF ConfigInv, FileIsTheUsers, CommandIsRight
    <2>2. env = ShellEnv
        BY <1>1, <1>5 DEF Boot
    <2>3. w.on["g"] = TRUE /\ w.key["g"] = "" /\ w.telegram = FALSE
        BY <2>1 DEF Defaults, ProviderNames
    <2>4. IsOn(w, "g") /\ KeyOf(w, "g") = ""
        BY <2>3 DEF IsOn, KeyOf
    <2>5. meant = "g"
        BY <1>4, <2>4
    <2>6. env.enabled /\ env.provider = "g" /\ env.key = shell.key
        BY <2>2 DEF ShellEnv
    <2>7. env.key[meant] = Or(KeyOf(w, meant), shell.key[meant])
        BY <2>4, <2>5, <2>6 DEF Or
    <2> QED
        BY <1>1, <1>2, <1>3, <1>4, <2>3, <2>5, <2>6, <2>7 DEF FixedConfigRuns
<1>6. CASE file.state = "there"
    <2>1. PICK r \in Contents : r = file.c
        BY DEF ConfigInv, ConfigTypes
    <2>2. FileOf(w, r) /\ Settled(r)
        BY <1>3, <1>6, <2>1 DEF ConfigInv, FileIsTheUsers
    <2>3. Fills(Today(w), Today(r))
        BY <2>2, FileSaysWhatWasWritten
    <2>4. /\ Today(w).key["g"] = KeyOf(w, "g") /\ Today(w).key["m"] = KeyOf(w, "m") /\ Today(w).on["g"] = IsOn(w, "g")
          /\ Today(w).on["m"] = IsOn(w, "m") /\ Today(w).telegram = w.telegram
        BY TodayFacts DEF KeyOf, IsOn
    <2>5. /\ Today(r).key["g"] = KeyOf(r, "g") /\ Today(r).key["m"] = KeyOf(r, "m") /\ Today(r).on["g"] = IsOn(r, "g")
          /\ Today(r).on["m"] = IsOn(r, "m") /\ Today(r).telegram = r.telegram
        BY TodayFacts DEF KeyOf, IsOn
    <2>6. KeyOf(r, "g") = r.key["g"] /\ KeyOf(r, "m") = r.key["m"]
        BY <2>2 DEF Settled, KeyOf, Or
    <2>7. IsOn(r, "g") = r.on["g"] /\ IsOn(r, "m") = r.on["m"]
        <3>1. r.on["m"] \in BOOLEAN /\ r.aliasOn \in BOOLEAN
            BY DEF Contents, ProviderNames
        <3> QED
            BY <2>2, <3>1 DEF Settled, IsOn
    <2>8. /\ env.provider = ActiveProvider(r) /\ env.enabled = ProviderEnabled(r) /\ env.channels = EnabledChannels(r)
          /\ \A p \in ProviderNames : env.key[p] =
                IF ProviderEnabled(r) /\ p = ActiveProvider(r)
                THEN (IF r.key[p] = "" THEN shell.key[p] ELSE r.key[p]) ELSE ""
        <3>1. file.state = "there" => file.c \in Contents
            BY <2>1
        <3>2. shell \in [key : [ProviderNames -> FieldValues], token : FieldValues]
            BY DEF ConfigInv, ConfigTypes
        <3> QED
            BY <1>1, <1>6, <2>1, <3>1, <3>2, BootFacts
    <2>9. ActiveProvider(r) = meant
        <3>1. r.on["m"] = IsOn(w, "m") /\ (IsOn(w, "g") => r.on["g"]) /\ (r.on["g"] /\ ~IsOn(w, "g") => ~IsOn(w, "m"))
            BY <2>3, <2>4, <2>5, <2>7 DEF Fills
        <3> QED
            BY <1>4, <3>1 DEF ActiveProvider
    <2>10. IF KeyOf(w, meant) # "" THEN r.key[meant] = KeyOf(w, meant) ELSE r.key[meant] \in {"", shell.key[meant]}
        BY <2>3, <2>4, <2>5, <2>6 DEF Fills, ProviderNames
    <2>11. env.key[meant] = Or(KeyOf(w, meant), shell.key[meant])
        BY <2>2, <2>8, <2>9, <2>10 DEF Settled, Or
    <2>12. r.telegram = w.telegram
        BY <2>3, <2>4, <2>5 DEF Fills
    <2>13. w.telegram => "telegram" \in env.channels
        BY <2>8, <2>12 DEF EnabledChannels
    <2>14. env.enabled
        BY <2>2, <2>8 DEF Settled
    <2> QED
        BY <1>1, <1>2, <1>3, <1>4, <2>8, <2>9, <2>11, <2>13, <2>14 DEF FixedConfigRuns
<1> QED
    BY <1>5, <1>6

\* Fixes and refreshes of config.json replace nothing that the user wrote, a value of an
\* older release is moved where its field of today is empty (a field with a default
\* seldom is, see LegacyFieldsMove), and after a doctor --fix that has gone through the
\* next process runs the provider the user meant.
THEOREM ConfigIsKept == ConfigSpec => []ConfigKept
<1>1. ConfigInv => ConfigKept
    <2>1. ASSUME ConfigInv PROVE ConfigTypeOK
        <3>1. \A c \in Contents : DOMAIN c = DOMAIN Defaults
            BY DEF Contents, Defaults
        <3> QED
            BY <2>1, <3>1 DEF ConfigInv, ConfigTypes, ConfigTypeOK
    <2> QED
        BY <2>1, UserValuesFollow, FixedMeans DEF ConfigKept
<1> QED
    BY <1>1, ConfigStarts, ConfigStep, PTL DEF ConfigSpec

-----------------------------------------------------------------------------
(* The GUI tools *)

\* A step of a task.
TaskSteps == [type : {"note", "execute"}, text : Texts \cup {"none"}, changed : BOOLEAN, retries : Nat]

GuiTypes ==
    /\ gui \in {"idle", "plan", "ground", "perform", "verify"}
    /\ isTask \in BOOLEAN /\ dryRun \in BOOLEAN /\ again \in BOOLEAN
    /\ step \in Nat /\ attempts \in Nat /\ retries \in Nat /\ acts \in Nat
    /\ text \in Texts \cup {"none"} /\ history \in Seq(TaskSteps)

Returned == outcome \in {"completed", "failed", "no_progress", "max_steps"}

\* How often the action at work was performed.
AtWork == IF gui = "verify" THEN retries + 1 ELSE IF gui \in {"ground", "perform"} THEN retries ELSE 0

\* While a task runs and when it has returned, what was performed is in the history or at work.
ActsAreNoted ==
    /\ IsFiniteSet(Reported(history))
    /\ gui # "idle" \/ Returned => acts = IF dryRun THEN 0 ELSE Cardinality(Reported(history)) + AtWork

\* Some step of n from the i-th is no execution or has changed the screen, or one is no
\* execution or two differ.
SomeChange(h, i, n) == \E j \in i .. i + n - 1 : h[j].type # "execute" \/ h[j].changed
Differs(h, i, n) ==
    \/ \E j \in i .. i + n - 1 : h[j].type # "execute"
    \/ \E j, k \in i .. i + n - 1 : h[j].text # h[k].text

\* The guards stay silent up to the m-th step.
Moves(h, m) ==
    \A i \in 1 .. m : /\ i + MaxNoProgress - 1 <= m => SomeChange(h, i, MaxNoProgress)
                      /\ i + MaxRepeats - 1 <= m => Differs(h, i, MaxRepeats)

GuiInv ==
    /\ GuiTypes /\ ActsAreNoted
    /\ (gui = "plan" => isTask) /\ (gui # "idle" => outcome = "none")
    /\ dryRun => retries = 0 /\ gui # "perform"
    /\ Moves(history, Len(history) - 1)
    /\ gui # "idle" => Moves(history, Len(history))

\* A step adds to what a history says was performed: nothing, or itself and its retries.
LEMMA ReportGrows ==
    ASSUME NEW h \in Seq(TaskSteps), IsFiniteSet(Reported(h)), NEW e \in TaskSteps
    PROVE  /\ IsFiniteSet(Reported(Append(h, e)))
           /\ Cardinality(Reported(Append(h, e))) =
                 Cardinality(Reported(h)) + IF e.type = "execute" THEN e.retries + 1 ELSE 0
<1>1. PICK n \in Nat : n = Len(h) /\ DOMAIN h = 1 .. n
    OBVIOUS
<1>2. PICK g : g = Append(h, e)
    OBVIOUS
<1>3. g \in Seq(TaskSteps) /\ DOMAIN g = 1 .. n + 1 /\ g[n + 1] = e /\ \A i \in 1 .. n : g[i] = h[i]
    BY <1>1, <1>2
<1>4. PICK new : new = IF e.type = "execute" THEN {n + 1} \X (0 .. e.retries) ELSE {}
    OBVIOUS
<1>5. Executed(g) = Executed(h) \cup (IF e.type = "execute" THEN {n + 1} ELSE {})
    BY <1>1, <1>3 DEF Executed
<1>6. ASSUME NEW x PROVE x \in Reported(g) <=> x \in Reported(h) \cup new
    <2>1. x \in Reported(g) <=> \E i \in Executed(g) : x \in {i} \X (0 .. g[i].retries)
        BY DEF Reported
    <2>2. x \in Reported(h) <=> \E i \in Executed(h) : x \in {i} \X (0 .. h[i].retries)
        BY DEF Reported
    <2>3. Executed(h) \subseteq 1 .. n
        BY <1>1 DEF Executed
    <2>4. \A i \in Executed(h) : g[i] = h[i]
        BY <1>3, <2>3
    <2> QED
        BY <1>3, <1>4, <1>5, <2>1, <2>2, <2>4
<1>7. Reported(g) = Reported(h) \cup new
    BY <1>6
<1>8. Reported(h) \cap new = {}
    <2>1. ASSUME NEW x \in Reported(h) PROVE x \notin new
        <3>1. PICK i \in Executed(h) : x \in {i} \X (0 .. h[i].retries)
            BY DEF Reported
        <3>2. i \in 1 .. n
            BY <1>1 DEF Executed
        <3>3. x[1] = i
            BY <3>1
        <3>4. x \in new => x[1] = n + 1
            BY <1>4
        <3> QED
            BY <3>2, <3>3, <3>4
    <2> QED
        BY <2>1
<1>9. IsFiniteSet(new) /\ Cardinality(new) = IF e.type = "execute" THEN e.retries + 1 ELSE 0
    <2>1. CASE e.type = "execute"
        <3>1. PICK k \in Nat : k = e.retries
            BY DEF TaskSteps
        <3>2. 0 \in Int /\ k \in Int
            OBVIOUS
        <3>3. IsFiniteSet(0 .. k) /\ Cardinality(0 .. k) = IF 0 > k THEN 0 ELSE k - 0 + 1
            BY <3>2, FS_Interval
        <3>4. IsFiniteSet({n + 1}) /\ Cardinality({n + 1}) = 1
            BY FS_Singleton
        <3>5. IsFiniteSet({n + 1} \X (0 .. k)) /\ Cardinality({n + 1} \X (0 .. k)) = 1 * (k + 1)
            <4>1. Cardinality(0 .. k) = k + 1
                BY <3>3
            <4>2. PICK A : A = {n + 1}
                OBVIOUS
            <4>3. PICK B : B = 0 .. k
                OBVIOUS
            <4>4. IsFiniteSet(A \X B) /\ Cardinality(A \X B) = Cardinality(A) * Cardinality(B)
                BY <3>3, <3>4, <4>2, <4>3, FS_Product
            <4> QED
                BY <3>4, <4>1, <4>2, <4>3, <4>4
        <3> QED
            BY <1>4, <2>1, <3>1, <3>5
    <2>2. CASE e.type # "execute"
        BY <1>4, <2>2, FS_EmptySet
    <2> QED
        BY <2>1, <2>2
<1>10. IsFiniteSet(Reported(g)) /\ Cardinality(Reported(g)) = Cardinality(Reported(h)) + Cardinality(new) - Cardinality({})
    BY <1>7, <1>8, <1>9, FS_Union
<1>11. Cardinality({}) = 0
    BY FS_EmptySet
<1>12. Cardinality(Reported(h)) \in Nat
    BY FS_CardinalityType
<1>13. e.type = "execute" => e.retries \in Nat
    BY DEF TaskSteps
<1>14. Cardinality(Reported(g)) = Cardinality(Reported(h)) + Cardinality(new)
    <2>1. PICK a \in Nat : a = Cardinality(Reported(h))
        BY <1>12
    <2>2. PICK b \in Nat : b = Cardinality(new)
        BY <1>9, FS_CardinalityType
    <2> QED
        BY <1>10, <1>11, <2>1, <2>2
<1> QED
    BY <1>2, <1>9, <1>10, <1>14

\* Nothing was performed when nothing was done.
LEMMA NothingReported == IsFiniteSet(Reported(<<>>)) /\ Cardinality(Reported(<<>>)) = 0
<1>1. Executed(<<>>) = {}
    BY DEF Executed
<1>2. Reported(<<>>) = {}
    BY <1>1 DEF Reported
<1> QED
    BY <1>2, FS_EmptySet

\* The numbers of the guards.
LEMMA GuardsAreNumbers ==
    /\ MaxSteps \in Nat \ {0} /\ MaxNoProgress \in Nat \ {0} /\ MaxRepeats \in Nat \ {0}
    /\ MaxParseRetries \in Nat /\ MaxActionRetries \in Nat
    BY GuiAssumption

\* What held of the steps before holds of them after one more.
LEMMA MovesOnward ==
    ASSUME NEW h \in Seq(TaskSteps), NEW e \in TaskSteps, Moves(h, Len(h))
    PROVE  Moves(Append(h, e), Len(h))
<1>1. PICK n \in Nat : n = Len(h) /\ DOMAIN h = 1 .. n
    OBVIOUS
<1>2. PICK g : g = Append(h, e)
    OBVIOUS
<1>3. \A i \in 1 .. n : g[i] = h[i]
    BY <1>1, <1>2
<1>4. PICK a \in Nat \ {0} : a = MaxNoProgress
    BY GuardsAreNumbers
<1>5. PICK b \in Nat \ {0} : b = MaxRepeats
    BY GuardsAreNumbers
<1>6. ASSUME NEW i \in 1 .. n, i + a - 1 <= n PROVE SomeChange(g, i, a)
    <2>1. SomeChange(h, i, a)
        BY <1>1, <1>4, <1>6 DEF Moves
    <2>2. \A j \in i .. i + a - 1 : g[j] = h[j]
        BY <1>3, <1>6
    <2> QED
        BY <2>1, <2>2 DEF SomeChange
<1>7. ASSUME NEW i \in 1 .. n, i + b - 1 <= n PROVE Differs(g, i, b)
    <2>1. Differs(h, i, b)
        BY <1>1, <1>5, <1>7 DEF Moves
    <2>2. \A j \in i .. i + b - 1 : g[j] = h[j]
        BY <1>3, <1>7
    <2> QED
        BY <2>1, <2>2 DEF Differs
<1> QED
    BY <1>1, <1>2, <1>4, <1>5, <1>6, <1>7 DEF Moves

\* A note starts the counting afresh.
LEMMA NotesMove ==
    ASSUME NEW h \in Seq(TaskSteps), NEW e \in TaskSteps, Moves(h, Len(h)), e.type = "note"
    PROVE  Moves(Append(h, e), Len(h) + 1)
<1>1. PICK n \in Nat : n = Len(h)
    OBVIOUS
<1>2. PICK g : g = Append(h, e)
    OBVIOUS
<1>3. Moves(g, n) /\ g[n + 1].type = "note"
    BY <1>1, <1>2, MovesOnward
<1>4. PICK a \in Nat \ {0} : a = MaxNoProgress
    BY GuardsAreNumbers
<1>5. PICK b \in Nat \ {0} : b = MaxRepeats
    BY GuardsAreNumbers
<1>6. ASSUME NEW i \in 1 .. n + 1, i + a - 1 <= n + 1 PROVE SomeChange(g, i, a)
    <2>1. CASE i + a - 1 <= n
        BY <1>3, <1>4, <2>1 DEF Moves
    <2>2. CASE i + a - 1 = n + 1
        BY <1>3, <2>2 DEF SomeChange
    <2> QED
        BY <1>6, <2>1, <2>2
<1>7. ASSUME NEW i \in 1 .. n + 1, i + b - 1 <= n + 1 PROVE Differs(g, i, b)
    <2>1. CASE i + b - 1 <= n
        BY <1>3, <1>5, <2>1 DEF Moves
    <2>2. CASE i + b - 1 = n + 1
        BY <1>3, <2>2 DEF Differs
    <2> QED
        BY <1>7, <2>1, <2>2
<1> QED
    BY <1>1, <1>2, <1>4, <1>5, <1>6, <1>7 DEF Moves

\* A trail is as long as any run of steps at the end.
UnchangedTrail(h) == {k \in 1 .. Len(h) : \A i \in Len(h) - k + 1 .. Len(h) : h[i].type = "execute" /\ ~h[i].changed}
SameTrail(h, t) == {k \in 1 .. Len(h) : \A i \in Len(h) - k + 1 .. Len(h) : h[i].type = "execute" /\ h[i].text = t}

\* Neither guard stops a task whose last steps differ and change something.
LEMMA GuardsCount ==
    ASSUME NEW h \in Seq(TaskSteps), NEW t, ~Stalled(h, t)
    PROVE  MaxNoProgress \notin UnchangedTrail(h) /\ MaxRepeats \notin SameTrail(h, t)
<1>1. PICK n \in Nat : n = Len(h)
    OBVIOUS
<1>2. Stalled(h, t) <=> \/ Max({0} \cup UnchangedTrail(h)) >= MaxNoProgress
                        \/ Max({0} \cup SameTrail(h, t)) >= MaxRepeats
    BY DEF Stalled, TrailOf, UnchangedTrail, SameTrail
<1>3. ASSUME NEW S \in SUBSET (1 .. n), NEW k \in S PROVE k <= Max({0} \cup S) /\ Max({0} \cup S) \in Nat
    <2>1. {0} \cup S \in SUBSET (0 .. n) /\ {0} \cup S \in SUBSET Nat /\ {0} \cup S # {}
        BY <1>3
    <2>2. 0 \in Int /\ n \in Int
        OBVIOUS
    <2>3. IsFiniteSet(0 .. n)
        BY <2>2, FS_Interval
    <2>4. IsFiniteSet({0} \cup S)
        BY <2>1, <2>3, FS_Subset
    <2>5. Max({0} \cup S) \in {0} \cup S /\ \A x \in {0} \cup S : x <= Max({0} \cup S)
        BY <2>1, <2>4, GreatestOf
    <2> QED
        BY <2>1, <2>5
<1>4. UnchangedTrail(h) \in SUBSET (1 .. n) /\ SameTrail(h, t) \in SUBSET (1 .. n)
    BY <1>1 DEF UnchangedTrail, SameTrail
<1>5. ASSUME MaxNoProgress \in UnchangedTrail(h) PROVE FALSE
    <2>1. MaxNoProgress <= Max({0} \cup UnchangedTrail(h)) /\ Max({0} \cup UnchangedTrail(h)) \in Nat
        BY <1>3, <1>4, <1>5
    <2> QED
        BY <1>2, <2>1, GuardsAreNumbers
<1>6. ASSUME MaxRepeats \in SameTrail(h, t) PROVE FALSE
    <2>1. MaxRepeats <= Max({0} \cup SameTrail(h, t)) /\ Max({0} \cup SameTrail(h, t)) \in Nat
        BY <1>3, <1>4, <1>6
    <2> QED
        BY <1>2, <2>1, GuardsAreNumbers
<1> QED
    BY <1>5, <1>6

\* An executed step after which no guard stops the task.
LEMMA StepsMove ==
    ASSUME NEW h \in Seq(TaskSteps), NEW e \in TaskSteps, Moves(h, Len(h)), ~Stalled(Append(h, e), e.text)
    PROVE  Moves(Append(h, e), Len(h) + 1)
<1>1. PICK n \in Nat : n = Len(h)
    OBVIOUS
<1>2. PICK g : g = Append(h, e)
    OBVIOUS
<1>3. Moves(g, n) /\ g \in Seq(TaskSteps) /\ g[n + 1] = e /\ Len(g) = n + 1
    <2>1. Moves(g, n)
        BY <1>1, <1>2, MovesOnward
    <2>2. g \in Seq(TaskSteps) /\ g[n + 1] = e /\ Len(g) = n + 1
        BY <1>1, <1>2
    <2> QED
        BY <2>1, <2>2
<1>4. PICK a \in Nat \ {0} : a = MaxNoProgress
    BY GuardsAreNumbers
<1>5. PICK b \in Nat \ {0} : b = MaxRepeats
    BY GuardsAreNumbers
<1>6. a \notin UnchangedTrail(g) /\ b \notin SameTrail(g, e.text)
    BY <1>2, <1>3, <1>4, <1>5, GuardsCount
<1>7. \A i \in 1 .. n + 1 : g[i] \in TaskSteps
    BY <1>3
<1>8. ASSUME NEW i \in 1 .. n + 1, i + a - 1 <= n + 1 PROVE SomeChange(g, i, a)
    <2>1. CASE i + a - 1 <= n
        BY <1>3, <1>4, <2>1 DEF Moves
    <2>2. CASE i + a - 1 = n + 1
        <3>1. a \in 1 .. n + 1 /\ n + 1 - a + 1 = i
            BY <2>2
        <3>2. PICK j \in i .. n + 1 : ~(g[j].type = "execute" /\ ~g[j].changed)
            BY <1>3, <1>6, <3>1 DEF UnchangedTrail
        <3> QED
            BY <2>2, <3>2 DEF SomeChange
    <2> QED
        BY <1>8, <2>1, <2>2
<1>9. ASSUME NEW i \in 1 .. n + 1, i + b - 1 <= n + 1 PROVE Differs(g, i, b)
    <2>1. CASE i + b - 1 <= n
        BY <1>3, <1>5, <2>1 DEF Moves
    <2>2. CASE i + b - 1 = n + 1
        <3>1. b \in 1 .. n + 1 /\ n + 1 - b + 1 = i
            BY <2>2
        <3>2. PICK j \in i .. n + 1 : ~(g[j].type = "execute" /\ g[j].text = e.text)
            BY <1>3, <1>6, <3>1 DEF SameTrail
        <3>3. n + 1 \in i .. n + 1
            BY <3>1
        <3>4. g[j].type # "execute" \/ g[j].text # g[n + 1].text
            BY <1>3, <3>2
        <3> QED
            BY <2>2, <3>2, <3>3, <3>4 DEF Differs
    <2> QED
        BY <1>9, <2>1, <2>2
<1> QED
    BY <1>1, <1>2, <1>4, <1>5, <1>8, <1>9 DEF Moves

\* A call or a step of the planner, the executor or the guards keeps the invariant.
LEMMA GuiStarts == GuiInit => GuiInv
<1> SUFFICES ASSUME GuiInit PROVE GuiInv
    OBVIOUS
<1>1. /\ gui = "idle" /\ isTask = FALSE /\ dryRun = FALSE /\ step = 1 /\ attempts = 0 /\ retries = 0
      /\ text = "none" /\ again = FALSE /\ history = <<>> /\ outcome = "none" /\ acts = 0
    BY DEF GuiInit
<1>2. GuiTypes
    <2>1. isTask \in BOOLEAN /\ dryRun \in BOOLEAN /\ again \in BOOLEAN
        BY <1>1
    <2>2. history \in Seq(TaskSteps)
        BY <1>1
    <2>3. step \in Nat /\ attempts \in Nat /\ retries \in Nat /\ acts \in Nat /\ text \in Texts \cup {"none"}
        BY <1>1
    <2> QED
        BY <1>1, <2>1, <2>2, <2>3 DEF GuiTypes
<1>3. ActsAreNoted
    BY <1>1, NothingReported DEF ActsAreNoted, Returned
<1>4. Moves(history, Len(history) - 1)
    BY <1>1 DEF Moves
<1> QED
    BY <1>1, <1>2, <1>3, <1>4 DEF GuiInv

\* A call begins with nothing performed.
LEMMA StartGuiKeeps ==
    ASSUME NEW t \in Texts \cup {"none"}, NEW dry \in BOOLEAN
    PROVE  GuiInv /\ StartGui(t, dry) => GuiInv'
<1> SUFFICES ASSUME GuiInv, StartGui(t, dry) PROVE GuiInv'
    OBVIOUS
<1>1. /\ isTask' = (t = "none") /\ dryRun' = dry /\ text' = t
      /\ gui' = IF t = "none" THEN "plan" ELSE "ground"
      /\ step' = 1 /\ attempts' = 0 /\ retries' = 0 /\ again' = FALSE
      /\ history' = <<>> /\ outcome' = "none" /\ acts' = 0
    BY DEF StartGui
<1>2. isTask' \in BOOLEAN /\ gui' \in {"plan", "ground"}
    BY <1>1
<1>3. GuiTypes'
    <2>1. dryRun' \in BOOLEAN /\ again' \in BOOLEAN
        BY <1>1
    <2>2. history' \in Seq(TaskSteps)
        BY <1>1
    <2>3. step' \in Nat /\ attempts' \in Nat /\ retries' \in Nat /\ acts' \in Nat /\ text' \in Texts \cup {"none"}
        BY <1>1
    <2> QED
        BY <1>2, <2>1, <2>2, <2>3 DEF GuiTypes
<1>4. Reported(history)' = Reported(<<>>)
    BY <1>1
<1>5. AtWork' = 0
    BY <1>1, <1>2 DEF AtWork
<1>6. ActsAreNoted'
    BY <1>1, <1>4, <1>5, NothingReported DEF ActsAreNoted
<1>7. Moves(history, Len(history) - 1)' /\ Moves(history, Len(history))'
    BY <1>1 DEF Moves
<1> QED
    BY <1>1, <1>2, <1>3, <1>6, <1>7 DEF GuiInv

\* What is said of the history stays when the history does.
LEMMA HistoryStays ==
    ASSUME GuiInv, history' = history
    PROVE  /\ Reported(history)' = Reported(history)
           /\ Moves(history, Len(history) - 1)'
           /\ gui # "idle" => Moves(history, Len(history))'
<1>1. Reported(history)' = Reported(history)
    BY DEF Reported, Executed
<1>2. Moves(history, Len(history) - 1)' = Moves(history, Len(history) - 1)
    BY DEF Moves, SomeChange, Differs
<1>3. Moves(history, Len(history))' = Moves(history, Len(history))
    BY DEF Moves, SomeChange, Differs
<1> QED
    BY <1>1, <1>2, <1>3 DEF GuiInv

\* Steps that leave the history alone: an error, an answer that is not understood, the
\* planner's last word or its next action, the grounding, and the action itself.
LEMMA QuietStepsKeep ==
    GuiInv /\ (Raises \/ NotUnderstood \/ PlanEnds \/ Grounds \/ Performs \/ \E t \in Texts : PlanExecutes(t)) => GuiInv'
<1>1. ASSUME GuiInv, Raises PROVE GuiInv'
    <2>1. /\ gui' = "idle" /\ outcome' = "raised" /\ isTask' = isTask /\ dryRun' = dryRun /\ step' = step
          /\ attempts' = attempts /\ retries' = retries /\ text' = text /\ again' = again
          /\ history' = history /\ acts' = acts
        BY <1>1 DEF Raises, Ends
    <2>2. GuiTypes'
        BY <1>1, <2>1 DEF GuiInv, GuiTypes
    <2>3. ActsAreNoted'
        BY <1>1, <2>1, HistoryStays DEF GuiInv, ActsAreNoted, Returned
    <2> QED
        BY <1>1, <2>1, <2>2, <2>3, HistoryStays DEF GuiInv
<1>2. ASSUME GuiInv, NotUnderstood PROVE GuiInv'
    <2>1. /\ gui \in {"plan", "ground"} /\ isTask' = isTask /\ dryRun' = dryRun /\ step' = step
          /\ attempts' = attempts + 1 /\ retries' = retries /\ text' = text /\ again' = again
          /\ history' = history /\ acts' = acts
          /\ \/ gui' = "idle" /\ outcome' = "raised"
             \/ gui' = gui /\ outcome' = outcome
        BY <1>2 DEF NotUnderstood, Ends
    <2>2. GuiTypes'
        BY <1>2, <2>1 DEF GuiInv, GuiTypes
    <2>3. ActsAreNoted'
        BY <1>2, <2>1, HistoryStays DEF GuiInv, ActsAreNoted, Returned, AtWork
    <2> QED
        BY <1>2, <2>1, <2>2, <2>3, HistoryStays DEF GuiInv
<1>3. ASSUME GuiInv, PlanEnds PROVE GuiInv'
    <2>1. /\ gui = "plan" /\ gui' = "idle" /\ isTask' = isTask /\ dryRun' = dryRun /\ step' = step
          /\ attempts' = attempts /\ retries' = retries /\ text' = text /\ again' = again
          /\ history' = history /\ acts' = acts
        BY <1>3 DEF PlanEnds, Ends
    <2>2. GuiTypes'
        BY <1>3, <2>1 DEF GuiInv, GuiTypes
    <2>3. ActsAreNoted'
        BY <1>3, <2>1, HistoryStays DEF GuiInv, ActsAreNoted, AtWork
    <2> QED
        BY <1>3, <2>1, <2>2, <2>3, HistoryStays DEF GuiInv
<1>4. ASSUME GuiInv, Grounds PROVE GuiInv'
    <2>1. /\ gui = "ground" /\ gui' = (IF dryRun THEN "verify" ELSE "perform") /\ again' \in BOOLEAN
          /\ isTask' = isTask /\ dryRun' = dryRun /\ step' = step /\ attempts' = attempts /\ retries' = retries
          /\ text' = text /\ history' = history /\ outcome' = outcome /\ acts' = acts
        BY <1>4 DEF Grounds
    <2>2. gui' \in {"verify", "perform"}
        BY <2>1
    <2>3. GuiTypes'
        BY <1>4, <2>1, <2>2 DEF GuiInv, GuiTypes
    <2>4. ActsAreNoted'
        BY <1>4, <2>1, HistoryStays DEF GuiInv, ActsAreNoted, AtWork
    <2> QED
        BY <1>4, <2>1, <2>2, <2>3, <2>4, HistoryStays DEF GuiInv
<1>5. ASSUME GuiInv, Performs PROVE GuiInv'
    <2>1. /\ gui = "perform" /\ gui' = "verify" /\ acts' = acts + 1 /\ again' = again
          /\ isTask' = isTask /\ dryRun' = dryRun /\ step' = step /\ attempts' = attempts /\ retries' = retries
          /\ text' = text /\ history' = history /\ outcome' = outcome
        BY <1>5 DEF Performs
    <2>2. GuiTypes'
        BY <1>5, <2>1 DEF GuiInv, GuiTypes
    <2>3. PICK m \in Nat : m = Cardinality(Reported(history))
        BY <1>5, FS_CardinalityType DEF GuiInv, ActsAreNoted
    <2>4. retries \in Nat
        BY <1>5 DEF GuiInv, GuiTypes
    <2>5. ~dryRun
        BY <1>5, <2>1 DEF GuiInv
    <2>6. acts = m + retries /\ IsFiniteSet(Reported(history))
        BY <1>5, <2>1, <2>3, <2>5 DEF GuiInv, ActsAreNoted, AtWork
    <2>7. Reported(history)' = Reported(history)
        BY <1>5, <2>1, HistoryStays
    <2>8. AtWork' = retries + 1
        BY <2>1 DEF AtWork
    <2>9. acts' = m + (retries + 1)
        BY <2>1, <2>3, <2>4, <2>6
    <2>10. ActsAreNoted'
        BY <2>1, <2>3, <2>5, <2>6, <2>7, <2>8, <2>9 DEF ActsAreNoted
    <2> QED
        BY <1>5, <2>1, <2>2, <2>5, <2>10, HistoryStays DEF GuiInv
<1>6. ASSUME GuiInv, NEW t \in Texts, PlanExecutes(t) PROVE GuiInv'
    <2>1. /\ gui = "plan" /\ gui' = "ground" /\ text' = t /\ attempts' = 0 /\ retries' = 0
          /\ isTask' = isTask /\ dryRun' = dryRun /\ step' = step /\ again' = again
          /\ history' = history /\ outcome' = outcome /\ acts' = acts
        BY <1>6 DEF PlanExecutes
    <2>2. GuiTypes'
        BY <1>6, <2>1 DEF GuiInv, GuiTypes
    <2>3. ActsAreNoted'
        BY <1>6, <2>1, HistoryStays DEF GuiInv, ActsAreNoted, AtWork
    <2> QED
        BY <1>6, <2>1, <2>2, <2>3, HistoryStays DEF GuiInv
<1> QED
    BY <1>1, <1>2, <1>3, <1>4, <1>5, <1>6

\* The history gets a step.
LEMMA HistoryGrows ==
    ASSUME GuiInv, gui # "idle", NEW e \in TaskSteps, history' = Append(history, e),
           dryRun' = dryRun, acts' = acts, isTask' = isTask, text' = text, again' = again,
           AtWork' = 0, AtWork = IF e.type = "execute" THEN e.retries + 1 ELSE 0,
           \/ gui' = "plan" /\ step' = step + 1 /\ attempts' = 0 /\ retries' = 0 /\ outcome' = outcome
              /\ Moves(Append(history, e), Len(history) + 1)
           \/ gui' = "idle" /\ outcome' \in {"no_progress", "max_steps"}
              /\ step' = step /\ attempts' = attempts /\ retries' = retries,
           isTask
    PROVE  GuiInv'
<1>1. PICK h \in Seq(TaskSteps) : h = history
    BY DEF GuiInv, GuiTypes
<1>2. PICK n \in Nat : n = Len(h)
    OBVIOUS
<1>3. PICK g : g = Append(h, e)
    OBVIOUS
<1>4. history' = g /\ g \in Seq(TaskSteps) /\ Len(g) = n + 1
    <2>1. g \in Seq(TaskSteps) /\ Len(g) = n + 1
        BY <1>2, <1>3
    <2> QED
        BY <1>1, <1>3, <2>1
<1>5. GuiTypes'
    <2>1. step' \in Nat /\ attempts' \in Nat /\ retries' \in Nat
        BY DEF GuiInv, GuiTypes
    <2>2. gui' \in {"idle", "plan"}
        OBVIOUS
    <2>3. isTask' \in BOOLEAN /\ dryRun' \in BOOLEAN /\ again' \in BOOLEAN /\ acts' \in Nat /\ text' \in Texts \cup {"none"}
        BY DEF GuiInv, GuiTypes
    <2> QED
        BY <1>4, <2>1, <2>2, <2>3 DEF GuiTypes
<1>6. /\ IsFiniteSet(Reported(h))
      /\ acts = IF dryRun THEN 0 ELSE Cardinality(Reported(h)) + (IF e.type = "execute" THEN e.retries + 1 ELSE 0)
    BY <1>1 DEF GuiInv, ActsAreNoted
<1>7. /\ IsFiniteSet(Reported(g))
      /\ Cardinality(Reported(g)) = Cardinality(Reported(h)) + IF e.type = "execute" THEN e.retries + 1 ELSE 0
    BY <1>3, <1>6, ReportGrows
<1>8. Reported(history)' = Reported(g)
    BY <1>4 DEF Reported, Executed
<1>9. Cardinality(Reported(g)) \in Nat
    BY <1>7, FS_CardinalityType
<1>10. acts' = IF dryRun THEN 0 ELSE Cardinality(Reported(g)) + 0
    BY <1>6, <1>7, <1>9
<1>11. ActsAreNoted'
    BY <1>7, <1>8, <1>10 DEF ActsAreNoted
<1>12. Moves(h, n)
    BY <1>1, <1>2 DEF GuiInv
<1>13. Moves(g, n)
    BY <1>2, <1>3, <1>12, MovesOnward
<1>14. gui' # "idle" => Moves(g, n + 1)
    BY <1>1, <1>2, <1>3
<1>15. Moves(history, Len(history) - 1)' = Moves(g, n) /\ Moves(history, Len(history))' = Moves(g, n + 1)
    <2>1. (Len(history) - 1)' = n /\ Len(history)' = n + 1 /\ history' = g
        BY <1>4
    <2> QED
        BY <2>1 DEF Moves, SomeChange, Differs
<1>16. dryRun' => retries' = 0 /\ gui' # "perform"
    BY DEF GuiInv
<1>17. gui' # "idle" => outcome' = "none"
    BY DEF GuiInv
<1> QED
    BY <1>5, <1>11, <1>13, <1>14, <1>15, <1>16, <1>17 DEF GuiInv

\* The planner takes a note.
LEMMA PlanNotesKeeps == GuiInv /\ PlanNotes => GuiInv'
<1> SUFFICES ASSUME GuiInv, PlanNotes PROVE GuiInv'
    OBVIOUS
<1>1. PICK e : e = [type |-> "note", text |-> "none", changed |-> TRUE, retries |-> 0]
    OBVIOUS
<1>2. e \in TaskSteps /\ e.type = "note"
    <2>1. PICK t \in BOOLEAN : t = TRUE
        OBVIOUS
    <2>2. e = [type |-> "note", text |-> "none", changed |-> t, retries |-> 0]
        BY <1>1, <2>1
    <2> QED
        BY <2>2 DEF TaskSteps
<1>3. /\ gui = "plan" /\ isTask' = isTask /\ dryRun' = dryRun /\ text' = text /\ again' = again /\ acts' = acts
      /\ NextStep
    BY DEF PlanNotes
<1>4. history' = Append(history, e)
    BY <1>1 DEF PlanNotes
<1>5. \/ gui' = "plan" /\ step' = step + 1 /\ attempts' = 0 /\ retries' = 0 /\ outcome' = outcome
      \/ gui' = "idle" /\ outcome' = "max_steps" /\ step' = step /\ attempts' = attempts /\ retries' = retries
    BY <1>3 DEF NextStep, Ends
<1>6. AtWork = 0 /\ AtWork' = 0
    BY <1>3, <1>5 DEF AtWork
<1>7. history \in Seq(TaskSteps) /\ Moves(history, Len(history)) /\ isTask
    BY <1>3 DEF GuiInv, GuiTypes
<1>8. Moves(Append(history, e), Len(history) + 1)
    BY <1>2, <1>7, NotesMove
<1> QED
    BY <1>2, <1>3, <1>4, <1>5, <1>6, <1>7, <1>8, HistoryGrows

\* The screen is looked at: once more, the answer, the next step or the end.
LEMMA VerifiesKeeps == ASSUME NEW new \in BOOLEAN PROVE GuiInv /\ Verifies(new) => GuiInv'
<1> SUFFICES ASSUME GuiInv, Verifies(new) PROVE GuiInv'
    OBVIOUS
<1>1. /\ gui = "verify" /\ isTask' = isTask /\ dryRun' = dryRun /\ text' = text /\ again' = again /\ acts' = acts
    BY DEF Verifies
<1>2. AtWork = retries + 1
    BY <1>1 DEF AtWork
<1>3. CASE PerformsAgain(new)
    <2>1. /\ gui' = "ground" /\ retries' = retries + 1 /\ attempts' = 0 /\ ~dryRun
          /\ step' = step /\ history' = history /\ outcome' = outcome
        BY <1>3 DEF Verifies, PerformsAgain
    <2>2. GuiTypes'
        BY <1>1, <2>1 DEF GuiInv, GuiTypes
    <2>3. AtWork' = retries + 1
        BY <2>1 DEF AtWork
    <2>4. ActsAreNoted'
        BY <1>1, <1>2, <2>1, <2>3, HistoryStays DEF GuiInv, ActsAreNoted
    <2> QED
        BY <1>1, <2>1, <2>2, <2>4, HistoryStays DEF GuiInv
<1>4. CASE ~PerformsAgain(new) /\ ~isTask
    <2>1. /\ gui' = "idle" /\ outcome' = "done" /\ step' = step /\ attempts' = attempts
          /\ retries' = retries /\ history' = history
        BY <1>4 DEF Verifies, Ends
    <2>2. GuiTypes'
        BY <1>1, <2>1 DEF GuiInv, GuiTypes
    <2>3. ActsAreNoted'
        BY <1>1, <2>1, HistoryStays DEF GuiInv, ActsAreNoted, Returned
    <2> QED
        BY <1>1, <1>4, <2>1, <2>2, <2>3, HistoryStays DEF GuiInv
<1>5. CASE ~PerformsAgain(new) /\ isTask
    <2>1. PICK e : e = [type |-> "execute", text |-> text, changed |-> new, retries |-> retries]
        OBVIOUS
    <2>2. e \in TaskSteps /\ e.type = "execute" /\ e.text = text /\ e.retries = retries
        <3>1. text \in Texts \cup {"none"} /\ retries \in Nat
            BY DEF GuiInv, GuiTypes
        <3> QED
            BY <2>1, <3>1 DEF TaskSteps
    <2>3. history' = Append(history, e)
        BY <1>5, <2>1 DEF Verifies
    <2>4. history \in Seq(TaskSteps) /\ Moves(history, Len(history))
        BY <1>1 DEF GuiInv, GuiTypes
    <2>5. CASE Stalled(history', text)
        <3>1. gui' = "idle" /\ outcome' = "no_progress" /\ step' = step /\ attempts' = attempts /\ retries' = retries
            BY <1>5, <2>5 DEF Verifies, Ends
        <3>2. AtWork' = 0
            BY <3>1 DEF AtWork
        <3> QED
            BY <1>1, <1>2, <1>5, <2>2, <2>3, <3>1, <3>2, HistoryGrows
    <2>6. CASE ~Stalled(history', text)
        <3>1. NextStep
            BY <1>5, <2>6 DEF Verifies
        <3>2. \/ gui' = "plan" /\ step' = step + 1 /\ attempts' = 0 /\ retries' = 0 /\ outcome' = outcome
              \/ gui' = "idle" /\ outcome' = "max_steps" /\ step' = step /\ attempts' = attempts /\ retries' = retries
            BY <3>1 DEF NextStep, Ends
        <3>3. AtWork' = 0
            BY <3>2 DEF AtWork
        <3>4. ~Stalled(Append(history, e), e.text)
            BY <2>2, <2>3, <2>6
        <3>5. Moves(Append(history, e), Len(history) + 1)
            BY <2>2, <2>4, <3>4, StepsMove
        <3> QED
            BY <1>1, <1>2, <1>5, <2>2, <2>3, <3>2, <3>3, <3>5, HistoryGrows
    <2> QED
        BY <2>5, <2>6
<1> QED
    BY <1>3, <1>4, <1>5

\* Every step of the GUI tools keeps the invariant.
LEMMA GuiStep == GuiInv /\ [GuiNext]_guiVars => GuiInv'
<1> SUFFICES ASSUME GuiInv, [GuiNext]_guiVars PROVE GuiInv'
    OBVIOUS
<1>1. CASE Raises \/ NotUnderstood \/ PlanEnds \/ Grounds \/ Performs \/ \E t \in Texts : PlanExecutes(t)
    BY <1>1, QuietStepsKeep
<1>2. CASE PlanNotes
    BY <1>2, PlanNotesKeeps
<1>3. ASSUME NEW t \in Texts, NEW dry \in BOOLEAN, StartGui(t, dry) PROVE GuiInv'
    BY <1>3, StartGuiKeeps
<1>4. ASSUME NEW dry \in BOOLEAN, StartGui("none", dry) PROVE GuiInv'
    BY <1>4, StartGuiKeeps
<1>5. ASSUME NEW new \in BOOLEAN, Verifies(new) PROVE GuiInv'
    BY <1>5, VerifiesKeeps
<1>6. CASE UNCHANGED guiVars
    <2>1. /\ gui' = gui /\ isTask' = isTask /\ dryRun' = dryRun /\ step' = step /\ attempts' = attempts
          /\ retries' = retries /\ text' = text /\ again' = again /\ history' = history
          /\ outcome' = outcome /\ acts' = acts
        BY <1>6 DEF guiVars
    <2>2. GuiTypes'
        BY <2>1 DEF GuiInv, GuiTypes
    <2>3. ActsAreNoted'
        BY <2>1, HistoryStays DEF GuiInv, ActsAreNoted, Returned, AtWork
    <2> QED
        BY <2>1, <2>2, <2>3, HistoryStays DEF GuiInv
<1> QED
    BY <1>1, <1>2, <1>3, <1>4, <1>5, <1>6 DEF GuiNext

\* The guards as the property states them, by windows of the history.
LEMMA WindowsMove == GuiInv => TaskDoesNotSpin
<1> SUFFICES ASSUME GuiInv PROVE TaskDoesNotSpin
    OBVIOUS
<1>1. PICK h \in Seq(TaskSteps) : h = history
    BY DEF GuiInv, GuiTypes
<1>2. PICK n \in Nat : n = Len(h) /\ DOMAIN h = 1 .. n
    OBVIOUS
<1>3. PICK a \in Nat \ {0} : a = MaxNoProgress
    BY GuardsAreNumbers
<1>4. PICK b \in Nat \ {0} : b = MaxRepeats
    BY GuardsAreNumbers
<1>5. Moves(h, n - 1)
    BY <1>1, <1>2 DEF GuiInv
<1>6. Min({a, b}) = IF a <= b THEN a ELSE b
    BY SmallerOfTwo
<1>7. \A j \in 1 .. n : h[j] \in TaskSteps
    BY <1>2
<1> DEFINE Window(i, k) == {history[j] : j \in i .. Min({i + k - 1, Len(history)})}
<1>8. ASSUME NEW i \in 1 .. n - Min({a, b}), i + a <= n
      PROVE  \E s \in Window(i, MaxNoProgress) : s.type # "execute" \/ s.changed
    <2>1. i \in 1 .. n - 1 /\ i + a - 1 <= n - 1
        BY <1>6, <1>8
    <2>2. SomeChange(h, i, a)
        BY <1>3, <1>5, <2>1 DEF Moves
    <2>3. PICK j \in i .. i + a - 1 : h[j].type # "execute" \/ h[j].changed
        BY <2>2 DEF SomeChange
    <2>4. Min({i + a - 1, n}) = i + a - 1
        BY <2>1, SmallerOfTwo
    <2>5. h[j] \in Window(i, MaxNoProgress)
        BY <1>1, <1>2, <1>3, <2>3, <2>4
    <2> QED
        BY <2>3, <2>5
<1>9. ASSUME NEW i \in 1 .. n - Min({a, b}), i + b <= n
      PROVE  \/ Cardinality({<<s.type, s.text>> : s \in Window(i, MaxRepeats)}) > 1
             \/ \E s \in Window(i, MaxRepeats) : s.type # "execute"
    <2>1. i \in 1 .. n - 1 /\ i + b - 1 <= n - 1
        BY <1>6, <1>9
    <2>2. Differs(h, i, b)
        BY <1>4, <1>5, <2>1 DEF Moves
    <2>3. Min({i + b - 1, n}) = i + b - 1
        BY <2>1, SmallerOfTwo
    <2>4. \A j \in i .. i + b - 1 : h[j] \in Window(i, MaxRepeats)
        BY <1>1, <1>2, <1>4, <2>3
    <2>5. CASE \E j \in i .. i + b - 1 : h[j].type # "execute"
        BY <2>4, <2>5
    <2>6. CASE \E j, k \in i .. i + b - 1 : h[j].text # h[k].text
        <3>1. PICK j \in i .. i + b - 1 : \E k \in i .. i + b - 1 : h[j].text # h[k].text
            BY <2>6
        <3>2. PICK k \in i .. i + b - 1 : h[j].text # h[k].text
            BY <3>1
        <3>3. PICK x : x = <<h[j].type, h[j].text>>
            OBVIOUS
        <3>4. PICK y : y = <<h[k].type, h[k].text>>
            OBVIOUS
        <3>5. x # y
            BY <3>2, <3>3, <3>4
        <3>6. PICK S : S = {<<s.type, s.text>> : s \in Window(i, MaxRepeats)}
            OBVIOUS
        <3>7. x \in S /\ y \in S
            BY <2>4, <3>3, <3>4, <3>6
        <3>8. IsFiniteSet(S)
            <4>1. i \in Int /\ i + b - 1 \in Int
                OBVIOUS
            <4>2. IsFiniteSet(i .. i + b - 1)
                BY <4>1, FS_Interval
            <4>3. PICK f : f = [m \in i .. i + b - 1 |-> <<h[m].type, h[m].text>>]
                OBVIOUS
            <4>4. f \in Surjection(i .. i + b - 1, S)
                BY <1>1, <1>2, <1>4, <2>3, <3>6, <4>3 DEF Surjection
            <4> QED
                BY <4>2, <4>4, FS_Surjection
        <3>9. IsFiniteSet({x, y}) /\ Cardinality({x, y}) = 2
            <4>1. IsFiniteSet({x}) /\ Cardinality({x}) = 1
                BY FS_Singleton
            <4>2. IsFiniteSet({x} \cup {y}) /\ Cardinality({x} \cup {y}) = 1 + 1
                BY <3>5, <4>1, FS_AddElement
            <4>3. {x} \cup {y} = {x, y}
                OBVIOUS
            <4> QED
                BY <4>2, <4>3
        <3>10. Cardinality({x, y}) <= Cardinality(S)
            BY <3>7, <3>8, FS_Subset
        <3>11. Cardinality(S) \in Nat
            BY <3>8, FS_CardinalityType
        <3> QED
            BY <3>6, <3>9, <3>10, <3>11
    <2> QED
        BY <2>2, <2>5, <2>6 DEF Differs
<1>10. ASSUME NEW i \in 1 .. Len(history) - Min({MaxNoProgress, MaxRepeats})
       PROVE  /\ i + MaxNoProgress <= Len(history)
                   => \E s \in Window(i, MaxNoProgress) : s.type # "execute" \/ s.changed
              /\ i + MaxRepeats <= Len(history)
                   => Cardinality({<<s.type, s.text>> : s \in Window(i, MaxRepeats)}) > 1
                      \/ \E s \in Window(i, MaxRepeats) : s.type # "execute"
    <2>1. i \in 1 .. n - Min({a, b})
        BY <1>1, <1>2, <1>3, <1>4
    <2>2. i + MaxNoProgress <= Len(history) => \E s \in Window(i, MaxNoProgress) : s.type # "execute" \/ s.changed
        BY <1>1, <1>2, <1>3, <1>8, <2>1
    <2>3. i + MaxRepeats <= Len(history) => \/ Cardinality({<<s.type, s.text>> : s \in Window(i, MaxRepeats)}) > 1
                                            \/ \E s \in Window(i, MaxRepeats) : s.type # "execute"
        BY <1>1, <1>2, <1>4, <1>9, <2>1
    <2> QED
        BY <2>2, <2>3
<1> QED
    BY <1>10 DEF TaskDoesNotSpin

\* A GUI task that returns reports all that was performed, retries included, and none
\* goes on without change or over and over with the same.
THEOREM TasksAreAccounted == GuiSpec => []TaskAccounted
<1>1. GuiInv => StepsAreReported
    <2> SUFFICES ASSUME GuiInv, Returned PROVE acts = IF dryRun THEN 0 ELSE Cardinality(Reported(history))
        BY DEF StepsAreReported, Returned
    <2>1. gui = "idle"
        BY DEF GuiInv, Returned
    <2>2. AtWork = 0
        BY <2>1 DEF AtWork
    <2>3. Cardinality(Reported(history)) \in Nat
        BY FS_CardinalityType DEF GuiInv, ActsAreNoted
    <2> QED
        BY <2>2, <2>3 DEF GuiInv, ActsAreNoted
<1>2. GuiInv => TaskAccounted
    BY <1>1, WindowsMove DEF TaskAccounted
<1> QED
    BY <1>2, GuiStarts, GuiStep, PTL DEF GuiSpec

-----------------------------------------------------------------------------
(* When a job runs next *)

\* Quotient and remainder.
LEMMA DivisionFacts ==
    ASSUME NEW m \in Nat \ {0}, NEW w \in Nat
    PROVE  /\ w \div m \in Nat /\ w % m \in 0 .. m - 1
           /\ w = m * (w \div m) + (w % m)
<1>1. w \div m \in Int /\ w % m \in 0 .. m - 1
    OBVIOUS
<1>2. w = m * (w \div m) + (w % m)
    OBVIOUS
<1>3. w \div m \in Nat
    OBVIOUS
<1> QED
    BY <1>1, <1>2, <1>3

\* ... are determined.
LEMMA DivisionIsUnique ==
    ASSUME NEW m \in Nat \ {0}, NEW q \in Nat, NEW r \in 0 .. m - 1
    PROVE  (m * q + r) \div m = q /\ (m * q + r) % m = r
<1> DEFINE w == m * q + r
<1>1. w \in Nat
    OBVIOUS
<1>2. PICK a \in Nat : a = w \div m
    BY <1>1, DivisionFacts
<1>3. PICK b \in 0 .. m - 1 : b = w % m
    BY <1>1, DivisionFacts
<1>4. m * q + r = m * a + b
    BY <1>1, <1>2, <1>3, DivisionFacts
<1>5. m * (q - a) = b - r
    BY <1>4
<1>6. ~(q - a >= 1)
    <2> SUFFICES ASSUME q - a >= 1 PROVE FALSE
        OBVIOUS
    <2>1. m * (q - a) >= m
        OBVIOUS
    <2> QED
        BY <1>5, <2>1
<1>7. ~(a - q >= 1)
    <2> SUFFICES ASSUME a - q >= 1 PROVE FALSE
        OBVIOUS
    <2>1. m * (a - q) >= m
        OBVIOUS
    <2>2. m * (a - q) = r - b
        BY <1>4
    <2> QED
        BY <2>1, <2>2
<1>8. a = q
    BY <1>6, <1>7
<1>9. b = r
    BY <1>4, <1>8
<1> QED
    BY <1>2, <1>3, <1>8, <1>9

\* The number of an hour is that of its first minute, counted in hours; an hour lies
\* within a day.
LEMMA DivisionTwice ==
    ASSUME NEW m \in Nat \ {0}, NEW h \in Nat \ {0}, NEW w \in Nat
    PROVE  w \div (m * h) = (w \div m) \div h
<1>1. PICK q \in Nat : q = w \div m
    BY DivisionFacts
<1>2. PICK r \in 0 .. m - 1 : r = w % m
    BY DivisionFacts
<1>3. w = m * q + r
    BY <1>1, <1>2, DivisionFacts
<1>4. PICK d \in Nat : d = q \div h
    BY DivisionFacts
<1>5. PICK e \in 0 .. h - 1 : e = q % h
    BY DivisionFacts
<1>6. q = h * d + e
    BY <1>4, <1>5, DivisionFacts
<1>7. w = (m * h) * d + (m * e + r)
    BY <1>3, <1>6
<1>8. m * h \in Nat \ {0}
    OBVIOUS
<1>9. m * e + r \in 0 .. m * h - 1
    <2>1. m * e <= m * (h - 1)
        OBVIOUS
    <2>2. m * (h - 1) = m * h - m
        OBVIOUS
    <2>3. m * e \in Nat
        OBVIOUS
    <2> QED
        BY <1>8, <2>1, <2>2, <2>3
<1>10. ((m * h) * d + (m * e + r)) \div (m * h) = d
    BY <1>8, <1>9, DivisionIsUnique
<1> QED
    BY <1>1, <1>4, <1>7, <1>10

\* The hour that the clock leaves out is one of the wall clock's hours: what the
\* expression says of one minute of it and of the same minute an hour later holds of
\* that minute too.
LEMMA GapIsAnHour ==
    ASSUME NEW e, NEW u \in ChangeAt + Minutes .. ChangeAt + 2 * Minutes - 1,
           NEW v \in ChangeAt + Minutes .. ChangeAt + 2 * Minutes - 1,
           Matches(e, v), Matches(e, u + Minutes)
    PROVE  Matches(e, u)
<1>1. Minutes \in Nat \ {0} /\ Hours \in Nat \ {0} /\ ChangeAt \in Nat /\ ChangeAt % Minutes = 0
    BY ScheduleAssumption
<1>2. PICK k \in Nat : k = ChangeAt \div Minutes
    BY <1>1, DivisionFacts
<1>3. ChangeAt = Minutes * k
    BY <1>1, <1>2, DivisionFacts
<1>4. \A w \in ChangeAt + Minutes .. ChangeAt + 2 * Minutes - 1 : w \div Minutes = k + 1
    <2> SUFFICES ASSUME NEW w \in ChangeAt + Minutes .. ChangeAt + 2 * Minutes - 1
                 PROVE  w \div Minutes = k + 1
        OBVIOUS
    <2>1. PICK r : r = w - (ChangeAt + Minutes)
        OBVIOUS
    <2>2. r \in 0 .. Minutes - 1
        BY <1>1, <2>1
    <2>3. w = Minutes * (k + 1) + r
        BY <1>1, <1>3, <2>1
    <2>4. k + 1 \in Nat
        BY <1>2
    <2>5. (Minutes * (k + 1) + r) \div Minutes = k + 1
        BY <1>1, <2>2, <2>4, DivisionIsUnique
    <2> QED
        BY <2>3, <2>5
<1>5. u \in Nat /\ v \in Nat
    BY <1>1
<1>6. (u + Minutes) % Minutes = u % Minutes
    <2>1. PICK q \in Nat : q = u \div Minutes
        BY <1>1, <1>5, DivisionFacts
    <2>2. PICK r \in 0 .. Minutes - 1 : r = u % Minutes
        BY <1>1, <1>5, DivisionFacts
    <2>3. u = Minutes * q + r
        BY <1>1, <1>5, <2>1, <2>2, DivisionFacts
    <2>4. u + Minutes = Minutes * (q + 1) + r
        BY <1>1, <2>3
    <2>5. q + 1 \in Nat
        OBVIOUS
    <2>6. (Minutes * (q + 1) + r) % Minutes = r
        BY <1>1, <2>2, <2>5, DivisionIsUnique
    <2> QED
        BY <2>2, <2>4, <2>6
<1>7. DayOf(u) = DayOf(v)
    <2>1. \A m, h \in Nat \ {0}, x \in Nat : x \div (m * h) = (x \div m) \div h
        BY DivisionTwice
    <2>2. Minutes \in Nat \ {0} /\ Hours \in Nat \ {0}
        BY <1>1, ScheduleAssumption
    <2>3. /\ u \div (Minutes * Hours) = (u \div Minutes) \div Hours
          /\ v \div (Minutes * Hours) = (v \div Minutes) \div Hours
        BY <1>5, <2>1, <2>2, Zenon
    <2>4. u \div Minutes = v \div Minutes
        BY <1>4
    <2> QED
        BY <2>3, <2>4, Zenon DEF DayOf
<1>8. (u \div Minutes) % Hours = (v \div Minutes) % Hours
    BY <1>4
<1>9. MatchesDay(e, u) <=> MatchesDay(e, v)
    BY <1>7 DEF MatchesDay
<1> QED
    BY <1>6, <1>8, <1>9 DEF Matches

\* A nonempty set of natural numbers has a least element, which Min is.
LEMMA LeastOf ==
    ASSUME NEW S, S \subseteq Nat, S # {}
    PROVE  Min(S) \in S /\ \A n \in S : Min(S) <= n
<1> DEFINE R == OpToRel(<, Nat)
<1>1. IsWellFoundedOn(R, Nat)
    BY NatLessThanWellFounded
<1>2. \A a, b \in Nat : b < a => <<b, a>> \in R
    BY DEF OpToRel
<1> HIDE DEF R
<1>3. PICK a \in S : \A b \in S : <<b, a>> \notin R
    BY <1>1, WFMin
<1>4. ASSUME NEW b \in S PROVE a <= b
    <2>1. a \in Nat /\ b \in Nat /\ ~(b < a)
        BY <1>2, <1>3
    <2> QED
        BY <2>1
<1> QED
    BY <1>4 DEF Min

\* The minutes of the wall clock that the search finds, and the instants that are meant.
Found == {w \in Wall(computed) + 1 .. Wall(computed) + ScanLimit : Matches(expr, w)}
Ahead == {t \in computed + 1 .. computed + ScanLimit - Minutes : Meant(t)}

\* m is the first that is found.
First(m) == m \in Found /\ \A w \in Found : m <= w

\* The instant of m is meant, lies ahead and is not after any that is meant.
IsNext(m) ==
    /\ Timestamp(m) \in Nat /\ Timestamp(m) >= computed + 1 /\ Meant(Timestamp(m))
    /\ \A t \in Ahead : Timestamp(m) <= t

\* A clock that is left alone.
LEMMA SearchAsUsual ==
    ASSUME computed \in Nat, change = "none"
    PROVE  (Ahead # {} => Found # {}) /\ \A m : First(m) => IsNext(m)
<1>1. Minutes \in Nat \ {0} /\ ChangeAt \in Nat /\ ScanLimit \in Nat
    BY ScheduleAssumption
<1>2. \A t : Wall(t) = t + Minutes /\ Timestamp(t) = t - Minutes
    BY DEF Wall, Timestamp, Shift
<1>3. \A t : Meant(t) <=> Matches(expr, t + Minutes)
    BY <1>2 DEF Meant, SecondTime
<1>4. ASSUME NEW t \in Ahead PROVE t + Minutes \in Found
    <2>1. t \in computed + 1 .. computed + ScanLimit - Minutes /\ Matches(expr, t + Minutes)
        BY <1>3 DEF Ahead
    <2>2. t + Minutes \in Wall(computed) + 1 .. Wall(computed) + ScanLimit
        BY <1>1, <1>2, <2>1
    <2> QED
        BY <2>1, <2>2 DEF Found
<1>5. ASSUME NEW m, First(m) PROVE IsNext(m)
    <2>1. /\ m \in computed + Minutes + 1 .. computed + Minutes + ScanLimit
          /\ Matches(expr, m)
        BY <1>2, <1>5 DEF First, Found
    <2>2. m \in Nat /\ Timestamp(m) = m - Minutes /\ Timestamp(m) \in Nat /\ Timestamp(m) >= computed + 1
        BY <1>1, <1>2, <2>1
    <2>3. Timestamp(m) + Minutes = m
        BY <1>1, <2>2
    <2>4. \A t \in Ahead : Timestamp(m) <= t
        <3> SUFFICES ASSUME NEW t \in Ahead PROVE Timestamp(m) <= t
            OBVIOUS
        <3>1. m <= t + Minutes
            BY <1>4, <1>5 DEF First
        <3>2. t \in Int
            BY <1>1 DEF Ahead
        <3> QED
            BY <1>1, <2>2, <3>1, <3>2
    <2> QED
        BY <1>3, <2>1, <2>2, <2>3, <2>4 DEF IsNext
<1> QED
    BY <1>4, <1>5

\* A clock that is put back: the hour that comes twice is meant the first time.
LEMMA SearchAcrossTwoHours ==
    ASSUME computed \in Nat, change = "back", ~SecondTime(computed)
    PROVE  (Ahead # {} => Found # {}) /\ \A m : First(m) => IsNext(m)
<1>1. Minutes \in Nat \ {0} /\ ChangeAt \in Nat /\ ScanLimit \in Nat
    BY ScheduleAssumption
<1>2. \A t \in Int : /\ Wall(t) = IF t >= ChangeAt THEN t ELSE t + Minutes
                     /\ Timestamp(t) = IF t - Minutes >= ChangeAt THEN t ELSE t - Minutes
    BY <1>1 DEF Wall, Timestamp, Shift
<1>3. \A t \in Int : SecondTime(t) <=> t >= ChangeAt /\ t < ChangeAt + Minutes
    BY <1>1 DEF SecondTime
<1>4. \A t \in Int : Meant(t) <=> ~SecondTime(t) /\ Matches(expr, Wall(t))
    BY DEF Meant
<1>5. ASSUME NEW t \in Ahead
      PROVE  /\ t \in Int /\ t >= computed + 1 /\ ~SecondTime(t)
             /\ Wall(t) \in Found
    <2>1. /\ t \in computed + 1 .. computed + ScanLimit - Minutes
          /\ ~SecondTime(t) /\ Matches(expr, Wall(t))
        BY <1>1, <1>4 DEF Ahead
    <2>2. Wall(t) \in Wall(computed) + 1 .. Wall(computed) + ScanLimit
        BY <1>1, <1>2, <1>3, <2>1
    <2> QED
        BY <1>1, <2>1, <2>2 DEF Found
<1>6. ASSUME NEW m, First(m) PROVE IsNext(m)
    <2>1. /\ m \in Wall(computed) + 1 .. Wall(computed) + ScanLimit
          /\ Matches(expr, m)
        BY <1>6 DEF First, Found
    <2>2. m \in Int /\ Wall(computed) \in Int
        BY <1>1, <1>2, <2>1
    <2>3. /\ Timestamp(m) \in Nat /\ Timestamp(m) >= computed + 1
          /\ ~SecondTime(Timestamp(m)) /\ Wall(Timestamp(m)) = m
        <3>1. CASE m - Minutes >= ChangeAt
            BY <1>1, <1>2, <1>3, <2>1, <2>2, <3>1
        <3>2. CASE ~(m - Minutes >= ChangeAt)
            BY <1>1, <1>2, <1>3, <2>1, <2>2, <3>2
        <3> QED
            BY <3>1, <3>2
    <2>4. \A t \in Ahead : Timestamp(m) <= t
        <3> SUFFICES ASSUME NEW t \in Ahead PROVE Timestamp(m) <= t
            OBVIOUS
        <3>1. m <= Wall(t) /\ t \in Int /\ ~SecondTime(t)
            BY <1>5, <1>6 DEF First
        <3> QED
            BY <1>1, <1>2, <1>3, <2>2, <3>1
    <2> QED
        BY <1>4, <2>1, <2>3, <2>4 DEF IsNext
<1> QED
    BY <1>5, <1>6

\* A clock that is put forward: the hour that is left out is meant as seen from before.
LEMMA SearchAcrossTheGap ==
    ASSUME computed \in Nat, change = "forward"
    PROVE  (Ahead # {} => Found # {}) /\ \A m : First(m) => IsNext(m)
<1>1. Minutes \in Nat \ {0} /\ ChangeAt \in Nat /\ ScanLimit \in Nat
    BY ScheduleAssumption
<1> DEFINE Gap == ChangeAt + Minutes .. ChangeAt + 2 * Minutes - 1
<1>2. \A t \in Int : /\ Wall(t) = IF t >= ChangeAt THEN t + 2 * Minutes ELSE t + Minutes
                     /\ Timestamp(t) = IF t - 2 * Minutes >= ChangeAt THEN t - 2 * Minutes ELSE t - Minutes
    BY <1>1 DEF Wall, Timestamp, Shift
<1>3. \A t \in Int : Meant(t) <=> \/ Matches(expr, Wall(t))
                                  \/ computed < ChangeAt /\ t + Minutes \in Gap /\ Matches(expr, t + Minutes)
    BY <1>1 DEF Meant, SecondTime, Shift
<1>4. ASSUME NEW t \in Ahead
      PROVE  /\ t \in Int /\ t >= computed + 1 /\ Meant(t)
             /\ Matches(expr, Wall(t)) => Wall(t) \in Found
             /\ computed < ChangeAt /\ t + Minutes \in Gap /\ Matches(expr, t + Minutes) => t + Minutes \in Found
    <2>1. t \in computed + 1 .. computed + ScanLimit - Minutes /\ Meant(t)
        BY DEF Ahead
    <2>2. Wall(t) \in Wall(computed) + 1 .. Wall(computed) + ScanLimit
        BY <1>1, <1>2, <2>1
    <2>3. computed < ChangeAt => t + Minutes \in Wall(computed) + 1 .. Wall(computed) + ScanLimit
        BY <1>1, <1>2, <2>1
    <2> QED
        BY <1>1, <2>1, <2>2, <2>3 DEF Found
<1>5. ASSUME NEW m, First(m) PROVE IsNext(m)
    <2>1. /\ m \in Wall(computed) + 1 .. Wall(computed) + ScanLimit
          /\ Matches(expr, m)
        BY <1>5 DEF First, Found
    <2>2. m \in Int /\ Wall(computed) \in Int
        BY <1>1, <1>2, <2>1
    <2>3. Timestamp(m) \in Nat /\ Timestamp(m) >= computed + 1
        BY <1>1, <1>2, <2>1, <2>2
    <2>4. Wall(Timestamp(m)) = m \/ (computed < ChangeAt /\ m \in Gap /\ Timestamp(m) + Minutes = m)
        BY <1>1, <1>2, <2>1, <2>2
    <2>5. Meant(Timestamp(m))
        BY <1>3, <2>1, <2>3, <2>4
    <2>6. ASSUME NEW t \in Ahead PROVE Timestamp(m) <= t
        <3>1. t \in Int /\ t >= computed + 1
            BY <1>4
        <3>2. CASE computed < ChangeAt /\ t + Minutes \in Gap /\ Matches(expr, t + Minutes)
            <4>1. m <= t + Minutes
                BY <1>4, <1>5, <3>2 DEF First
            <4> QED
                BY <1>1, <1>2, <2>2, <3>1, <4>1
        <3>3. CASE Matches(expr, Wall(t)) /\ ~(t + Minutes \in Gap /\ m \in Gap)
            <4>1. m <= Wall(t)
                BY <1>4, <1>5, <3>3 DEF First
            <4> QED
                BY <1>1, <1>2, <2>2, <3>1, <3>3, <4>1
        <3>4. CASE Matches(expr, Wall(t)) /\ t + Minutes \in Gap /\ m \in Gap /\ computed < ChangeAt
            <4>1. Wall(t) = (t + Minutes) + Minutes
                BY <1>1, <1>2, <3>1, <3>4
            <4>2. Matches(expr, t + Minutes)
                BY <2>1, <3>4, <4>1, GapIsAnHour
            <4> QED
                BY <3>2, <3>4, <4>2
        <3>5. m \in Gap => computed < ChangeAt
            BY <1>1, <1>2, <2>1, <2>2
        <3> QED
            BY <1>3, <1>4, <3>1, <3>2, <3>3, <3>4, <3>5
    <2> QED
        BY <2>3, <2>5, <2>6 DEF IsNext
<1> QED
    BY <1>3, <1>4, <1>5

\* What is due is what the search found when it was computed, with the clock as it is now.
ScheduleInv ==
    /\ change \in Changes /\ instant \in 0 .. Horizon
    /\ computed \in 0 .. Horizon \cup {Never}
    /\ computed # Never => due = NextCronRun(expr, computed)

\* Every step keeps what is due.
LEMMA ScheduleStep == ScheduleInv /\ [ScheduleNext]_scheduleVars => ScheduleInv'
<1> SUFFICES ASSUME ScheduleInv, [ScheduleNext]_scheduleVars PROVE ScheduleInv'
    OBVIOUS
<1>1. expr' = expr /\ change' = change
    BY DEF ScheduleNext, AddCronJob, MinutePasses, RunDueJob, RestartCron, scheduleVars
<1>2. \A t : NextCronRun(expr, t)' = NextCronRun(expr, t)
    BY <1>1 DEF NextCronRun, Wall, Timestamp, Shift
<1>3. CASE due' = NextCronRun(expr, instant) /\ computed' = instant /\ instant' = instant
    BY <1>1, <1>2, <1>3 DEF ScheduleInv, NextCronRun, Wall, Timestamp, Shift
<1>4. CASE MinutePasses \/ UNCHANGED scheduleVars
    <2>1. due' = due /\ computed' = computed /\ instant' \in 0 .. Horizon
        BY <1>4, ScheduleAssumption DEF MinutePasses, scheduleVars, ScheduleInv
    <2> QED
        BY <1>1, <1>2, <2>1 DEF ScheduleInv, NextCronRun, Wall, Timestamp, Shift
<1> QED
    BY <1>3, <1>4 DEF ScheduleNext, AddCronJob, RunDueJob, RestartCron

\* The search finds what is meant, whatever the clock does.
LEMMA SearchFindsWhatIsMeant == ScheduleInv => DueWhenMeant
<1> SUFFICES ASSUME ScheduleInv, computed # Never, ~SecondTime(computed)
             PROVE  IF ~Sensible(expr) THEN due = Never ELSE Ahead # {} => due = Min(Ahead)
    BY DEF DueWhenMeant, Ahead
<1>1. computed \in Nat /\ due = NextCronRun(expr, computed)
    BY DEF ScheduleInv
<1>2. due = IF ~Sensible(expr) \/ Found = {} THEN Never ELSE Timestamp(Min(Found))
    BY <1>1 DEF NextCronRun, Found
<1>3. (Ahead # {} => Found # {}) /\ \A m : First(m) => IsNext(m)
    <2>1. change \in {"none", "forward", "back"}
        BY ScheduleAssumption DEF ScheduleInv
    <2> QED
        BY <1>1, <2>1, SearchAsUsual, SearchAcrossTwoHours, SearchAcrossTheGap
<1>4. ASSUME Sensible(expr), Ahead # {} PROVE due = Min(Ahead)
    <2>1. Found # {} /\ Found \subseteq Nat
        <3>1. Wall(computed) \in Nat
            BY <1>1, ScheduleAssumption DEF Wall, Shift
        <3> QED
            BY <1>3, <1>4, <3>1 DEF Found
    <2>2. IsNext(Min(Found)) /\ due = Timestamp(Min(Found))
        BY <1>2, <1>3, <1>4, <2>1, LeastOf DEF First
    <2>3. Ahead \subseteq Nat
        BY <1>1, ScheduleAssumption DEF Ahead
    <2>4. Min(Ahead) \in Ahead /\ \A t \in Ahead : Min(Ahead) <= t
        BY <1>4, <2>3, LeastOf
    <2>5. due \in Nat /\ due >= computed + 1 /\ Meant(due) /\ due <= Min(Ahead)
        BY <2>2, <2>4 DEF IsNext
    <2>6. due \in Ahead
        <3>1. Min(Ahead) \in computed + 1 .. computed + ScanLimit - Minutes
            BY <2>4 DEF Ahead
        <3>2. due \in computed + 1 .. computed + ScanLimit - Minutes
            BY <1>1, <2>5, <3>1, ScheduleAssumption
        <3> QED
            BY <2>5, <3>2 DEF Ahead
    <2>7. Min(Ahead) <= due /\ Min(Ahead) \in Nat
        BY <2>3, <2>4, <2>6
    <2> QED
        BY <2>5, <2>7
<1> QED
    BY <1>2, <1>4

\* A job with a cron expression is due at the first instant after now that its expression
\* means, whatever the fields are and wherever the clock is put forward or back.
THEOREM CronRunsWhenMeant == ScheduleSpec => []DueWhenMeant
<1>1. ScheduleInit => ScheduleInv
    BY DEF ScheduleInit, ScheduleInv
<1> QED
    BY <1>1, ScheduleStep, SearchFindsWhatIsMeant, PTL DEF ScheduleSpec

-----------------------------------------------------------------------------
(* The refs of a snapshot *)

\* The ref that the snapshot before gave the selector.
KeptRef(previous, selector) == Max({r \in DOMAIN previous : previous[r] = selector})

\* What is made of the entries so far: a list and the next number.
RefsMade(S, previous) ==
    [refs : Seq([ref : Nat \cup {KeptRef(previous, s) : s \in S}, selector : S]), next : Nat]

UsedRefs(made) == {made.refs[i].ref : i \in DOMAIN made.refs}

\* Each entry in its place, with a ref that no other has.
RefsDiffer(made) == \A i, j \in DOMAIN made.refs : i # j => made.refs[i].ref # made.refs[j].ref

\* As long as there is room, a number is free.
LEMMA NumberIsFree ==
    ASSUME NEW S, NEW previous, NEW made \in RefsMade(S, previous), Len(made.refs) < MaxRefs
    PROVE  LET free == Min({n \in made.next .. made.next + MaxRefs : n \notin UsedRefs(made)})
           IN  free \in Nat /\ free \notin UsedRefs(made)
<1> DEFINE F == {n \in made.next .. made.next + MaxRefs : n \notin UsedRefs(made)}
           I == made.next .. made.next + MaxRefs
           L == Len(made.refs)
<1>1. /\ MaxRefs \in Nat /\ made.next \in Nat /\ L \in Nat /\ DOMAIN made.refs = 1 .. L
    <2>1. made.refs \in Seq([ref : Nat \cup {KeptRef(previous, s) : s \in S}, selector : S])
        BY DEF RefsMade
    <2> QED
        BY <2>1, BrowserAssumption, LenProperties DEF RefsMade
<1>2. IsFiniteSet(I) /\ Cardinality(I) = MaxRefs + 1
    <2>1. made.next \in Int /\ made.next + MaxRefs \in Int /\ ~(made.next > made.next + MaxRefs)
        BY <1>1
    <2> HIDE DEF L
    <2>2. IsFiniteSet(I) /\ Cardinality(I) = (made.next + MaxRefs) - made.next + 1
        BY <2>1, FS_Interval
    <2> QED
        BY <1>1, <2>2
<1>3. IsFiniteSet(UsedRefs(made)) /\ Cardinality(UsedRefs(made)) <= L /\ Cardinality(UsedRefs(made)) \in Nat
    <2>1. IsFiniteSet(1 .. L) /\ Cardinality(1 .. L) = L
        BY <1>1, FS_Interval
    <2> DEFINE f == [i \in 1 .. L |-> made.refs[i].ref]
    <2>2. UsedRefs(made) = {f[i] : i \in 1 .. L}
        BY <1>1 DEF UsedRefs
    <2>3. f \in Surjection(1 .. L, UsedRefs(made))
        BY <2>2 DEF Surjection
    <2> HIDE DEF f
    <2> QED
        BY <2>1, <2>3, FS_Surjection, FS_CardinalityType
<1>4. F # {}
    <2> SUFFICES ASSUME F = {} PROVE FALSE
        OBVIOUS
    <2>1. I \subseteq UsedRefs(made)
        OBVIOUS
    <2>2. Cardinality(I) <= Cardinality(UsedRefs(made))
        BY <1>3, <2>1, FS_Subset
    <2> QED
        BY <1>1, <1>2, <1>3, <2>2
<1>5. F \subseteq Nat
    BY <1>1
<1>6. Min(F) \in F
    <2> HIDE DEF F
    <2> QED
        BY <1>4, <1>5, LeastOf
<1> QED
    BY <1>5, <1>6

\* One entry more, or as many as there is room for.
OneMore(S, previous, made, s, more) ==
    /\ more \in RefsMade(S, previous) /\ RefsDiffer(more)
    /\ IF Len(made.refs) >= MaxRefs THEN more = made
       ELSE \E r : more.refs = Append(made.refs, [ref |-> r, selector |-> s])

\* An entry is added as long as there is room, with a ref that is not taken.
LEMMA EntryIsAdded ==
    ASSUME NEW S, NEW previous, NEW made \in RefsMade(S, previous), NEW s \in S, RefsDiffer(made)
    PROVE  OneMore(S, previous, made, s, WithEntry(made, s, previous))
<1> DEFINE R == Nat \cup {KeptRef(previous, t) : t \in S}
           E == [ref : R, selector : S]
           more == WithEntry(made, s, previous)
           old == {r \in DOMAIN previous : previous[r] = s}
           kept == IF old = {} THEN 0 ELSE Max(old)
           free == Min({n \in made.next .. made.next + MaxRefs : n \notin UsedRefs(made)})
<1>1. made.refs \in Seq(E) /\ Len(made.refs) \in Nat /\ DOMAIN made.refs = 1 .. Len(made.refs)
      /\ made.next \in Nat /\ MaxRefs \in Nat /\ made = [refs |-> made.refs, next |-> made.next]
    BY BrowserAssumption, LenProperties DEF RefsMade
<1>2. more = IF Len(made.refs) >= MaxRefs THEN made
             ELSE IF kept # 0 /\ kept \notin UsedRefs(made)
             THEN [made EXCEPT !.refs = Append(made.refs, [ref |-> kept, selector |-> s])]
             ELSE [refs |-> Append(made.refs, [ref |-> free, selector |-> s]), next |-> free + 1]
    BY DEF WithEntry, UsedRefs
<1>3. kept \in R
    BY DEF KeptRef
<1> HIDE DEF kept, more
<1>4. CASE Len(made.refs) >= MaxRefs
    BY <1>1, <1>2, <1>4 DEF more, OneMore
<1>5. CASE Len(made.refs) < MaxRefs
    <2>1. free \in Nat /\ free \notin UsedRefs(made)
        BY <1>5, NumberIsFree
    <2> HIDE DEF free
    <2>2. PICK r \in R : /\ r \notin UsedRefs(made)
                         /\ more.refs = Append(made.refs, [ref |-> r, selector |-> s])
                         /\ more.next \in Nat /\ more = [refs |-> more.refs, next |-> more.next]
        <3>1. CASE kept # 0 /\ kept \notin UsedRefs(made)
            <4> DEFINE a == Append(made.refs, [ref |-> kept, selector |-> s])
            <4>0. \A b : [made EXCEPT !.refs = b] = [refs |-> b, next |-> made.next]
                BY <1>1
            <4>1. more = [made EXCEPT !.refs = a]
                BY <1>1, <1>2, <1>5, <3>1
            <4>2. more = [refs |-> a, next |-> made.next]
                BY <4>0, <4>1
            <4> QED
                BY <1>1, <1>3, <3>1, <4>2
        <3>2. CASE ~(kept # 0 /\ kept \notin UsedRefs(made))
            <4>1. more = [refs |-> Append(made.refs, [ref |-> free, selector |-> s]), next |-> free + 1]
                BY <1>1, <1>2, <1>5, <3>2
            <4> QED
                BY <2>1, <4>1
        <3> QED
            BY <3>1, <3>2
    <2> DEFINE e == [ref |-> r, selector |-> s]
    <2>3. e \in E
        OBVIOUS
    <2> HIDE DEF e, E, R
    <2>4. /\ more.refs = Append(made.refs, e) /\ more.refs \in Seq(E)
          /\ DOMAIN more.refs = 1 .. Len(made.refs) + 1
          /\ \A i \in 1 .. Len(made.refs) : more.refs[i] = made.refs[i]
          /\ more.refs[Len(made.refs) + 1] = e
        <3>1. more.refs = Append(made.refs, e)
            BY <2>2 DEF e
        <3> QED
            BY <1>1, <2>3, <3>1, AppendProperties, LenProperties
    <2>5. more \in RefsMade(S, previous)
        BY <2>2, <2>4 DEF RefsMade, E, R
    <2>6. RefsDiffer(more)
        <3> SUFFICES ASSUME NEW i \in 1 .. Len(made.refs) + 1, NEW j \in 1 .. Len(made.refs) + 1, i # j
                     PROVE  more.refs[i].ref # more.refs[j].ref
            BY <2>4 DEF RefsDiffer
        <3>1. \A k \in 1 .. Len(made.refs) : more.refs[k].ref \in UsedRefs(made)
            BY <1>1, <2>4 DEF UsedRefs
        <3>2. more.refs[Len(made.refs) + 1].ref = r
            BY <2>4 DEF e
        <3>3. CASE i \in 1 .. Len(made.refs) /\ j \in 1 .. Len(made.refs)
            BY <1>1, <2>4, <3>3 DEF RefsDiffer
        <3>4. CASE i = Len(made.refs) + 1 \/ j = Len(made.refs) + 1
            BY <1>1, <2>2, <3>1, <3>2, <3>4
        <3> QED
            BY <1>1, <3>3, <3>4
    <2>7. ~(Len(made.refs) >= MaxRefs)
        BY <1>1, <1>5
    <2>8. \E q : more.refs = Append(made.refs, [ref |-> q, selector |-> s])
        BY <2>2
    <2> QED
        BY <2>5, <2>6, <2>7, <2>8 DEF more, OneMore
<1>6. Len(made.refs) >= MaxRefs \/ Len(made.refs) < MaxRefs
    BY <1>1
<1> QED
    BY <1>4, <1>5, <1>6

\* Nothing is made yet.
NoneMade == [refs |-> <<>>, next |-> 1]

LEMMA NoneMadeFacts ==
    ASSUME NEW S, NEW previous
    PROVE  /\ NoneMade \in RefsMade(S, previous) /\ RefsDiffer(NoneMade)
           /\ NoneMade.refs = <<>> /\ DOMAIN NoneMade.refs = {} /\ Len(NoneMade.refs) = 0
<1> DEFINE E == [ref : Nat \cup {KeptRef(previous, s) : s \in S}, selector : S]
<1>1. <<>> \in Seq(E) /\ Len(<<>>) = 0 /\ DOMAIN <<>> = {}
    BY EmptySeq
<1> HIDE DEF E
<1>2. NoneMade \in [refs : Seq(E), next : Nat]
    BY <1>1 DEF NoneMade
<1>3. NoneMade.refs = <<>>
    BY DEF NoneMade
<1>4. NoneMade \in RefsMade(S, previous)
    BY <1>2 DEF RefsMade, E
<1> QED
    BY <1>1, <1>3, <1>4 DEF RefsDiffer

\* The entries are added one by one.
LEMMA EnteredInTurn ==
    ASSUME NEW S, NEW d \in Seq(S), NEW previous
    PROVE  /\ Entered(d, previous)[0] = NoneMade
           /\ \A k \in 1 .. Len(d) : Entered(d, previous)[k] = WithEntry(Entered(d, previous)[k - 1], d[k], previous)
<1> DEFINE n == Len(d)
           T == {made \in RefsMade(S, previous) : RefsDiffer(made)}
           G == [k \in 1 .. n |-> [made \in T |-> WithEntry(made, d[k], previous)]]
           Again(f) == [k \in 0 .. n |-> IF k = 0 THEN NoneMade ELSE WithEntry(f[k - 1], d[k], previous)]
<1>1. n \in Nat /\ \A k \in 1 .. n : d[k] \in S
    BY LenProperties, ElementOfSeq
<1>2. NoneMade \in T
    BY NoneMadeFacts
<1>3. \A k \in 1 .. n, made \in T : WithEntry(made, d[k], previous) \in T
    BY <1>1, EntryIsAdded DEF OneMore
<1>4. G \in [1 .. n -> [T -> T]]
    <2> HIDE DEF T, n
    <2> QED
        BY <1>3
<1>5. PICK f \in [0 .. n -> T] : f[0] = NoneMade /\ \A k \in 1 .. n : f[k] = G[k][f[k - 1]]
    <2> HIDE DEF T, G, n
    <2>1. \E f : Steps(f, T, NoneMade, n, G)
        BY <1>1, <1>2, <1>4, StepsExist
    <2> QED
        BY <2>1 DEF Steps
<1>6. f = Again(f)
    <2> HIDE DEF T, n
    <2>1. ASSUME NEW k \in 1 .. n PROVE f[k] = WithEntry(f[k - 1], d[k], previous)
        <3>1. k - 1 \in 0 .. n
            BY <1>1
        <3>2. f[k - 1] \in T
            BY <1>5, <3>1
        <3> QED
            BY <1>5, <3>2
    <2>2. \A k \in 0 .. n : f[k] = IF k = 0 THEN NoneMade ELSE WithEntry(f[k - 1], d[k], previous)
        BY <1>1, <1>5, <2>1
    <2> QED
        BY <1>5, <2>2
<1>7. Entered(d, previous) = Again(Entered(d, previous))
    <2>1. Entered(d, previous) = CHOOSE made : made = Again(made)
        BY DEF Entered, NoneMade
    <2> HIDE DEF Again
    <2> QED
        BY <1>6, <2>1
<1>8. \A k \in 0 .. n : Entered(d, previous)[k] = Again(Entered(d, previous))[k]
    BY <1>7
<1> QED
    BY <1>1, <1>8

\* The entries for which there is room, in order.
EnteredUpTo(d, made, k) ==
    /\ Len(made.refs) = IF k <= MaxRefs THEN k ELSE MaxRefs
    /\ \A i \in DOMAIN made.refs : made.refs[i].selector = d[i]

LEMMA EntriesAreListed ==
    ASSUME NEW S, NEW d \in Seq(S), NEW previous
    PROVE  LET made == Entered(d, previous)[Len(d)]
           IN  made \in RefsMade(S, previous) /\ RefsDiffer(made) /\ EnteredUpTo(d, made, Len(d))
<1> DEFINE made(k) == Entered(d, previous)[k]
           Good(k) == made(k) \in RefsMade(S, previous) /\ RefsDiffer(made(k)) /\ EnteredUpTo(d, made(k), k)
           K == {k \in Nat : k <= Len(d) => Good(k)}
<1>1. /\ Len(d) \in Nat /\ MaxRefs \in Nat /\ \A k \in 1 .. Len(d) : d[k] \in S
    BY LenProperties, ElementOfSeq, BrowserAssumption
<1>2. /\ made(0) = NoneMade
      /\ \A k \in 1 .. Len(d) : made(k) = WithEntry(made(k - 1), d[k], previous)
    BY EnteredInTurn
<1> HIDE DEF made
<1>3. Good(0)
    <2>1. NoneMade.refs = <<>> /\ DOMAIN NoneMade.refs = {} /\ Len(NoneMade.refs) = 0
        BY NoneMadeFacts
    <2>2. EnteredUpTo(d, NoneMade, 0)
        BY <1>1, <2>1 DEF EnteredUpTo
    <2>3. NoneMade \in RefsMade(S, previous) /\ RefsDiffer(NoneMade)
        BY NoneMadeFacts
    <2> QED
        BY <1>2, <2>2, <2>3
<1>4. ASSUME NEW k \in Nat, k + 1 <= Len(d), Good(k) PROVE Good(k + 1)
    <2> DEFINE m == made(k)
               more == made(k + 1)
    <2>1. m \in RefsMade(S, previous) /\ RefsDiffer(m) /\ EnteredUpTo(d, m, k)
        BY <1>4
    <2>2. k + 1 \in 1 .. Len(d) /\ (k + 1) - 1 = k /\ d[k + 1] \in S
        BY <1>1, <1>4
    <2>3. more = WithEntry(m, d[k + 1], previous)
        BY <1>2, <2>2
    <2> HIDE DEF m, more
    <2>4. /\ more \in RefsMade(S, previous) /\ RefsDiffer(more)
          /\ IF Len(m.refs) >= MaxRefs THEN more = m
             ELSE \E r : more.refs = Append(m.refs, [ref |-> r, selector |-> d[k + 1]])
        <3>1. OneMore(S, previous, m, d[k + 1], WithEntry(m, d[k + 1], previous))
            BY <2>1, <2>2, EntryIsAdded
        <3> QED
            BY <2>3, <3>1 DEF OneMore
    <2>5. EnteredUpTo(d, more, k + 1)
        <3>1. CASE Len(m.refs) >= MaxRefs
            BY <1>1, <2>1, <2>4, <3>1 DEF EnteredUpTo
        <3>2. CASE ~(Len(m.refs) >= MaxRefs)
            <4>1. PICK r : more.refs = Append(m.refs, [ref |-> r, selector |-> d[k + 1]])
                BY <2>4, <3>2
            <4> DEFINE E == [ref : Nat \cup {KeptRef(previous, s) : s \in S}, selector : S]
                       e == [ref |-> r, selector |-> d[k + 1]]
            <4>2. m.refs \in Seq(E) /\ more.refs \in Seq(E)
                BY <2>1, <2>4 DEF RefsMade
            <4>3. Len(m.refs) = k
                BY <1>1, <2>1, <3>2 DEF EnteredUpTo
            <4> HIDE DEF E
            <4>4. /\ Len(more.refs) = k + 1 /\ DOMAIN m.refs = 1 .. k /\ DOMAIN more.refs = 1 .. k + 1
                  /\ \A i \in 1 .. k : more.refs[i] = m.refs[i]
                  /\ more.refs[k + 1] = e
                <5>0. more.refs = Append(m.refs, e)
                    BY <4>1
                <5> HIDE DEF e
                <5>1. Append(m.refs, e) \in Seq(E)
                    BY <4>2, <5>0
                <5>2. /\ Len(Append(m.refs, e)) = Len(m.refs) + 1
                      /\ \A i \in 1 .. Len(m.refs) : Append(m.refs, e)[i] = m.refs[i]
                      /\ Append(m.refs, e)[Len(m.refs) + 1] = e
                    BY <4>2
                <5> QED
                    BY <4>2, <4>3, <5>0, <5>2, LenProperties
            <4>5. k + 1 <= MaxRefs
                BY <1>1, <3>2, <4>3
            <4>6. e.selector = d[k + 1]
                OBVIOUS
            <4> HIDE DEF e
            <4>7. \A i \in 1 .. k : m.refs[i].selector = d[i]
                BY <2>1, <4>4 DEF EnteredUpTo
            <4>8. \A i \in 1 .. k + 1 : i = k + 1 \/ i \in 1 .. k
                OBVIOUS
            <4>9. \A i \in 1 .. k + 1 : more.refs[i].selector = d[i]
                BY <4>4, <4>6, <4>7, <4>8
            <4> QED
                BY <4>4, <4>5, <4>9 DEF EnteredUpTo
        <3> QED
            BY <3>1, <3>2
    <2> QED
        BY <2>4, <2>5 DEF more
<1>5. K = Nat
    <2> HIDE DEF Good
    <2>1. \A k \in K : k + 1 \in K
        BY <1>1, <1>4
    <2>2. 0 \in K /\ K \in SUBSET Nat
        BY <1>3
    <2> HIDE DEF K
    <2> QED
        BY <2>1, <2>2, AllNumbers
<1>6. Good(Len(d))
    <2> HIDE DEF Good
    <2> QED
        BY <1>1, <1>5
<1> QED
    BY <1>6 DEF made

\* The greatest of one number.
LEMMA MaxOfOne == \A n \in Nat : Max({n}) = n
    BY DEF Max

\* The refs that stand for s are as many as the entries that there is room for.
RefsFor(d, previous, s) ==
    LET made == BuildSnapshotRefs(d, previous)
        kept == SubSeq(d, 1, Min({Len(d), MaxRefs}))
    IN  Cardinality({r \in DOMAIN made : made[r] = s})
           = Cardinality({i \in DOMAIN kept : kept[i] = s})

\* A snapshot gives each element that there is room for a ref of its own.
LEMMA SnapshotRefsAreDistinct ==
    ASSUME NEW S, NEW d \in Seq(S), NEW previous, NEW s
    PROVE  RefsFor(d, previous, s)
<1> DEFINE list == Entered(d, previous)[Len(d)].refs
           made == BuildSnapshotRefs(d, previous)
           m == IF Len(d) <= MaxRefs THEN Len(d) ELSE MaxRefs
           kept == SubSeq(d, 1, Min({Len(d), MaxRefs}))
           I == {i \in DOMAIN kept : kept[i] = s}
           R == {r \in DOMAIN made : made[r] = s}
<1>1. Len(d) \in Nat /\ MaxRefs \in Nat /\ m \in 0 .. Len(d)
    BY LenProperties, BrowserAssumption
<1>2. DOMAIN kept = 1 .. m /\ \A i \in 1 .. m : kept[i] = d[i]
    <2>1. Min({Len(d), MaxRefs}) = m
        <3>1. {Len(d), MaxRefs} \subseteq Nat /\ {Len(d), MaxRefs} # {}
            BY <1>1
        <3>2. /\ Min({Len(d), MaxRefs}) \in {Len(d), MaxRefs}
              /\ \A n \in {Len(d), MaxRefs} : Min({Len(d), MaxRefs}) <= n
            BY <3>1, LeastOf
        <3> QED
            BY <1>1, <3>2
    <2> HIDE DEF m
    <2>2. /\ Len(SubSeq(d, 1, m)) = m
          /\ \A i \in 1 .. m : SubSeq(d, 1, m)[i] = d[i]
          /\ SubSeq(d, 1, m) \in Seq(S)
        BY <1>1, SubSeqProperties
    <2> QED
        BY <2>1, <2>2, LenProperties
<1>3. /\ list \in Seq([ref : Nat \cup {KeptRef(previous, t) : t \in S}, selector : S])
      /\ Len(list) = m /\ DOMAIN list = 1 .. m
      /\ \A i, j \in 1 .. m : i # j => list[i].ref # list[j].ref
      /\ \A i \in 1 .. m : list[i].selector = d[i]
    <2>1. /\ Entered(d, previous)[Len(d)] \in RefsMade(S, previous)
          /\ RefsDiffer(Entered(d, previous)[Len(d)])
          /\ EnteredUpTo(d, Entered(d, previous)[Len(d)], Len(d))
        BY EntriesAreListed
    <2>2. list \in Seq([ref : Nat \cup {KeptRef(previous, t) : t \in S}, selector : S])
        BY <2>1 DEF RefsMade
    <2>3. Len(list) = m
        BY <2>1 DEF EnteredUpTo
    <2>4. DOMAIN list = 1 .. m
        <3> HIDE DEF list, m
        <3> QED
            BY <2>2, <2>3, LenProperties
    <2>5. \A i, j \in DOMAIN list : i # j => list[i].ref # list[j].ref
        BY <2>1 DEF RefsDiffer
    <2>6. \A i \in DOMAIN list : list[i].selector = d[i]
        BY <2>1 DEF EnteredUpTo
    <2> HIDE DEF list, m
    <2> QED
        BY <2>2, <2>3, <2>4, <2>5, <2>6
<1>4. made = [r \in {list[i].ref : i \in DOMAIN list} |->
                 list[Max({i \in DOMAIN list : list[i].ref = r})].selector]
    BY DEF BuildSnapshotRefs
<1> HIDE DEF list, made, kept, m
<1>5. ASSUME NEW i \in 1 .. m
      PROVE  list[i].ref \in DOMAIN made /\ made[list[i].ref] = d[i]
    <2>1. {j \in DOMAIN list : list[j].ref = list[i].ref} = {i}
        BY <1>3
    <2>2. Max({i}) = i
        BY <1>1, MaxOfOne
    <2>3. list[i].ref \in {list[j].ref : j \in DOMAIN list}
        BY <1>3
    <2>4. made[list[i].ref] = list[Max({j \in DOMAIN list : list[j].ref = list[i].ref})].selector
        BY <1>4, <2>3
    <2> QED
        BY <1>3, <1>4, <2>1, <2>2, <2>3, <2>4
<1>6. \A r \in DOMAIN made : \E i \in 1 .. m : list[i].ref = r
    BY <1>3, <1>4
<1> DEFINE f == [i \in I |-> list[i].ref]
<1>7. f \in Bijection(I, R)
    <2>1. I = {i \in 1 .. m : d[i] = s}
        BY <1>2
    <2>2. R = {r \in DOMAIN made : made[r] = s}
        OBVIOUS
    <2> HIDE DEF I, R
    <2>3. \A i \in I : f[i] = list[i].ref /\ f[i] \in R
        BY <1>5, <2>1, <2>2
    <2>4. f \in [I -> R]
        BY <2>3
    <2>5. \A i, j \in I : f[i] = f[j] => i = j
        BY <1>3, <2>1, <2>3
    <2>6. \A r \in R : \E i \in I : f[i] = r
        BY <1>5, <1>6, <2>1, <2>2, <2>3
    <2> HIDE DEF f
    <2>7. f \in Injection(I, R)
        BY <2>4, <2>5 DEF Injection, IsInjective
    <2>8. f \in Surjection(I, R)
        BY <2>4, <2>6 DEF Surjection
    <2> QED
        BY <2>7, <2>8 DEF Bijection
<1>8. IsFiniteSet(I)
    <2>1. IsFiniteSet(1 .. m)
        BY <1>1, FS_Interval
    <2>2. I \subseteq 1 .. m
        BY <1>2
    <2> QED
        BY <2>1, <2>2, FS_Subset
<1>9. ExistsBijection(I, R)
    <2> HIDE DEF I, R, f
    <2> QED
        BY <1>7 DEF ExistsBijection
<1>10. Cardinality(R) = Cardinality(I)
    <2> HIDE DEF I, R
    <2> QED
        BY <1>8, <1>9, FS_Bijection
<1> QED
    BY <1>10 DEF made, kept, RefsFor

\* Whatever pages are shown one after the other, the refs of a snapshot tell its elements
\* apart, and every element that there is room for has one.
THEOREM RefsTellElementsApart == BrowserSpec => []EachElementHasItsRef
<1>1. EachElementHasItsRef
    <2> SUFFICES ASSUME NEW g \in Live, NEW d \in Documents, NEW s \in ToSet(d)
                 PROVE  RefsFor(d, refs[g], s)
        BY DEF EachElementHasItsRef, RefsFor
    <2>1. d \in Seq(ToSet(d))
        BY BrowserAssumption
    <2> QED
        BY <2>1, SnapshotRefsAreDistinct
<1> QED
    BY <1>1, PTL

-----------------------------------------------------------------------------
(* A request to the model *)

\* Of an interval, the k-th number is as many after the first.
LEMMA IntervalInOrder ==
    ASSUME NEW a \in Nat, NEW b \in Nat, a <= b + 1
    PROVE  InOrder(a .. b) = [k \in 1 .. b - a + 1 |-> a + k - 1]
<1>1. Cardinality(a .. b) = b - a + 1
    BY FS_Interval
<1>2. ASSUME NEW k \in 1 .. b - a + 1
      PROVE  (CHOOSE n \in a .. b : Cardinality({m \in a .. b : m < n}) = k - 1) = a + k - 1
    <2>1. ASSUME NEW n \in a .. b PROVE Cardinality({m \in a .. b : m < n}) = n - a
        <3>1. {m \in a .. b : m < n} = a .. n - 1
            OBVIOUS
        <3>2. Cardinality(a .. n - 1) = n - a
            <4>1. a \in Int /\ n - 1 \in Int /\ n >= a
                OBVIOUS
            <4>2. Cardinality(a .. n - 1) = IF a > n - 1 THEN 0 ELSE n - 1 - a + 1
                BY <4>1, FS_Interval
            <4> QED
                BY <4>1, <4>2
        <3> QED
            BY <3>1, <3>2
    <2>2. a + k - 1 \in a .. b
        OBVIOUS
    <2>3. \A n \in a .. b : Cardinality({m \in a .. b : m < n}) = k - 1 <=> n = a + k - 1
        BY <2>1
    <2> QED
        BY <2>2, <2>3
<1> QED
    BY <1>1, <1>2 DEF InOrder

\* What is picked from a place to another is that stretch of the sequence.
LEMMA PickedStretch ==
    ASSUME NEW s, NEW a \in Nat, NEW b \in Nat, a <= b + 1
    PROVE  Picked(s, a .. b) = [k \in 1 .. b - a + 1 |-> s[a + k - 1]]
<1>1. InOrder(a .. b) = [k \in 1 .. b - a + 1 |-> a + k - 1]
    BY IntervalInOrder
<1>2. DOMAIN InOrder(a .. b) = 1 .. b - a + 1
    BY <1>1
<1>3. \A k \in 1 .. b - a + 1 : s[InOrder(a .. b)[k]] = s[a + k - 1]
    BY <1>1
<1> QED
    BY <1>2, <1>3 DEF Picked

\* All of a sequence is picked.
LEMMA PickedWhole ==
    ASSUME NEW S, NEW s \in Seq(S)
    PROVE  Picked(s, DOMAIN s) = s
<1>1. Len(s) \in Nat /\ DOMAIN s = 1 .. Len(s) /\ s = [k \in 1 .. Len(s) |-> s[k]]
    BY LenProperties
<1>2. Picked(s, 1 .. Len(s)) = [k \in 1 .. Len(s) - 1 + 1 |-> s[1 + k - 1]]
    <2>1. \A a, b \in Nat : a <= b + 1 => Picked(s, a .. b) = [k \in 1 .. b - a + 1 |-> s[a + k - 1]]
        BY PickedStretch
    <2>2. 1 \in Nat /\ 1 <= Len(s) + 1
        BY <1>1
    <2> QED
        BY <1>1, <2>1, <2>2
<1>3. Len(s) - 1 + 1 = Len(s) /\ \A k \in 1 .. Len(s) : 1 + k - 1 = k
    BY <1>1
<1> QED
    BY <1>1, <1>2, <1>3

\* None of it is picked.
LEMMA PickedNone ==
    ASSUME NEW s
    PROVE  Picked(s, {}) = <<>>
<1>1. Cardinality({}) = 0
    BY FS_EmptySet
<1>2. DOMAIN InOrder({}) = {}
    BY <1>1 DEF InOrder
<1>3. Picked(s, {}) = [k \in {} |-> s[InOrder({})[k]]]
    BY <1>2 DEF Picked
<1> QED
    BY <1>3

\* All but the first are picked.
LEMMA PickedRest ==
    ASSUME NEW S, NEW s \in Seq(S), s # <<>>
    PROVE  Picked(s, 2 .. Len(s)) = Tail(s)
<1>1. Len(s) \in Nat /\ Len(s) >= 1
    BY LenProperties, EmptySeq
<1>2. Picked(s, 2 .. Len(s)) = [k \in 1 .. Len(s) - 2 + 1 |-> s[2 + k - 1]]
    <2>1. 2 \in Nat /\ 2 <= Len(s) + 1
        BY <1>1
    <2> QED
        BY <1>1, <2>1, PickedStretch
<1>3. Len(s) - 2 + 1 = Len(s) - 1 /\ \A k \in 1 .. Len(s) - 1 : 2 + k - 1 = k + 1
    BY <1>1
<1>4. Tail(s) \in Seq(S) /\ Len(Tail(s)) = Len(s) - 1 /\ \A k \in 1 .. Len(s) - 1 : Tail(s)[k] = s[k + 1]
    BY HeadTailProperties
<1>5. Tail(s) = [k \in 1 .. Len(s) - 1 |-> s[k + 1]]
    BY <1>4, LenProperties
<1> QED
    BY <1>2, <1>3, <1>5

\* Only the first is picked.
LEMMA PickedFirst ==
    ASSUME NEW s
    PROVE  Picked(s, {1}) = <<s[1]>>
<1>1. Cardinality({1}) = 1 /\ 1 .. 1 = {1}
    <2>1. Cardinality({1}) = 1
        BY FS_Singleton
    <2>2. 1 .. 1 = {1}
        OBVIOUS
    <2> QED
        BY <2>1, <2>2
<1>2. (CHOOSE n \in {1} : Cardinality({m \in {1} : m < n}) = 0) = 1
    <2>1. {m \in {1} : m < 1} = {}
        OBVIOUS
    <2>2. Cardinality({m \in {1} : m < 1}) = 0
        BY <2>1, FS_EmptySet
    <2> QED
        BY <2>2
<1>3. InOrder({1}) = [k \in {1} |-> 1]
    BY <1>1, <1>2 DEF InOrder
<1>4. Picked(s, {1}) = [k \in {1} |-> s[1]]
    BY <1>3 DEF Picked
<1> QED
    BY <1>1, <1>4

\* Where the walk over a request starts.
WalkStart == [out |-> <<>>, pending |-> <<>>, used |-> {}, made |-> 0]

\* The parts of a request are taken one after the other.
LEMMA SanitizedInTurn ==
    ASSUME NEW parts, Len(parts) \in Nat
    PROVE  /\ Sanitized(parts)[0] = WalkStart
           /\ \A k \in 1 .. Len(parts) : Sanitized(parts)[k] = SanitizedPart(Sanitized(parts)[k - 1], parts[k])
<1> DEFINE Again(f, m) == [k \in 0 .. m |-> IF k = 0 THEN WalkStart ELSE SanitizedPart(f[k - 1], parts[k])]
           S == {m \in Nat : \E f : f = Again(f, m)}
<1>1. 0 \in S
    <2>1. [k \in 0 .. 0 |-> WalkStart] = Again([k \in 0 .. 0 |-> WalkStart], 0)
        OBVIOUS
    <2> HIDE DEF Again
    <2> QED
        BY <2>1
<1>2. ASSUME NEW m \in S PROVE m + 1 \in S
    <2>1. PICK f : f = Again(f, m)
        <3> HIDE DEF Again
        <3> QED
            OBVIOUS
    <2>2. m \in Nat
        OBVIOUS
    <2> DEFINE g == [k \in 0 .. m + 1 |-> IF k = m + 1 THEN SanitizedPart(f[m], parts[m + 1]) ELSE f[k]]
    <2>3. \A k \in 0 .. m : g[k] = f[k] /\ f[k] = IF k = 0 THEN WalkStart ELSE SanitizedPart(f[k - 1], parts[k])
        BY <2>1, <2>2
    <2>4. g[m + 1] = SanitizedPart(f[m], parts[m + 1]) /\ DOMAIN g = 0 .. m + 1
        BY <2>2
    <2>5. g = [k \in 0 .. m + 1 |-> g[k]]
        OBVIOUS
    <2> HIDE DEF g
    <2>6. ASSUME NEW k \in 0 .. m + 1 PROVE g[k] = IF k = 0 THEN WalkStart ELSE SanitizedPart(g[k - 1], parts[k])
        <3>1. CASE k = m + 1
            <4>1. k - 1 = m /\ m \in 0 .. m /\ k # 0
                BY <2>2, <3>1
            <4> QED
                BY <2>3, <2>4, <3>1, <4>1
        <3>2. CASE k = 0
            <4>1. 0 \in 0 .. m
                BY <2>2
            <4> QED
                BY <2>3, <3>2, <4>1
        <3>3. CASE k # m + 1 /\ k # 0
            <4>1. k \in 0 .. m /\ k - 1 \in 0 .. m
                BY <2>2, <3>3
            <4> QED
                BY <2>3, <3>3, <4>1
        <3> QED
            BY <3>1, <3>2, <3>3
    <2>7. g = Again(g, m + 1)
        BY <2>5, <2>6
    <2> HIDE DEF Again
    <2> QED
        BY <2>2, <2>7
<1>3. S = Nat
    <2>1. S \in SUBSET Nat
        OBVIOUS
    <2> HIDE DEF S
    <2> QED
        BY <1>1, <1>2, <2>1, AllNumbers
<1>4. \E f : f = Again(f, Len(parts))
    BY <1>3
<1>5. Sanitized(parts) = Again(Sanitized(parts), Len(parts))
    <2>1. Sanitized(parts) = CHOOSE f : f = Again(f, Len(parts))
        BY DEF Sanitized, WalkStart
    <2> HIDE DEF Again
    <2> QED
        BY <1>4, <2>1
<1>6. \A k \in 0 .. Len(parts) : Sanitized(parts)[k] = Again(Sanitized(parts), Len(parts))[k]
    BY <1>5
<1> QED
    BY <1>6

\* What the walk over a request ends with.
WalkEnd(parts) == Sanitized(parts)[Len(parts)]

\* f goes from s over the parts.
Walks(f, s, parts) ==
    f[0] = s /\ \A k \in 1 .. Len(parts) : f[k] = SanitizedPart(f[k - 1], parts[k])

\* A longer request is walked from where the shorter one ended.
LEMMA WalkGoesOn ==
    ASSUME NEW S, NEW p \in Seq(S), NEW q \in Seq(S)
    PROVE  \E f : Walks(f, WalkEnd(p), q) /\ f[Len(q)] = WalkEnd(p \o q)
<1>1. Len(p) \in Nat /\ Len(q) \in Nat /\ Len(p \o q) = Len(p) + Len(q)
    BY LenProperties, ConcatProperties
<1>2. /\ \A k \in 1 .. Len(p) : (p \o q)[k] = p[k]
      /\ \A k \in 1 .. Len(q) : (p \o q)[Len(p) + k] = q[k]
    BY <1>1, ConcatProperties
<1>3. /\ Sanitized(p \o q)[0] = WalkStart
      /\ \A k \in 1 .. Len(p) + Len(q) :
            Sanitized(p \o q)[k] = SanitizedPart(Sanitized(p \o q)[k - 1], (p \o q)[k])
    <2>1. Len(p \o q) \in Nat
        BY <1>1
    <2>2. /\ Sanitized(p \o q)[0] = WalkStart
          /\ \A k \in 1 .. Len(p \o q) :
                Sanitized(p \o q)[k] = SanitizedPart(Sanitized(p \o q)[k - 1], (p \o q)[k])
        BY <2>1, SanitizedInTurn
    <2> QED
        BY <1>1, <2>2
<1>4. /\ Sanitized(p)[0] = WalkStart
      /\ \A k \in 1 .. Len(p) : Sanitized(p)[k] = SanitizedPart(Sanitized(p)[k - 1], p[k])
    BY <1>1, SanitizedInTurn
<1> DEFINE N == {m \in Nat : m <= Len(p) => Sanitized(p \o q)[m] = Sanitized(p)[m]}
<1>5. 0 \in N
    BY <1>3, <1>4
<1>6. ASSUME NEW m \in N PROVE m + 1 \in N
    <2>1. SUFFICES ASSUME m + 1 <= Len(p) PROVE Sanitized(p \o q)[m + 1] = Sanitized(p)[m + 1]
        OBVIOUS
    <2>2. m \in Nat /\ Sanitized(p \o q)[m] = Sanitized(p)[m]
        BY <1>1, <2>1
    <2>3. m + 1 \in 1 .. Len(p) /\ m + 1 \in 1 .. Len(p) + Len(q) /\ (m + 1) - 1 = m
        BY <1>1, <2>1, <2>2
    <2> QED
        BY <1>2, <1>3, <1>4, <2>2, <2>3
<1>7. N = Nat
    <2>1. N \in SUBSET Nat
        OBVIOUS
    <2> HIDE DEF N
    <2> QED
        BY <1>5, <1>6, <2>1, AllNumbers
<1>8. Sanitized(p \o q)[Len(p)] = WalkEnd(p)
    <2>1. Len(p) \in N /\ Len(p) <= Len(p)
        BY <1>1, <1>7
    <2> QED
        BY <2>1 DEF WalkEnd
<1> DEFINE f == [k \in 0 .. Len(q) |-> Sanitized(p \o q)[Len(p) + k]]
<1>9. f[0] = WalkEnd(p)
    BY <1>1, <1>8
<1>10. ASSUME NEW k \in 1 .. Len(q) PROVE f[k] = SanitizedPart(f[k - 1], q[k])
    <2>1. /\ k \in 0 .. Len(q) /\ k - 1 \in 0 .. Len(q) /\ Len(p) + k \in 1 .. Len(p) + Len(q)
          /\ (Len(p) + k) - 1 = Len(p) + (k - 1)
        BY <1>1
    <2>2. f[k] = Sanitized(p \o q)[Len(p) + k] /\ f[k - 1] = Sanitized(p \o q)[Len(p) + (k - 1)]
        BY <2>1
    <2>3. Sanitized(p \o q)[Len(p) + k] = SanitizedPart(Sanitized(p \o q)[(Len(p) + k) - 1], (p \o q)[Len(p) + k])
        BY <1>3, <2>1
    <2> HIDE DEF f
    <2> QED
        BY <1>2, <2>1, <2>2, <2>3
<1>11. f[Len(q)] = WalkEnd(p \o q)
    BY <1>1 DEF WalkEnd
<1> HIDE DEF f
<1> QED
    BY <1>9, <1>10, <1>11 DEF Walks

\* f flattens cs from the left.
Flattens(f, cs) ==
    /\ DOMAIN f = 1 .. Len(cs)
    /\ \A i \in 1 .. Len(cs) : f[i] = IF i = 1 THEN cs[i] ELSE f[i - 1] \o cs[i]

\* A conversation is flattened from the left.
LEMMA FlattenedInTurn ==
    ASSUME NEW S, NEW cs \in Seq(Seq(S)), cs # <<>>
    PROVE  \E f \in [1 .. Len(cs) -> Seq(S)] : Flattens(f, cs) /\ FlattenSeq(cs) = f[Len(cs)]
<1>1. Len(cs) \in Nat /\ Len(cs) >= 1 /\ \A i \in 1 .. Len(cs) : cs[i] \in Seq(S)
    BY LenProperties, EmptySeq, ElementOfSeq
<1> DEFINE n == Len(cs)
           T == Seq(S)
           G == [k \in 1 .. n |-> [s \in T |-> s \o cs[k]]]
           Again(f) == [i \in 1 .. n |-> IF i = 1 THEN cs[i] ELSE f[i - 1] \o cs[i]]
<1>2. G \in [1 .. n -> [T -> T]]
    <2>1. \A k \in 1 .. n, s \in T : s \o cs[k] \in T
        BY <1>1, ConcatProperties
    <2> HIDE DEF n, T
    <2> QED
        BY <2>1
<1>3. <<>> \in T
    BY EmptySeq
<1>4. PICK f \in [0 .. n -> T] : f[0] = <<>> /\ \A k \in 1 .. n : f[k] = G[k][f[k - 1]]
    <2> HIDE DEF T, G
    <2>1. \E f : Steps(f, T, <<>>, n, G)
        BY <1>1, <1>2, <1>3, StepsExist
    <2> QED
        BY <2>1 DEF Steps
<1>5. ASSUME NEW i \in 1 .. n PROVE f[i] = f[i - 1] \o cs[i] /\ f[i] \in T /\ f[i - 1] \in T
    <2>1. i \in 0 .. n /\ i - 1 \in 0 .. n
        BY <1>1
    <2> HIDE DEF n, T
    <2>2. f[i] \in T /\ f[i - 1] \in T
        BY <1>4, <2>1
    <2> QED
        BY <1>4, <2>2
<1>6. f[1] = cs[1]
    <2>1. 1 \in 1 .. n /\ 1 - 1 = 0
        BY <1>1
    <2>2. f[1] = <<>> \o cs[1]
        BY <1>4, <1>5, <2>1
    <2>3. cs[1] \in Seq(S)
        BY <1>1, <2>1
    <2>4. <<>> \o cs[1] = cs[1]
        BY <2>3, ConcatEmptySeq
    <2> QED
        BY <2>2, <2>4
<1> DEFINE g == [i \in 1 .. n |-> f[i]]
<1>7. g = Again(g)
    <2>1. ASSUME NEW i \in 1 .. n PROVE g[i] = IF i = 1 THEN cs[i] ELSE g[i - 1] \o cs[i]
        <3>1. CASE i = 1
            BY <1>6, <3>1
        <3>2. CASE i # 1
            <4>1. i - 1 \in 1 .. n
                BY <1>1, <3>2
            <4> QED
                BY <1>5, <3>2, <4>1
        <3> QED
            BY <3>1, <3>2
    <2>2. g = [i \in 1 .. n |-> g[i]]
        OBVIOUS
    <2> HIDE DEF g, n
    <2> QED
        BY <2>1, <2>2
<1>8. PICK h : h = (CHOOSE made : made = Again(made)) /\ h = Again(h)
    <2> HIDE DEF Again
    <2> QED
        BY <1>7
<1>9. FlattenSeq(cs) = h[n]
    BY <1>1, <1>8 DEF FlattenSeq
<1>10. Flattens(h, cs)
    <2>1. DOMAIN h = DOMAIN Again(h) /\ \A i \in 1 .. n : h[i] = Again(h)[i]
        BY <1>8
    <2> QED
        BY <2>1 DEF Flattens
<1> DEFINE N == {m \in Nat : m + 1 <= n => h[m + 1] \in T}
<1>11. 0 \in N
    <2>1. 1 \in 1 .. n
        BY <1>1
    <2>2. h[1] \in T
        BY <1>1, <1>10, <2>1 DEF Flattens
    <2> HIDE DEF T
    <2> QED
        BY <2>2
<1>12. ASSUME NEW m \in N PROVE m + 1 \in N
    <2>1. SUFFICES ASSUME (m + 1) + 1 <= n PROVE h[(m + 1) + 1] \in T
        OBVIOUS
    <2>2. m \in Nat /\ h[m + 1] \in T
        BY <1>1, <2>1
    <2>3. (m + 1) + 1 \in 1 .. n /\ (m + 1) + 1 # 1 /\ ((m + 1) + 1) - 1 = m + 1
        BY <1>1, <2>1, <2>2
    <2>4. h[(m + 1) + 1] = h[m + 1] \o cs[(m + 1) + 1]
        BY <1>10, <2>3 DEF Flattens
    <2> QED
        BY <1>1, <2>2, <2>3, <2>4, ConcatProperties
<1>13. N = Nat
    <2>1. N \in SUBSET Nat
        OBVIOUS
    <2> HIDE DEF N
    <2> QED
        BY <1>11, <1>12, <2>1, AllNumbers
<1>14. h \in [1 .. n -> T]
    <2>1. ASSUME NEW i \in 1 .. n PROVE h[i] \in T
        <3>1. i - 1 \in Nat /\ (i - 1) + 1 = i /\ i <= n
            BY <1>1
        <3>2. i - 1 \in N
            <4> HIDE DEF N
            <4> QED
                BY <1>13, <3>1
        <3> HIDE DEF n, T
        <3> QED
            BY <3>1, <3>2
    <2>2. h = [i \in 1 .. n |-> h[i]]
        BY <1>8
    <2> HIDE DEF n, T
    <2> QED
        BY <2>1, <2>2
<1> QED
    BY <1>9, <1>10, <1>14

\* No conversation is flat already.
LEMMA FlattenedNone == FlattenSeq(<<>>) = <<>>
<1>1. Len(<<>>) = 0
    BY EmptySeq
<1> QED
    BY <1>1 DEF FlattenSeq

\* One content more is flattened at the end.
LEMMA FlattenedMore ==
    ASSUME NEW S, NEW cs \in Seq(Seq(S)), NEW c \in Seq(S)
    PROVE  FlattenSeq(cs) \in Seq(S) /\ FlattenSeq(Append(cs, c)) = FlattenSeq(cs) \o c
<1> DEFINE ds == Append(cs, c)
<1>1. /\ Len(cs) \in Nat /\ ds \in Seq(Seq(S)) /\ Len(ds) = Len(cs) + 1 /\ ds # <<>>
      /\ \A i \in 1 .. Len(cs) : ds[i] = cs[i]
      /\ ds[Len(cs) + 1] = c
    <2>1. PICK T : T = Seq(S)
        OBVIOUS
    <2>2. cs \in Seq(T) /\ c \in T
        BY <2>1
    <2>3. /\ Len(cs) \in Nat /\ ds \in Seq(T) /\ Len(ds) = Len(cs) + 1
          /\ \A i \in 1 .. Len(cs) : ds[i] = cs[i]
          /\ ds[Len(cs) + 1] = c
        BY <2>2, LenProperties
    <2>4. ds # <<>>
        BY <2>3, EmptySeq
    <2> QED
        BY <2>1, <2>3, <2>4
<1> HIDE DEF ds
<1>2. PICK h \in [1 .. Len(ds) -> Seq(S)] : Flattens(h, ds) /\ FlattenSeq(ds) = h[Len(ds)]
    BY <1>1, FlattenedInTurn
<1>3. CASE cs = <<>>
    <2>1. Len(cs) = 0
        BY <1>3, EmptySeq
    <2>2. h[1] = c
        <3>1. 1 \in 1 .. Len(ds) /\ Len(cs) + 1 = 1
            BY <1>1, <2>1
        <3> QED
            BY <1>1, <1>2, <3>1 DEF Flattens
    <2>3. FlattenSeq(ds) = c
        BY <1>1, <1>2, <2>1, <2>2
    <2>4. FlattenSeq(cs) = <<>>
        BY <1>3, FlattenedNone
    <2> QED
        BY <2>3, <2>4, EmptySeq, ConcatEmptySeq DEF ds
<1>4. CASE cs # <<>>
    <2>1. PICK f \in [1 .. Len(cs) -> Seq(S)] : Flattens(f, cs) /\ FlattenSeq(cs) = f[Len(cs)]
        BY <1>4, FlattenedInTurn
    <2>2. Len(cs) >= 1
        BY <1>1, <1>4, EmptySeq
    <2> DEFINE N == {m \in Nat : m + 1 <= Len(cs) => f[m + 1] = h[m + 1]}
    <2>3. 0 \in N
        <3>1. 1 \in 1 .. Len(cs) /\ 1 \in 1 .. Len(ds)
            BY <1>1, <2>2
        <3>2. f[1] = h[1]
            BY <1>1, <1>2, <2>1, <3>1 DEF Flattens
        <3> QED
            BY <3>2
    <2>4. ASSUME NEW m \in N PROVE m + 1 \in N
        <3>1. SUFFICES ASSUME (m + 1) + 1 <= Len(cs) PROVE f[(m + 1) + 1] = h[(m + 1) + 1]
            OBVIOUS
        <3>2. m \in Nat /\ f[m + 1] = h[m + 1]
            BY <1>1, <3>1
        <3>3. /\ (m + 1) + 1 \in 1 .. Len(cs) /\ (m + 1) + 1 \in 1 .. Len(ds)
              /\ (m + 1) + 1 # 1 /\ ((m + 1) + 1) - 1 = m + 1
            BY <1>1, <3>1, <3>2
        <3>4. f[(m + 1) + 1] = f[m + 1] \o cs[(m + 1) + 1]
            BY <2>1, <3>3 DEF Flattens
        <3>5. h[(m + 1) + 1] = h[m + 1] \o ds[(m + 1) + 1]
            BY <1>2, <3>3 DEF Flattens
        <3> QED
            BY <1>1, <3>2, <3>3, <3>4, <3>5
    <2>5. N = Nat
        <3>1. N \in SUBSET Nat
            OBVIOUS
        <3> HIDE DEF N
        <3> QED
            BY <2>3, <2>4, <3>1, AllNumbers
    <2>6. f[Len(cs)] = h[Len(cs)]
        <3>1. Len(cs) - 1 \in Nat /\ (Len(cs) - 1) + 1 = Len(cs) /\ Len(cs) <= Len(cs)
            BY <1>1, <2>2
        <3>2. Len(cs) - 1 \in N
            <4> HIDE DEF N
            <4> QED
                BY <2>5, <3>1
        <3> QED
            BY <3>1, <3>2
    <2>7. h[Len(cs) + 1] = h[Len(cs)] \o c
        <3>1. Len(cs) + 1 \in 1 .. Len(ds) /\ Len(cs) + 1 # 1 /\ (Len(cs) + 1) - 1 = Len(cs)
            BY <1>1, <2>2
        <3> QED
            BY <1>1, <1>2, <3>1 DEF Flattens
    <2>8. Len(cs) \in 1 .. Len(cs)
        BY <1>1, <2>2
    <2> QED
        BY <1>1, <1>2, <2>1, <2>6, <2>7, <2>8 DEF ds
<1> QED
    BY <1>3, <1>4

\* The parts of a conversation and what goes out for them.
Named == GivenIds \cup {NoId}
CallParts == {p \in [what : {"call", "response", "text"}, id : Named, of : Named, whole : {TRUE}] :
                 p.what # "text" => p.of \in GivenIds /\ p.id \in {p.of, NoId}}
SentIds == {Given(g) : g \in GivenIds} \cup {NewToolId(m) : m \in Nat}
SentParts == [what : {"call", "response"}, id : SentIds, of : GivenIds]

\* What has gone out makes sense: each call has an id of its own, its given one or one
\* that was made, and each result that of its call, which is before it; the calls
\* are named by ofs.
SentWell(s, ofs) ==
    /\ s.out \in Seq(SentParts) /\ s.made \in Nat /\ s.used \subseteq SentIds
    /\ s.pending \in Seq(SentIds)
    /\ \A k \in DOMAIN s.out : s.out[k].id \in s.used
    /\ \A g \in GivenIds : Given(g) \in s.used => g \in ofs
    /\ \A m \in Nat : m > s.made => NewToolId(m) \notin s.used
    /\ \A j, k \in DOMAIN s.out :
          s.out[j].what = "call" /\ s.out[k].what = "call" /\ j # k => s.out[j].id # s.out[k].id
    /\ \A k \in DOMAIN s.out : s.out[k].what # "call" =>
          \E j \in DOMAIN s.out : /\ s.out[j].what = "call" /\ j < k
                                  /\ s.out[k].of = s.out[j].of /\ s.out[k].id = s.out[j].id

\* The calls after the first a, up to the b-th, wait for their results.
Awaits(s, calls, a, b) ==
    /\ Len(s.pending) = b - a
    /\ \A j \in 1 .. b - a :
          /\ \E k \in DOMAIN s.out : /\ s.out[k].what = "call" /\ s.out[k].id = s.pending[j]
                                     /\ s.out[k].of = calls[a + j].of
          /\ calls[a + j].id # NoId => s.pending[j] = Given(calls[a + j].id)

\* Calls of one answer: each with a name of its own.
IsCalls(calls) ==
    /\ calls \in Seq({p \in CallParts : p.what = "call"})
    /\ \A j, k \in DOMAIN calls : j # k => calls[j].of # calls[k].of

\* Ids that are given and made are told apart.
LEMMA IdsDiffer ==
    /\ \A g, h : Given(g) = Given(h) => g = h
    /\ \A m, n : NewToolId(m) = NewToolId(n) => m = n
    /\ \A g, m : m >= 1 /\ m \in Nat => Given(g) # NewToolId(m)
BY DEF Given, NewToolId

\* A call is given an id that none has, and waits behind the others.
LEMMA CallIsSent ==
    ASSUME NEW s, NEW ofs, NEW calls, NEW k \in Nat, SentWell(s, ofs), Awaits(s, calls, 0, k),
           IsCalls(calls), k + 1 \in DOMAIN calls, calls[k + 1].of \notin ofs
    PROVE  LET t == SanitizedCall(s, calls[k + 1])
           IN SentWell(t, ofs \cup {calls[k + 1].of}) /\ Awaits(t, calls, 0, k + 1)
<1> DEFINE call == calls[k + 1]
           id == IF call.id = NoId THEN NewToolId(s.made + 1) ELSE Given(call.id)
           sent == [what |-> "call", id |-> id, of |-> call.of]
<1>1. /\ call \in CallParts /\ call.what = "call" /\ call.of \in GivenIds /\ call.id \in {call.of, NoId}
      /\ call.of \notin ofs
    <2>1. call \in {p \in CallParts : p.what = "call"}
        BY LenProperties, ElementOfSeq DEF IsCalls
    <2> QED
        BY <2>1 DEF CallParts
<1> HIDE DEF call
<1>2. s.made \in Nat /\ s.made + 1 \in Nat /\ s.made + 1 >= 1
    BY DEF SentWell
<1>3. id \in SentIds /\ id \notin s.used
    <2>1. CASE call.id = NoId
        <3>1. NewToolId(s.made + 1) \notin s.used
            BY <1>2 DEF SentWell
        <3> QED
            BY <1>2, <2>1, <3>1 DEF SentIds
    <2>2. CASE call.id # NoId
        <3>1. call.id = call.of /\ Given(call.id) \notin s.used
            BY <1>1, <2>2 DEF SentWell
        <3> QED
            BY <1>1, <2>2, <3>1 DEF SentIds
    <2> QED
        BY <2>1, <2>2
<1>4. PICK t : t = SanitizedCall(s, call)
    OBVIOUS
<1>5. /\ t.out = Append(s.out, sent) /\ t.pending = Append(s.pending, id) /\ t.used = s.used \cup {id}
      /\ t.made = IF call.id = NoId THEN s.made + 1 ELSE s.made
    <2>1. UniqueToolId(Given(call.id), s.used) = Given(call.id) \/ call.id = NoId
        BY <1>3 DEF UniqueToolId
    <2> QED
        BY <1>4, <2>1 DEF SanitizedCall
<1>6. sent \in SentParts /\ sent.what = "call" /\ sent.id = id /\ sent.of = call.of
    BY <1>1, <1>3 DEF SentParts
<1> HIDE DEF sent
<1>7. PICK n : n = Len(s.out)
    OBVIOUS
<1>8. /\ n \in Nat /\ t.out \in Seq(SentParts) /\ DOMAIN s.out = 1 .. n /\ DOMAIN t.out = 1 .. n + 1
      /\ \A j \in 1 .. n : t.out[j] = s.out[j]
      /\ t.out[n + 1] = sent
    BY <1>5, <1>6, <1>7, LenProperties DEF SentWell
<1>9. /\ t.pending \in Seq(SentIds) /\ Len(s.pending) = k /\ Len(t.pending) = k + 1
      /\ \A j \in 1 .. k : t.pending[j] = s.pending[j]
      /\ t.pending[k + 1] = id
    <2>1. Len(s.pending) = k /\ s.pending \in Seq(SentIds)
        BY DEF SentWell, Awaits
    <2> QED
        BY <1>3, <1>5, <2>1, LenProperties
<1>10. t.made \in Nat /\ t.used \subseteq SentIds
    BY <1>2, <1>3, <1>5 DEF SentWell
<1>11. \A j \in DOMAIN t.out : t.out[j].id \in t.used
    BY <1>5, <1>6, <1>8 DEF SentWell
<1>12. \A g \in GivenIds : Given(g) \in t.used => g \in ofs \cup {call.of}
    <2> SUFFICES ASSUME NEW g \in GivenIds, Given(g) = id PROVE g \in ofs \cup {call.of}
        BY <1>5 DEF SentWell
    <2>1. call.id # NoId
        BY <1>2, IdsDiffer
    <2> QED
        BY <1>1, <2>1, IdsDiffer
<1>13. \A m \in Nat : m > t.made => NewToolId(m) \notin t.used
    <2> SUFFICES ASSUME NEW m \in Nat, m > t.made PROVE NewToolId(m) \notin s.used /\ NewToolId(m) # id
        BY <1>5
    <2>1. m > s.made /\ m >= 1 /\ (call.id = NoId => m # s.made + 1)
        BY <1>2, <1>5
    <2>2. NewToolId(m) # id
        BY <2>1, IdsDiffer
    <2> QED
        BY <2>1, <2>2 DEF SentWell
<1>14. ASSUME NEW i \in DOMAIN t.out, NEW j \in DOMAIN t.out,
              t.out[i].what = "call", t.out[j].what = "call", i # j
       PROVE  t.out[i].id # t.out[j].id
    <2>1. /\ \A m \in 1 .. n : t.out[m] = s.out[m] /\ s.out[m].id \in s.used
          /\ t.out[n + 1].id \notin s.used
        BY <1>3, <1>6, <1>8 DEF SentWell
    <2>2. CASE i = n + 1
        <3>1. j \in 1 .. n
            BY <1>8, <1>14, <2>2
        <3> QED
            BY <2>1, <2>2, <3>1
    <2>3. CASE j = n + 1
        <3>1. i \in 1 .. n
            BY <1>8, <1>14, <2>3
        <3> QED
            BY <2>1, <2>3, <3>1
    <2>4. CASE i # n + 1 /\ j # n + 1
        <3>1. i \in 1 .. n /\ j \in 1 .. n
            BY <1>8, <2>4
        <3>2. i \in DOMAIN s.out /\ j \in DOMAIN s.out /\ t.out[i] = s.out[i] /\ t.out[j] = s.out[j]
            BY <1>8, <2>1, <3>1
        <3>3. s.out[i].id # s.out[j].id
            BY <1>14, <3>2 DEF SentWell
        <3> QED
            BY <3>2, <3>3
    <2> QED
        BY <2>2, <2>3, <2>4
<1>15. ASSUME NEW i \in DOMAIN t.out, t.out[i].what # "call"
       PROVE  \E j \in DOMAIN t.out : /\ t.out[j].what = "call" /\ j < i
                                      /\ t.out[i].of = t.out[j].of /\ t.out[i].id = t.out[j].id
    <2>1. i \in 1 .. n
        BY <1>6, <1>8, <1>15
    <2>2. t.out[i] = s.out[i]
        BY <1>8, <2>1
    <2>3. PICK j \in 1 .. n : /\ s.out[j].what = "call" /\ j < i
                              /\ s.out[i].of = s.out[j].of /\ s.out[i].id = s.out[j].id
        <3>1. i \in DOMAIN s.out /\ s.out[i].what # "call"
            BY <1>8, <1>15, <2>1, <2>2
        <3> QED
            BY <1>8, <3>1 DEF SentWell
    <2>4. t.out[j] = s.out[j] /\ j \in DOMAIN t.out
        BY <1>8, <2>3
    <2> QED
        BY <2>2, <2>3, <2>4
<1>16. SentWell(t, ofs \cup {call.of})
    BY <1>8, <1>9, <1>10, <1>11, <1>12, <1>13, <1>14, <1>15 DEF SentWell
<1>17. ASSUME NEW j \in 1 .. k + 1
       PROVE  /\ \E i \in DOMAIN t.out : /\ t.out[i].what = "call" /\ t.out[i].id = t.pending[j]
                                          /\ t.out[i].of = calls[0 + j].of
              /\ calls[0 + j].id # NoId => t.pending[j] = Given(calls[0 + j].id)
    <2>1. CASE j = k + 1
        <3>1. calls[0 + j] = call
            BY <2>1 DEF call
        <3>2. n + 1 \in DOMAIN t.out
            BY <1>8
        <3> QED
            BY <1>6, <1>8, <1>9, <2>1, <3>1, <3>2
    <2>2. CASE j # k + 1
        <3>1. j \in 1 .. k - 0
            BY <2>2
        <3>2. PICK i \in DOMAIN s.out : /\ s.out[i].what = "call" /\ s.out[i].id = s.pending[j]
                                        /\ s.out[i].of = calls[0 + j].of
            BY <3>1 DEF Awaits
        <3>3. i \in DOMAIN t.out /\ t.out[i] = s.out[i] /\ t.pending[j] = s.pending[j]
            BY <1>8, <1>9, <3>1, <3>2
        <3>4. calls[0 + j].id # NoId => s.pending[j] = Given(calls[0 + j].id)
            BY <3>1 DEF Awaits
        <3> QED
            BY <3>2, <3>3, <3>4
    <2> QED
        BY <2>1, <2>2
<1>18. Awaits(t, calls, 0, k + 1)
    <2>1. (k + 1) - 0 = k + 1
        OBVIOUS
    <2> QED
        BY <1>9, <1>17, <2>1 DEF Awaits
<1> QED
    BY <1>4, <1>16, <1>18 DEF call

\* The first call that waits is told from the others by its id.
LEMMA WaitingCallsDiffer ==
    ASSUME NEW s, NEW ofs, NEW calls, NEW a \in Nat, SentWell(s, ofs), IsCalls(calls),
           a < Len(calls), Awaits(s, calls, a, Len(calls))
    PROVE  {j \in DOMAIN s.pending : s.pending[j] # s.pending[1]} = 2 .. Len(s.pending)
<1>1. Len(calls) \in Nat /\ DOMAIN calls = 1 .. Len(calls)
    BY LenProperties DEF IsCalls
<1>2. Len(s.pending) = Len(calls) - a /\ DOMAIN s.pending = 1 .. Len(calls) - a
    BY LenProperties DEF Awaits, SentWell
<1>3. ASSUME NEW j \in 2 .. Len(calls) - a PROVE s.pending[j] # s.pending[1]
    <2>1. 1 \in 1 .. Len(calls) - a /\ j \in 1 .. Len(calls) - a
        BY <1>1
    <2>2. PICK i \in DOMAIN s.out : s.out[i].what = "call" /\ s.out[i].id = s.pending[1] /\ s.out[i].of = calls[a + 1].of
        BY <2>1 DEF Awaits
    <2>3. PICK k \in DOMAIN s.out : s.out[k].what = "call" /\ s.out[k].id = s.pending[j] /\ s.out[k].of = calls[a + j].of
        BY <2>1 DEF Awaits
    <2>4. a + 1 \in DOMAIN calls /\ a + j \in DOMAIN calls /\ a + 1 # a + j
        BY <1>1
    <2>5. calls[a + 1].of # calls[a + j].of
        BY <2>4 DEF IsCalls
    <2> QED
        BY <2>2, <2>3, <2>5 DEF SentWell
<1>4. PICK n \in Nat : n = Len(calls) - a
    <2>1. Len(calls) - a \in Nat
        BY <1>1
    <2> QED
        BY <2>1
<1>5. Len(s.pending) = n /\ DOMAIN s.pending = 1 .. n /\ \A j \in 2 .. n : s.pending[j] # s.pending[1]
    BY <1>2, <1>3, <1>4
<1>6. \A j \in 1 .. n : s.pending[j] # s.pending[1] <=> j \in 2 .. n
    BY <1>5
<1>7. 2 .. n \subseteq 1 .. n
    BY <1>4
<1> QED
    BY <1>5, <1>6, <1>7

\* A result goes to the first call that waits, which is its own.
LEMMA ResultIsSent ==
    ASSUME NEW s, NEW ofs, NEW calls, NEW a \in Nat, NEW result, SentWell(s, ofs), IsCalls(calls),
           a < Len(calls), Awaits(s, calls, a, Len(calls)),
           result = [calls[a + 1] EXCEPT !.what = "response"]
    PROVE  LET t == SanitizedResponse(s, result)
           IN SentWell(t, ofs) /\ Awaits(t, calls, a + 1, Len(calls))
<1>1. Len(calls) \in Nat /\ DOMAIN calls = 1 .. Len(calls) /\ a + 1 \in 1 .. Len(calls)
    BY LenProperties DEF IsCalls
<1>2. calls[a + 1] \in CallParts
    <2>1. calls[a + 1] \in {p \in CallParts : p.what = "call"}
        BY <1>1, ElementOfSeq DEF IsCalls
    <2> QED
        BY <2>1
<1>3. /\ result.id = calls[a + 1].id /\ result.of = calls[a + 1].of /\ result.of \in GivenIds
    <2>1. calls[a + 1].what = "call"
        BY <1>1, ElementOfSeq DEF IsCalls
    <2> QED
        BY <1>2, <2>1 DEF CallParts
<1> DEFINE id == s.pending[1]
           sent == [what |-> "response", id |-> id, of |-> result.of]
<1>4. /\ s.pending \in Seq(SentIds) /\ Len(s.pending) = Len(calls) - a /\ s.pending # <<>>
      /\ id \in SentIds /\ Head(s.pending) = id
    <2>1. s.pending \in Seq(SentIds) /\ Len(s.pending) = Len(calls) - a
        BY DEF SentWell, Awaits
    <2>2. s.pending # <<>> /\ 1 \in 1 .. Len(s.pending)
        BY <1>1, <2>1, EmptySeq
    <2> QED
        BY <2>1, <2>2, ElementOfSeq
<1>5. PICK m \in DOMAIN s.out : s.out[m].what = "call" /\ s.out[m].id = id /\ s.out[m].of = result.of
    <2>1. 1 \in 1 .. Len(calls) - a
        BY <1>1
    <2> QED
        BY <1>3, <2>1 DEF Awaits
<1>6. id \in s.used
    BY <1>5 DEF SentWell
<1>7. result.id # NoId => Given(result.id) = id
    <2>1. 1 \in 1 .. Len(calls) - a
        BY <1>1
    <2> QED
        BY <1>3, <2>1 DEF Awaits
<1>8. PICK t : t = SanitizedResponse(s, result)
    OBVIOUS
<1>9. Picked(s.pending, {k \in DOMAIN s.pending : s.pending[k] # id}) = Tail(s.pending)
    BY <1>4, PickedRest, WaitingCallsDiffer
<1> HIDE DEF id
<1>10. t.out = Append(s.out, sent) /\ t.pending = Tail(s.pending) /\ t.used = s.used /\ t.made = s.made
    <2>1. CASE result.id = NoId
        BY <1>4, <1>6, <1>8, <1>9, <2>1 DEF SanitizedResponse
    <2>2. CASE result.id # NoId
        BY <1>6, <1>7, <1>8, <1>9, <2>2 DEF SanitizedResponse
    <2> QED
        BY <2>1, <2>2
<1>11. sent \in SentParts /\ sent.what = "response" /\ sent.id = id /\ sent.of = result.of
    BY <1>3, <1>4 DEF SentParts
<1> HIDE DEF sent
<1>12. PICK n : n = Len(s.out)
    OBVIOUS
<1>13. /\ n \in Nat /\ t.out \in Seq(SentParts) /\ DOMAIN s.out = 1 .. n /\ DOMAIN t.out = 1 .. n + 1
       /\ \A j \in 1 .. n : t.out[j] = s.out[j]
       /\ t.out[n + 1] = sent
    BY <1>10, <1>11, <1>12, LenProperties DEF SentWell
<1>14. /\ t.pending \in Seq(SentIds) /\ Len(t.pending) = Len(calls) - (a + 1)
       /\ \A j \in 1 .. Len(calls) - (a + 1) : t.pending[j] = s.pending[j + 1]
    BY <1>1, <1>4, <1>10, HeadTailProperties
<1>15. \A j \in DOMAIN t.out : t.out[j].id \in t.used
    <2>1. \A j \in DOMAIN s.out : s.out[j].id \in s.used
        BY DEF SentWell
    <2>2. t.out[n + 1].id \in t.used
        BY <1>6, <1>10, <1>11, <1>13
    <2>3. \A j \in 1 .. n : t.out[j].id \in t.used
        BY <1>10, <1>13, <2>1
    <2>4. \A j \in 1 .. n + 1 : j \in 1 .. n \/ j = n + 1
        BY <1>13
    <2> QED
        BY <1>13, <2>2, <2>3, <2>4
<1>16. ASSUME NEW i \in DOMAIN t.out, NEW j \in DOMAIN t.out,
              t.out[i].what = "call", t.out[j].what = "call", i # j
       PROVE  t.out[i].id # t.out[j].id
    <2>1. i \in 1 .. n /\ j \in 1 .. n
        BY <1>11, <1>13, <1>16
    <2>2. /\ i \in DOMAIN s.out /\ j \in DOMAIN s.out
          /\ t.out[i] = s.out[i] /\ t.out[j] = s.out[j]
        BY <1>13, <2>1
    <2>3. s.out[i].id # s.out[j].id
        BY <1>16, <2>2 DEF SentWell
    <2> QED
        BY <2>2, <2>3
<1>17. ASSUME NEW i \in DOMAIN t.out, t.out[i].what # "call"
       PROVE  \E j \in DOMAIN t.out : /\ t.out[j].what = "call" /\ j < i
                                      /\ t.out[i].of = t.out[j].of /\ t.out[i].id = t.out[j].id
    <2>1. CASE i = n + 1
        <3>1. m \in 1 .. n /\ t.out[m] = s.out[m] /\ m \in DOMAIN t.out /\ m < n + 1
            BY <1>5, <1>13
        <3> QED
            BY <1>5, <1>11, <1>13, <2>1, <3>1
    <2>2. CASE i # n + 1
        <3>1. i \in 1 .. n /\ t.out[i] = s.out[i]
            BY <1>13, <2>2
        <3>2. PICK j \in 1 .. n : /\ s.out[j].what = "call" /\ j < i
                                  /\ s.out[i].of = s.out[j].of /\ s.out[i].id = s.out[j].id
            BY <1>13, <1>17, <3>1 DEF SentWell
        <3>3. t.out[j] = s.out[j] /\ j \in DOMAIN t.out
            BY <1>13, <3>2
        <3> QED
            BY <3>1, <3>2, <3>3
    <2> QED
        BY <2>1, <2>2
<1>18. SentWell(t, ofs)
    BY <1>10, <1>13, <1>14, <1>15, <1>16, <1>17 DEF SentWell
<1>19. ASSUME NEW j \in 1 .. Len(calls) - (a + 1)
       PROVE  /\ \E i \in DOMAIN t.out : /\ t.out[i].what = "call" /\ t.out[i].id = t.pending[j]
                                         /\ t.out[i].of = calls[(a + 1) + j].of
              /\ calls[(a + 1) + j].id # NoId => t.pending[j] = Given(calls[(a + 1) + j].id)
    <2>1. PICK h \in 1 .. Len(calls) - a : h = j + 1 /\ (a + 1) + j = a + h
        BY <1>1
    <2>2. PICK i \in DOMAIN s.out : /\ s.out[i].what = "call" /\ s.out[i].id = s.pending[h]
                                    /\ s.out[i].of = calls[a + h].of
        BY DEF Awaits
    <2>3. i \in DOMAIN t.out /\ t.out[i] = s.out[i] /\ t.pending[j] = s.pending[h]
        BY <1>13, <1>14, <2>1, <2>2
    <2>4. calls[a + h].id # NoId => s.pending[h] = Given(calls[a + h].id)
        BY DEF Awaits
    <2> QED
        BY <2>1, <2>2, <2>3, <2>4
<1>20. Awaits(t, calls, a + 1, Len(calls))
    BY <1>14, <1>19 DEF Awaits
<1> QED
    BY <1>8, <1>18, <1>20

\* Over the calls of an answer: each has its id, and they wait in their order.
LEMMA CallsAreSent ==
    ASSUME NEW s, NEW ofs, NEW calls, NEW f, SentWell(s, ofs), Len(s.pending) = 0, IsCalls(calls),
           \A k \in DOMAIN calls : calls[k].of \notin ofs,
           Walks(f, s, calls)
    PROVE  /\ SentWell(f[Len(calls)], ofs \cup {calls[k].of : k \in DOMAIN calls})
           /\ Awaits(f[Len(calls)], calls, 0, Len(calls))
<1>1. Len(calls) \in Nat /\ DOMAIN calls = 1 .. Len(calls)
    BY LenProperties DEF IsCalls
<1> DEFINE Upto(m) == ofs \cup {calls[k].of : k \in 1 .. m}
           N == {m \in Nat : m <= Len(calls) => SentWell(f[m], Upto(m)) /\ Awaits(f[m], calls, 0, m)}
<1>2. 0 \in N
    <2>1. f[0] = s
        BY DEF Walks
    <2>2. Upto(0) = ofs
        OBVIOUS
    <2>3. Awaits(s, calls, 0, 0)
        <3>1. 1 .. 0 - 0 = {} /\ 0 - 0 = 0
            OBVIOUS
        <3> QED
            BY <3>1 DEF Awaits
    <2> HIDE DEF Upto
    <2> QED
        BY <2>1, <2>2, <2>3
<1>3. ASSUME NEW m \in N PROVE m + 1 \in N
    <2>1. m \in Nat
        OBVIOUS
    <2>2. SUFFICES ASSUME m + 1 <= Len(calls)
                   PROVE  SentWell(f[m + 1], Upto(m + 1)) /\ Awaits(f[m + 1], calls, 0, m + 1)
        <3> HIDE DEF Upto
        <3> QED
            BY <2>1
    <2>3. SentWell(f[m], Upto(m)) /\ Awaits(f[m], calls, 0, m)
        <3> HIDE DEF Upto
        <3> QED
            BY <1>1, <2>1, <2>2
    <2>4. m + 1 \in 1 .. Len(calls) /\ (m + 1) - 1 = m
        BY <1>1, <2>1, <2>2
    <2>5. f[m + 1] = SanitizedCall(f[m], calls[m + 1])
        <3>1. calls[m + 1].what = "call"
            BY <1>1, <2>4, ElementOfSeq DEF IsCalls
        <3> QED
            BY <2>4, <3>1 DEF Walks, SanitizedPart
    <2>6. calls[m + 1].of \notin Upto(m)
        <3>1. ASSUME NEW k \in 1 .. m PROVE calls[k].of # calls[m + 1].of
            <4>1. k \in 1 .. Len(calls) /\ k # m + 1
                BY <1>1, <2>1, <2>2
            <4> QED
                BY <1>1, <2>4, <4>1 DEF IsCalls
        <3> QED
            BY <1>1, <2>4, <3>1
    <2>7. Upto(m + 1) = Upto(m) \cup {calls[m + 1].of}
        <3>1. 1 .. m + 1 = (1 .. m) \cup {m + 1}
            BY <2>1
        <3> QED
            BY <3>1
    <2>8. m + 1 \in DOMAIN calls
        BY <1>1, <2>4
    <2> HIDE DEF Upto
    <2>9. /\ SentWell(SanitizedCall(f[m], calls[m + 1]), Upto(m) \cup {calls[m + 1].of})
          /\ Awaits(SanitizedCall(f[m], calls[m + 1]), calls, 0, m + 1)
        BY <2>1, <2>3, <2>6, <2>8, CallIsSent
    <2> QED
        BY <2>5, <2>7, <2>9
<1>4. N = Nat
    <2>1. N \in SUBSET Nat
        OBVIOUS
    <2> HIDE DEF N
    <2> QED
        BY <1>2, <1>3, <2>1, AllNumbers
<1>5. Len(calls) \in N /\ Len(calls) <= Len(calls)
    <2> HIDE DEF N
    <2> QED
        BY <1>1, <1>4
<1>6. SentWell(f[Len(calls)], Upto(Len(calls))) /\ Awaits(f[Len(calls)], calls, 0, Len(calls))
    <2> HIDE DEF Upto
    <2> QED
        BY <1>5
<1> QED
    BY <1>1, <1>6

\* The results of calls, in their order.
ResultsOf(calls) == [k \in DOMAIN calls |-> [calls[k] EXCEPT !.what = "response"]]

\* Over the results: every call has had its own.
LEMMA ResultsAreSent ==
    ASSUME NEW s, NEW ofs, NEW calls, NEW f, SentWell(s, ofs), IsCalls(calls),
           Awaits(s, calls, 0, Len(calls)),
           Walks(f, s, ResultsOf(calls))
    PROVE  /\ Len(ResultsOf(calls)) = Len(calls)
           /\ SentWell(f[Len(calls)], ofs)
           /\ Len(f[Len(calls)].pending) = 0
<1>1. Len(calls) \in Nat /\ DOMAIN calls = 1 .. Len(calls)
    BY LenProperties DEF IsCalls
<1>2. /\ Len(ResultsOf(calls)) = Len(calls)
      /\ \A k \in 1 .. Len(calls) : ResultsOf(calls)[k] = [calls[k] EXCEPT !.what = "response"]
    BY <1>1 DEF ResultsOf
<1> DEFINE N == {m \in Nat : m <= Len(calls) => SentWell(f[m], ofs) /\ Awaits(f[m], calls, m, Len(calls))}
<1>3. 0 \in N
    BY DEF Walks
<1>4. ASSUME NEW m \in N PROVE m + 1 \in N
    <2>1. m \in Nat
        OBVIOUS
    <2>2. SUFFICES ASSUME m + 1 <= Len(calls)
                   PROVE  SentWell(f[m + 1], ofs) /\ Awaits(f[m + 1], calls, m + 1, Len(calls))
        BY <2>1
    <2>3. SentWell(f[m], ofs) /\ Awaits(f[m], calls, m, Len(calls)) /\ m < Len(calls)
        BY <1>1, <2>1, <2>2
    <2>4. m + 1 \in 1 .. Len(calls) /\ (m + 1) - 1 = m
        BY <1>1, <2>1, <2>2
    <2>5. f[m + 1] = SanitizedResponse(f[m], [calls[m + 1] EXCEPT !.what = "response"])
        <3>1. calls[m + 1] \in CallParts
            BY <1>1, <2>4, ElementOfSeq DEF IsCalls
        <3>2. [calls[m + 1] EXCEPT !.what = "response"].what = "response"
            BY <3>1 DEF CallParts
        <3>3. f[m + 1] = SanitizedPart(f[m], [calls[m + 1] EXCEPT !.what = "response"])
            BY <1>2, <2>4 DEF Walks
        <3> QED
            BY <3>2, <3>3 DEF SanitizedPart
    <2> QED
        BY <2>1, <2>3, <2>5, ResultIsSent
<1>5. N = Nat
    <2>1. N \in SUBSET Nat
        OBVIOUS
    <2> HIDE DEF N
    <2> QED
        BY <1>3, <1>4, <2>1, AllNumbers
<1>6. Len(calls) \in N /\ Len(calls) <= Len(calls)
    <2> HIDE DEF N
    <2> QED
        BY <1>1, <1>5
<1>7. SentWell(f[Len(calls)], ofs) /\ Awaits(f[Len(calls)], calls, Len(calls), Len(calls))
    BY <1>6
<1>8. Len(f[Len(calls)].pending) = 0
    BY <1>1, <1>7 DEF Awaits
<1> QED
    BY <1>2, <1>7, <1>8

\* A content holds an answer's text and calls, or the results of calls.
Shaped(c) ==
    \/ \A k \in DOMAIN c : c[k].what = "response"
    \/ \A k \in DOMAIN c : c[k].what = "call" \/ (k = 1 /\ c[k].what = "text")

\* Pieces of arguments, gathered in order.
Pieces == {[k \in 1 .. m |-> k] : m \in 0 .. MaxFragments}

NamesIn(cs) == {FlattenSeq(cs)[k].of : k \in DOMAIN FlattenSeq(cs)}

\* What an answer may hold in a phase: calls that were named nowhere before.
Fits(a, where, from, cs) ==
    /\ IsCalls(a.calls)
    /\ a.error => a.calls = <<>>
    /\ where \in {"idle", "asked"} => ~a.error
    /\ where = "idle" => a.calls = <<>>
    /\ where = "asked" /\ from = "other" => a.calls = <<>>
    /\ where # "tools" => \A k \in DOMAIN a.calls : a.calls[k].of \notin NamesIn(cs)

\* The conversation goes out in order: its calls have had their results, but for those
\* that the tools are at.
GoesOut(cs, calls, where) ==
    /\ cs \in Seq(Seq(CallParts)) /\ \A k \in DOMAIN cs : Shaped(cs[k])
    /\ SentWell(WalkEnd(FlattenSeq(cs)), NamesIn(cs))
    /\ where # "tools" => Len(WalkEnd(FlattenSeq(cs)).pending) = 0
    /\ where = "tools" => Awaits(WalkEnd(FlattenSeq(cs)), calls, 0, Len(calls))

\* An invocation's request, answer and conversation; it is asked under the request noted.
InvocationInv(i) ==
    /\ Fits(answer[i], phase[i], provider, contents[i])
    /\ GoesOut(contents[i], answer[i].calls, phase[i])
    /\ phase[i] \in {"asked", "answered"} => noted[i] = nr[i]

CallTypes ==
    /\ phase \in [Invocations -> {"idle", "asked", "answered", "tools"}]
    /\ nr \in [Invocations -> Nat] /\ noted \in [Invocations -> Nat]
    /\ answer \in [Invocations -> [error : BOOLEAN, text : BOOLEAN, calls : Seq(CallParts), usage : BOOLEAN]]
    /\ DOMAIN contents = Invocations /\ DOMAIN buffers = Invocations
    /\ \A i \in Invocations : \A c \in DOMAIN buffers[i] : buffers[i][c] \in Pieces

CallInv ==
    /\ CallTypes /\ UsageOfItsRequest
    /\ \A i \in Invocations : InvocationInv(i)

\* What was sent well stays so whatever else is named.
LEMMA SentWellForMore ==
    ASSUME NEW s, NEW A, NEW B, SentWell(s, A), A \subseteq B
    PROVE  SentWell(s, B)
BY DEF SentWell

\* A content more: the parts of the conversation, and what they name.
LEMMA OneContentMore ==
    ASSUME NEW cs \in Seq(Seq(CallParts)), NEW c \in Seq(CallParts)
    PROVE  /\ FlattenSeq(cs) \in Seq(CallParts) /\ FlattenSeq(Append(cs, c)) = FlattenSeq(cs) \o c
           /\ NamesIn(Append(cs, c)) = NamesIn(cs) \cup {c[k].of : k \in DOMAIN c}
           /\ Append(cs, c) \in Seq(Seq(CallParts))
           /\ \A k \in DOMAIN Append(cs, c) : (k \in DOMAIN cs /\ Append(cs, c)[k] = cs[k]) \/ Append(cs, c)[k] = c
<1>1. FlattenSeq(cs) \in Seq(CallParts) /\ FlattenSeq(Append(cs, c)) = FlattenSeq(cs) \o c
    BY FlattenedMore
<1>2. PICK p : p = FlattenSeq(cs)
    OBVIOUS
<1>3. /\ Len(p) \in Nat /\ Len(c) \in Nat /\ DOMAIN p = 1 .. Len(p) /\ DOMAIN c = 1 .. Len(c)
      /\ DOMAIN (p \o c) = 1 .. Len(p) + Len(c)
      /\ \A k \in 1 .. Len(p) + Len(c) : (p \o c)[k] = IF k <= Len(p) THEN p[k] ELSE c[k - Len(p)]
    BY <1>1, <1>2, LenProperties, ConcatProperties
<1>4. {(p \o c)[k].of : k \in DOMAIN (p \o c)} = {p[k].of : k \in DOMAIN p} \cup {c[k].of : k \in DOMAIN c}
    <2>1. ASSUME NEW k \in DOMAIN (p \o c)
          PROVE  (p \o c)[k].of \in {p[j].of : j \in DOMAIN p} \cup {c[j].of : j \in DOMAIN c}
        <3>1. CASE k <= Len(p)
            BY <1>3, <3>1
        <3>2. CASE k > Len(p)
            <4>1. k - Len(p) \in DOMAIN c /\ (p \o c)[k] = c[k - Len(p)]
                BY <1>3, <3>2
            <4> QED
                BY <4>1
        <3> QED
            BY <1>3, <3>1, <3>2
    <2>2. ASSUME NEW k \in DOMAIN p PROVE k \in DOMAIN (p \o c) /\ (p \o c)[k] = p[k]
        BY <1>3
    <2>3. ASSUME NEW k \in DOMAIN c PROVE Len(p) + k \in DOMAIN (p \o c) /\ (p \o c)[Len(p) + k] = c[k]
        BY <1>3
    <2>4. PICK q : q = p \o c
        OBVIOUS
    <2>5. ASSUME NEW x \in {p[k].of : k \in DOMAIN p} \cup {c[k].of : k \in DOMAIN c}
          PROVE  x \in {q[k].of : k \in DOMAIN q}
        BY <2>2, <2>3, <2>4
    <2>6. \A k \in DOMAIN q : q[k].of \in {p[j].of : j \in DOMAIN p} \cup {c[j].of : j \in DOMAIN c}
        BY <2>1, <2>4
    <2>7. {q[k].of : k \in DOMAIN q} = {p[k].of : k \in DOMAIN p} \cup {c[k].of : k \in DOMAIN c}
        BY <2>5, <2>6
    <2> QED
        BY <2>4, <2>7
<1>5. PICK T : T = Seq(CallParts)
    OBVIOUS
<1>6. /\ Append(cs, c) \in Seq(T)
      /\ \A k \in DOMAIN Append(cs, c) : (k \in DOMAIN cs /\ Append(cs, c)[k] = cs[k]) \/ Append(cs, c)[k] = c
    <2>1. cs \in Seq(T) /\ c \in T
        BY <1>5
    <2>2. /\ Len(cs) \in Nat /\ DOMAIN cs = 1 .. Len(cs) /\ Append(cs, c) \in Seq(T)
          /\ Len(Append(cs, c)) = Len(cs) + 1
          /\ \A k \in 1 .. Len(cs) : Append(cs, c)[k] = cs[k]
          /\ Append(cs, c)[Len(cs) + 1] = c
        BY <2>1, LenProperties
    <2>3. DOMAIN Append(cs, c) = 1 .. Len(cs) + 1
        BY <2>2, LenProperties
    <2> QED
        BY <2>2, <2>3
<1> QED
    <2>1. NamesIn(Append(cs, c)) = NamesIn(cs) \cup {c[k].of : k \in DOMAIN c}
        <3>1. NamesIn(cs) = {p[k].of : k \in DOMAIN p}
            BY <1>2 DEF NamesIn
        <3>2. NamesIn(Append(cs, c)) = {(p \o c)[k].of : k \in DOMAIN (p \o c)}
            BY <1>1, <1>2 DEF NamesIn
        <3> QED
            BY <1>4, <3>1, <3>2
    <2> QED
        BY <1>1, <1>5, <1>6, <2>1

\* An answer enters the conversation; its calls wait for the tools.
LEMMA AnswerGoesOut ==
    ASSUME NEW cs, NEW calls, NEW said, NEW where, where # "tools", GoesOut(cs, calls, where),
           said \in {<<>>, <<Text0>>}, IsCalls(calls),
           \A k \in DOMAIN calls : calls[k].of \notin NamesIn(cs)
    PROVE  GoesOut(Append(cs, said \o calls), calls, "tools")
<1> DEFINE p == FlattenSeq(cs)
           c == said \o calls
<1>1. calls \in Seq(CallParts) /\ said \in Seq(CallParts) /\ c \in Seq(CallParts)
    <2>1. calls \in Seq(CallParts)
        <3>1. {q \in CallParts : q.what = "call"} \subseteq CallParts
            OBVIOUS
        <3> QED
            BY <3>1, SeqMonotonic DEF IsCalls
    <2>2. Text0 \in CallParts
        BY DEF Text0, CallParts, Named
    <2>3. said \in Seq(CallParts)
        <3>1. <<Text0>> \in Seq(CallParts)
            BY <2>2
        <3>2. <<>> \in Seq(CallParts)
            BY EmptySeq
        <3> QED
            BY <3>1, <3>2
    <2> QED
        BY <2>1, <2>3, ConcatProperties
<1>2. /\ cs \in Seq(Seq(CallParts)) /\ \A k \in DOMAIN cs : Shaped(cs[k])
      /\ SentWell(WalkEnd(p), NamesIn(cs)) /\ Len(WalkEnd(p).pending) = 0
    BY DEF GoesOut
<1> HIDE DEF p, c
<1>3. /\ FlattenSeq(cs) \in Seq(CallParts) /\ FlattenSeq(Append(cs, c)) = FlattenSeq(cs) \o c
      /\ NamesIn(Append(cs, c)) = NamesIn(cs) \cup {c[k].of : k \in DOMAIN c}
      /\ Append(cs, c) \in Seq(Seq(CallParts))
      /\ \A k \in DOMAIN Append(cs, c) : (k \in DOMAIN cs /\ Append(cs, c)[k] = cs[k]) \/ Append(cs, c)[k] = c
    BY <1>1, <1>2, OneContentMore
<1>4. FlattenSeq(Append(cs, c)) = (p \o said) \o calls /\ p \in Seq(CallParts) /\ p \o said \in Seq(CallParts)
    <2>1. p \in Seq(CallParts) /\ FlattenSeq(Append(cs, c)) = p \o (said \o calls)
        BY <1>3 DEF p, c
    <2>2. (p \o said) \o calls = p \o (said \o calls)
        <3>1. said \in Seq(CallParts) /\ calls \in Seq(CallParts)
            BY <1>1
        <3>2. \A x, y, z \in Seq(CallParts) : (x \o y) \o z = x \o (y \o z)
            BY ConcatAssociative
        <3> QED
            BY <2>1, <3>1, <3>2
    <2>3. p \o said \in Seq(CallParts)
        BY <1>1, <2>1, ConcatProperties
    <2> QED
        BY <2>1, <2>2, <2>3
<1>5. WalkEnd(p \o said) = WalkEnd(p)
    <2>1. PICK f : Walks(f, WalkEnd(p), said) /\ f[Len(said)] = WalkEnd(p \o said)
        BY <1>1, <1>4, WalkGoesOn
    <2>2. CASE said = <<>>
        <3>1. Len(said) = 0
            BY <2>2, EmptySeq
        <3> QED
            BY <2>1, <3>1 DEF Walks
    <2>3. CASE said = <<Text0>>
        <3>1. Len(said) = 1 /\ said[1] = Text0 /\ 1 - 1 = 0
            BY <2>3
        <3>2. 1 \in 1 .. Len(said)
            BY <3>1
        <3>3. f[1] = SanitizedPart(f[0], Text0)
            BY <2>1, <3>1, <3>2 DEF Walks
        <3>4. SanitizedPart(f[0], Text0) = f[0]
            BY DEF SanitizedPart, Text0
        <3> QED
            BY <2>1, <3>1, <3>3, <3>4 DEF Walks
    <2> QED
        BY <2>2, <2>3
<1>6. PICK f : Walks(f, WalkEnd(p), calls) /\ f[Len(calls)] = WalkEnd((p \o said) \o calls)
    BY <1>1, <1>4, <1>5, WalkGoesOn
<1>7. /\ SentWell(f[Len(calls)], NamesIn(cs) \cup {calls[k].of : k \in DOMAIN calls})
      /\ Awaits(f[Len(calls)], calls, 0, Len(calls))
    BY <1>2, <1>6, CallsAreSent
<1>8. \A k \in DOMAIN calls : \E j \in DOMAIN c : c[j] = calls[k]
    <2>1. /\ Len(calls) \in Nat /\ Len(said) \in Nat /\ DOMAIN calls = 1 .. Len(calls)
          /\ DOMAIN c = 1 .. Len(said) + Len(calls)
          /\ \A k \in 1 .. Len(said) + Len(calls) : c[k] = IF k <= Len(said) THEN said[k] ELSE calls[k - Len(said)]
        BY <1>1, LenProperties, ConcatProperties DEF c
    <2>2. \A k \in 1 .. Len(calls) : Len(said) + k \in DOMAIN c /\ c[Len(said) + k] = calls[k]
        BY <2>1
    <2> QED
        BY <2>1, <2>2
<1>9. NamesIn(cs) \cup {calls[k].of : k \in DOMAIN calls} \subseteq NamesIn(Append(cs, c))
    BY <1>3, <1>8
<1>10. SentWell(f[Len(calls)], NamesIn(Append(cs, c)))
    BY <1>7, <1>9, SentWellForMore
<1>11. Shaped(c)
    <2>1. /\ Len(calls) \in Nat /\ DOMAIN calls = 1 .. Len(calls)
          /\ \A k \in 1 .. Len(calls) : calls[k].what = "call"
        BY LenProperties, ElementOfSeq DEF IsCalls
    <2>2. CASE said = <<>>
        <3>1. c = calls
            BY <1>1, <2>2, ConcatEmptySeq DEF c
        <3> QED
            BY <2>1, <3>1 DEF Shaped
    <2>3. CASE said = <<Text0>>
        <3>1. Len(said) = 1 /\ said[1] = Text0
            BY <2>3
        <3>2. /\ DOMAIN c = 1 .. 1 + Len(calls)
              /\ \A k \in 1 .. 1 + Len(calls) : c[k] = IF k <= 1 THEN said[k] ELSE calls[k - 1]
            <4>1. /\ Len(c) = Len(said) + Len(calls) /\ DOMAIN c = 1 .. Len(c)
                  /\ \A k \in 1 .. Len(said) + Len(calls) :
                        c[k] = IF k <= Len(said) THEN said[k] ELSE calls[k - Len(said)]
                BY <1>1, LenProperties, ConcatProperties DEF c
            <4> QED
                BY <3>1, <4>1
        <3>3. ASSUME NEW k \in DOMAIN c PROVE c[k].what = "call" \/ (k = 1 /\ c[k].what = "text")
            <4>1. CASE k = 1
                <5>1. c[k] = Text0
                    BY <2>1, <3>1, <3>2, <4>1
                <5> QED
                    BY <4>1, <5>1 DEF Text0
            <4>2. CASE k # 1
                <5>1. k - 1 \in 1 .. Len(calls) /\ c[k] = calls[k - 1]
                    BY <2>1, <3>2, <4>2
                <5> QED
                    BY <2>1, <5>1
            <4> QED
                BY <4>1, <4>2
        <3> QED
            BY <3>3 DEF Shaped
    <2> QED
        BY <2>2, <2>3
<1> QED
    BY <1>2, <1>3, <1>4, <1>6, <1>7, <1>10, <1>11 DEF GoesOut, c

\* The results enter the conversation; no call waits any more.
LEMMA ResultsGoOut ==
    ASSUME NEW cs, NEW calls, GoesOut(cs, calls, "tools"), IsCalls(calls)
    PROVE  \A none : GoesOut(Append(cs, ResultsOf(calls)), none, "idle")
<1> DEFINE p == FlattenSeq(cs)
           c == ResultsOf(calls)
<1>1. /\ cs \in Seq(Seq(CallParts)) /\ \A k \in DOMAIN cs : Shaped(cs[k])
      /\ SentWell(WalkEnd(p), NamesIn(cs)) /\ Awaits(WalkEnd(p), calls, 0, Len(calls))
    BY DEF GoesOut
<1>2. /\ Len(calls) \in Nat /\ DOMAIN calls = 1 .. Len(calls)
      /\ \A k \in 1 .. Len(calls) : calls[k] \in CallParts
    BY LenProperties, ElementOfSeq DEF IsCalls
<1>3. \A k \in 1 .. Len(calls) : c[k] \in CallParts /\ c[k].what = "response"
    <2>1. ASSUME NEW k \in 1 .. Len(calls), NEW q, q = calls[k]
          PROVE  [q EXCEPT !.what = "response"] \in CallParts /\ [q EXCEPT !.what = "response"].what = "response"
        <3>1. q \in CallParts /\ q.what = "call"
            BY <2>1, ElementOfSeq, <1>2 DEF IsCalls
        <3> QED
            BY <3>1 DEF CallParts
    <2> QED
        BY <1>2, <2>1 DEF ResultsOf
<1>4. c \in Seq(CallParts) /\ DOMAIN c = 1 .. Len(calls)
    BY <1>2, <1>3 DEF ResultsOf
<1> HIDE DEF p, c
<1>5. /\ FlattenSeq(cs) \in Seq(CallParts) /\ FlattenSeq(Append(cs, c)) = FlattenSeq(cs) \o c
      /\ NamesIn(Append(cs, c)) = NamesIn(cs) \cup {c[k].of : k \in DOMAIN c}
      /\ Append(cs, c) \in Seq(Seq(CallParts))
      /\ \A k \in DOMAIN Append(cs, c) : (k \in DOMAIN cs /\ Append(cs, c)[k] = cs[k]) \/ Append(cs, c)[k] = c
    BY <1>1, <1>4, OneContentMore
<1>6. PICK f : Walks(f, WalkEnd(p), c) /\ f[Len(c)] = WalkEnd(p \o c)
    BY <1>4, <1>5, WalkGoesOn DEF p
<1>7. Len(c) = Len(calls) /\ SentWell(f[Len(calls)], NamesIn(cs)) /\ Len(f[Len(calls)].pending) = 0
    BY <1>1, <1>6, ResultsAreSent DEF c
<1>8. SentWell(f[Len(calls)], NamesIn(Append(cs, c)))
    BY <1>5, <1>7, SentWellForMore
<1>9. Shaped(c)
    BY <1>3, <1>4 DEF Shaped
<1> QED
    BY <1>1, <1>5, <1>6, <1>7, <1>8, <1>9 DEF GoesOut, c, p

\* A content that an answer or results make is in Codex's order already.
LEMMA ShapedIsInOrder ==
    ASSUME NEW c \in Seq(CallParts), Shaped(c)
    PROVE  PartsThatAre(c, "response") \o PartsThatAre(c, "text") \o PartsThatAre(c, "call") = c
<1>1. /\ Len(c) \in Nat /\ DOMAIN c = 1 .. Len(c)
      /\ \A k \in 1 .. Len(c) : c[k].what \in {"call", "response", "text"}
    <2>1. \A k \in 1 .. Len(c) : c[k] \in CallParts
        BY ElementOfSeq
    <2> QED
        BY <2>1, LenProperties DEF CallParts
<1>2. <<>> \in Seq(CallParts) /\ c \o <<>> = c /\ <<>> \o c = c /\ <<>> \o <<>> = <<>>
    BY EmptySeq, ConcatEmptySeq
<1>3. CASE \A k \in DOMAIN c : c[k].what = "response"
    <2>1. /\ {k \in DOMAIN c : c[k].what = "response"} = DOMAIN c
          /\ {k \in DOMAIN c : c[k].what = "text"} = {} /\ {k \in DOMAIN c : c[k].what = "call"} = {}
        BY <1>3
    <2>2. PartsThatAre(c, "response") = c /\ PartsThatAre(c, "text") = <<>> /\ PartsThatAre(c, "call") = <<>>
        BY <2>1, PickedWhole, PickedNone DEF PartsThatAre
    <2> QED
        BY <1>2, <2>2
<1>4. CASE \A k \in DOMAIN c : c[k].what = "call"
    <2>1. /\ {k \in DOMAIN c : c[k].what = "call"} = DOMAIN c
          /\ {k \in DOMAIN c : c[k].what = "text"} = {} /\ {k \in DOMAIN c : c[k].what = "response"} = {}
        BY <1>4
    <2>2. PartsThatAre(c, "call") = c /\ PartsThatAre(c, "text") = <<>> /\ PartsThatAre(c, "response") = <<>>
        BY <2>1, PickedWhole, PickedNone DEF PartsThatAre
    <2> QED
        BY <1>2, <2>2
<1>5. CASE /\ 1 \in DOMAIN c /\ c[1].what = "text"
           /\ \A k \in DOMAIN c : c[k].what = "call" \/ (k = 1 /\ c[k].what = "text")
    <2>1. /\ {k \in DOMAIN c : c[k].what = "response"} = {}
          /\ {k \in DOMAIN c : c[k].what = "text"} = {1}
          /\ {k \in DOMAIN c : c[k].what = "call"} = 2 .. Len(c)
        <3>1. \A k \in 1 .. Len(c) : c[k].what = "text" <=> k = 1
            BY <1>1, <1>5
        <3>2. \A k \in 1 .. Len(c) : c[k].what = "call" <=> k # 1
            BY <1>1, <1>5
        <3>3. \A k \in 1 .. Len(c) : c[k].what # "response"
            BY <1>1, <1>5
        <3>4. 1 <= Len(c)
            BY <1>1, <1>5
        <3>5. {k \in DOMAIN c : c[k].what = "text"} = {1}
            BY <1>1, <3>1, <3>4
        <3>6. {k \in DOMAIN c : c[k].what = "call"} = 2 .. Len(c)
            BY <1>1, <3>2, <3>4
        <3> QED
            BY <1>1, <3>3, <3>5, <3>6
    <2>2. c # <<>> /\ Len(c) >= 1
        BY <1>1, <1>5, EmptySeq
    <2>3. PartsThatAre(c, "response") = <<>> /\ PartsThatAre(c, "call") = Tail(c)
        BY <2>1, <2>2, PickedRest, PickedNone DEF PartsThatAre
    <2>4. PartsThatAre(c, "text") = <<c[1]>>
        BY <2>1, PickedFirst DEF PartsThatAre
    <2>5. <<c[1]>> \in Seq(CallParts) /\ Tail(c) \in Seq(CallParts) /\ <<c[1]>> \o Tail(c) = c
        <3>1. c[1] \in CallParts
            BY <1>1, <1>5, ElementOfSeq
        <3>2. <<c[1]>> \in Seq(CallParts) /\ Len(<<c[1]>>) = 1 /\ <<c[1]>>[1] = c[1]
            BY <3>1
        <3>3. /\ Tail(c) \in Seq(CallParts) /\ Len(Tail(c)) = Len(c) - 1
              /\ \A k \in 1 .. Len(c) - 1 : Tail(c)[k] = c[k + 1]
            BY <2>2, HeadTailProperties
        <3>4. PICK d : d = <<c[1]>> \o Tail(c)
            OBVIOUS
        <3>5. /\ d \in Seq(CallParts) /\ Len(d) = Len(c)
              /\ \A k \in 1 .. Len(c) : d[k] = IF k <= 1 THEN <<c[1]>>[k] ELSE Tail(c)[k - 1]
            BY <1>1, <3>2, <3>3, <3>4, ConcatProperties
        <3>6. ASSUME NEW k \in 1 .. Len(c) PROVE d[k] = c[k]
            <4>1. CASE k = 1
                BY <3>2, <3>5, <4>1
            <4>2. CASE k # 1
                <5>1. k - 1 \in 1 .. Len(c) - 1 /\ (k - 1) + 1 = k /\ ~(k <= 1)
                    BY <1>1, <4>2
                <5> QED
                    BY <3>3, <3>5, <5>1
            <4> QED
                BY <4>1, <4>2
        <3>7. d = c
            BY <3>5, <3>6, SeqEqual
        <3> QED
            BY <3>2, <3>3, <3>4, <3>7
    <2>6. <<>> \o <<c[1]>> = <<c[1]>>
        BY <2>5, ConcatEmptySeq
    <2> QED
        BY <2>3, <2>4, <2>5, <2>6
<1>6. (\A k \in DOMAIN c : c[k].what = "call" \/ (k = 1 /\ c[k].what = "text"))
      => \/ \A k \in DOMAIN c : c[k].what = "call"
         \/ 1 \in DOMAIN c /\ c[1].what = "text"
    OBVIOUS
<1> QED
    BY <1>3, <1>4, <1>5, <1>6 DEF Shaped

\* What Codex is sent are the parts of the conversation.
LEMMA CodexIsSentAll ==
    ASSUME NEW cs \in Seq(Seq(CallParts)), \A k \in DOMAIN cs : Shaped(cs[k])
    PROVE  CodexInput(cs) = FlattenSeq(cs)
<1>1. PICK T : T = Seq(CallParts)
    OBVIOUS
<1>2. DOMAIN cs = 1 .. Len(cs) /\ cs = [k \in DOMAIN cs |-> cs[k]] /\ \A k \in 1 .. Len(cs) : cs[k] \in T
    <2>1. cs \in Seq(T)
        BY <1>1
    <2> QED
        BY <2>1, LenProperties, ElementOfSeq
<1>3. \A k \in DOMAIN cs :
         PartsThatAre(cs[k], "response") \o PartsThatAre(cs[k], "text") \o PartsThatAre(cs[k], "call") = cs[k]
    BY <1>1, <1>2, ShapedIsInOrder
<1>4. [k \in DOMAIN cs |->
         PartsThatAre(cs[k], "response") \o PartsThatAre(cs[k], "text") \o PartsThatAre(cs[k], "call")] = cs
    BY <1>2, <1>3
<1> QED
    BY <1>4 DEF CodexInput

\* Nothing was asked yet.
LEMMA CallStarts == CallInit => CallInv
<1> SUFFICES ASSUME CallInit PROVE CallInv
    OBVIOUS
<1>1. CallTypes
    <2>1. NoAnswer \in [error : BOOLEAN, text : BOOLEAN, calls : Seq(CallParts), usage : BOOLEAN]
        BY EmptySeq DEF NoAnswer
    <2>2. DOMAIN <<>> = {}
        OBVIOUS
    <2> QED
        BY <2>1, <2>2 DEF CallInit, CallTypes
<1>2. IsCalls(<<>>) /\ NoAnswer.calls = <<>> /\ ~NoAnswer.error
    BY EmptySeq DEF IsCalls, NoAnswer
<1>3. Fits(NoAnswer, "idle", provider, <<>>)
    BY <1>2 DEF Fits
<1>4. WalkEnd(<<>>) = WalkStart
    <2>1. Len(<<>>) = 0 /\ 0 \in Nat
        BY EmptySeq
    <2>2. Sanitized(<<>>)[0] = WalkStart
        BY <2>1, SanitizedInTurn
    <2> QED
        BY <2>1, <2>2 DEF WalkEnd
<1>5. SentWell(WalkStart, NamesIn(<<>>)) /\ Len(WalkStart.pending) = 0
    <2>1. <<>> \in Seq(SentParts) /\ <<>> \in Seq(SentIds) /\ Len(<<>>) = 0 /\ DOMAIN <<>> = {}
        BY EmptySeq
    <2> QED
        BY <2>1 DEF SentWell, WalkStart
<1>6. \A calls : GoesOut(<<>>, calls, "idle")
    BY <1>4, <1>5, EmptySeq, FlattenedNone DEF GoesOut
<1> QED
    BY <1>1, <1>3, <1>6 DEF CallInit, CallInv, InvocationInv, UsageOfItsRequest, NoAnswer

\* Where an invocation's answer, conversation and request stay, it keeps what holds of it.
LEMMA InvocationsStay ==
    ASSUME CallInv, NEW j \in Invocations,
           UNCHANGED <<provider, phase[j], nr[j], noted[j], contents[j], answer[j]>>
    PROVE  InvocationInv(j)'
BY DEF CallInv, InvocationInv

\* A request leaves, noted.
LEMMA AskStep == ASSUME CallInv, NEW i \in Invocations, BeforeModel(i) PROVE CallInv'
<1>1. CallTypes'
    BY DEF CallInv, CallTypes, BeforeModel
<1>2. UsageOfItsRequest'
    BY DEF CallInv, UsageOfItsRequest, BeforeModel
<1>3. InvocationInv(i)'
    <2>1. /\ phase[i] = "idle" /\ phase'[i] = "asked" /\ noted'[i] = nr'[i]
          /\ UNCHANGED <<provider, contents, answer>>
        BY DEF CallInv, CallTypes, BeforeModel
    <2> QED
        BY <2>1 DEF CallInv, InvocationInv, Fits, GoesOut
<1>4. ASSUME NEW j \in Invocations, j # i PROVE InvocationInv(j)'
    <2>1. UNCHANGED <<provider, phase[j], nr[j], noted[j], contents[j], answer[j]>>
        BY <1>4 DEF CallInv, CallTypes, BeforeModel
    <2> QED
        BY <2>1, InvocationsStay
<1> QED
    BY <1>1, <1>2, <1>3, <1>4 DEF CallInv

\* The client raises.
LEMMA RaiseStep == ASSUME CallInv, NEW i \in Invocations, ModelRaises(i) PROVE CallInv'
<1>1. CallTypes'
    BY DEF CallInv, CallTypes, ModelRaises
<1>2. UsageOfItsRequest'
    BY DEF CallInv, UsageOfItsRequest, ModelRaises
<1>3. InvocationInv(i)'
    <2>1. /\ phase[i] = "asked" /\ phase'[i] = "idle" /\ provider = "other"
          /\ UNCHANGED <<provider, contents, answer>>
        BY DEF CallInv, CallTypes, ModelRaises
    <2> QED
        BY <2>1 DEF CallInv, InvocationInv, Fits, GoesOut
<1>4. ASSUME NEW j \in Invocations, j # i PROVE InvocationInv(j)'
    <2>1. UNCHANGED <<provider, phase[j], nr[j], noted[j], contents[j], answer[j]>>
        BY <1>4 DEF CallInv, CallTypes, ModelRaises
    <2> QED
        BY <2>1, InvocationsStay
<1> QED
    BY <1>1, <1>2, <1>3, <1>4 DEF CallInv

\* A piece of text comes.
LEMMA TextStep == ASSUME CallInv, NEW i \in Invocations, TextDelta(i) PROVE CallInv'
<1>1. /\ answer[i] \in [error : BOOLEAN, text : BOOLEAN, calls : Seq(CallParts), usage : BOOLEAN]
      /\ answer' = [answer EXCEPT ![i] = [answer[i] EXCEPT !.text = TRUE]]
    BY DEF CallInv, CallTypes, TextDelta
<1>2. /\ [answer[i] EXCEPT !.text = TRUE] \in [error : BOOLEAN, text : BOOLEAN, calls : Seq(CallParts), usage : BOOLEAN]
      /\ [answer[i] EXCEPT !.text = TRUE].calls = answer[i].calls
      /\ [answer[i] EXCEPT !.text = TRUE].error = answer[i].error
    BY <1>1
<1>3. CallTypes'
    BY <1>1, <1>2 DEF CallInv, CallTypes, TextDelta
<1>4. UsageOfItsRequest'
    BY DEF CallInv, UsageOfItsRequest, TextDelta
<1>5. InvocationInv(i)'
    <2>1. /\ answer'[i].calls = answer[i].calls /\ answer'[i].error = answer[i].error
          /\ UNCHANGED <<provider, phase, nr, noted, contents>>
        BY <1>1, <1>2 DEF CallInv, CallTypes, TextDelta
    <2> QED
        BY <2>1 DEF CallInv, InvocationInv, Fits
<1>6. ASSUME NEW j \in Invocations, j # i PROVE InvocationInv(j)'
    <2>1. UNCHANGED <<provider, phase[j], nr[j], noted[j], contents[j], answer[j]>>
        BY <1>6 DEF CallInv, CallTypes, TextDelta
    <2> QED
        BY <2>1, InvocationsStay
<1> QED
    BY <1>3, <1>4, <1>5, <1>6 DEF CallInv

\* What is gathered of a call's arguments are its pieces in order.
LEMMA GatherStep ==
    ASSUME CallInv, NEW i \in Invocations, NEW c \in GivenIds,
           ItemAdded(i, c) \/ ArgumentsDelta(i, c) \/ ArgumentsDone(i, c)
    PROVE  CallInv'
<1>1. UNCHANGED <<provider, phase, nr, noted, contents, answer, rows>>
    BY DEF ItemAdded, ArgumentsDelta, ArgumentsDone
<1>2. MaxFragments \in Nat
    BY CallAssumption
<1>3. <<>> \in Pieces /\ Complete \in Pieces
    <2>1. 0 \in 0 .. MaxFragments /\ MaxFragments \in 0 .. MaxFragments
        BY <1>2
    <2>2. <<>> = [k \in 1 .. 0 |-> k]
        OBVIOUS
    <2> QED
        BY <2>1, <2>2 DEF Pieces, Complete
<1>4. ASSUME NEW b \in Pieces, Len(b) < MaxFragments PROVE Append(b, Len(b) + 1) \in Pieces
    <2>1. PICK m \in 0 .. MaxFragments : b = [k \in 1 .. m |-> k]
        BY DEF Pieces
    <2>2. b \in Seq(Nat) /\ Len(b) = m /\ m \in Nat
        BY <1>2, <2>1
    <2>3. PICK d : d = Append(b, m + 1)
        OBVIOUS
    <2>4. /\ d \in Seq(Nat) /\ Len(d) = m + 1 /\ \A k \in 1 .. m : d[k] = k
          /\ d[m + 1] = m + 1
        BY <2>1, <2>2, <2>3
    <2>5. d = [k \in 1 .. m + 1 |-> k]
        <3>1. \A k \in 1 .. m + 1 : d[k] = k
            BY <2>2, <2>4
        <3>2. d = [k \in 1 .. m + 1 |-> d[k]]
            BY <2>4, LenProperties
        <3> QED
            BY <3>1, <3>2
    <2>6. m + 1 \in 0 .. MaxFragments
        BY <1>2, <1>4, <2>2
    <2> QED
        BY <2>2, <2>3, <2>5, <2>6 DEF Pieces
<1>5. DOMAIN buffers' = Invocations /\ \A j \in Invocations : \A d \in DOMAIN buffers'[j] : buffers'[j][d] \in Pieces
    <2>0. DOMAIN buffers = Invocations /\ \A j \in Invocations : \A d \in DOMAIN buffers[j] : buffers[j][d] \in Pieces
        BY DEF CallInv, CallTypes
    <2>1. CASE ItemAdded(i, c)
        BY <1>3, <2>0, <2>1 DEF ItemAdded
    <2>2. CASE ArgumentsDelta(i, c)
        <3>1. buffers' = [buffers EXCEPT ![i] = [buffers[i] EXCEPT ![c] = Append(buffers[i][c], Len(buffers[i][c]) + 1)]]
            BY <2>2 DEF ArgumentsDelta
        <3>2. c \in DOMAIN buffers[i] /\ Append(buffers[i][c], Len(buffers[i][c]) + 1) \in Pieces
            BY <1>4, <2>0, <2>2 DEF ArgumentsDelta
        <3> QED
            BY <2>0, <3>1, <3>2
    <2>3. CASE ArgumentsDone(i, c)
        <3>1. buffers' = [buffers EXCEPT ![i] = [buffers[i] EXCEPT ![c] = Complete]]
            BY <2>3 DEF ArgumentsDone
        <3> QED
            BY <1>3, <2>0, <3>1
    <2> QED
        BY <2>1, <2>2, <2>3
<1>6. CallTypes'
    BY <1>1, <1>5 DEF CallInv, CallTypes
<1>7. UsageOfItsRequest'
    BY <1>1 DEF CallInv, UsageOfItsRequest
<1>8. \A j \in Invocations : InvocationInv(j)'
    BY <1>1, InvocationsStay
<1> QED
    BY <1>6, <1>7, <1>8 DEF CallInv

\* The answers that there are.
ModelAnswers == [error : BOOLEAN, text : BOOLEAN, calls : Seq(CallParts), usage : BOOLEAN]

\* Another provider answers with calls of its own or bare ones.
LEMMA OtherStep == ASSUME CallInv, NEW i \in Invocations, OtherAnswers(i) PROVE CallInv'
<1>1. PICK n \in 0 .. MaxCalls - CallCount(i), bare \in BOOLEAN, usage \in BOOLEAN :
         \E ids \in {s \in [1 .. n -> GivenIds \ UsedIn(i)] : IsInjective(s)} :
             answer' = [answer EXCEPT ![i] =
                 [error |-> FALSE, text |-> TRUE, usage |-> usage,
                  calls |-> [k \in 1 .. n |->
                     [Call(ids[k], TRUE) EXCEPT !.id = IF bare THEN NoId ELSE @]]]]
    BY DEF OtherAnswers
<1>2. PICK ids \in [1 .. n -> GivenIds \ UsedIn(i)] :
         /\ IsInjective(ids)
         /\ answer' = [answer EXCEPT ![i] =
                 [error |-> FALSE, text |-> TRUE, usage |-> usage,
                  calls |-> [k \in 1 .. n |->
                     [Call(ids[k], TRUE) EXCEPT !.id = IF bare THEN NoId ELSE @]]]]
    BY <1>1
<1>3. n \in Nat
    <2>1. FlattenSeq(contents[i]) \in Seq(CallParts)
        <3>1. contents[i] \in Seq(Seq(CallParts)) /\ <<>> \in Seq(CallParts)
            BY EmptySeq DEF CallInv, InvocationInv, GoesOut
        <3> QED
            BY <3>1, FlattenedMore
    <2>2. IsFiniteSet(DOMAIN FlattenSeq(contents[i]))
        BY <2>1, LenProperties, FS_Interval
    <2>3. CallCount(i) \in Nat
        BY <2>2, FS_Subset, FS_CardinalityType DEF CallCount
    <2> QED
        BY <2>3, CallAssumption
<1> DEFINE calls == [k \in 1 .. n |-> [Call(ids[k], TRUE) EXCEPT !.id = IF bare THEN NoId ELSE @]]
           made == [error |-> FALSE, text |-> TRUE, usage |-> usage, calls |-> calls]
<1>4. ASSUME NEW k \in 1 .. n
      PROVE  /\ calls[k] \in CallParts /\ calls[k].what = "call" /\ calls[k].of = ids[k]
             /\ ids[k] \in GivenIds /\ ids[k] \notin UsedIn(i)
    <2>1. ids[k] \in GivenIds /\ ids[k] \notin UsedIn(i)
        BY <1>2
    <2>2. ASSUME NEW g \in GivenIds, NEW p, p = [Call(g, TRUE) EXCEPT !.id = IF bare THEN NoId ELSE @]
          PROVE  p \in CallParts /\ p.what = "call" /\ p.of = g
        <3>1. p = [what |-> "call", id |-> IF bare THEN NoId ELSE g, of |-> g, whole |-> TRUE]
            BY <2>2 DEF Call
        <3> QED
            BY <3>1 DEF CallParts, Named
    <2> QED
        BY <2>1, <2>2
<1>5. DOMAIN calls = 1 .. n /\ calls \in Seq({p \in CallParts : p.what = "call"}) /\ calls \in Seq(CallParts)
    <2>1. calls = [k \in 1 .. n |-> calls[k]]
        OBVIOUS
    <2> HIDE DEF calls
    <2>2. calls \in [1 .. n -> {p \in CallParts : p.what = "call"}] /\ calls \in [1 .. n -> CallParts]
        BY <1>4, <2>1
    <2> QED
        BY <1>3, <2>2
<1> HIDE DEF calls
<1>6. \A j, k \in 1 .. n : j # k => ids[j] # ids[k]
    <2>1. \A a, b \in DOMAIN ids : ids[a] = ids[b] => a = b
        BY <1>2 DEF IsInjective
    <2> QED
        BY <1>2, <2>1
<1>7. IsCalls(calls)
    BY <1>4, <1>5, <1>6 DEF IsCalls
<1>8. NamesIn(contents[i]) \subseteq UsedIn(i)
    BY DEF NamesIn, UsedIn, ToSet
<1>9. \A k \in DOMAIN calls : calls[k].of \notin NamesIn(contents[i])
    BY <1>4, <1>5, <1>8
<1>10. made \in ModelAnswers
    BY <1>5 DEF ModelAnswers
<1>11. /\ answer' = [answer EXCEPT ![i] = made] /\ phase' = [phase EXCEPT ![i] = "answered"]
       /\ phase[i] = "asked" /\ UNCHANGED <<provider, nr, noted, contents, buffers, rows>>
    BY <1>2 DEF OtherAnswers, calls
<1>12. CallTypes'
    BY <1>10, <1>11 DEF CallInv, CallTypes, ModelAnswers
<1>13. UsageOfItsRequest'
    BY <1>11 DEF CallInv, UsageOfItsRequest
<1>14. InvocationInv(i)'
    <2>1. answer'[i] = made /\ phase'[i] = "answered"
        BY <1>11 DEF CallInv, CallTypes
    <2>2. made.calls = calls /\ ~made.error
        OBVIOUS
    <2> HIDE DEF made
    <2>3. Fits(answer'[i], phase'[i], provider', contents'[i])
        BY <1>7, <1>9, <1>11, <2>1, <2>2 DEF Fits
    <2>4. GoesOut(contents'[i], answer'[i].calls, phase'[i])
        BY <1>11, <2>1 DEF CallInv, InvocationInv, GoesOut
    <2> QED
        BY <1>11, <2>3, <2>4 DEF CallInv, InvocationInv
<1>15. ASSUME NEW j \in Invocations, j # i PROVE InvocationInv(j)'
    <2>1. UNCHANGED <<provider, phase[j], nr[j], noted[j], contents[j], answer[j]>>
        BY <1>11, <1>15 DEF CallInv, CallTypes
    <2> QED
        BY <2>1, InvocationsStay
<1> QED
    BY <1>12, <1>13, <1>14, <1>15 DEF CallInv

\* An item of Codex's answer is done: a call more, with all of its arguments.
LEMMA ItemStep ==
    ASSUME CallInv, NEW i \in Invocations, NEW c \in GivenIds, ItemDone(i, c)
    PROVE  CallInv'
<1>1. PICK arguments : /\ arguments = IF buffers[i][c] = <<>> THEN Complete ELSE buffers[i][c]
                       /\ answer' = [answer EXCEPT ![i].calls = Append(@, Call(c, arguments = Complete))]
    BY DEF ItemDone
<1>2. arguments = Complete
    <2>1. buffers[i][c] \in Pieces /\ Len(buffers[i][c]) \notin 1 .. MaxFragments - 1
        BY DEF CallInv, CallTypes, ItemDone
    <2>2. PICK m \in 0 .. MaxFragments : buffers[i][c] = [k \in 1 .. m |-> k]
        BY <2>1 DEF Pieces
    <2>3. MaxFragments \in Nat /\ m \in Nat /\ Len(buffers[i][c]) = m
        BY <2>2, CallAssumption
    <2>4. m = 0 \/ m = MaxFragments
        BY <2>1, <2>2, <2>3
    <2>5. CASE m = 0
        <3>1. buffers[i][c] = <<>>
            BY <2>2, <2>5
        <3> QED
            BY <1>1, <3>1
    <2>6. CASE m = MaxFragments
        BY <1>1, <2>2, <2>6 DEF Complete
    <2> QED
        BY <2>4, <2>5, <2>6
<1> DEFINE item == Call(c, TRUE)
           calls == Append(answer[i].calls, item)
           made == [answer[i] EXCEPT !.calls = calls]
<1>3. /\ answer' = [answer EXCEPT ![i] = made] /\ phase[i] = "asked" /\ provider = "codex"
      /\ UNCHANGED <<provider, phase, nr, noted, contents, buffers, rows>>
    <2>1. answer' = [answer EXCEPT ![i].calls = Append(@, Call(c, TRUE))]
        BY <1>1, <1>2
    <2> QED
        BY <2>1 DEF ItemDone, Streams
<1>4. item \in CallParts /\ item.what = "call" /\ item.of = c /\ c \notin UsedIn(i)
    BY DEF ItemDone, Call, CallParts, Named
<1>5. IsCalls(answer[i].calls) /\ answer[i] \in ModelAnswers /\ ~answer[i].error
      /\ \A k \in DOMAIN answer[i].calls : answer[i].calls[k].of \notin NamesIn(contents[i])
    BY <1>3 DEF CallInv, CallTypes, InvocationInv, Fits, ModelAnswers
<1>6. \A k \in DOMAIN answer[i].calls : answer[i].calls[k].of # c
    BY <1>4 DEF UsedIn, ToSet
<1>7. c \notin NamesIn(contents[i])
    BY <1>4 DEF NamesIn, UsedIn, ToSet
<1> HIDE DEF item
<1>8. PICK n : n = Len(answer[i].calls)
    OBVIOUS
<1>9. /\ n \in Nat /\ DOMAIN answer[i].calls = 1 .. n /\ DOMAIN calls = 1 .. n + 1
      /\ calls \in Seq({p \in CallParts : p.what = "call"}) /\ calls \in Seq(CallParts)
      /\ \A k \in 1 .. n : calls[k] = answer[i].calls[k]
      /\ calls[n + 1] = item
    <2>1. PICK T : T = {p \in CallParts : p.what = "call"}
        OBVIOUS
    <2>2. answer[i].calls \in Seq(T) /\ item \in T /\ T \subseteq CallParts
        BY <1>4, <1>5, <2>1 DEF IsCalls
    <2>3. /\ n \in Nat /\ DOMAIN answer[i].calls = 1 .. n /\ DOMAIN calls = 1 .. n + 1 /\ calls \in Seq(T)
          /\ \A k \in 1 .. n : calls[k] = answer[i].calls[k]
          /\ calls[n + 1] = item
        BY <1>8, <2>2, LenProperties
    <2>4. calls \in Seq(CallParts)
        <3> HIDE DEF calls
        <3> QED
            BY <2>2, <2>3, SeqMonotonic
    <2> QED
        BY <2>1, <2>3, <2>4
<1> HIDE DEF calls
<1>10. ASSUME NEW j \in 1 .. n + 1, NEW k \in 1 .. n + 1, j # k PROVE calls[j].of # calls[k].of
    <2>1. CASE j \in 1 .. n /\ k \in 1 .. n
        BY <1>5, <1>9, <1>10, <2>1 DEF IsCalls
    <2>2. CASE j = n + 1
        <3>1. k \in 1 .. n
            BY <1>9, <1>10, <2>2
        <3> QED
            BY <1>4, <1>6, <1>9, <2>2, <3>1
    <2>3. CASE k = n + 1
        <3>1. j \in 1 .. n
            BY <1>9, <1>10, <2>3
        <3> QED
            BY <1>4, <1>6, <1>9, <2>3, <3>1
    <2> QED
        BY <1>9, <2>1, <2>2, <2>3
<1>11. IsCalls(calls)
    BY <1>9, <1>10 DEF IsCalls
<1>12. \A k \in DOMAIN calls : calls[k].of \notin NamesIn(contents[i])
    <2>1. ASSUME NEW k \in 1 .. n + 1 PROVE calls[k].of \notin NamesIn(contents[i])
        <3>1. CASE k = n + 1
            BY <1>4, <1>7, <1>9, <3>1
        <3>2. CASE k # n + 1
            <4>1. k \in 1 .. n
                BY <1>9, <3>2
            <4> QED
                BY <1>5, <1>9, <4>1
        <3> QED
            BY <3>1, <3>2
    <2> QED
        BY <1>9, <2>1
<1>13. made \in ModelAnswers /\ made.calls = calls /\ ~made.error
    BY <1>5, <1>9 DEF ModelAnswers
<1> HIDE DEF made
<1>14. CallTypes'
    BY <1>3, <1>13 DEF CallInv, CallTypes, ModelAnswers
<1>15. UsageOfItsRequest'
    BY <1>3 DEF CallInv, UsageOfItsRequest
<1>16. InvocationInv(i)'
    <2>1. answer'[i] = made
        BY <1>3 DEF CallInv, CallTypes
    <2>2. Fits(answer'[i], phase'[i], provider', contents'[i])
        BY <1>3, <1>11, <1>12, <1>13, <2>1 DEF Fits
    <2>3. GoesOut(contents'[i], answer'[i].calls, phase'[i])
        BY <1>3, <2>1 DEF CallInv, InvocationInv, GoesOut
    <2> QED
        BY <1>3, <2>2, <2>3 DEF CallInv, InvocationInv
<1>17. ASSUME NEW j \in Invocations, j # i PROVE InvocationInv(j)'
    <2>1. UNCHANGED <<provider, phase[j], nr[j], noted[j], contents[j], answer[j]>>
        BY <1>3, <1>17 DEF CallInv, CallTypes
    <2> QED
        BY <2>1, InvocationsStay
<1> QED
    BY <1>14, <1>15, <1>16, <1>17 DEF CallInv

\* The stream ends, or fails.
LEMMA StreamEndStep ==
    ASSUME CallInv, NEW i \in Invocations, CodexAnswers(i) \/ CodexFails(i)
    PROVE  CallInv'
<1>1. [NoAnswer EXCEPT !.error = TRUE] \in ModelAnswers /\ [NoAnswer EXCEPT !.error = TRUE].calls = <<>>
    BY EmptySeq DEF NoAnswer, ModelAnswers
<1>2. /\ phase' = [phase EXCEPT ![i] = "answered"] /\ phase[i] = "asked" /\ provider = "codex"
      /\ answer' = answer \/ answer' = [answer EXCEPT ![i] = [NoAnswer EXCEPT !.error = TRUE]]
      /\ UNCHANGED <<provider, nr, noted, contents, buffers, rows>>
    BY DEF CodexAnswers, CodexFails, Streams
<1>3. CallTypes'
    <2>1. answer \in [Invocations -> ModelAnswers]
        BY DEF CallInv, CallTypes, ModelAnswers
    <2>2. answer' \in [Invocations -> ModelAnswers]
        BY <1>1, <1>2, <2>1
    <2>3. phase' \in [Invocations -> {"idle", "asked", "answered", "tools"}]
        BY <1>2 DEF CallInv, CallTypes
    <2> QED
        BY <1>2, <2>2, <2>3 DEF CallInv, CallTypes, ModelAnswers
<1>4. UsageOfItsRequest'
    BY <1>2 DEF CallInv, UsageOfItsRequest
<1>5. InvocationInv(i)'
    <2>1. phase'[i] = "answered" /\ (answer'[i] = answer[i] \/ answer'[i] = [NoAnswer EXCEPT !.error = TRUE])
        BY <1>2 DEF CallInv, CallTypes
    <2>2. IsCalls(<<>>) /\ DOMAIN <<>> = {}
        BY EmptySeq DEF IsCalls
    <2>3. Fits(answer'[i], phase'[i], provider', contents'[i])
        BY <1>1, <1>2, <2>1, <2>2 DEF CallInv, InvocationInv, Fits
    <2>4. GoesOut(contents'[i], answer'[i].calls, phase'[i])
        BY <1>2, <2>1 DEF CallInv, InvocationInv, GoesOut
    <2> QED
        BY <1>2, <2>3, <2>4 DEF CallInv, InvocationInv
<1>6. ASSUME NEW j \in Invocations, j # i PROVE InvocationInv(j)'
    <2>1. UNCHANGED <<provider, phase[j], nr[j], noted[j], contents[j], answer[j]>>
        BY <1>2, <1>6 DEF CallInv, CallTypes
    <2> QED
        BY <2>1, InvocationsStay
<1> QED
    BY <1>3, <1>4, <1>5, <1>6 DEF CallInv

\* An answer is filed and enters the conversation.
LEMMA AfterStep == ASSUME CallInv, NEW i \in Invocations, AfterModel(i) PROVE CallInv'
<1> DEFINE calls == answer[i].calls
           said == IF answer[i].text THEN <<Text0>> ELSE <<>>
<1>1. /\ phase[i] = "answered" /\ noted' = [noted EXCEPT ![i] = 0] /\ WriteUsage(i)
      /\ contents' = IF answer[i].error THEN contents ELSE [contents EXCEPT ![i] = Append(@, said \o calls)]
      /\ phase' = [phase EXCEPT ![i] = IF calls = <<>> THEN "idle" ELSE "tools"]
      /\ buffers' = [buffers EXCEPT ![i] = << >>]
      /\ answer' = IF calls = <<>> THEN [answer EXCEPT ![i] = NoAnswer] ELSE answer
      /\ UNCHANGED <<provider, nr>>
    BY DEF AfterModel
<1>2. /\ IsCalls(calls) /\ answer[i] \in ModelAnswers /\ (answer[i].error => calls = <<>>)
      /\ \A k \in DOMAIN calls : calls[k].of \notin NamesIn(contents[i])
      /\ GoesOut(contents[i], calls, "answered") /\ noted[i] = nr[i]
    BY <1>1 DEF CallInv, CallTypes, InvocationInv, Fits, ModelAnswers
<1>3. NoAnswer \in ModelAnswers /\ NoAnswer.calls = <<>> /\ ~NoAnswer.error
    BY EmptySeq DEF NoAnswer, ModelAnswers
<1>4. CallTypes'
    <2>1. answer' \in [Invocations -> ModelAnswers]
        BY <1>1, <1>3 DEF CallInv, CallTypes, ModelAnswers
    <2>2. phase' \in [Invocations -> {"idle", "asked", "answered", "tools"}]
        BY <1>1 DEF CallInv, CallTypes
    <2>3. nr' \in [Invocations -> Nat] /\ noted' \in [Invocations -> Nat]
        BY <1>1 DEF CallInv, CallTypes
    <2>4. DOMAIN contents' = Invocations
        BY <1>1 DEF CallInv, CallTypes
    <2>5. DOMAIN buffers' = Invocations /\ \A j \in Invocations : \A c \in DOMAIN buffers'[j] : buffers'[j][c] \in Pieces
        BY <1>1 DEF CallInv, CallTypes
    <2> QED
        BY <2>1, <2>2, <2>3, <2>4, <2>5 DEF CallTypes, ModelAnswers
<1>5. UsageOfItsRequest'
    <2>1. \A row \in rows' : row \in rows \/ row = Recorded(i)
        BY <1>1 DEF WriteUsage
    <2>2. Recorded(i).noted = Recorded(i).answered
        BY <1>2 DEF Recorded
    <2> QED
        BY <2>1, <2>2 DEF CallInv, UsageOfItsRequest
<1>6. i \in DOMAIN answer /\ i \in DOMAIN contents /\ i \in DOMAIN phase
    BY DEF CallInv, CallTypes
<1>7. ~answer[i].error => GoesOut(Append(contents[i], said \o calls), calls, "tools")
    <2>1. said \in {<<>>, <<Text0>>}
        OBVIOUS
    <2> HIDE DEF said, calls
    <2> QED
        BY <1>2, <2>1, AnswerGoesOut
<1> HIDE DEF said
<1>8. InvocationInv(i)'
    <2>1. CASE calls = <<>>
        <3>1. answer'[i] = NoAnswer /\ phase'[i] = "idle"
            BY <1>1, <1>6, <2>1
        <3>2. IsCalls(<<>>) /\ DOMAIN <<>> = {}
            BY EmptySeq DEF IsCalls
        <3>3. Fits(answer'[i], phase'[i], provider', contents'[i])
            BY <1>3, <3>1, <3>2 DEF Fits
        <3>4. CASE answer[i].error
            <4>1. contents'[i] = contents[i]
                BY <1>1, <3>4
            <4>2. GoesOut(contents'[i], answer'[i].calls, phase'[i])
                BY <1>2, <3>1, <4>1 DEF GoesOut
            <4> QED
                BY <3>1, <3>3, <4>2 DEF InvocationInv
        <3>5. CASE ~answer[i].error
            <4>1. contents'[i] = Append(contents[i], said \o calls)
                BY <1>1, <1>6, <3>5
            <4>2. GoesOut(contents'[i], <<>>, "tools")
                BY <1>7, <2>1, <3>5, <4>1
            <4>3. Len(WalkEnd(FlattenSeq(contents'[i])).pending) = 0
                <5>1. Len(<<>>) - 0 = 0
                    BY EmptySeq
                <5> QED
                    BY <4>2, <5>1 DEF GoesOut, Awaits
            <4>4. GoesOut(contents'[i], answer'[i].calls, phase'[i])
                BY <3>1, <4>2, <4>3 DEF GoesOut
            <4> QED
                BY <3>1, <3>3, <4>4 DEF InvocationInv
        <3> QED
            BY <3>4, <3>5
    <2>2. CASE calls # <<>>
        <3>1. ~answer[i].error /\ answer'[i] = answer[i] /\ phase'[i] = "tools"
            BY <1>1, <1>2, <1>6, <2>2
        <3>2. contents'[i] = Append(contents[i], said \o calls)
            BY <1>1, <1>6, <3>1
        <3>3. GoesOut(contents'[i], answer'[i].calls, phase'[i])
            BY <1>7, <3>1, <3>2
        <3>4. Fits(answer'[i], phase'[i], provider', contents'[i])
            BY <1>2, <3>1 DEF Fits
        <3> QED
            BY <3>1, <3>3, <3>4 DEF InvocationInv
    <2> QED
        BY <2>1, <2>2
<1>9. ASSUME NEW j \in Invocations, j # i PROVE InvocationInv(j)'
    <2>1. UNCHANGED <<provider, phase[j], nr[j], noted[j], contents[j], answer[j]>>
        BY <1>1, <1>9 DEF CallInv, CallTypes
    <2> QED
        BY <2>1, InvocationsStay
<1> QED
    BY <1>4, <1>5, <1>8, <1>9 DEF CallInv

\* The tools answer.
LEMMA ToolsStep == ASSUME CallInv, NEW i \in Invocations, ToolsRespond(i) PROVE CallInv'
<1> DEFINE calls == answer[i].calls
<1>1. /\ phase[i] = "tools"
      /\ contents' = [contents EXCEPT ![i] = Append(@, ResultsOf(calls))]
      /\ phase' = [phase EXCEPT ![i] = "idle"] /\ answer' = [answer EXCEPT ![i] = NoAnswer]
      /\ UNCHANGED <<provider, nr, noted, buffers, rows>>
    BY DEF ToolsRespond, ResultsOf
<1>2. IsCalls(calls) /\ GoesOut(contents[i], calls, "tools")
    BY <1>1 DEF CallInv, InvocationInv, Fits
<1>3. NoAnswer \in ModelAnswers /\ NoAnswer.calls = <<>> /\ ~NoAnswer.error
    BY EmptySeq DEF NoAnswer, ModelAnswers
<1>4. CallTypes'
    <2>1. answer' \in [Invocations -> ModelAnswers]
        BY <1>1, <1>3 DEF CallInv, CallTypes, ModelAnswers
    <2>2. phase' \in [Invocations -> {"idle", "asked", "answered", "tools"}] /\ DOMAIN contents' = Invocations
        BY <1>1 DEF CallInv, CallTypes
    <2> QED
        BY <1>1, <2>1, <2>2 DEF CallInv, CallTypes, ModelAnswers
<1>5. UsageOfItsRequest'
    BY <1>1 DEF CallInv, UsageOfItsRequest
<1>6. InvocationInv(i)'
    <2>1. /\ answer'[i] = NoAnswer /\ phase'[i] = "idle"
          /\ contents'[i] = Append(contents[i], ResultsOf(calls))
        BY <1>1 DEF CallInv, CallTypes
    <2>2. IsCalls(<<>>) /\ DOMAIN <<>> = {}
        BY EmptySeq DEF IsCalls
    <2>3. Fits(answer'[i], phase'[i], provider', contents'[i])
        BY <1>3, <2>1, <2>2 DEF Fits
    <2>4. GoesOut(contents'[i], answer'[i].calls, phase'[i])
        BY <1>2, <2>1, ResultsGoOut
    <2> QED
        BY <2>1, <2>3, <2>4 DEF InvocationInv
<1>7. ASSUME NEW j \in Invocations, j # i PROVE InvocationInv(j)'
    <2>1. UNCHANGED <<provider, phase[j], nr[j], noted[j], contents[j], answer[j]>>
        BY <1>1, <1>7 DEF CallInv, CallTypes
    <2> QED
        BY <2>1, InvocationsStay
<1> QED
    BY <1>4, <1>5, <1>6, <1>7 DEF CallInv

\* Every step of a model call keeps the invariant.
LEMMA CallStep == CallInv /\ [CallNext]_callVars => CallInv'
<1> SUFFICES ASSUME CallInv, [CallNext]_callVars PROVE CallInv'
    OBVIOUS
<1>1. CASE UNCHANGED callVars
    BY <1>1 DEF callVars, CallInv, CallTypes, UsageOfItsRequest, InvocationInv
<1>2. CASE CallNext
    <2>1. PICK i \in Invocations :
             \/ BeforeModel(i) \/ ModelRaises(i) \/ OtherAnswers(i) \/ TextDelta(i)
             \/ \E c \in GivenIds :
                   ItemAdded(i, c) \/ ArgumentsDelta(i, c) \/ ArgumentsDone(i, c) \/ ItemDone(i, c)
             \/ CodexAnswers(i) \/ CodexFails(i) \/ AfterModel(i) \/ ToolsRespond(i)
        BY <1>2 DEF CallNext
    <2>2. ASSUME NEW c \in GivenIds,
                 ItemAdded(i, c) \/ ArgumentsDelta(i, c) \/ ArgumentsDone(i, c) \/ ItemDone(i, c)
          PROVE  CallInv'
        BY <2>2, GatherStep, ItemStep
    <2> QED
        BY <2>1, <2>2, AskStep, RaiseStep, OtherStep, TextStep, StreamEndStep, AfterStep, ToolsStep
<1> QED
    BY <1>1, <1>2

\* What goes out is paired, the arguments complete.
LEMMA WhatGoesOutIsPaired == CallInv => ResultsMeetTheirCalls
<1> SUFFICES ASSUME CallInv, NEW i \in Invocations
             PROVE  LET sent == SanitizeToolIds(IF provider = "codex" THEN CodexInput(contents[i]) ELSE PartsOf(i))
                        calls == {k \in DOMAIN sent : sent[k].what = "call"}
                    IN /\ \A j, k \in calls : j # k => sent[j].id # sent[k].id
                       /\ \A k \in DOMAIN sent \ calls :
                             \E j \in calls : j < k /\ sent[j].of = sent[k].of /\ sent[j].id = sent[k].id
                       /\ \A p \in ToSet(PartsOf(i)) : p.whole
    BY DEF ResultsMeetTheirCalls
<1>1. GoesOut(contents[i], answer[i].calls, phase[i])
    BY DEF CallInv, InvocationInv
<1>2. /\ contents[i] \in Seq(Seq(CallParts)) /\ \A k \in DOMAIN contents[i] : Shaped(contents[i][k])
      /\ SentWell(WalkEnd(PartsOf(i)), NamesIn(contents[i]))
    BY <1>1 DEF GoesOut, PartsOf
<1>3. CodexInput(contents[i]) = PartsOf(i)
    BY <1>2, CodexIsSentAll DEF PartsOf
<1>4. PICK sent : sent = WalkEnd(PartsOf(i)).out
    OBVIOUS
<1>5. SanitizeToolIds(IF provider = "codex" THEN CodexInput(contents[i]) ELSE PartsOf(i)) = sent
    BY <1>3, <1>4 DEF SanitizeToolIds, WalkEnd
<1>6. PartsOf(i) \in Seq(CallParts)
    <2>1. <<>> \in Seq(CallParts)
        BY EmptySeq
    <2> QED
        BY <1>2, <2>1, FlattenedMore DEF PartsOf
<1>7. \A p \in ToSet(PartsOf(i)) : p.whole
    <2>1. \A k \in DOMAIN PartsOf(i) : PartsOf(i)[k] \in CallParts
        BY <1>6, LenProperties, ElementOfSeq
    <2> QED
        BY <2>1 DEF ToSet, CallParts
<1>8. /\ \A j, k \in DOMAIN sent :
            sent[j].what = "call" /\ sent[k].what = "call" /\ j # k => sent[j].id # sent[k].id
      /\ \A k \in DOMAIN sent : sent[k].what # "call" =>
            \E j \in DOMAIN sent : /\ sent[j].what = "call" /\ j < k
                                   /\ sent[k].of = sent[j].of /\ sent[k].id = sent[j].id
    BY <1>2, <1>4 DEF SentWell
<1> QED
    BY <1>5, <1>7, <1>8

\* In the next request every tool call has an id of its own and every result that of its
\* call, which is before it, whether the provider gives ids or not, with Codex's arguments
\* complete; and an answer's tokens are filed under its request.
THEOREM CallsArePaired == CallSpec => []ModelCallsPaired
<1>1. CallInv => ModelCallsPaired
    BY WhatGoesOutIsPaired DEF ModelCallsPaired, CallInv
<1> QED
    BY <1>1, CallStarts, CallStep, PTL DEF CallSpec
=============================================================================
