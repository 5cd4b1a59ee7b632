--------------------------- MODULE HeartbeatDelivery ---------------------------
(***************************************************************************)
(* Who hears of what: a heartbeat's or a job's turn of the model, what its *)
(* tools say meanwhile, what becomes of its answer, and what is told of it *)
(* afterwards.  A user may write at any time: turns of several origins are *)
(* in progress, each with the route that its tools take.                   *)
(***************************************************************************)
EXTENDS Integers, Sequences, FiniteSets

CONSTANTS Chats,        \* users' chats; {}: nothing happens
          Modes,        \* OPENPIPIXIA_HEARTBEAT_TARGET: of {"none", "channel", "last"}
          MaxRuns, MaxSays \* bounds: turns, what each says by its tools

Nobody  == "local/heartbeat" \* _resolve_heartbeat_target: nobody has written yet
Target  == "target"          \* the configured channel and chat
JobChat == "job"             \* the chat a job is for

ASSUME DeliveryAssumption ==
    /\ Modes \subseteq {"none", "channel", "last"}
    /\ MaxRuns \in Nat /\ MaxSays \in Nat /\ Chats \cap {Nobody, Target, JobChat, "nobody"} = {}

Turns == {"heartbeat", "cron", "user"}
Said(r, kind, to) == [run |-> r, kind |-> kind, to |-> to, nth |-> 0, named |-> FALSE]

VARIABLES
    settings,  \* [mode, ok, alerts]: target, show_ok and show_alerts
    lastRoute, \* _last_inbound_route
    busy,      \* _inflight_user_requests > 0
    turns,     \* the turns in progress: [run, route, says]; run 0: none
    begun,     \* turns begun
    out,       \* everything published: a set of Said
    outbox,    \* messages/outbox.log
    told,      \* _last_heartbeat_delivery: [run, kind, delivered, to]
    snapshot,  \* heartbeat_status.json: the delivery and the runner's last status
    runner,    \* last_status of the runner: the last run it has recorded
    answers,   \* history: what each finished run of the heartbeat answered
    origins    \* history: the chat that each turn is for

deliveryVars == <<settings, lastRoute, busy, turns, begun, out, outbox, told, snapshot, runner, answers, origins>>

NoTurn == [run |-> 0, route |-> Nobody, says |-> 0]
NotTold == [run |-> 0, kind |-> "none", delivered |-> FALSE, to |-> Nobody]
InTurn(t) == turns[t].run # 0

DeliveryInit ==
    /\ settings \in [mode : Modes, ok : BOOLEAN, alerts : BOOLEAN]
    /\ lastRoute = Nobody /\ busy = FALSE
    /\ turns = [t \in Turns |-> NoTurn] /\ begun = 0
    /\ out = {} /\ outbox = {} /\ told = NotTold /\ runner = 0
    /\ snapshot = [delivery |-> NotTold, runner |-> 0] /\ answers = << >> /\ origins = << >>

-----------------------------------------------------------------------------
\* Turns.  route_context binds the route to the task that runs the turn.

Begins(t, route) ==
    /\ ~InTurn(t) /\ begun < MaxRuns /\ begun' = begun + 1
    /\ turns' = [turns EXCEPT ![t] = [run |-> begun + 1, route |-> route, says |-> 0]]
    /\ origins' = Append(origins, route)

TurnEnds(t) == turns' = [turns EXCEPT ![t] = NoTurn]

\* _consume_inbound, process_message: the worker takes one message at a time.
UserWrites(chat) ==
    /\ ~busy
    /\ Begins("user", chat) /\ busy' = TRUE /\ lastRoute' = chat
    /\ UNCHANGED <<settings, out, outbox, told, snapshot, runner, answers>>

UserAnswered ==
    /\ InTurn("user") /\ TurnEnds("user") /\ busy' = FALSE
    /\ out' = out \cup {Said(turns["user"].run, "answer", turns["user"].route)}
    /\ UNCHANGED <<settings, lastRoute, begun, outbox, told, snapshot, runner, answers, origins>>

RouteOf_LastInbound(t) == lastRoute

\* get_route: the route of the turn whose context the tool runs in.
RouteOf(t) == turns[t].route

\* _resolve_route: a tool may name another chat.
ResolvedRoutes(t) == {RouteOf(t)} \cup Chats

\* _queue_or_record_outbound: published from a task of its own, or put into the
\* outbox where a tool runs outside of the loop.
QueuedOrRecorded(msg, onLoop) ==
    IF onLoop THEN out' = out \cup {msg} /\ UNCHANGED outbox
    ELSE outbox' = outbox \cup {msg} /\ UNCHANGED out

\* What a tool that sends makes of its arguments: text, an image or a file.
Sends(t) ==
    \E to \in ResolvedRoutes(t), onLoop \in BOOLEAN :
       QueuedOrRecorded([Said(turns[t].run, "tool", to) EXCEPT
                            !.nth = turns[t].says + 1, !.named = to # RouteOf(t)], onLoop)

\* message, and _emit_feedback of the other tools
Speaks(t) ==
    /\ InTurn(t) /\ turns[t].says < MaxSays
    /\ turns' = [turns EXCEPT ![t].says = @ + 1]
    /\ Sends(t)
    /\ UNCHANGED <<settings, lastRoute, busy, begun, told, snapshot, runner, answers, origins>>

\* message_image, message_file: a path that is no file is an error and no message.
SendsFile(t, isFile) ==
    /\ InTurn(t) /\ turns[t].says < MaxSays
    /\ turns' = [turns EXCEPT ![t].says = @ + 1]
    /\ IF isFile THEN Sends(t) ELSE UNCHANGED <<out, outbox>>
    /\ UNCHANGED <<settings, lastRoute, busy, begun, told, snapshot, runner, answers, origins>>

-----------------------------------------------------------------------------
\* The heartbeat.

\* _heartbeat_task_gate: HEARTBEAT.md, as it is now, says nothing, or says something
\* or cannot be read.
TaskFiles == {"missing", "empty", "written", "unreadable"}
GateOpen(tasks) == tasks \in {"written", "unreadable"}
SkipKind(tasks) == IF tasks = "missing" THEN "task-missing" ELSE "task-empty"

\* strip_heartbeat_token: no text, the token alone, or the token with at most
\* ack_max_chars of text ("chatty") is an acknowledgement; what else there is, the
\* token with more text ("lengthy") or text without it, an alert.
Answers == {"nothing", "token", "chatty", "lengthy", "text"}

ShouldSkip(answer) == answer \in {"nothing", "token", "chatty"}

\* _resolve_heartbeat_target, read when the turn is over.
TargetNow ==
    CASE settings.mode = "none"    -> "nobody"
      [] settings.mode = "channel" -> Target
      [] OTHER                     -> lastRoute

\* What is told of an answer and, if it is delivered, published.
Outcome(r, answer) ==
    LET Told(kind, delivered) == [run |-> r, kind |-> kind, delivered |-> delivered, to |-> TargetNow]
    IN  CASE TargetNow = "nobody"                    -> [Told("target-none", FALSE) EXCEPT !.to = Nobody]
          [] TargetNow # "nobody" /\ ShouldSkip(answer)  -> Told(IF settings.ok THEN "ok" ELSE "ok-muted", settings.ok)
          [] OTHER -> Told(IF settings.alerts THEN "alert" ELSE "alert-muted", settings.alerts)

\* heartbeat_status
HeartbeatStatus(t) == [delivery |-> t, runner |-> runner]

\* _persist_heartbeat_status_snapshot: in a finally, before the runner records the run.
Persists(t) == snapshot' = HeartbeatStatus(t)

HeartbeatSkips(tasks) ==
    /\ ~InTurn("heartbeat") /\ ~busy /\ ~GateOpen(tasks) /\ begun < MaxRuns /\ begun' = begun + 1 /\ origins' = Append(origins, Nobody)
    /\ told' = [run |-> begun', kind |-> SkipKind(tasks), delivered |-> FALSE, to |-> Nobody]
    /\ Persists(told') /\ runner' = begun'
    /\ UNCHANGED <<settings, lastRoute, busy, turns, out, outbox, answers>>

HeartbeatBegins(tasks) ==
    /\ ~busy /\ GateOpen(tasks) /\ Begins("heartbeat", Nobody)
    /\ UNCHANGED <<settings, lastRoute, busy, out, outbox, told, snapshot, runner, answers>>

\* _run_heartbeat after the stream of the model has ended.
HeartbeatAnswered(answer) ==
    /\ InTurn("heartbeat") /\ TurnEnds("heartbeat")
    /\ LET r == turns["heartbeat"].run IN
       /\ told' = Outcome(r, answer)
       /\ out' = out \cup (IF told'.delivered THEN {Said(r, "heartbeat", told'.to)} ELSE {})
       /\ answers' = [i \in DOMAIN answers \cup {r} |-> IF i = r THEN answer ELSE answers[i]]
       /\ runner' = r
    /\ Persists(told')
    /\ UNCHANGED <<settings, lastRoute, busy, begun, outbox, origins>>

\* The model raises or the run is cancelled: nothing is told of this run.
HeartbeatFails ==
    /\ InTurn("heartbeat") /\ TurnEnds("heartbeat") /\ Persists(told) /\ runner' = turns["heartbeat"].run
    /\ UNCHANGED <<settings, lastRoute, busy, begun, out, outbox, told, answers, origins>>

-----------------------------------------------------------------------------
\* _run_cron_job: a job's turn, its answer delivered if the job says so.

CronBegins ==
    /\ Begins("cron", JobChat)
    /\ UNCHANGED <<settings, lastRoute, busy, out, outbox, told, snapshot, runner, answers>>

CronAnswered(deliver) ==
    /\ InTurn("cron") /\ TurnEnds("cron")
    /\ out' = IF deliver THEN out \cup {Said(turns["cron"].run, "answer", turns["cron"].route)} ELSE out
    /\ UNCHANGED <<settings, lastRoute, busy, begun, outbox, told, snapshot, runner, answers, origins>>

DeliveryNext ==
    /\ Chats # {}
    /\ \/ \E chat \in Chats : UserWrites(chat)
       \/ UserAnswered
       \/ \E t \in Turns : Speaks(t) \/ \E isFile \in BOOLEAN : SendsFile(t, isFile)
       \/ \E tasks \in TaskFiles : HeartbeatSkips(tasks) \/ HeartbeatBegins(tasks)
       \/ HeartbeatFails
       \/ \E answer \in Answers : HeartbeatAnswered(answer)
       \/ CronBegins
       \/ \E deliver \in BOOLEAN : CronAnswered(deliver)

DeliverySpec == DeliveryInit /\ [][DeliveryNext]_deliveryVars

-----------------------------------------------------------------------------
\* Properties.

DeliveryTypeOK ==
    /\ lastRoute \in Chats \cup {Nobody} /\ busy \in BOOLEAN
    /\ \A t \in Turns : turns[t].run \in 0 .. MaxRuns /\ turns[t].says \in 0 .. MaxSays
    /\ told.run \in 0 .. begun /\ snapshot.runner \in 0 .. begun

\* Nobody but the one it is for hears of a heartbeat: an answer that is muted reaches
\* no chat, one that is shown reaches exactly one, of an alert nothing is lost whatever
\* the acknowledgement settings; and what the status tells of the last run that ended
\* well is what happened to it.
AlertsReachOne ==
    /\ \A r \in DOMAIN answers :
          LET heard == {m \in out : m.run = r /\ m.kind = "heartbeat"}
              shown == IF answers[r] \in {"text", "lengthy"} THEN settings.alerts ELSE settings.ok
          IN  Cardinality(heard) = IF shown /\ settings.mode # "none" THEN 1 ELSE 0
    /\ snapshot.delivery = told
    /\ told.run # 0 => told.delivered = (Said(told.run, "heartbeat", told.to) \in out)

\* What a tool says without naming a chat goes to the chat of its own turn, however the
\* turns of users, jobs and heartbeats overlap; and a turn's answer to where it came from.
TurnsKeepTheirRoutes ==
    \A m \in out \cup outbox :
       m.kind = "answer" \/ (m.kind = "tool" /\ ~m.named) => m.to = origins[m.run]
================================================================================
