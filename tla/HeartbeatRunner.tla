--------------------------- MODULE HeartbeatRunner ---------------------------
(***************************************************************************)
(* openpipixia/runtime/heartbeat_runner.py: the wake scheduler.            *)
(*                                                                         *)
(* One asyncio event loop runs everything, so an action is the code        *)
(* between two suspension points.  A wake is an asyncio task that sleeps,  *)
(* takes the pending reason, and makes one attempt; tasks are modelled     *)
(* one by one because a cancelled task still runs its finally block.       *)
(*                                                                         *)
(* Time is kept as the delay that remains: the code only compares instants *)
(* with "now" (due <= now + delay, sleep until due), so a remaining delay, *)
(* cut off at 0, tells apart everything the code tells apart.  The clock   *)
(* is assumed never to step back.                                          *)
(***************************************************************************)
EXTENDS Integers, FiniteSets

CONSTANTS
  Reasons,     \* sources passed to request_wake, a subset of DOMAIN Priority
  Coalesce,    \* the coalesce_ms values callers pass (0 is the interval tick's)
  IntervalMs,  \* _interval_ms; 0 stands for None, a disabled runner
  RetryMs,     \* DEFAULT_WAKE_RETRY_MS
  Wakes,       \* identities of wake task objects
  None

\* _reason_priority, by source of the reason.
Priority == [retry |-> 0, interval |-> 1, cron |-> 2, requested |-> 2,
             exec |-> 3, hook |-> 3, manual |-> 3]

ASSUME RunnerAssumption ==
  /\ Reasons \subseteq DOMAIN Priority
  /\ Coalesce \subseteq Nat
  /\ IntervalMs \in Nat
  /\ RetryMs \in Nat \ {0}
  /\ "trigger" \notin Wakes
  /\ None \notin Wakes \cup DOMAIN Priority \cup Nat \cup {"normal", "trigger"}

VARIABLES
  running,    \* _running
  loop,       \* remaining sleep of _run_loop, None when there is no loop task
  pending,    \* _pending_reason (its priority is Priority[pending])
  wakeTask,   \* _wake_task
  wakeDue,    \* _wake_due_at_ms, as the delay that remains
  wakeKind,   \* _wake_kind
  tasks,      \* every wake task object: its stage and the sleep that remains
  lock,       \* holder of _run_lock: a wake task, "trigger", or None
  stopping,   \* where stop() stands: "no", "loop", "wake"
  joining,    \* the wake task stop() awaits, or None
  busy,       \* what is_busy() answers
  active,     \* what _within_active_hours() answers
  triggering, \* a caller of trigger_now is inside of on_run
  asked,      \* history: reasons requested and not yet taken by an attempt
  backoff     \* history: what remains of the delay a busy attempt imposes

wakeVars == <<wakeTask, wakeDue, wakeKind, tasks>>
envVars  == <<busy, active, triggering>>
stopVars == <<stopping, joining>>
vars == <<running, loop, pending, wakeVars, lock, stopVars, envVars,
          asked, backoff>>

Enabled == IntervalMs > 0

Stages == {"done", "created", "sleeping", "running", "cancelling"}

\* A task object that has finished, or was never made.
DoneTask == [stage |-> "done", rem |-> 0]

Live(w) == tasks[w].stage # "done"

\* task.cancel(): a task that has not begun never enters its body; a suspended
\* one gets the exception at its next step, and only then runs its finally.
Cancelled(w) ==
  IF tasks[w].stage = "created" THEN DoneTask
  ELSE IF tasks[w].stage = "done" THEN tasks[w]
  ELSE [stage |-> "cancelling", rem |-> 0]

-----------------------------------------------------------------------------
Init ==
  /\ running = FALSE
  /\ loop = None
  /\ pending = None
  /\ wakeTask = None /\ wakeDue = None /\ wakeKind = None
  /\ tasks = [w \in Wakes |-> DoneTask]
  /\ lock = None
  /\ stopping = "no" /\ joining = None
  /\ busy = FALSE /\ active = TRUE /\ triggering = FALSE
  /\ asked = {} /\ backoff = 0

Start ==
  /\ ~running /\ stopping = "no"
  /\ running' = TRUE
  /\ loop' = IF Enabled THEN IntervalMs ELSE None
  /\ UNCHANGED <<pending, wakeVars, lock, stopVars, envVars, asked, backoff>>

-----------------------------------------------------------------------------
(* request_wake and _schedule_wake *)

\* create_task(_run_wake_after(...)), replacing the tracked task if there is one.
CreateWake(delay, kind, others) ==
  \E w \in Wakes :
    /\ others[w].stage = "done"
    /\ tasks' = [others EXCEPT ![w] = [stage |-> "created", rem |-> delay]]
    /\ wakeTask' = w
    /\ wakeDue' = delay
    /\ wakeKind' = kind

\* The early returns of _schedule_wake: a retry is never replaced, nor is a
\* wake that is due no later than the new one.
KeepsTrackedWake_NoRetryRule(delay) ==
  /\ wakeTask # None
  /\ Live(wakeTask)
  /\ wakeDue # None /\ wakeDue <= delay
KeepsTrackedWake(delay) ==
  /\ wakeTask # None
  /\ Live(wakeTask)
  /\ \/ wakeKind = "retry"
     \/ wakeDue # None /\ wakeDue <= delay

ScheduleWake(delay, kind) ==
  \/ KeepsTrackedWake(delay) /\ UNCHANGED wakeVars
  \/ /\ ~KeepsTrackedWake(delay)
     /\ CreateWake(delay, kind,
          IF wakeTask = None THEN tasks
          ELSE [tasks EXCEPT ![wakeTask] = Cancelled(wakeTask)])

\* The reason that is pending once `reason` is requested.  With a clock that does
\* not step back a request of equal priority is never older than the pending one.
Coalesced_LastWins(reason) == reason
Coalesced(reason) ==
  IF pending = None \/ Priority[reason] >= Priority[pending]
  THEN reason ELSE pending

RequestWake(reason, delay) ==
  /\ running /\ Enabled
  /\ pending' = Coalesced(reason)
  /\ asked' = asked \cup {reason}
  /\ ScheduleWake(delay, "normal")
  /\ UNCHANGED <<running, lock, stopVars, envVars, backoff>>

Request ==
  /\ \E reason \in Reasons, delay \in Coalesce : RequestWake(reason, delay)
  /\ UNCHANGED loop

\* _run_loop wakes up.
IntervalTick_OnlyWhenIdle ==
  /\ loop = 0
  /\ loop' = IntervalMs
  /\ \/ pending = None /\ RequestWake("interval", 0)
     \/ pending # None /\ UNCHANGED <<running, pending, wakeVars, lock, stopVars,
                                      envVars, asked, backoff>>
IntervalTick ==
  /\ loop = 0
  /\ loop' = IntervalMs
  /\ RequestWake("interval", 0)

-----------------------------------------------------------------------------
(* _run_wake_after and _execute_once *)

\* The finally block: it clears the tracked wake whichever task that is.
Finally(w) ==
  /\ tasks' = [tasks EXCEPT ![w] = DoneTask]
  /\ wakeTask' = None /\ wakeDue' = None /\ wakeKind' = None

BeginSleep(w) ==
  /\ tasks[w].stage = "created"
  /\ tasks' = [tasks EXCEPT ![w].stage = "sleeping"]
  /\ UNCHANGED <<running, loop, pending, wakeTask, wakeDue, wakeKind, lock,
                 stopVars, envVars, asked, backoff>>

Wakeable(w) == tasks[w].stage = "sleeping" /\ tasks[w].rem = 0

\* if not self._running: return
WakeAfterStop(w) ==
  /\ Wakeable(w) /\ ~running
  /\ Finally(w)
  /\ UNCHANGED <<running, loop, pending, lock, stopVars, envVars, asked, backoff>>

\* The reason an attempt is made with.
TakenReason == IF pending = None THEN "requested" ELSE pending

TakePending ==
  /\ pending' = None
  /\ asked' = {}

\* skipped: quiet-hours or already-running.  The request is dropped.
WakeSkips(w) ==
  /\ Wakeable(w) /\ running
  /\ \/ ~active
     \/ active /\ ~busy /\ lock # None
  /\ TakePending
  /\ Finally(w)
  /\ UNCHANGED <<running, loop, lock, stopVars, envVars, backoff>>

\* skipped: busy.  The reason is put back and a retry wake created.
WakeBusy(w) ==
  /\ Wakeable(w) /\ running
  /\ active /\ busy
  /\ pending' = TakenReason
  /\ asked' = {TakenReason}
  /\ CreateWake(RetryMs, "retry", [tasks EXCEPT ![w] = DoneTask])
  /\ backoff' = RetryMs
  /\ UNCHANGED <<running, loop, lock, stopVars, envVars>>

WakeRuns_KeepsReason(w) ==
  /\ Wakeable(w) /\ running
  /\ active /\ ~busy /\ lock = None
  /\ tasks' = [tasks EXCEPT ![w].stage = "running"]
  /\ lock' = w
  /\ UNCHANGED <<running, loop, pending, wakeTask, wakeDue, wakeKind, stopVars,
                 envVars, asked, backoff>>
WakeRuns(w) ==
  /\ Wakeable(w) /\ running
  /\ active /\ ~busy /\ lock = None
  /\ TakePending
  /\ tasks' = [tasks EXCEPT ![w].stage = "running"]
  /\ lock' = w
  /\ UNCHANGED <<running, loop, wakeTask, wakeDue, wakeKind, stopVars, envVars,
                 backoff>>

\* on_run returns or raises: either way the attempt is over.
RunEnds(w) ==
  /\ tasks[w].stage = "running"
  /\ lock' = None
  /\ Finally(w)
  /\ UNCHANGED <<running, loop, pending, stopVars, envVars, asked, backoff>>

\* A cancelled task meets CancelledError, releases the lock if it holds it, and
\* runs the same finally block.
CancelEnds(w) ==
  /\ tasks[w].stage = "cancelling"
  /\ lock' = IF lock = w THEN None ELSE lock
  /\ Finally(w)
  /\ UNCHANGED <<running, loop, pending, stopVars, envVars, asked, backoff>>

\* trigger_now: an attempt on the caller's own task.
TriggerRuns ==
  /\ Enabled /\ active /\ ~busy /\ lock = None
  /\ lock' = "trigger"
  /\ triggering' = TRUE
  /\ UNCHANGED <<running, loop, pending, wakeVars, stopVars, busy, active, asked,
                 backoff>>

TriggerEnds ==
  /\ triggering
  /\ lock' = None
  /\ triggering' = FALSE
  /\ UNCHANGED <<running, loop, pending, wakeVars, stopVars, busy, active, asked,
                 backoff>>

-----------------------------------------------------------------------------
(* stop(): three stretches of code separated by the two awaits *)

StopLoop ==
  /\ running /\ stopping = "no"
  /\ running' = FALSE
  /\ loop' = None
  /\ stopping' = "loop"
  /\ UNCHANGED <<pending, wakeVars, lock, joining, envVars, asked, backoff>>

StopWake_Forgets ==
  /\ stopping = "loop"
  /\ stopping' = "wake"
  /\ UNCHANGED <<running, loop, pending, wakeVars, lock, joining, envVars, asked,
                 backoff>>
StopWake ==
  /\ stopping = "loop"
  /\ stopping' = "wake"
  /\ joining' = wakeTask
  /\ tasks' = IF wakeTask = None THEN tasks
              ELSE [tasks EXCEPT ![wakeTask] = Cancelled(wakeTask)]
  /\ UNCHANGED <<running, loop, pending, wakeTask, wakeDue, wakeKind, lock,
                 envVars, asked, backoff>>

StopReturns ==
  /\ stopping = "wake"
  /\ joining # None => ~Live(joining)
  /\ stopping' = "no" /\ joining' = None
  /\ wakeTask' = None /\ wakeDue' = None /\ wakeKind' = None
  /\ pending' = None
  /\ asked' = {} /\ backoff' = 0
  /\ UNCHANGED <<running, loop, tasks, lock, envVars>>

-----------------------------------------------------------------------------
(* The environment *)

\* x - 1, no lower than 0; None stays None.
Sooner(x) == IF x = None \/ x = 0 THEN x ELSE x - 1

\* One unit of time passes.  A task that has not begun is not sleeping yet.
Tick ==
  /\ loop' = Sooner(loop)
  /\ wakeDue' = Sooner(wakeDue)
  /\ backoff' = Sooner(backoff)
  /\ tasks' = [w \in Wakes |->
                 IF tasks[w].stage = "sleeping"
                 THEN [stage |-> "sleeping", rem |-> Sooner(tasks[w].rem)]
                 ELSE tasks[w]]
  /\ UNCHANGED <<running, pending, wakeTask, wakeKind, lock, stopVars, envVars,
                 asked>>

\* The gateway takes or finishes a message; the active hours begin or end.
BusyChanges ==
  /\ busy' = ~busy
  /\ UNCHANGED <<running, loop, pending, wakeVars, lock, stopVars, active,
                 triggering, asked, backoff>>

HoursChange ==
  /\ active' = ~active
  /\ UNCHANGED <<running, loop, pending, wakeVars, lock, stopVars, busy,
                 triggering, asked, backoff>>

WakeStep(w) ==
  \/ BeginSleep(w)
  \/ WakeAfterStop(w)
  \/ WakeSkips(w)
  \/ WakeBusy(w)
  \/ WakeRuns(w)
  \/ RunEnds(w)
  \/ CancelEnds(w)

Next ==
  \/ Start \/ Request \/ IntervalTick
  \/ \E w \in Wakes : WakeStep(w)
  \/ TriggerRuns \/ TriggerEnds
  \/ StopLoop \/ StopWake \/ StopReturns
  \/ Tick \/ BusyChanges \/ HoursChange

Spec == Init /\ [][Next]_vars

\* The event loop runs every ready task, time passes, and on_run ends.
Fairness ==
  /\ WF_vars(Tick)
  /\ WF_vars(IntervalTick)
  /\ \A w \in Wakes : WF_vars(WakeStep(w))
  /\ WF_vars(TriggerEnds)
  /\ WF_vars(StopWake) /\ WF_vars(StopReturns)

FairSpec == Spec /\ Fairness

-----------------------------------------------------------------------------
(* Properties *)

\* The variables have the types the code gives them.
TypeOK ==
  /\ running \in BOOLEAN /\ busy \in BOOLEAN /\ active \in BOOLEAN
  /\ triggering \in BOOLEAN
  /\ loop \in Nat \cup {None}
  /\ pending \in DOMAIN Priority \cup {None}
  /\ wakeTask \in Wakes \cup {None}
  /\ wakeDue \in Nat \cup {None}
  /\ wakeKind \in {"normal", "retry", None}
  /\ tasks \in [Wakes -> [stage : Stages, rem : Nat]]
  /\ lock \in Wakes \cup {"trigger", None}
  /\ stopping \in {"no", "loop", "wake"}
  /\ joining \in Wakes \cup {None}
  /\ asked \subseteq DOMAIN Priority
  /\ backoff \in Nat

\* _wake_task is the only wake task alive: no request, retry or interval tick
\* ever leaves a second wake behind that stop() and _schedule_wake cannot see.
TrackedWake == \A w \in Wakes : Live(w) => wakeTask = w

\* A wake that still sleeps has a request to serve: the "requested" fallback of
\* _run_wake_after (line 297) is never taken.
NoSpuriousWake ==
  \A w \in Wakes :
    running /\ tasks[w].stage \in {"created", "sleeping"} => pending # None

\* The pending reason stands for all the requests no attempt has taken yet: it
\* is one of them and none has a higher priority (lines 173-184, 297-300, 312).
PendingIsTopRequest ==
  /\ pending = None <=> asked = {}
  /\ pending # None =>
       pending \in asked /\ \A r \in asked : Priority[r] <= Priority[pending]

\* An attempt that found the gateway busy is not repeated by any wake before the
\* retry delay is over, whatever is requested meanwhile (lines 282-283, 311-315).
RetryBackoff ==
  [][\A w \in Wakes :
       Wakeable(w) /\ running /\ tasks'[w].stage \in {"done", "running"}
         => backoff = 0]_vars

\* Whoever runs on_run holds the lock, so two runs never overlap, whichever of
\* wakes, retries and trigger_now calls started them.
ExclusiveRun ==
  /\ triggering => lock = "trigger"
  /\ \A w \in Wakes : tasks[w].stage = "running" => lock = w

\* When stop() has returned no wake task is alive, so nothing it scheduled can
\* run in the next life of the runner.
StopQuiesces ==
  ~running /\ stopping = "no" => \A w \in Wakes : ~Live(w)

\* At most one wake task waits or runs, for a request that was made and never beside
\* another run, and stop() leaves none, whatever overlaps.
RunnerSafe == TypeOK /\ TrackedWake /\ NoSpuriousWake /\ ExclusiveRun /\ StopQuiesces

\* Once the gateway stays idle every pending request is taken by an attempt: the
\* interval loop picks up one that was made while a wake was running, for which
\* _schedule_wake (line 284) schedules nothing.
WakeServed ==
  <>[]~busy => [](pending # None /\ running => <>(pending = None \/ ~running))

\* The runner implements WakeServer.
Server == INSTANCE WakeServer WITH
  owed    <- pending # None,
  serving <- IF lock = None THEN "no"
             ELSE IF lock = "trigger" THEN "trigger" ELSE "wake"

ServesRequests == Server!Spec
==============================================================================
