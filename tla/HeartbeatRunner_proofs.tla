----------------------- MODULE HeartbeatRunner_proofs ------------------------
(***************************************************************************)
(* What holds of HeartbeatRunner for every value of its constants, and     *)
(* what holds for every gateway that asks for wakes with coalesce_ms = 0.  *)
(***************************************************************************)
EXTENDS HeartbeatRunner, TLAPS

\* The sources of reasons and their priorities.
LEMMA PriorityType ==
  /\ \A r \in DOMAIN Priority : Priority[r] \in Nat
  /\ {"requested", "interval"} \subseteq DOMAIN Priority
BY DEF Priority

\* A cancelled task is still a task.
LEMMA CancelledType ==
  ASSUME TypeOK, NEW w \in Wakes
  PROVE  Cancelled(w) \in [stage : Stages, rem : Nat]
BY DEF Cancelled, DoneTask, TypeOK, Stages

LEMMA SoonerType ==
  ASSUME NEW x \in Nat \cup {None}
  PROVE  /\ Sooner(x) \in Nat \cup {None}
         /\ x \in Nat => Sooner(x) \in Nat
BY RunnerAssumption DEF Sooner

-----------------------------------------------------------------------------
(* Types *)

LEMMA InitTypeOK == Init => TypeOK
<1> SUFFICES ASSUME Init PROVE TypeOK
  OBVIOUS
<1>1. DoneTask \in [stage : Stages, rem : Nat]
  BY DEF DoneTask, Stages
<1>2. tasks \in [Wakes -> [stage : Stages, rem : Nat]]
  BY <1>1 DEF Init
<1> QED
  BY <1>2 DEF Init, TypeOK

\* Creating a wake keeps the types, whatever is done to the other tasks.
LEMMA CreateWakeType ==
  ASSUME NEW delay \in Nat, NEW kind \in {"normal", "retry"},
         NEW others \in [Wakes -> [stage : Stages, rem : Nat]],
         CreateWake(delay, kind, others)
  PROVE  /\ tasks' \in [Wakes -> [stage : Stages, rem : Nat]]
         /\ wakeTask' \in Wakes /\ wakeDue' \in Nat /\ wakeKind' = kind
BY DEF CreateWake, Stages

LEMMA RequestWakeType ==
  ASSUME TypeOK, NEW reason \in DOMAIN Priority, NEW delay \in Nat,
         RequestWake(reason, delay)
  PROVE  /\ tasks' \in [Wakes -> [stage : Stages, rem : Nat]]
         /\ wakeTask' \in Wakes \cup {None} /\ wakeDue' \in Nat \cup {None}
         /\ wakeKind' \in {"normal", "retry", None}
         /\ pending' \in DOMAIN Priority \cup {None}
         /\ asked' \subseteq DOMAIN Priority
<1>1. /\ pending' \in DOMAIN Priority \cup {None}
      /\ asked' \subseteq DOMAIN Priority
  BY DEF RequestWake, Coalesced, TypeOK
<1>2. CASE KeepsTrackedWake(delay) /\ UNCHANGED wakeVars
  BY <1>1, <1>2 DEF TypeOK, wakeVars
<1>3. CASE ~KeepsTrackedWake(delay)
  <2> DEFINE others == IF wakeTask = None THEN tasks
                       ELSE [tasks EXCEPT ![wakeTask] = Cancelled(wakeTask)]
  <2>1. others \in [Wakes -> [stage : Stages, rem : Nat]]
    BY CancelledType DEF TypeOK
  <2>2. CreateWake(delay, "normal", others)
    BY <1>3 DEF RequestWake, ScheduleWake
  <2> HIDE DEF others
  <2> QED
    BY <1>1, <2>1, <2>2, CreateWakeType
<1> QED
  BY <1>2, <1>3 DEF RequestWake, ScheduleWake

LEMMA NextTypeOK == TypeOK /\ [Next]_vars => TypeOK'
<1> SUFFICES ASSUME TypeOK, [Next]_vars PROVE TypeOK'
  OBVIOUS
<1> USE RunnerAssumption
<1>1. CASE Start
  BY <1>1 DEF Start, TypeOK, wakeVars, stopVars, envVars
<1>2. CASE Request
  <2>1. PICK reason \in Reasons, delay \in Coalesce : RequestWake(reason, delay)
    BY <1>2 DEF Request
  <2>2. reason \in DOMAIN Priority /\ delay \in Nat
    OBVIOUS
  <2> QED
    BY <1>2, <2>1, <2>2, RequestWakeType
       DEF Request, RequestWake, TypeOK, stopVars, envVars
<1>3. CASE IntervalTick
  <2>1. "interval" \in DOMAIN Priority /\ 0 \in Nat
    BY PriorityType
  <2> QED
    BY <1>3, <2>1, RequestWakeType
       DEF IntervalTick, RequestWake, TypeOK, stopVars, envVars
<1>4. ASSUME NEW w \in Wakes, WakeStep(w) PROVE TypeOK'
  <2>1. CASE BeginSleep(w)
    BY <2>1 DEF BeginSleep, TypeOK, Stages, stopVars, envVars
  <2>2. CASE WakeAfterStop(w)
    BY <2>2 DEF WakeAfterStop, Finally, DoneTask, TypeOK, Stages, stopVars, envVars
  <2>3. CASE WakeSkips(w)
    BY <2>3 DEF WakeSkips, TakePending, Finally, DoneTask, TypeOK, Stages,
                stopVars, envVars
  <2>4. CASE WakeBusy(w)
    <3> DEFINE others == [tasks EXCEPT ![w] = DoneTask]
    <3>1. others \in [Wakes -> [stage : Stages, rem : Nat]]
      BY DEF TypeOK, DoneTask, Stages
    <3>2. CreateWake(RetryMs, "retry", others) /\ RetryMs \in Nat
      BY <2>4 DEF WakeBusy
    <3> HIDE DEF others
    <3>3. /\ tasks' \in [Wakes -> [stage : Stages, rem : Nat]]
          /\ wakeTask' \in Wakes /\ wakeDue' \in Nat /\ wakeKind' = "retry"
      BY <3>1, <3>2, CreateWakeType
    <3>4. TakenReason \in DOMAIN Priority
      BY PriorityType DEF TakenReason, TypeOK
    <3> QED
      BY <2>4, <3>3, <3>4 DEF WakeBusy, TypeOK, stopVars, envVars
  <2>5. CASE WakeRuns(w)
    BY <2>5 DEF WakeRuns, TakePending, TypeOK, Stages, stopVars, envVars
  <2>6. CASE RunEnds(w)
    BY <2>6 DEF RunEnds, Finally, DoneTask, TypeOK, Stages, stopVars, envVars
  <2>7. CASE CancelEnds(w)
    BY <2>7 DEF CancelEnds, Finally, DoneTask, TypeOK, Stages, stopVars, envVars
  <2> QED
    BY <1>4, <2>1, <2>2, <2>3, <2>4, <2>5, <2>6, <2>7 DEF WakeStep
<1>5. CASE TriggerRuns
  BY <1>5 DEF TriggerRuns, TypeOK, wakeVars, stopVars, envVars
<1>6. CASE TriggerEnds
  BY <1>6, ZenonT(60) DEF TriggerEnds, TypeOK, wakeVars, stopVars, envVars
<1>7. CASE StopLoop
  BY <1>7 DEF StopLoop, TypeOK, wakeVars, envVars
<1>8. CASE StopWake
  BY <1>8, CancelledType DEF StopWake, TypeOK, envVars
<1>9. CASE StopReturns
  BY <1>9 DEF StopReturns, TypeOK, envVars
<1>10. CASE Tick
  <2>1. loop' \in Nat \cup {None} /\ wakeDue' \in Nat \cup {None} /\ backoff' \in Nat
    BY <1>10, SoonerType DEF Tick, TypeOK
  <2>2. tasks' \in [Wakes -> [stage : Stages, rem : Nat]]
    <3>1. ASSUME NEW v \in Wakes PROVE tasks'[v] \in [stage : Stages, rem : Nat]
      BY <1>10, SoonerType DEF Tick, TypeOK, Stages
    <3> QED
      BY <1>10, <3>1 DEF Tick
  <2> QED
    BY <1>10, <2>1, <2>2 DEF Tick, TypeOK, stopVars, envVars
<1>11. CASE BusyChanges
  BY <1>11 DEF BusyChanges, TypeOK, wakeVars, stopVars
<1>12. CASE HoursChange
  BY <1>12 DEF HoursChange, TypeOK, wakeVars, stopVars
<1>13. CASE UNCHANGED vars
  BY <1>13 DEF TypeOK, vars, wakeVars, stopVars, envVars
<1> QED
  BY <1>1, <1>2, <1>3, <1>4, <1>5, <1>6, <1>7, <1>8, <1>9, <1>10, <1>11, <1>12,
     <1>13 DEF Next

\* The scheduler's variables always have their types, for every set of wakes, every
\* interval and every coalescing delay.
THEOREM TypeCorrect == Spec => []TypeOK
BY InitTypeOK, NextTypeOK, PTL DEF Spec

-----------------------------------------------------------------------------
(* Runs exclude each other *)

\* A cancelled task does not run, and one that is created does not run yet.
LEMMA CancelledNotRunning ==
  ASSUME TypeOK, NEW w \in Wakes
  PROVE  /\ Cancelled(w).stage \in {"done", "cancelling"}
         /\ Cancelled(w).stage = "done" \/ Live(w)
BY DEF Cancelled, DoneTask, TypeOK, Stages, Live

\* The tasks a request leaves behind: each is as before, or new, or cancelled.
LEMMA RequestWakeTasks ==
  ASSUME TypeOK, NEW reason \in DOMAIN Priority, NEW delay \in Nat,
         RequestWake(reason, delay), NEW v \in Wakes
  PROVE  tasks'[v].stage = "running" => tasks[v].stage = "running"
<1>1. CASE UNCHANGED wakeVars
  BY <1>1 DEF wakeVars
<1>2. CASE ~KeepsTrackedWake(delay)
  <2> DEFINE others == IF wakeTask = None THEN tasks
                       ELSE [tasks EXCEPT ![wakeTask] = Cancelled(wakeTask)]
  <2>1. /\ others \in [Wakes -> [stage : Stages, rem : Nat]]
        /\ others[v].stage = "running" => tasks[v].stage = "running"
    BY CancelledType, CancelledNotRunning DEF TypeOK
  <2>2. CreateWake(delay, "normal", others)
    BY <1>2 DEF RequestWake, ScheduleWake
  <2> HIDE DEF others
  <2> QED
    BY <2>1, <2>2 DEF CreateWake
<1> QED
  BY <1>1, <1>2 DEF RequestWake, ScheduleWake

\* Only the caller of trigger_now releases the lock it holds.
LEMMA NextTriggerHolds ==
  TypeOK /\ ExclusiveRun /\ [Next]_vars => (triggering' => lock' = "trigger")
<1> SUFFICES ASSUME TypeOK, ExclusiveRun, [Next]_vars, triggering'
             PROVE  lock' = "trigger"
  OBVIOUS
<1>0. triggering => lock = "trigger"
  BY DEF ExclusiveRun
<1>1. CASE TriggerRuns \/ TriggerEnds
  BY <1>1 DEF TriggerRuns, TriggerEnds
<1>2. CASE \E w \in Wakes : WakeStep(w)
  <2>1. PICK w \in Wakes : WakeStep(w)
    BY <1>2
  <2>2. CASE WakeRuns(w)
    BY <1>0, <2>2, RunnerAssumption DEF WakeRuns, envVars
  <2>3. CASE RunEnds(w)
    BY <1>0, <2>3, RunnerAssumption DEF RunEnds, ExclusiveRun, envVars
  <2>4. CASE CancelEnds(w)
    BY <1>0, <2>4, RunnerAssumption DEF CancelEnds, envVars
  <2>5. CASE \/ BeginSleep(w) \/ WakeAfterStop(w) \/ WakeSkips(w) \/ WakeBusy(w)
    BY <1>0, <2>5 DEF BeginSleep, WakeAfterStop, WakeSkips, WakeBusy, envVars
  <2> QED
    BY <2>1, <2>2, <2>3, <2>4, <2>5 DEF WakeStep
<1>3. CASE \/ Start \/ Request \/ IntervalTick \/ StopLoop \/ StopWake
           \/ StopReturns \/ Tick \/ BusyChanges \/ HoursChange \/ UNCHANGED vars
  BY <1>0, <1>3 DEF Start, Request, IntervalTick, RequestWake, StopLoop, StopWake,
     StopReturns, Tick, BusyChanges, HoursChange, vars, envVars
<1> QED
  BY <1>1, <1>2, <1>3 DEF Next

LEMMA NextExclusiveRun == TypeOK /\ ExclusiveRun /\ [Next]_vars => ExclusiveRun'
<1> SUFFICES ASSUME TypeOK, ExclusiveRun, [Next]_vars,
                    NEW v \in Wakes, tasks'[v].stage = "running"
             PROVE  lock' = v
  BY NextTriggerHolds DEF ExclusiveRun
<1>0. tasks[v].stage = "running" => lock = v
  BY DEF ExclusiveRun
<1>1. CASE Start \/ StopLoop \/ StopReturns \/ BusyChanges \/ HoursChange
           \/ UNCHANGED vars
  BY <1>0, <1>1 DEF Start, StopLoop, StopReturns, BusyChanges, HoursChange, vars, wakeVars
<1>2. CASE Request
  BY <1>0, <1>2, RequestWakeTasks, RunnerAssumption DEF Request, RequestWake
<1>3. CASE IntervalTick
  BY <1>0, <1>3, RequestWakeTasks, PriorityType DEF IntervalTick, RequestWake
<1>4. ASSUME NEW w \in Wakes, WakeStep(w) PROVE lock' = v
  <2>1. CASE BeginSleep(w)
    BY <1>0, <2>1 DEF BeginSleep, TypeOK
  <2>2. CASE WakeAfterStop(w) \/ WakeSkips(w)
    BY <1>0, <2>2 DEF WakeAfterStop, WakeSkips, Finally, DoneTask, TypeOK
  <2>3. CASE WakeBusy(w)
    BY <1>0, <2>3 DEF WakeBusy, CreateWake, DoneTask, TypeOK
  <2>4. CASE WakeRuns(w)
    \* The lock was free, so no other task was running.
    BY <1>0, <2>4, RunnerAssumption DEF WakeRuns, TypeOK
  <2>5. CASE RunEnds(w)
    \* w held the lock, so it was the only task running.
    BY <1>0, <2>5 DEF RunEnds, ExclusiveRun, Finally, DoneTask, TypeOK
  <2>6. CASE CancelEnds(w)
    BY <1>0, <2>6 DEF CancelEnds, Finally, DoneTask, TypeOK
  <2> QED
    BY <1>4, <2>1, <2>2, <2>3, <2>4, <2>5, <2>6 DEF WakeStep
<1>5. CASE TriggerRuns \/ TriggerEnds
  BY <1>0, <1>5, RunnerAssumption DEF TriggerRuns, TriggerEnds, ExclusiveRun, wakeVars
<1>6. CASE StopWake
  BY <1>0, <1>6, CancelledNotRunning DEF StopWake, TypeOK
<1>7. CASE Tick
  BY <1>0, <1>7 DEF Tick
<1> QED
  BY <1>1, <1>2, <1>3, <1>4, <1>5, <1>6, <1>7 DEF Next

\* Two executions of on_run never overlap, whichever wakes, retries and trigger_now
\* calls start them and whatever delays the callers pass.
THEOREM RunsExclude == Spec => []ExclusiveRun
<1>1. Init => ExclusiveRun
  BY DEF Init, ExclusiveRun, DoneTask
<1> QED
  BY <1>1, NextExclusiveRun, TypeCorrect, PTL DEF Spec

-----------------------------------------------------------------------------
(* The pending reason *)

LEMMA RequestWakePending ==
  ASSUME TypeOK, PendingIsTopRequest, NEW reason \in DOMAIN Priority,
         NEW delay \in Nat, RequestWake(reason, delay)
  PROVE  PendingIsTopRequest' /\ pending' # None
<1>1. /\ asked' = asked \cup {reason}
      /\ pending' = IF pending = None \/ Priority[reason] >= Priority[pending]
                    THEN reason ELSE pending
  BY DEF RequestWake, Coalesced
<1>2. /\ reason # None /\ Priority[reason] \in Nat
      /\ \A r \in asked : Priority[r] \in Nat
      /\ pending # None => Priority[pending] \in Nat
  BY PriorityType, RunnerAssumption DEF TypeOK
<1>3. CASE pending = None
  BY <1>1, <1>2, <1>3 DEF PendingIsTopRequest
<1>4. CASE pending # None /\ Priority[reason] >= Priority[pending]
  BY <1>1, <1>2, <1>4 DEF PendingIsTopRequest
<1>5. CASE pending # None /\ ~(Priority[reason] >= Priority[pending])
  BY <1>1, <1>2, <1>5 DEF PendingIsTopRequest
<1> QED
  BY <1>3, <1>4, <1>5

LEMMA NextPending ==
  TypeOK /\ PendingIsTopRequest /\ [Next]_vars => PendingIsTopRequest'
<1> SUFFICES ASSUME TypeOK, PendingIsTopRequest, [Next]_vars
             PROVE  PendingIsTopRequest'
  OBVIOUS
<1>1. CASE UNCHANGED <<pending, asked>>
  BY <1>1 DEF PendingIsTopRequest
<1>2. CASE pending' = None /\ asked' = {}
  BY <1>2 DEF PendingIsTopRequest
<1>3. CASE Request
  BY <1>3, RequestWakePending, RunnerAssumption DEF Request
<1>4. CASE IntervalTick
  BY <1>4, RequestWakePending, PriorityType DEF IntervalTick
<1>5. ASSUME NEW w \in Wakes, WakeStep(w) PROVE PendingIsTopRequest'
  <2>1. CASE WakeBusy(w)
    <3>1. pending' = TakenReason /\ asked' = {TakenReason}
      BY <2>1 DEF WakeBusy
    <3>2. TakenReason # None /\ Priority[TakenReason] \in Nat
      BY PriorityType, RunnerAssumption DEF TakenReason, TypeOK
    <3> QED
      BY <3>1, <3>2 DEF PendingIsTopRequest
  <2>2. CASE WakeSkips(w) \/ WakeRuns(w)
    BY <1>2, <2>2 DEF WakeSkips, WakeRuns, TakePending
  <2>3. CASE BeginSleep(w) \/ WakeAfterStop(w) \/ RunEnds(w) \/ CancelEnds(w)
    BY <1>1, <2>3 DEF BeginSleep, WakeAfterStop, RunEnds, CancelEnds
  <2> QED
    BY <1>5, <2>1, <2>2, <2>3 DEF WakeStep
<1>6. CASE StopReturns
  BY <1>2, <1>6 DEF StopReturns
<1>7. CASE Start \/ TriggerRuns \/ TriggerEnds \/ StopLoop \/ StopWake \/ Tick
           \/ BusyChanges \/ HoursChange \/ UNCHANGED vars
  BY <1>1, <1>7 DEF Start, TriggerRuns, TriggerEnds, StopLoop, StopWake, Tick,
                    BusyChanges, HoursChange, vars
<1> QED
  BY <1>3, <1>4, <1>5, <1>6, <1>7 DEF Next

\* However requests, retries and attempts interleave, the reason the next attempt is
\* made with is one that was asked for and that no attempt has taken, and no other
\* such reason has a higher priority.
THEOREM PendingIsTop == Spec => []PendingIsTopRequest
<1>1. Init => PendingIsTopRequest
  BY DEF Init, PendingIsTopRequest
<1> QED
  BY <1>1, NextPending, TypeCorrect, PTL DEF Spec

-----------------------------------------------------------------------------
(* Callers that pass coalesce_ms = 0, as the gateway and its tools do *)

Waiting == {"created", "sleeping"}

\* A live tracked wake is a retry or is due at once: no new wake replaces it.
TrackedIsDue ==
  wakeTask # None /\ Live(wakeTask) =>
    wakeDue # None /\ (wakeKind = "retry" \/ wakeDue = 0)

\* Once stop() has cancelled the tracked wake it awaits all that is alive.
StopJoins ==
  /\ stopping # "no" => ~running
  /\ stopping = "wake" => \A w \in Wakes : Live(w) => joining = w

\* While a backoff lasts the tracked wake still waits, for at least as long.
BackoffHeld ==
  backoff > 0 =>
    IF running
    THEN /\ wakeTask # None
         /\ tasks[wakeTask].stage \in Waiting
         /\ tasks[wakeTask].rem >= backoff
    ELSE stopping # "no"

GatewayInv ==
  /\ TypeOK
  /\ TrackedWake
  /\ TrackedIsDue
  /\ StopJoins
  /\ StopQuiesces
  /\ NoSpuriousWake
  /\ BackoffHeld

LEMMA InitGatewayInv == Init => GatewayInv
<1> SUFFICES ASSUME Init PROVE GatewayInv
  OBVIOUS
<1>1. TypeOK
  BY InitTypeOK
<1>2. \A w \in Wakes : tasks[w].stage = "done"
  BY DEF Init, DoneTask
<1> QED
  BY <1>1, <1>2 DEF GatewayInv, Init, TrackedWake, TrackedIsDue, StopJoins,
                    StopQuiesces, NoSpuriousWake, BackoffHeld, Live, Waiting

\* A request either leaves the tracked wake alone, or finds no wake alive and makes
\* one: it never cancels a wake.
LEMMA RequestNeverCancels ==
  ASSUME GatewayInv, NEW reason \in DOMAIN Priority, RequestWake(reason, 0)
  PROVE  \/ UNCHANGED wakeVars /\ \E w \in Wakes : Live(w)
         \/ /\ \A w \in Wakes : ~Live(w)
            /\ CreateWake(0, "normal", tasks)
<1>1. CASE KeepsTrackedWake(0) /\ UNCHANGED wakeVars
  BY <1>1 DEF KeepsTrackedWake, GatewayInv, TypeOK
<1>2. CASE ~KeepsTrackedWake(0)
  <2>1. wakeTask # None => ~Live(wakeTask)
    BY <1>2 DEF KeepsTrackedWake, GatewayInv, TrackedIsDue
  <2>2. \A w \in Wakes : ~Live(w)
    BY <2>1, RunnerAssumption DEF GatewayInv, TrackedWake
  <2>3. wakeTask # None => [tasks EXCEPT ![wakeTask] = Cancelled(wakeTask)] = tasks
    BY <2>1 DEF Cancelled, Live, GatewayInv, TypeOK
  <2> QED
    BY <1>2, <2>2, <2>3 DEF RequestWake, ScheduleWake
<1> QED
  BY <1>1, <1>2 DEF RequestWake, ScheduleWake

LEMMA RequestGatewayInv ==
  ASSUME GatewayInv, TypeOK', NEW reason \in DOMAIN Priority, RequestWake(reason, 0)
  PROVE  GatewayInv'
<1>1. /\ running /\ running' = running /\ UNCHANGED stopVars
      /\ backoff' = backoff /\ pending' # None
  BY RunnerAssumption DEF RequestWake, Coalesced, GatewayInv, TypeOK
<1>2. CASE UNCHANGED wakeVars
  BY <1>1, <1>2 DEF wakeVars, stopVars, GatewayInv, TrackedWake, TrackedIsDue,
                    StopJoins, StopQuiesces, NoSpuriousWake, BackoffHeld, Live
<1>3. CASE (\A w \in Wakes : ~Live(w)) /\ CreateWake(0, "normal", tasks)
  <2>1. PICK w \in Wakes :
          /\ tasks' = [tasks EXCEPT ![w] = [stage |-> "created", rem |-> 0]]
          /\ wakeTask' = w /\ wakeDue' = 0 /\ wakeKind' = "normal"
    BY <1>3 DEF CreateWake
  <2>2. backoff = 0
    BY <1>1, <1>3 DEF GatewayInv, BackoffHeld, Waiting, Live, TypeOK
  <2>3. TrackedWake' /\ TrackedIsDue'
    BY <1>3, <2>1, RunnerAssumption DEF GatewayInv, TypeOK, TrackedWake, TrackedIsDue, Live
  <2>4. StopJoins' /\ StopQuiesces' /\ NoSpuriousWake'
    BY <1>1 DEF GatewayInv, StopJoins, StopQuiesces, NoSpuriousWake, stopVars
  <2>5. BackoffHeld'
    BY <1>1, <2>2 DEF BackoffHeld
  <2> QED
    BY <2>3, <2>4, <2>5 DEF GatewayInv
<1> QED
  BY <1>2, <1>3, RequestNeverCancels

\* What a wake's own step changes: it is the only wake alive, before and after.
LEMMA WakeStepGatewayInv ==
  ASSUME GatewayInv, TypeOK', NEW w \in Wakes, WakeStep(w)
  PROVE  GatewayInv'
<1>0. /\ Live(w) /\ wakeTask = w
      /\ \A v \in Wakes : v # w => tasks[v].stage = "done"
  <2>1. Live(w)
    BY DEF WakeStep, BeginSleep, WakeAfterStop, WakeSkips, WakeBusy, WakeRuns,
           RunEnds, CancelEnds, Wakeable, Live
  <2> QED
    BY <2>1 DEF GatewayInv, TrackedWake, Live
<1>1. w # None
  BY RunnerAssumption
<1>2. /\ UNCHANGED <<running, stopVars>>
      /\ tasks' \in [Wakes -> [stage : Stages, rem : Nat]]
  <2>1. UNCHANGED <<running, stopVars>>
    BY DEF WakeStep, BeginSleep, WakeAfterStop, WakeSkips, WakeBusy, WakeRuns,
           RunEnds, CancelEnds
  <2> QED
    BY <2>1 DEF TypeOK
\* The wake ends and none is alive.
<1>3. ASSUME Finally(w), backoff' = backoff,
             ~running \/ backoff = 0 \/ tasks[w].stage \notin Waiting
      PROVE  GatewayInv'
  <2>1. \A v \in Wakes : tasks'[v].stage = "done"
    BY <1>0, <1>3 DEF Finally, DoneTask, GatewayInv, TypeOK
  <2>2. TrackedWake' /\ TrackedIsDue' /\ StopQuiesces' /\ NoSpuriousWake'
    BY <1>3, <2>1 DEF Finally, TrackedWake, TrackedIsDue, StopQuiesces,
                      NoSpuriousWake, Live
  <2>3. StopJoins'
    BY <1>2, <2>1 DEF GatewayInv, StopJoins, stopVars, Live
  <2>4. BackoffHeld'
    BY <1>0, <1>2, <1>3 DEF GatewayInv, BackoffHeld, stopVars, TypeOK
  <2> QED
    BY <2>2, <2>3, <2>4 DEF GatewayInv
<1>4. CASE BeginSleep(w)
  <2>1. /\ \A v \in Wakes : v # w => tasks'[v] = tasks[v]
        /\ tasks'[w].stage = "sleeping" /\ tasks'[w].rem = tasks[w].rem
        /\ tasks[w].stage = "created"
    BY <1>4 DEF BeginSleep, GatewayInv, TypeOK
  <2>2. UNCHANGED <<wakeTask, wakeDue, wakeKind, pending, backoff>>
    BY <1>4 DEF BeginSleep
  <2>3. TrackedWake' /\ TrackedIsDue'
    BY <1>0, <2>1, <2>2 DEF GatewayInv, TrackedWake, TrackedIsDue, Live
  <2>4. StopJoins' /\ StopQuiesces'
    BY <1>0, <1>2, <2>1, <2>2 DEF GatewayInv, StopJoins, StopQuiesces, Live, stopVars
  <2>5. NoSpuriousWake'
    BY <1>0, <1>2, <2>1, <2>2 DEF GatewayInv, NoSpuriousWake
  <2>6. BackoffHeld'
    BY <1>0, <1>2, <2>1, <2>2 DEF GatewayInv, BackoffHeld, Waiting, stopVars
  <2> QED
    BY <2>3, <2>4, <2>5, <2>6 DEF GatewayInv
<1>5. CASE WakeAfterStop(w)
  BY <1>3, <1>5 DEF WakeAfterStop
<1>6. CASE WakeSkips(w) \/ WakeBusy(w) \/ WakeRuns(w)
  \* The retry the backoff belongs to is this wake, whose sleep is over.
  <2>1. backoff = 0 /\ running
    BY <1>0, <1>6 DEF WakeSkips, WakeBusy, WakeRuns, Wakeable, GatewayInv,
                      BackoffHeld, TypeOK
  <2>2. CASE WakeSkips(w)
    BY <1>3, <2>1, <2>2 DEF WakeSkips
  <2>3. CASE WakeBusy(w)
    <3>1. PICK v \in Wakes :
            /\ tasks' = [[tasks EXCEPT ![w] = DoneTask]
                           EXCEPT ![v] = [stage |-> "created", rem |-> RetryMs]]
            /\ wakeTask' = v /\ wakeDue' = RetryMs /\ wakeKind' = "retry"
      BY <2>3 DEF WakeBusy, CreateWake
    <3>2. /\ tasks'[v].stage = "created" /\ tasks'[v].rem = RetryMs
          /\ \A u \in Wakes : u # v => tasks'[u].stage = "done"
      BY <1>0, <3>1 DEF DoneTask, GatewayInv, TypeOK
    <3>3. pending' # None /\ backoff' = RetryMs
      BY <2>3, RunnerAssumption, PriorityType DEF WakeBusy, TakenReason
    <3>4. TrackedWake' /\ TrackedIsDue'
      BY <3>1, <3>2, RunnerAssumption DEF TrackedWake, TrackedIsDue, Live
    <3>5. StopJoins' /\ StopQuiesces' /\ NoSpuriousWake'
      BY <1>2, <2>1, <3>3 DEF GatewayInv, StopJoins, StopQuiesces,
                               NoSpuriousWake, stopVars
    <3>6. BackoffHeld'
      BY <1>2, <2>1, <3>1, <3>2, <3>3, RunnerAssumption DEF BackoffHeld, Waiting
    <3> QED
      BY <3>4, <3>5, <3>6 DEF GatewayInv
  <2>4. CASE WakeRuns(w)
    <3>1. /\ \A v \in Wakes : v # w => tasks'[v] = tasks[v]
          /\ tasks'[w].stage = "running"
          /\ UNCHANGED <<wakeTask, wakeDue, wakeKind, backoff>>
      BY <2>4 DEF WakeRuns, GatewayInv, TypeOK
    <3>2. TrackedWake' /\ TrackedIsDue'
      BY <1>0, <3>1 DEF GatewayInv, TrackedWake, TrackedIsDue, Live
    <3>3. StopJoins' /\ StopQuiesces'
      BY <1>2, <2>1 DEF GatewayInv, StopJoins, StopQuiesces, stopVars
    <3>4. NoSpuriousWake' /\ BackoffHeld'
      BY <1>0, <2>1, <3>1 DEF NoSpuriousWake, BackoffHeld
    <3> QED
      BY <3>2, <3>3, <3>4 DEF GatewayInv
  <2> QED
    BY <1>6, <2>2, <2>3, <2>4
<1>7. CASE RunEnds(w)
  BY <1>3, <1>7 DEF RunEnds, Waiting
<1>8. CASE CancelEnds(w)
  BY <1>3, <1>8 DEF CancelEnds, Waiting
<1> QED
  BY <1>4, <1>5, <1>6, <1>7, <1>8 DEF WakeStep

LEMMA NextGatewayInv ==
  ASSUME Coalesce = {0}, GatewayInv, [Next]_vars
  PROVE  GatewayInv'
<1>0. TypeOK'
  BY NextTypeOK DEF GatewayInv
<1>1. CASE Request
  BY <1>0, <1>1, RequestGatewayInv, RunnerAssumption DEF Request
<1>2. CASE IntervalTick
  BY <1>0, <1>2, RequestGatewayInv, PriorityType DEF IntervalTick
<1>3. ASSUME NEW w \in Wakes, WakeStep(w) PROVE GatewayInv'
  BY <1>0, <1>3, WakeStepGatewayInv
<1>4. CASE TriggerRuns \/ TriggerEnds \/ BusyChanges \/ HoursChange \/ UNCHANGED vars
  BY <1>0, <1>4 DEF TriggerRuns, TriggerEnds, BusyChanges, HoursChange, vars,
       wakeVars, stopVars, GatewayInv, TrackedWake, TrackedIsDue, StopJoins,
       StopQuiesces, NoSpuriousWake, BackoffHeld, Live
<1>5. CASE Start
  BY <1>0, <1>5 DEF Start, wakeVars, stopVars, GatewayInv, TrackedWake,
       TrackedIsDue, StopJoins, StopQuiesces, NoSpuriousWake, BackoffHeld, Live,
       Waiting
<1>6. CASE StopLoop
  BY <1>0, <1>6 DEF StopLoop, wakeVars, GatewayInv, TrackedWake, TrackedIsDue,
       StopJoins, StopQuiesces, NoSpuriousWake, BackoffHeld, Live
<1>7. CASE StopWake
  <2>1. \A w \in Wakes : Live(w)' => Live(w)
    BY <1>7, CancelledNotRunning DEF StopWake, GatewayInv, TypeOK, Live
  <2>2. /\ UNCHANGED <<running, wakeTask, wakeDue, wakeKind, backoff>>
        /\ ~running /\ stopping' = "wake" /\ joining' = wakeTask
    BY <1>7 DEF StopWake, GatewayInv, StopJoins
  <2>3. TrackedWake' /\ TrackedIsDue' /\ StopJoins'
    BY <2>1, <2>2 DEF GatewayInv, TypeOK, TrackedWake, TrackedIsDue, StopJoins
  <2>4. StopQuiesces' /\ NoSpuriousWake' /\ BackoffHeld'
    BY <2>2 DEF StopQuiesces, NoSpuriousWake, BackoffHeld
  <2> QED
    BY <1>0, <2>3, <2>4 DEF GatewayInv
<1>8. CASE StopReturns
  <2>1. \A w \in Wakes : ~Live(w)
    BY <1>8, RunnerAssumption DEF StopReturns, GatewayInv, StopJoins
  <2>2. \A w \in Wakes : ~Live(w)'
    BY <1>8, <2>1 DEF StopReturns, Live
  <2>3. wakeTask' = None /\ backoff' = 0 /\ ~running' /\ stopping' = "no"
    BY <1>8 DEF StopReturns, GatewayInv, StopJoins
  <2> QED
    BY <1>0, <2>2, <2>3 DEF GatewayInv, TrackedWake, TrackedIsDue, StopJoins,
         StopQuiesces, NoSpuriousWake, BackoffHeld, Live
<1>9. CASE Tick
  <2>1. \A w \in Wakes : /\ tasks'[w].stage = tasks[w].stage
                         /\ tasks'[w].rem =
                              IF tasks[w].stage = "sleeping"
                              THEN Sooner(tasks[w].rem) ELSE tasks[w].rem
    BY <1>9 DEF Tick
  <2>2. /\ UNCHANGED <<running, pending, wakeTask, wakeKind, stopVars>>
        /\ wakeDue' = Sooner(wakeDue) /\ backoff' = Sooner(backoff)
    BY <1>9 DEF Tick
  <2>3. TrackedWake' /\ TrackedIsDue'
    BY <2>1, <2>2, RunnerAssumption DEF GatewayInv, TypeOK, TrackedWake,
         TrackedIsDue, Live, Sooner
  <2>4. StopJoins' /\ StopQuiesces' /\ NoSpuriousWake'
    BY <2>1, <2>2 DEF GatewayInv, StopJoins, StopQuiesces, NoSpuriousWake, Live,
         stopVars
  <2>5. BackoffHeld'
    BY <2>1, <2>2, RunnerAssumption DEF GatewayInv, TypeOK, BackoffHeld, Waiting,
         Sooner, stopVars
  <2> QED
    BY <1>0, <2>3, <2>4, <2>5 DEF GatewayInv
<1> QED
  BY <1>1, <1>2, <1>3, <1>4, <1>5, <1>6, <1>7, <1>8, <1>9 DEF Next

LEMMA GatewayInvariant ==
  ASSUME Coalesce = {0}
  PROVE  Spec => []GatewayInv
<1>1. GatewayInv /\ [Next]_vars => GatewayInv'
  BY NextGatewayInv
<1> QED
  BY <1>1, InitGatewayInv, PTL DEF Spec

\* When every caller passes coalesce_ms = 0, the wake the runner tracks is the only
\* wake task alive: none escapes the next _schedule_wake or stop().
THEOREM OneWake ==
  ASSUME Coalesce = {0}
  PROVE  Spec => []TrackedWake
<1>1. GatewayInv => TrackedWake
  BY DEF GatewayInv
<1> QED
  BY <1>1, GatewayInvariant, PTL

\* When every caller passes coalesce_ms = 0, stop() returns only when no wake task
\* is left, whatever was requested, retried or running when it was called.
THEOREM StopLeavesNothing ==
  ASSUME Coalesce = {0}
  PROVE  Spec => []StopQuiesces
<1>1. GatewayInv => StopQuiesces
  BY DEF GatewayInv
<1> QED
  BY <1>1, GatewayInvariant, PTL

\* When every caller passes coalesce_ms = 0, a wake that sleeps has a pending reason:
\* no attempt is made with the made-up reason "requested".
THEOREM WakesAreAskedFor ==
  ASSUME Coalesce = {0}
  PROVE  Spec => []NoSpuriousWake
<1>1. GatewayInv => NoSpuriousWake
  BY DEF GatewayInv
<1> QED
  BY <1>1, GatewayInvariant, PTL

\* When every caller passes coalesce_ms = 0, no wake task is lost, superfluous, beside
\* another run or left behind by stop(): what the run gateway_life checks of it.
THEOREM WakesAreSafe ==
  ASSUME Coalesce = {0}
  PROVE  Spec => []RunnerSafe
<1>1. TypeOK /\ TrackedWake /\ NoSpuriousWake /\ ExclusiveRun /\ StopQuiesces => RunnerSafe
  BY DEF RunnerSafe
<1>2. Spec => []TrackedWake
  BY OneWake
<1>3. Spec => []NoSpuriousWake
  BY WakesAreAskedFor
<1>4. Spec => []StopQuiesces
  BY StopLeavesNothing
<1> QED
  BY <1>1, <1>2, <1>3, <1>4, TypeCorrect, RunsExclude, PTL

\* When every caller passes coalesce_ms = 0, no wake makes an attempt within the
\* retry delay of an attempt that found the gateway busy.
THEOREM RetriesBackOff ==
  ASSUME Coalesce = {0}
  PROVE  Spec => RetryBackoff
<1>1. ASSUME GatewayInv, NEW w \in Wakes, Wakeable(w), running
      PROVE  backoff = 0
  <2>1. wakeTask = w /\ tasks[w].rem = 0
    BY <1>1 DEF Wakeable, GatewayInv, TrackedWake, Live
  <2> QED
    BY <1>1, <2>1 DEF GatewayInv, BackoffHeld, TypeOK
<1>2. GatewayInv /\ [Next]_vars =>
        [\A w \in Wakes :
           Wakeable(w) /\ running /\ tasks'[w].stage \in {"done", "running"}
             => backoff = 0]_vars
  BY <1>1
<1> QED
  BY <1>2, GatewayInvariant, PTL DEF Spec, RetryBackoff

-----------------------------------------------------------------------------
(* The abstract server *)

Serving == IF lock = None THEN "no" ELSE IF lock = "trigger" THEN "trigger" ELSE "wake"

\* Every step of a wake task is a step of the server or none.
LEMMA WakeStepServes ==
  ASSUME GatewayInv, ExclusiveRun, NEW w \in Wakes, WakeStep(w)
  PROVE  [Server!Next]_<<pending # None, Serving>>
<1>0. w # None /\ w # "trigger"
  BY RunnerAssumption
<1>1. CASE BeginSleep(w) \/ WakeAfterStop(w)
  BY <1>1 DEF BeginSleep, WakeAfterStop, Serving
<1>2. CASE WakeSkips(w) \/ WakeRuns(w)
  <2>1. pending # None
    BY <1>2 DEF WakeSkips, WakeRuns, Wakeable, GatewayInv, NoSpuriousWake
  <2>2. CASE WakeSkips(w)
    BY <2>1, <2>2 DEF WakeSkips, TakePending, Serving, Server!Next, Server!Drop
  <2>3. CASE WakeRuns(w)
    BY <1>0, <2>1, <2>3 DEF WakeRuns, TakePending, Serving, Server!Next, Server!Begin
  <2> QED
    BY <1>2, <2>2, <2>3
<1>3. CASE WakeBusy(w)
  <2>1. pending # None
    BY <1>3 DEF WakeBusy, Wakeable, GatewayInv, NoSpuriousWake
  <2> QED
    BY <1>3, <2>1 DEF WakeBusy, TakenReason, Serving
<1>4. CASE RunEnds(w)
  <2>1. lock = w
    BY <1>4 DEF RunEnds, ExclusiveRun
  <2> QED
    BY <1>0, <1>4, <2>1 DEF RunEnds, Serving, Server!Next, Server!End
<1>5. CASE CancelEnds(w)
  BY <1>0, <1>5 DEF CancelEnds, Serving, Server!Next, Server!End
<1> QED
  BY <1>1, <1>2, <1>3, <1>4, <1>5 DEF WakeStep

LEMMA StepServes ==
  ASSUME Coalesce = {0}, GatewayInv, ExclusiveRun, [Next]_vars
  PROVE  [Server!Next]_<<pending # None, Serving>>
<1>1. ASSUME NEW reason \in DOMAIN Priority, RequestWake(reason, 0)
      PROVE  Server!Ask
  <2>1. (pending' # None) = TRUE
    BY <1>1, RunnerAssumption DEF RequestWake, Coalesced, GatewayInv, TypeOK
  <2> QED
    BY <1>1, <2>1 DEF RequestWake, Server!Ask, Serving
<1>2. CASE Request
  BY <1>1, <1>2, RunnerAssumption DEF Request, Server!Next
<1>3. CASE IntervalTick
  BY <1>1, <1>3, PriorityType DEF IntervalTick, Server!Next
<1>4. ASSUME NEW w \in Wakes, WakeStep(w)
      PROVE  [Server!Next]_<<pending # None, Serving>>
  BY <1>4, WakeStepServes
<1>5. CASE TriggerRuns
  BY <1>5, RunnerAssumption DEF TriggerRuns, Serving, Server!Next, Server!Trigger
<1>6. CASE TriggerEnds
  BY <1>6, RunnerAssumption DEF TriggerEnds, Serving, Server!Next, Server!End
<1>7. CASE StopReturns
  BY <1>7 DEF StopReturns, Serving, Server!Next, Server!Drop
<1>8. CASE Start \/ StopLoop \/ StopWake \/ Tick \/ BusyChanges \/ HoursChange
           \/ UNCHANGED vars
  BY <1>8 DEF Start, StopLoop, StopWake, Tick, BusyChanges, HoursChange, vars, Serving
<1> QED
  BY <1>2, <1>3, <1>4, <1>5, <1>6, <1>7, <1>8 DEF Next

\* When every caller passes coalesce_ms = 0, the runner implements WakeServer: every
\* run a wake makes pays a request that was owed, and one run is under way at a time.
THEOREM Implements ==
  ASSUME Coalesce = {0}
  PROVE  Spec => ServesRequests
<1>1. Init => Server!Init
  BY DEF Init, Server!Init, Serving
<1>2. GatewayInv /\ ExclusiveRun /\ [Next]_vars
        => [Server!Next]_<<pending # None, Serving>>
  BY StepServes
<1> QED
  BY <1>1, <1>2, GatewayInvariant, RunsExclude, PTL
  DEF Spec, ServesRequests, Server!Spec, Serving
==============================================================================
