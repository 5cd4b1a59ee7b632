----------------------------- MODULE CronService ------------------------------
(***************************************************************************)
(* openpipixia/runtime/cron_service.py: the cron scheduler of the gateway  *)
(* and every other CronService made on the same store file.                *)
(*                                                                         *)
(* The gateway holds one instance for its life: it caches the store (mem), *)
(* rereads it when the file's mtime differs from the one it remembers, and *)
(* executes due jobs.  The cron tool (in the gateway's process) and the    *)
(* `ppx cron` command (in a process of its own) make a fresh instance for  *)
(* each operation: load, change, replace the file.                         *)
(*                                                                         *)
(* An instant is kept as the time that remains until it, cut off at 0,     *)
(* which is all that "<= now" and "> now" tell apart.  Of an mtime the     *)
(* code only asks whether it is the one remembered, so it is the Boolean   *)
(* `synced`; two writes are assumed never to get the same mtime.           *)
(***************************************************************************)
EXTENDS Integers, Sequences, FiniteSets

CONSTANTS
  Jobs,         \* job ids; add_job makes a fresh one, so each is added once
  Kind,         \* schedule and delete_after_run: "at" is a one-shot deleted after
                \* it ran, "once" a one-shot kept, "every" and "cron" recur
  MaxAt,        \* how far ahead a one-shot may be set
  Period,       \* every_seconds (and how far ahead a cron expression matches)
  Poll,         \* sync_poll_interval_s
  ToolOps,      \* what the cron tool is asked to do
  CliOps,       \* what the ppx cron command is asked to do
  CliOverlaps,  \* may the gateway touch the file within one command's load..save?
  MayFail,      \* may writing the file fail?
  MayBreak,     \* may a hand edit leave the file unparsable?
  None

Ops == {"add", "remove", "enable", "disable", "run"}

ASSUME CronAssumption ==
  /\ IsFiniteSet(Jobs)
  /\ Kind \in [Jobs -> {"at", "once", "every", "cron"}]
  /\ MaxAt \in Nat \ {0} /\ Period \in Nat \ {0} /\ Poll \in Nat \ {0}
  /\ ToolOps \subseteq {"add", "remove"} /\ CliOps \subseteq Ops
  /\ CliOverlaps \in BOOLEAN /\ MayFail \in BOOLEAN /\ MayBreak \in BOOLEAN
  /\ None \notin Jobs /\ None \notin Nat

VARIABLES
  disk,     \* the store file: is it parsable, and its contents
  mem,      \* the gateway's _store, None before the first load
  synced,   \* _store_mtime_ns is the file's mtime
  pc,       \* where the gateway's scheduler stands
  due,      \* jobs of this tick still to execute; the first one is in on_job
  shared,   \* the job objects of `due` are those of mem (no reload since)
  delay,    \* what remains of the timer's sleep
  cli,      \* the store a ppx cron command is about to write, or None
  used,     \* history: jobs ever added
  ran,      \* history: how often a job was started, up to 2
  ended,    \* history: jobs with a run whose end the gateway has handled
  dropped,  \* history: jobs somebody asked to remove or, one-shots, to run by
            \* hand, and one-shots the gateway ran
  broke,    \* history: the file has been broken by hand
  torn      \* history: a tick lost the unsaved end of one job to a reload that
            \* a write during a later job of the same tick caused

service == <<mem, synced, pc, due, shared, delay>>
history == <<used, ran, ended, dropped, broke, torn>>
vars == <<disk, service, cli, history>>

\* pc: "off" no process; "sleep" in the timer's sleep; "job" awaiting on_job;
\* "save", "stat", "arm" the stretches of the code after a tick, and "boot" the
\* first save of start(); "dead" running with no timer left.
Points == {"off", "sleep", "job", "save", "stat", "arm", "boot", "dead"}

\* The points at which the event loop of the gateway runs other tasks.
Awaits == {"sleep", "job", "dead"}

JobState == [enabled : BOOLEAN, next : Nat \cup {None}, at : Nat]
Store == [jobs : [Jobs -> JobState \cup {None}], hist : SUBSET Jobs]

ASSUME NoneAssumption == None \notin JobState /\ None \notin Store

EmptyStore == [jobs |-> [j \in Jobs |-> None], hist |-> {}]

Has(store, j) == store.jobs[j] # None

IsDue(store, j) ==
  Has(store, j) /\ store.jobs[j].enabled /\ store.jobs[j].next = 0

-----------------------------------------------------------------------------
(* Operations of the service on a store *)

\* _compute_next_run.
ComputeNext(j, at) ==
  IF Kind[j] \in {"every", "cron"} THEN Period
  ELSE IF at > 0 THEN at ELSE None

\* _recompute_next_runs, for one job.
Recomputed(j, job) ==
  IF ~job.enabled THEN [job EXCEPT !.next = None]
  ELSE IF Kind[j] = "every" /\ job.next # None /\ job.next # 0 THEN job
  ELSE [job EXCEPT !.next = ComputeNext(j, job.at)]

RecomputeNextRuns(store) ==
  [store EXCEPT !.jobs = [j \in Jobs |->
     IF Has(store, j) THEN Recomputed(j, store.jobs[j]) ELSE None]]

AddJob(store, j, at) ==
  [store EXCEPT !.jobs[j] =
     [enabled |-> TRUE, next |-> ComputeNext(j, at), at |-> at]]

RemoveJob(store, j) == [store EXCEPT !.jobs[j] = None]

EnableJob(store, j, enabled) ==
  [store EXCEPT !.jobs[j].enabled = enabled,
                !.jobs[j].next =
                   IF enabled THEN ComputeNext(j, store.jobs[j].at) ELSE None]

\* The end of _execute_job: what becomes of the job's entry.
Settled(store, j) ==
  IF Kind[j] = "at" THEN RemoveJob(store, j)
  ELSE IF Kind[j] = "once" THEN EnableJob(store, j, FALSE)
  ELSE IF store.jobs[j].enabled
  THEN [store EXCEPT !.jobs[j].next = ComputeNext(j, 0)]
  ELSE store

\* run_job_with_result in a process without on_job: the job is not executed, but
\* settled as if it had been ("skipped" in the history).
RunJobNoCallback(store, j) == Settled(store, j)

\* What a fresh instance reads: an unparsable file is an empty store.
FreshLoad_Nothing == EmptyStore
FreshLoad == IF disk.ok THEN disk.store ELSE EmptyStore

\* What one operation of a fresh instance makes of the store it loaded.
OpResult(op, store, j, at) ==
  CASE op = "add"     -> AddJob(store, j, at)
    [] op = "remove"  -> RemoveJob(store, j)
    [] op = "enable"  -> EnableJob(store, j, TRUE)
    [] op = "disable" -> EnableJob(store, j, FALSE)
    [] op = "run"     -> RunJobNoCallback(store, j)

\* An operation on a job that is not there changes and saves nothing.
OpApplies(op, store, j) ==
  IF op = "add" THEN j \notin used ELSE Has(store, j)

OpHistory(op, j) ==
  /\ used' = IF op = "add" THEN used \cup {j} ELSE used
  /\ dropped' = IF op = "remove" \/ (op = "run" /\ Kind[j] = "at")
                THEN dropped \cup {j} ELSE dropped
  /\ UNCHANGED <<ran, ended, broke, torn>>

OnDisk(store) == [ok |-> TRUE, store |-> store]

-----------------------------------------------------------------------------
Init ==
  /\ disk = OnDisk(EmptyStore)
  /\ mem = None /\ synced = FALSE
  /\ pc = "off" /\ due = <<>> /\ shared = FALSE /\ delay = 0
  /\ cli = None
  /\ used = {} /\ ran = [j \in Jobs |-> 0] /\ ended = {} /\ dropped = {}
  /\ broke = FALSE /\ torn = FALSE

\* While a command is between its load and its save, the gateway waits, unless
\* the two may overlap.
GatewayMayStep == CliOverlaps \/ cli = None

\* _load_store of the gateway's instance: the cached store if the mtime is the
\* one remembered; the last good one if the file does not parse; else the file.
LoadedStore ==
  IF mem # None /\ (synced \/ ~disk.ok) THEN mem ELSE FreshLoad

Reloads == mem = None \/ (~synced /\ disk.ok)

\* Some job of this tick has ended, the file does not say so yet, and the cached
\* store that does is about to be replaced.
LosesAnEnd == Reloads /\ ended \ disk.store.hist # {}

\* The mtime is remembered only when the file was parsed.
SyncedByLoad == synced \/ disk.ok

\* start(): load, recompute; the save, the heartbeat file and the timer follow.
Start ==
  /\ pc = "off" /\ GatewayMayStep
  /\ mem' = RecomputeNextRuns(FreshLoad)
  /\ synced' = disk.ok
  /\ pc' = "boot"
  /\ UNCHANGED <<disk, due, shared, delay, cli, history>>

\* The due jobs in the order of the file, which may be any order of their ids.
DueOrders(store) ==
  LET D == {j \in Jobs : IsDue(store, j)}
  IN  {s \in [1 .. Cardinality(D) -> D] : \A j \in D : \E i \in DOMAIN s : s[i] = j}

\* on_job is entered for the first job of `jobs`; with none left, save.
Proceed(jobs) ==
  /\ due' = jobs
  /\ IF jobs = <<>> THEN pc' = "save" /\ ran' = ran
     ELSE /\ pc' = "job"
          /\ ran' = [ran EXCEPT ![Head(jobs)] = IF @ < 2 THEN @ + 1 ELSE 2]

\* The timer fires: tick_once up to its first await.
TimerFires ==
  /\ pc = "sleep" /\ delay = 0 /\ GatewayMayStep
  /\ mem' = LoadedStore
  /\ synced' = SyncedByLoad
  /\ shared' = TRUE
  /\ \E jobs \in DueOrders(LoadedStore) : Proceed(jobs)
  /\ UNCHANGED <<disk, delay, cli, used, ended, dropped, broke, torn>>

\* on_job returns or raises: the rest of _execute_job, and the tick goes on.  If
\* the store is reread the job in hand is no longer the store's object, so what
\* is assigned to it is lost; deleting by id and the history entry are not.
JobEnds_DeletesObject ==
  /\ pc = "job" /\ GatewayMayStep
  /\ LET j == Head(due)
         store == LoadedStore
         same == shared /\ ~Reloads
     IN  /\ mem' = [IF same THEN Settled(store, j) ELSE store EXCEPT
                      !.hist = @ \cup {j}]
         /\ shared' = same
         /\ ended' = ended \cup {j}
         /\ torn' = (torn \/ LosesAnEnd)
         /\ dropped' = IF Kind[j] = "at" THEN dropped \cup {j} ELSE dropped
  /\ synced' = SyncedByLoad
  /\ Proceed(Tail(due))
  /\ UNCHANGED <<disk, delay, cli, used, broke>>
JobEnds_RecordsBeforeLoad ==
  /\ pc = "job" /\ GatewayMayStep
  /\ LET j == Head(due)
         store == LoadedStore
         same == shared /\ ~Reloads
         settled == IF same \/ (Kind[j] = "at" /\ Has(store, j))
                    THEN Settled(store, j) ELSE store
     IN  /\ mem' = IF Reloads THEN settled
                   ELSE [settled EXCEPT !.hist = @ \cup {j}]
         /\ shared' = same
         /\ ended' = ended \cup {j}
         /\ torn' = (torn \/ LosesAnEnd)
         /\ dropped' = IF Kind[j] = "at" THEN dropped \cup {j} ELSE dropped
  /\ synced' = SyncedByLoad
  /\ Proceed(Tail(due))
  /\ UNCHANGED <<disk, delay, cli, used, broke>>
JobEnds ==
  /\ pc = "job" /\ GatewayMayStep
  /\ LET j == Head(due)
         store == LoadedStore
         same == shared /\ ~Reloads
         settled == IF same \/ (Kind[j] = "at" /\ Has(store, j))
                    THEN Settled(store, j) ELSE store
     IN  /\ mem' = [settled EXCEPT !.hist = @ \cup {j}]
         /\ shared' = same
         /\ ended' = ended \cup {j}
         /\ torn' = (torn \/ LosesAnEnd)
         /\ dropped' = IF Kind[j] = "at" THEN dropped \cup {j} ELSE dropped
  /\ synced' = SyncedByLoad
  /\ Proceed(Tail(due))
  /\ UNCHANGED <<disk, delay, cli, used, broke>>

\* _save_store: os.replace, then the file's mtime is read back.
SaveReplaces ==
  /\ pc \in {"save", "boot"} /\ GatewayMayStep
  /\ disk' = OnDisk(mem)
  /\ synced' = FALSE
  /\ pc' = "stat"
  /\ UNCHANGED <<mem, due, shared, delay, cli, history>>

SaveStats ==
  /\ pc = "stat" /\ GatewayMayStep
  /\ synced' = TRUE
  /\ pc' = "arm"
  /\ UNCHANGED <<disk, mem, due, shared, delay, cli, history>>

\* Writing fails: the exception leaves tick_once before _arm_timer, and the timer
\* task dies; out of start() it ends the process.
SaveFails ==
  /\ MayFail /\ pc \in {"save", "boot"} /\ GatewayMayStep
  /\ IF pc = "save" THEN pc' = "dead" /\ mem' = mem /\ ended' = ended
     ELSE pc' = "off" /\ mem' = None /\ ended' = ended \cap disk.store.hist
  /\ synced' = (synced /\ pc = "save")
  /\ shared' = FALSE
  /\ UNCHANGED <<disk, due, delay, cli, used, ran, dropped, broke, torn>>

\* The earliest of the next runs, capped by the poll interval.
TimerDelay(store) ==
  LET waits == {store.jobs[j].next : j \in
                 {i \in Jobs : Has(store, i) /\ store.jobs[i].enabled
                               /\ store.jobs[i].next # None}} \cup {Poll}
  IN  CHOOSE d \in waits : \A e \in waits : d <= e

ArmTimer_OnlyForPending ==
  /\ pc = "arm" /\ GatewayMayStep
  /\ mem' = LoadedStore
  /\ synced' = SyncedByLoad
  /\ shared' = FALSE
  /\ delay' = IF \E j \in Jobs :
                    Has(LoadedStore, j) /\ LoadedStore.jobs[j].next # None
              THEN TimerDelay(LoadedStore) ELSE None
  /\ pc' = "sleep"
  /\ UNCHANGED <<disk, due, cli, history>>
ArmTimer ==
  /\ pc = "arm" /\ GatewayMayStep
  /\ mem' = LoadedStore
  /\ synced' = SyncedByLoad
  /\ shared' = FALSE
  /\ delay' = TimerDelay(LoadedStore)
  /\ pc' = "sleep"
  /\ UNCHANGED <<disk, due, cli, history>>

\* stop() cancels the timer task wherever it waits, on_job included, and the
\* process ends; a crash may do so anywhere.
Halt ==
  /\ pc # "off"
  /\ pc' = "off" /\ mem' = None /\ synced' = FALSE
  /\ due' = <<>> /\ shared' = FALSE /\ delay' = 0
  /\ ended' = ended \cap disk.store.hist
  /\ UNCHANGED <<disk, cli, used, ran, dropped, broke, torn>>

-----------------------------------------------------------------------------
(* The other instances *)

\* Only one-shots carry an instant of their own.
Ats(op, j) == IF op = "add" /\ Kind[j] \in {"at", "once"} THEN 0 .. MaxAt ELSE {0}

\* The cron tool, called by an agent turn: one stretch of code of the gateway's
\* own process, so it fits whole between two steps of the scheduler.
ToolOp ==
  /\ pc \in Awaits /\ GatewayMayStep
  /\ \E op \in ToolOps, j \in Jobs :
       /\ OpApplies(op, FreshLoad, j)
       /\ \E at \in Ats(op, j) : disk' = OnDisk(OpResult(op, FreshLoad, j, at))
       /\ OpHistory(op, j)
  /\ synced' = FALSE
  /\ UNCHANGED <<mem, pc, due, shared, delay, cli>>

\* The ppx cron command: the load and the change, then the save.
CliLoads ==
  /\ cli = None
  /\ CliOverlaps \/ pc \in Awaits \cup {"off"}
  /\ \E op \in CliOps, j \in Jobs :
       /\ OpApplies(op, FreshLoad, j)
       /\ \E at \in Ats(op, j) : cli' = OpResult(op, FreshLoad, j, at)
       /\ OpHistory(op, j)
  /\ UNCHANGED <<disk, service>>

CliSaves ==
  /\ cli # None
  /\ disk' = OnDisk(cli)
  /\ synced' = FALSE
  /\ cli' = None
  /\ UNCHANGED <<mem, pc, due, shared, delay, history>>

\* Somebody edits the file by hand and leaves it unparsable.
HandEdit ==
  /\ MayBreak /\ disk.ok /\ cli = None /\ pc \in Awaits \cup {"off"}
  /\ disk' = [disk EXCEPT !.ok = FALSE]
  /\ synced' = FALSE
  /\ broke' = TRUE
  /\ UNCHANGED <<mem, pc, due, shared, delay, cli, used, ran, ended, dropped,
                 torn>>

-----------------------------------------------------------------------------
Sooner(x) == IF x = None \/ x = 0 THEN x ELSE x - 1

Later(store) ==
  IF store = None THEN None
  ELSE [store EXCEPT !.jobs = [j \in Jobs |->
          IF Has(store, j)
          THEN [store.jobs[j] EXCEPT !.next = Sooner(@), !.at = Sooner(@)]
          ELSE None]]

\* One unit of time passes; a stretch of code without an await takes none.
Tick ==
  /\ pc \in Awaits \cup {"off"}
  /\ disk' = [disk EXCEPT !.store = Later(@)]
  /\ mem' = Later(mem)
  /\ cli' = Later(cli)
  /\ delay' = Sooner(delay)
  /\ UNCHANGED <<synced, pc, due, shared, history>>

GatewayStep ==
  TimerFires \/ JobEnds \/ SaveReplaces \/ SaveStats \/ SaveFails \/ ArmTimer

Next ==
  \/ Start \/ GatewayStep \/ Halt
  \/ ToolOp \/ CliLoads \/ CliSaves \/ HandEdit
  \/ Tick

Spec == Init /\ [][Next]_vars

\* Time passes, a command finishes, the event loop runs its ready timer, and the
\* agent turn of a job ends.  Strong fairness of the gateway, because one that waits
\* for a command is this model's way to say that they do not overlap: the real one
\* does not wait, and no series of commands can hold it up.  Strong fairness of
\* Tick, because agent turns take time even if the scheduler never rests.
Fairness ==
  /\ SF_vars(Tick)
  /\ WF_vars(CliSaves)
  /\ SF_vars(GatewayStep)

FairSpec == Spec /\ Fairness

-----------------------------------------------------------------------------
(* Properties *)

\* The variables have the types the code gives them.
TypeOK ==
  /\ disk \in [ok : BOOLEAN, store : Store]
  /\ mem \in Store \cup {None}
  /\ synced \in BOOLEAN /\ shared \in BOOLEAN /\ broke \in BOOLEAN
  /\ pc \in Points
  /\ due \in Seq(Jobs)
  /\ delay \in Nat
  /\ cli \in Store \cup {None}
  /\ used \subseteq Jobs /\ ended \subseteq Jobs /\ dropped \subseteq Jobs
  /\ ran \in [Jobs -> 0 .. 2]

\* While the scheduler sleeps, a cached store that passes for current is the
\* file's: a change by the tool, a command or a hand edit is never pinned out.
Coherent == pc = "sleep" /\ synced => disk = OnDisk(mem)

\* A job that was removed, or deleted after its run, never comes back: no instance
\* writes it out again from a store it loaded before.
NoResurrection ==
  [][\A j \in dropped :
       disk.ok /\ ~Has(disk.store, j) => ~Has(disk'.store, j)]_vars

\* A job leaves the file only when somebody asked for its removal or when it is
\* a one-shot that was run, by the gateway or by hand.
NoLostJob ==
  [][\A j \in Jobs :
       ~broke /\ Has(disk.store, j) /\ ~Has(disk'.store, j) => j \in dropped']_vars

\* A one-shot that is deleted after its run is started at most once.
OneShotRunsOnce == \A j \in Jobs : Kind[j] = "at" => ran[j] <= 1

\* So it is over reloads, failed saves, broken files, cancelled runs, commands and
\* restarts; the one thing that makes it run twice is a write to the file during
\* a later job of the tick that ran it (line 629 drops the unsaved deletion).
AtMostOnce == torn \/ OneShotRunsOnce

\* When the tick is over the file records every run it made, also of a job that
\* was removed while it ran, with the same one exception.
RunsRecorded ==
  pc = "sleep" /\ ~broke /\ ~torn => ended \subseteq disk.store.hist

\* What the scheduler, the tool and the commands write through three instances of the
\* store agrees: none keeps an old cache for the file, loses another's job or brings
\* back one that is gone.
FileAndCacheAgree == [](TypeOK /\ Coherent) /\ NoResurrection /\ NoLostJob

\* A one-shot the file holds with a next run is executed, if the gateway goes on
\* and nobody disables, re-enables or removes it: the poll finds what other
\* processes wrote.  (Enabling a one-shot that is already due unschedules it.)
ArmedOneShot(j) ==
  /\ Kind[j] = "at" /\ pc = "sleep" /\ disk.ok
  /\ Has(disk.store, j) /\ disk.store.jobs[j].enabled
  /\ disk.store.jobs[j].next # None

OneShotOver(j) ==
  \/ ran[j] > 0 \/ pc \in {"off", "dead"} \/ broke
  \/ ~Has(disk.store, j) \/ disk.store.jobs[j].next = None

OneShotServed == \A j \in Jobs : ArmedOneShot(j) ~> OneShotOver(j)
==============================================================================
