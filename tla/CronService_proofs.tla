------------------------ MODULE CronService_proofs ---------------------------
(***************************************************************************)
(* What holds of CronService for every set of jobs, schedules, periods and *)
(* operations: the types in general, the rest when the load and the save   *)
(* of a ppx cron command fall between two steps of the gateway.            *)
(***************************************************************************)
EXTENDS CronService, FiniteSetTheorems, SequenceTheorems,
        WellFoundedInduction, TLAPS

-----------------------------------------------------------------------------
(* Operations on a store *)

\* The store a fresh instance makes of an unparsable file is a store.
LEMMA EmptyStoreType == EmptyStore \in Store
BY DEF EmptyStore, Store

\* _compute_next_run: a one-shot whose instant has come gets no next run.
LEMMA ComputeNextType ==
  ASSUME NEW j \in Jobs, NEW at \in Nat
  PROVE  /\ ComputeNext(j, at) \in Nat \cup {None}
         /\ Kind[j] = "at" => ComputeNext(j, at) = IF at = 0 THEN None ELSE at
BY CronAssumption DEF ComputeNext

\* Removing a job touches neither the other jobs nor the history.
LEMMA RemoveJobFacts ==
  ASSUME NEW S \in Store, NEW j \in Jobs
  PROVE  /\ RemoveJob(S, j) \in Store
         /\ RemoveJob(S, j).hist = S.hist
         /\ RemoveJob(S, j).jobs[j] = None
         /\ \A k \in Jobs \ {j} : RemoveJob(S, j).jobs[k] = S.jobs[k]
BY DEF RemoveJob, Store

\* Adding a job touches neither the other jobs nor the history.
LEMMA AddJobFacts ==
  ASSUME NEW S \in Store, NEW j \in Jobs, NEW at \in Nat
  PROVE  LET R == AddJob(S, j, at)
         IN  /\ R \in Store
             /\ R.hist = S.hist
             /\ Has(R, j)
             /\ R.jobs[j].at = at
             /\ R.jobs[j].next = ComputeNext(j, at)
             /\ \A k \in Jobs \ {j} : R.jobs[k] = S.jobs[k]
<1> DEFINE e == [enabled |-> TRUE, next |-> ComputeNext(j, at), at |-> at]
           R == AddJob(S, j, at)
<1>1. e \in JobState /\ e.at = at /\ e.next = ComputeNext(j, at)
  BY ComputeNextType DEF JobState
<1>2. R = [S EXCEPT !.jobs = [S.jobs EXCEPT ![j] = e]]
  BY DEF AddJob
<1> HIDE DEF e, R
<1>3. /\ R \in Store /\ R.hist = S.hist /\ R.jobs[j] = e
      /\ \A k \in Jobs \ {j} : R.jobs[k] = S.jobs[k]
  BY <1>1, <1>2 DEF Store
<1> QED
  BY <1>1, <1>3, NoneAssumption DEF Has, R

\* Enabling or disabling a job keeps its instant, the other jobs and the history.
LEMMA EnableJobFacts ==
  ASSUME NEW S \in Store, NEW j \in Jobs, Has(S, j), NEW enabled \in BOOLEAN
  PROVE  LET R == EnableJob(S, j, enabled)
         IN  /\ R \in Store
             /\ R.hist = S.hist
             /\ Has(R, j)
             /\ R.jobs[j].at = S.jobs[j].at
             /\ R.jobs[j].next =
                  IF enabled THEN ComputeNext(j, S.jobs[j].at) ELSE None
             /\ \A k \in Jobs \ {j} : R.jobs[k] = S.jobs[k]
<1> DEFINE n == IF enabled THEN ComputeNext(j, S.jobs[j].at) ELSE None
           e == [[S.jobs[j] EXCEPT !.enabled = enabled] EXCEPT !.next = n]
           R == EnableJob(S, j, enabled)
<1>1. S.jobs[j] \in JobState /\ S.jobs[j].at \in Nat
  BY DEF Has, Store, JobState
<1>2. n \in Nat \cup {None}
  BY <1>1, ComputeNextType
<1>3. R = [S EXCEPT !.jobs = [S.jobs EXCEPT ![j] = e]]
  BY DEF EnableJob, Store
<1> HIDE DEF n
<1>4. e \in JobState /\ e.at = S.jobs[j].at /\ e.next = n
  BY <1>1, <1>2 DEF JobState
<1> HIDE DEF e, R
<1>5. /\ R \in Store /\ R.hist = S.hist /\ R.jobs[j] = e
      /\ \A k \in Jobs \ {j} : R.jobs[k] = S.jobs[k]
  BY <1>3, <1>4 DEF Store
<1> QED
  BY <1>4, <1>5, NoneAssumption DEF Has, R, n

\* What _execute_job leaves of the job it ran: a one-shot to be deleted is gone,
\* any other is still there, and nothing else changes.
LEMMA SettledFacts ==
  ASSUME NEW S \in Store, NEW j \in Jobs, Has(S, j) \/ Kind[j] = "at"
  PROVE  /\ Settled(S, j) \in Store
         /\ Settled(S, j).hist = S.hist
         /\ Has(Settled(S, j), j) <=> Kind[j] # "at"
         /\ \A k \in Jobs \ {j} : Settled(S, j).jobs[k] = S.jobs[k]
<1>1. CASE Kind[j] = "at"
  BY <1>1, RemoveJobFacts DEF Settled, Has
<1>2. CASE Kind[j] = "once"
  <2>1. Has(S, j)
    BY <1>2
  <2> QED
    BY <1>2, <2>1, EnableJobFacts DEF Settled
<1>3. CASE Kind[j] \notin {"at", "once"}
  <2>1. CASE ~S.jobs[j].enabled
    BY <1>3, <2>1 DEF Settled, Has
  <2>2. CASE S.jobs[j].enabled
    <3> DEFINE n == ComputeNext(j, 0)
               e == [S.jobs[j] EXCEPT !.next = n]
               R == Settled(S, j)
    <3>1. n \in Nat \cup {None}
      BY ComputeNextType
    <3>2. R = [S EXCEPT !.jobs = [S.jobs EXCEPT ![j] = e]]
      BY <1>3, <2>2 DEF Settled
    <3>3. S.jobs[j] \in JobState
      BY <1>3 DEF Has, Store
    <3> HIDE DEF n
    <3>4. e \in JobState
      BY <3>1, <3>3 DEF JobState
    <3> HIDE DEF e, R
    <3> QED
      BY <1>3, <3>2, <3>4, NoneAssumption DEF Has, Store, R
  <2> QED
    BY <2>1, <2>2
<1> QED
  BY <1>1, <1>2, <1>3

\* _recompute_next_runs keeps a job's instant, and unschedules a one-shot whose
\* instant has passed.
LEMMA RecomputedFacts ==
  ASSUME NEW j \in Jobs, NEW e \in JobState
  PROVE  /\ Recomputed(j, e) \in JobState
         /\ Recomputed(j, e).at = e.at
         /\ Kind[j] = "at" => /\ Recomputed(j, e).next \in {None, e.at}
                              /\ e.at = 0 => Recomputed(j, e).next = None
<1>1. e.at \in Nat /\ ComputeNext(j, e.at) \in Nat \cup {None}
  BY ComputeNextType DEF JobState
<1>2. [e EXCEPT !.next = None] \in JobState
  BY DEF JobState
<1>3. [e EXCEPT !.next = ComputeNext(j, e.at)] \in JobState
  BY <1>1 DEF JobState
<1>4. /\ [e EXCEPT !.next = None].at = e.at
      /\ [e EXCEPT !.next = None].next = None
      /\ [e EXCEPT !.next = ComputeNext(j, e.at)].at = e.at
      /\ [e EXCEPT !.next = ComputeNext(j, e.at)].next = ComputeNext(j, e.at)
  BY DEF JobState
<1>5. Recomputed(j, e) \in {e, [e EXCEPT !.next = None],
                            [e EXCEPT !.next = ComputeNext(j, e.at)]}
  BY DEF Recomputed
<1>6. Kind[j] = "at" => Recomputed(j, e) # e \/ Recomputed(j, e).next = None
                        \/ Recomputed(j, e).next = ComputeNext(j, e.at)
  BY <1>4 DEF Recomputed
<1> QED
  BY <1>1, <1>2, <1>3, <1>4, <1>5, <1>6, ComputeNextType DEF Recomputed

\* _recompute_next_runs over a store keeps its jobs and its history.
LEMMA RecomputeFacts ==
  ASSUME NEW S \in Store
  PROVE  /\ RecomputeNextRuns(S) \in Store
         /\ RecomputeNextRuns(S).hist = S.hist
         /\ \A j \in Jobs :
              /\ Has(RecomputeNextRuns(S), j) <=> Has(S, j)
              /\ Has(S, j) => RecomputeNextRuns(S).jobs[j] = Recomputed(j, S.jobs[j])
<1> DEFINE f == [j \in Jobs |->
                  IF Has(S, j) THEN Recomputed(j, S.jobs[j]) ELSE None]
<1>1. \A j \in Jobs : Has(S, j) => Recomputed(j, S.jobs[j]) \in JobState
  BY RecomputedFacts DEF Has, Store
<1>2. f \in [Jobs -> JobState \cup {None}]
  BY <1>1
<1>3. RecomputeNextRuns(S) = [S EXCEPT !.jobs = f]
  BY DEF RecomputeNextRuns
<1>4. \A j \in Jobs : f[j] # None <=> Has(S, j)
  BY <1>1, NoneAssumption
<1>5. \A j \in Jobs : Has(S, j) => f[j] = Recomputed(j, S.jobs[j])
  OBVIOUS
<1> HIDE DEF f
<1> QED
  BY <1>2, <1>3, <1>4, <1>5 DEF Store, Has

\* What remains until an instant, one unit of time later.
LEMMA SoonerType ==
  ASSUME NEW x \in Nat \cup {None}
  PROVE  /\ Sooner(x) \in Nat \cup {None}
         /\ x \in Nat => Sooner(x) \in Nat
         /\ Sooner(0) = 0 /\ Sooner(None) = None
BY CronAssumption DEF Sooner

\* The passing of time keeps the jobs and the history of a store.
LEMMA LaterFacts ==
  ASSUME NEW S \in Store
  PROVE  /\ Later(S) \in Store /\ Later(S) # None
         /\ Later(S).hist = S.hist
         /\ \A j \in Jobs :
              /\ Has(Later(S), j) <=> Has(S, j)
              /\ Has(S, j) => /\ Later(S).jobs[j].at = Sooner(S.jobs[j].at)
                              /\ Later(S).jobs[j].next = Sooner(S.jobs[j].next)
<1> DEFINE e(j) == [S.jobs[j] EXCEPT !.next = Sooner(@), !.at = Sooner(@)]
           f == [j \in Jobs |-> IF Has(S, j) THEN e(j) ELSE None]
<1>1. ASSUME NEW j \in Jobs, Has(S, j)
      PROVE  /\ e(j) \in JobState
             /\ e(j).at = Sooner(S.jobs[j].at)
             /\ e(j).next = Sooner(S.jobs[j].next)
  <2>1. S.jobs[j] \in JobState
    BY <1>1 DEF Has, Store
  <2>2. S.jobs[j].at \in Nat /\ S.jobs[j].next \in Nat \cup {None}
    BY <2>1 DEF JobState
  <2>3. Sooner(S.jobs[j].at) \in Nat /\ Sooner(S.jobs[j].next) \in Nat \cup {None}
    BY <2>2, SoonerType
  <2> QED
    BY <2>1, <2>3 DEF JobState
<1> HIDE DEF e
<1>2. f \in [Jobs -> JobState \cup {None}]
  BY <1>1
<1>3. Later(S) = [S EXCEPT !.jobs = f]
  BY NoneAssumption DEF Later, e
<1>4. \A j \in Jobs : f[j] # None <=> Has(S, j)
  BY <1>1, NoneAssumption
<1>5. \A j \in Jobs : Has(S, j) => f[j] = e(j)
  OBVIOUS
<1> HIDE DEF f
<1>6. Later(S) \in Store
  BY <1>2, <1>3 DEF Store
<1> QED
  BY <1>1, <1>2, <1>3, <1>4, <1>5, <1>6, NoneAssumption DEF Store, Has

\* What an operation of a fresh instance changes of the store it loaded: only the
\* job named, which is gone after a removal or a one-shot's run by hand, keeps its
\* instant otherwise, and is never armed if that has passed.
LEMMA OpFacts ==
  ASSUME NEW S \in Store, NEW j \in Jobs, NEW at \in Nat, NEW op \in Ops,
         op = "add" \/ Has(S, j)
  PROVE  LET R == OpResult(op, S, j, at)
         IN  /\ R \in Store
             /\ R.hist = S.hist
             /\ \A k \in Jobs \ {j} : R.jobs[k] = S.jobs[k]
             /\ Has(R, j) <=> op # "remove" /\ ~(op = "run" /\ Kind[j] = "at")
             /\ Kind[j] = "at" /\ Has(R, j) =>
                  /\ R.jobs[j].next \in {None, R.jobs[j].at}
                  /\ op # "add" => R.jobs[j].at = S.jobs[j].at
                  /\ R.jobs[j].at = 0 => R.jobs[j].next = None
<1>1. CASE op = "add"
  <2>1. OpResult(op, S, j, at) = AddJob(S, j, at)
    BY <1>1 DEF OpResult
  <2> QED
    BY <1>1, <2>1, AddJobFacts, ComputeNextType
<1>2. CASE op = "remove"
  <2>1. OpResult(op, S, j, at) = RemoveJob(S, j)
    BY <1>2 DEF OpResult
  <2> QED
    BY <1>2, <2>1, RemoveJobFacts DEF Has
<1>3. CASE op = "run"
  <2>1. OpResult(op, S, j, at) = Settled(S, j)
    BY <1>3 DEF OpResult, RunJobNoCallback
  <2> QED
    BY <1>3, <2>1, SettledFacts
<1>4. CASE op \in {"enable", "disable"}
  <2>1. PICK enabled \in BOOLEAN : OpResult(op, S, j, at) = EnableJob(S, j, enabled)
    BY <1>4 DEF OpResult
  <2>2. Has(S, j)
    BY <1>4
  <2>3. S.jobs[j].at \in Nat
    BY <2>2 DEF Has, Store, JobState
  <2> QED
    BY <1>4, <2>1, <2>2, <2>3, EnableJobFacts, ComputeNextType
<1> QED
  BY <1>1, <1>2, <1>3, <1>4 DEF Ops

-----------------------------------------------------------------------------
(* The inductive invariant *)

\* What TypeOK rests on: each due job is executed once, and the cached store
\* still holds the due jobs until it is reread.
DueOK ==
  /\ pc = "job" <=> due # <<>>
  /\ \A a, b \in 1 .. Len(due) : due[a] = due[b] => a = b
  /\ mem = None <=> pc = "off"
  /\ pc = "job" /\ shared => \A a \in 1 .. Len(due) : Has(mem, due[a])

-----------------------------------------------------------------------------
(* Types *)

\* A fresh instance reads the file, or nothing of one that does not parse.
LEMMA FreshLoadFacts ==
  ASSUME TypeOK
  PROVE  /\ FreshLoad \in Store
         /\ disk.ok => FreshLoad = disk.store
         /\ ~disk.ok => FreshLoad.hist = {} /\ \A j \in Jobs : ~Has(FreshLoad, j)
<1>1. disk.ok \in BOOLEAN /\ disk.store \in Store
  BY DEF TypeOK
<1>2. EmptyStore.hist = {} /\ \A j \in Jobs : ~Has(EmptyStore, j)
  BY DEF EmptyStore, Has
<1> QED
  BY <1>1, <1>2, EmptyStoreType DEF FreshLoad

\* _load_store rereads the file when it parses and its mtime is not the one
\* remembered, and keeps the cached store otherwise.
LEMMA LoadedFacts ==
  ASSUME TypeOK, mem # None
  PROVE  /\ LoadedStore \in Store
         /\ Reloads => LoadedStore = disk.store /\ disk.ok /\ ~synced
         /\ ~Reloads => LoadedStore = mem
         /\ Reloads <=> ~synced /\ disk.ok
<1>1. disk.ok \in BOOLEAN /\ disk.store \in Store /\ synced \in BOOLEAN
  BY DEF TypeOK
<1> QED
  BY <1>1, FreshLoadFacts DEF LoadedStore, Reloads, TypeOK

\* The due jobs of a tick, each once.
LEMMA DueOrdersFacts ==
  ASSUME NEW S, NEW s \in DueOrders(S)
  PROVE  /\ s \in Seq(Jobs)
         /\ \A a \in 1 .. Len(s) : IsDue(S, s[a])
         /\ \A a, b \in 1 .. Len(s) : s[a] = s[b] => a = b
<1> DEFINE D == {j \in Jobs : IsDue(S, j)}
           n == Cardinality(D)
<1>1. IsFiniteSet(D)
  BY CronAssumption, FS_Subset
<1>2. n \in Nat
  BY <1>1, FS_CardinalityType
<1>3. s \in [1 .. n -> D] /\ \A j \in D : \E i \in DOMAIN s : s[i] = j
  BY DEF DueOrders
<1>4. s \in Surjection(1 .. n, D)
  BY <1>3 DEF Surjection
<1>5. IsFiniteSet(1 .. n) /\ Cardinality(1 .. n) = n
  BY <1>2, FS_Interval
<1>6. s \in Injection(1 .. n, D)
  BY <1>4, <1>5, FS_SurjSameCardinalityImpliesInj
<1> HIDE DEF n
<1>7. s \in Seq(D) /\ Len(s) = n
  BY <1>2, <1>3
<1>8. \A a, b \in 1 .. n : s[a] = s[b] => a = b
  BY <1>6 DEF Injection, IsInjective
<1> QED
  BY <1>3, <1>7, <1>8, SeqMonotonic

\* Head and Tail of the due jobs, by their indices.
LEMMA TailFacts ==
  ASSUME NEW s \in Seq(Jobs), s # <<>>
  PROVE  /\ Head(s) \in Jobs /\ Head(s) = s[1] /\ 1 \in 1 .. Len(s)
         /\ Tail(s) \in Seq(Jobs) /\ Len(Tail(s)) = Len(s) - 1
         /\ Len(s) \in Nat
         /\ \A a \in 1 .. Len(Tail(s)) : Tail(s)[a] = s[a + 1]
BY HeadTailProperties, EmptySeq

\* The next due job is in hand, and only it is started.
LEMMA ProceedType ==
  ASSUME TypeOK, NEW s \in Seq(Jobs), Proceed(s)
  PROVE  /\ due' = s /\ pc' = IF s = <<>> THEN "save" ELSE "job"
         /\ ran' \in [Jobs -> 0 .. 2]
         /\ \A j \in Jobs : ran'[j] =
              IF s # <<>> /\ j = Head(s) THEN (IF ran[j] < 2 THEN ran[j] + 1 ELSE 2)
              ELSE ran[j]
BY TailFacts DEF Proceed, TypeOK

\* The history of an operation keeps its types, and tells nothing of runs.
LEMMA HistoryType ==
  ASSUME TypeOK, NEW op, NEW j \in Jobs, OpHistory(op, j)
  PROVE  /\ used' \subseteq Jobs /\ dropped' \subseteq Jobs
         /\ ran' = ran /\ ended' = ended /\ broke' = broke /\ torn' = torn
BY DEF OpHistory, TypeOK

\* A nonempty set of natural numbers has a least element.
LEMMA NatMinimum ==
  ASSUME NEW T, T \subseteq Nat, T # {}
  PROVE  \E x \in T : \A y \in T : x <= y
<1> DEFINE R == OpToRel(<, Nat)
<1>1. IsWellFoundedOn(R, Nat)
  BY NatLessThanWellFounded
<1>2. \A x, y \in Nat : y < x => <<y, x>> \in R
  BY DEF OpToRel
<1> HIDE DEF R
<1>3. PICK x \in T : \A y \in T : <<y, x>> \notin R
  BY <1>1, WFMin
<1>4. ASSUME NEW y \in T PROVE x <= y
  <2>1. x \in Nat /\ y \in Nat /\ ~(y < x)
    BY <1>2, <1>3
  <2> QED
    BY <2>1
<1> QED
  BY <1>4

\* The timer's delay is a number: the poll interval at the latest.
LEMMA TimerDelayType ==
  ASSUME NEW S \in Store
  PROVE  TimerDelay(S) \in Nat
<1> DEFINE I == {i \in Jobs : Has(S, i) /\ S.jobs[i].enabled /\ S.jobs[i].next # None}
           W == {S.jobs[j].next : j \in I} \cup {Poll}
<1>1. \A i \in I : S.jobs[i] \in JobState
  BY DEF Store, Has
<1>2. \A i \in I : S.jobs[i].next \in Nat
  BY <1>1 DEF JobState
<1>3. W \subseteq Nat /\ Poll \in W
  BY <1>2, CronAssumption
<1> HIDE DEF W
<1>4. \E d \in W : \A e \in W : d <= e
  BY <1>3, NatMinimum
<1>5. (CHOOSE d \in W : \A e \in W : d <= e) \in W
  BY <1>4
<1> QED
  BY <1>3, <1>5 DEF TimerDelay, W
\* A store with one more entry in its history is a store with the same jobs.
LEMMA HistFacts ==
  ASSUME NEW S \in Store, NEW j \in Jobs
  PROVE  LET R == [S EXCEPT !.hist = @ \cup {j}]
         IN  R \in Store /\ R.hist = S.hist \cup {j} /\ R.jobs = S.jobs
BY DEF Store

\* What a firing timer leaves: the store just loaded, its due jobs each once, and the
\* first of them started.
LEMMA TimerFacts ==
  ASSUME TypeOK, DueOK, TimerFires
  PROVE  /\ mem # None /\ mem' = LoadedStore /\ LoadedStore \in Store
         /\ due' \in Seq(Jobs) /\ Len(due') \in Nat
         /\ \A a \in 1 .. Len(due') : due'[a] \in Jobs /\ IsDue(LoadedStore, due'[a])
         /\ \A a, b \in 1 .. Len(due') : due'[a] = due'[b] => a = b
         /\ due' # <<>> => Head(due') = due'[1] /\ 1 \in 1 .. Len(due')
         /\ pc' = IF due' = <<>> THEN "save" ELSE "job"
         /\ ran' \in [Jobs -> 0 .. 2]
         /\ \A j \in Jobs : ran'[j] =
              IF due' # <<>> /\ j = Head(due')
              THEN (IF ran[j] < 2 THEN ran[j] + 1 ELSE 2) ELSE ran[j]
<1>1. PICK jobs \in DueOrders(LoadedStore) : Proceed(jobs)
  BY DEF TimerFires
<1>2. mem # None /\ mem' = LoadedStore /\ LoadedStore \in Store
  BY LoadedFacts DEF TimerFires, DueOK
<1>3. /\ jobs \in Seq(Jobs) /\ Len(jobs) \in Nat
      /\ \A a \in 1 .. Len(jobs) : IsDue(LoadedStore, jobs[a])
      /\ \A a, b \in 1 .. Len(jobs) : jobs[a] = jobs[b] => a = b
  BY DueOrdersFacts, LenProperties
<1>4. jobs \in Seq(Jobs)
  BY <1>3
<1>5. \A a \in 1 .. Len(jobs) : jobs[a] \in Jobs
  BY <1>4, ElementOfSeq
<1>6. /\ due' = jobs /\ pc' = IF jobs = <<>> THEN "save" ELSE "job"
      /\ ran' \in [Jobs -> 0 .. 2]
      /\ \A j \in Jobs : ran'[j] =
           IF jobs # <<>> /\ j = Head(jobs)
           THEN (IF ran[j] < 2 THEN ran[j] + 1 ELSE 2) ELSE ran[j]
  BY <1>1, <1>4, ProceedType
<1>7. jobs # <<>> => Head(jobs) = jobs[1] /\ 1 \in 1 .. Len(jobs)
  BY <1>4, TailFacts
<1> QED
  BY <1>2, <1>3, <1>5, <1>6, <1>7

\* What the end of a job leaves: the store just loaded with the job settled and the
\* end recorded, the other due jobs, and the next of them started.
LEMMA JobEndsFacts ==
  ASSUME TypeOK, DueOK, JobEnds
  PROVE  LET j == Head(due)
         IN  /\ j \in Jobs /\ j = due[1] /\ due # <<>> /\ mem # None
             /\ mem' \in Store
             /\ mem'.hist = LoadedStore.hist \cup {j}
             /\ \A k \in Jobs \ {j} : mem'.jobs[k] = LoadedStore.jobs[k]
             /\ Has(mem', j) <=> Has(LoadedStore, j) /\ Kind[j] # "at"
             /\ shared' = (shared /\ ~Reloads)
             /\ due \in Seq(Jobs) /\ due' \in Seq(Jobs)
             /\ Len(due) \in Nat \ {0} /\ Len(due') = Len(due) - 1
             /\ \A a \in 1 .. Len(due') : due'[a] = due[a + 1]
             /\ due' # <<>> => Head(due') = due[2] /\ 2 \in 1 .. Len(due)
             /\ pc' = IF due' = <<>> THEN "save" ELSE "job"
             /\ ran' \in [Jobs -> 0 .. 2]
             /\ \A k \in Jobs : ran'[k] =
                  IF due' # <<>> /\ k = Head(due')
                  THEN (IF ran[k] < 2 THEN ran[k] + 1 ELSE 2) ELSE ran[k]
<1> DEFINE j == Head(due)
           store == LoadedStore
           same == shared /\ ~Reloads
           settled == IF same \/ (Kind[j] = "at" /\ Has(store, j))
                      THEN Settled(store, j) ELSE store
<1>1. j \in Jobs /\ j = due[1] /\ due # <<>> /\ mem # None /\ 1 \in 1 .. Len(due)
  BY TailFacts DEF JobEnds, TypeOK, DueOK
<1>2. store \in Store
  BY <1>1, LoadedFacts
<1>3. same => Has(store, j)
  BY <1>1, LoadedFacts DEF DueOK, JobEnds
<1>4. mem' = [settled EXCEPT !.hist = @ \cup {j}] /\ shared' = same
  BY DEF JobEnds
<1> HIDE DEF j, store, same
<1>5. /\ settled \in Store /\ settled.hist = store.hist
      /\ \A k \in Jobs \ {j} : settled.jobs[k] = store.jobs[k]
      /\ Has(settled, j) <=> Has(store, j) /\ Kind[j] # "at"
  <2>1. CASE same \/ (Kind[j] = "at" /\ Has(store, j))
    BY <1>1, <1>2, <1>3, <2>1, SettledFacts
  <2>2. CASE ~(same \/ (Kind[j] = "at" /\ Has(store, j)))
    BY <1>2, <2>2
  <2> QED
    BY <2>1, <2>2
<1> HIDE DEF settled
<1>6. mem' \in Store /\ mem'.hist = store.hist \cup {j} /\ mem'.jobs = settled.jobs
  BY <1>1, <1>4, <1>5, HistFacts
<1>7. /\ due \in Seq(Jobs) /\ Tail(due) \in Seq(Jobs)
      /\ Len(due) \in Nat \ {0} /\ Len(Tail(due)) = Len(due) - 1
      /\ \A a \in 1 .. Len(Tail(due)) : Tail(due)[a] = due[a + 1]
  BY <1>1, TailFacts, EmptySeq DEF TypeOK
<1>8. /\ due' = Tail(due) /\ pc' = IF Tail(due) = <<>> THEN "save" ELSE "job"
      /\ ran' \in [Jobs -> 0 .. 2]
      /\ \A k \in Jobs : ran'[k] =
           IF due' # <<>> /\ k = Head(due')
           THEN (IF ran[k] < 2 THEN ran[k] + 1 ELSE 2) ELSE ran[k]
  BY <1>7, ProceedType DEF JobEnds
<1>9. due' # <<>> => Head(due') = due'[1] /\ 1 \in 1 .. Len(due')
  BY <1>7, <1>8, TailFacts
<1>10. due' # <<>> => Head(due') = due[2] /\ 2 \in 1 .. Len(due)
  BY <1>7, <1>8, <1>9
<1>11. /\ mem'.hist = store.hist \cup {j}
       /\ \A k \in Jobs \ {j} : mem'.jobs[k] = store.jobs[k]
       /\ Has(mem', j) <=> Has(store, j) /\ Kind[j] # "at"
  BY <1>5, <1>6 DEF Has
<1> QED
  BY <1>1, <1>4, <1>6, <1>7, <1>8, <1>10, <1>11 DEF j, store, same

\* An operation of the cron tool is one of a fresh instance, saved at once.
LEMMA ToolOpFacts ==
  ASSUME TypeOK, ToolOp
  PROVE  \E op \in {"add", "remove"}, j \in Jobs, at \in Nat :
           /\ OpApplies(op, FreshLoad, j)
           /\ op = "add" \/ Has(FreshLoad, j)
           /\ disk' = OnDisk(OpResult(op, FreshLoad, j, at))
           /\ OpHistory(op, j)
BY CronAssumption DEF ToolOp, Ats, OpApplies

\* An operation of the ppx cron command is one of a fresh instance, not saved yet.
LEMMA CliLoadsFacts ==
  ASSUME TypeOK, CliLoads
  PROVE  \E op \in Ops, j \in Jobs, at \in Nat :
           /\ OpApplies(op, FreshLoad, j)
           /\ op = "add" \/ Has(FreshLoad, j)
           /\ cli' = OpResult(op, FreshLoad, j, at)
           /\ OpHistory(op, j)
BY CronAssumption DEF CliLoads, Ats, OpApplies

\* A file that was just written parses.
LEMMA OnDiskType ==
  ASSUME NEW S \in Store
  PROVE  OnDisk(S) \in [ok : BOOLEAN, store : Store]
BY DEF OnDisk

\* The initial state has its types.
LEMMA InitTypes == Init => TypeOK /\ DueOK
<1> SUFFICES ASSUME Init PROVE TypeOK /\ DueOK
  OBVIOUS
<1>1. TypeOK
  <2>1. <<>> \in Seq(Jobs)
    BY EmptySeq
  <2>2. disk \in [ok : BOOLEAN, store : Store]
    BY EmptyStoreType, OnDiskType DEF Init
  <2>3. ran \in [Jobs -> 0 .. 2]
    BY DEF Init
  <2>4. delay \in Nat /\ pc \in Points /\ mem = None /\ cli = None
    BY DEF Init, Points
  <2>5. synced \in BOOLEAN /\ shared \in BOOLEAN /\ broke \in BOOLEAN
    BY DEF Init
  <2>6. used \subseteq Jobs /\ ended \subseteq Jobs /\ dropped \subseteq Jobs
    BY DEF Init
  <2> QED
    BY <2>1, <2>2, <2>3, <2>4, <2>5, <2>6 DEF Init, TypeOK
<1>2. DueOK
  BY DEF Init, DueOK
<1> QED
  BY <1>1, <1>2

\* Every step keeps the types, and the facts about the due jobs they rest on.
LEMMA NextTypes == TypeOK /\ DueOK /\ [Next]_vars => TypeOK' /\ DueOK'
<1> SUFFICES ASSUME TypeOK, DueOK, [Next]_vars PROVE TypeOK' /\ DueOK'
  OBVIOUS
<1> USE CronAssumption
<1>1. CASE Start
  <2>1. mem' \in Store /\ mem' # None
    BY <1>1, FreshLoadFacts, RecomputeFacts, NoneAssumption DEF Start
  <2> QED
    BY <1>1, <2>1 DEF Start, history, TypeOK, DueOK, Points
<1>2. CASE TimerFires
  <2>1. synced' \in BOOLEAN
    BY <1>2 DEF TimerFires, SyncedByLoad, TypeOK
  <2>2. TypeOK'
    BY <1>2, <2>1, TimerFacts DEF TimerFires, TypeOK, Points
  <2>3. DueOK'
    BY <1>2, TimerFacts, NoneAssumption DEF DueOK, IsDue
  <2> QED
    BY <2>2, <2>3
<1>3. CASE JobEnds
  <2> DEFINE j == Head(due)
  <2>1. /\ j \in Jobs /\ j = due[1] /\ mem # None /\ shared' = (shared /\ ~Reloads)
        /\ due \in Seq(Jobs) /\ Len(due) \in Nat \ {0} /\ Len(due') = Len(due) - 1
        /\ \A a \in 1 .. Len(due') : due'[a] = due[a + 1]
        /\ \A k \in Jobs \ {j} : mem'.jobs[k] = LoadedStore.jobs[k]
    BY <1>3, JobEndsFacts
  <2>2. synced' \in BOOLEAN /\ ended' \subseteq Jobs /\ dropped' \subseteq Jobs
    BY <1>3, <2>1 DEF JobEnds, SyncedByLoad, TypeOK
  <2>3. TypeOK'
    BY <1>3, <2>2, JobEndsFacts DEF JobEnds, TypeOK, Points
  <2>4. \A a, b \in 1 .. Len(due') : due'[a] = due'[b] => a = b
    BY <2>1 DEF DueOK
  <2>5. ASSUME shared', NEW a \in 1 .. Len(due')
        PROVE  Has(mem', due'[a])
    <3>1. a + 1 \in 1 .. Len(due) /\ 1 \in 1 .. Len(due) /\ a + 1 # 1
      BY <2>1
    <3>2. due[a + 1] # j /\ due[a + 1] \in Jobs
      BY <2>1, <3>1, ElementOfSeq DEF DueOK
    <3>3. Has(LoadedStore, due[a + 1])
      BY <1>3, <2>1, <2>5, <3>1, LoadedFacts DEF DueOK, JobEnds
    <3> QED
      BY <2>1, <3>2, <3>3 DEF Has
  <2>6. DueOK'
    BY <1>3, <2>4, <2>5, JobEndsFacts, NoneAssumption DEF DueOK
  <2> QED
    BY <2>3, <2>6
<1>4. CASE SaveReplaces
  <2>1. mem \in Store
    BY <1>4 DEF SaveReplaces, TypeOK, DueOK
  <2>2. disk' \in [ok : BOOLEAN, store : Store]
    BY <1>4, <2>1, OnDiskType DEF SaveReplaces
  <2> QED
    BY <1>4, <2>2, ZenonT(60) DEF SaveReplaces, history, TypeOK, DueOK, Points
<1>5. CASE SaveStats
  BY <1>5 DEF SaveStats, history, TypeOK, DueOK, Points
<1>6. CASE SaveFails
  BY <1>6, ZenonT(60) DEF SaveFails, TypeOK, DueOK, Points
<1>7. CASE ArmTimer
  <2>1. LoadedStore \in Store
    BY <1>7, LoadedFacts DEF ArmTimer, DueOK
  <2>2. delay' \in Nat
    BY <1>7, <2>1, TimerDelayType DEF ArmTimer
  <2> QED
    BY <1>7, <2>1, <2>2, NoneAssumption, ZenonT(60)
       DEF ArmTimer, history, SyncedByLoad, TypeOK, DueOK, Points
<1>8. CASE Halt
  <2>1. <<>> \in Seq(Jobs)
    BY EmptySeq
  <2>2. TypeOK'
    BY <1>8, <2>1 DEF Halt, TypeOK, Points
  <2>3. DueOK'
    BY <1>8 DEF Halt, DueOK
  <2> QED
    BY <2>2, <2>3
<1>9. CASE ToolOp
  <2>1. PICK op \in {"add", "remove"}, j \in Jobs, at \in Nat :
          /\ op = "add" \/ Has(FreshLoad, j)
          /\ disk' = OnDisk(OpResult(op, FreshLoad, j, at))
          /\ OpHistory(op, j)
    BY <1>9, ToolOpFacts
  <2>2. OpResult(op, FreshLoad, j, at) \in Store /\ op \in Ops
    BY <2>1, FreshLoadFacts, OpFacts DEF Ops
  <2>3. disk' \in [ok : BOOLEAN, store : Store]
    BY <2>1, <2>2, OnDiskType
  <2> QED
    BY <1>9, <2>1, <2>3, HistoryType DEF ToolOp, TypeOK, DueOK
<1>10. CASE CliLoads
  <2>1. PICK op \in Ops, j \in Jobs, at \in Nat :
          /\ op = "add" \/ Has(FreshLoad, j)
          /\ cli' = OpResult(op, FreshLoad, j, at)
          /\ OpHistory(op, j)
    BY <1>10, CliLoadsFacts
  <2>2. cli' \in Store
    BY <2>1, FreshLoadFacts, OpFacts
  <2> QED
    BY <1>10, <2>1, <2>2, HistoryType DEF CliLoads, service, TypeOK, DueOK
<1>11. CASE CliSaves
  <2>1. cli \in Store
    BY <1>11 DEF CliSaves, TypeOK
  <2> QED
    BY <1>11, <2>1, OnDiskType DEF CliSaves, history, TypeOK, DueOK
<1>12. CASE HandEdit
  BY <1>12 DEF HandEdit, TypeOK, DueOK
<1>13. CASE Tick
  <2>1. disk' \in [ok : BOOLEAN, store : Store]
    BY <1>13, LaterFacts DEF Tick, TypeOK
  <2>2. /\ mem' \in Store \cup {None}
        /\ mem' = None <=> mem = None
        /\ cli' \in Store \cup {None}
        /\ mem # None => \A j \in Jobs : Has(mem', j) <=> Has(mem, j)
    <3>1. mem # None => mem \in Store
      BY DEF TypeOK
    <3>2. cli # None => cli \in Store
      BY DEF TypeOK
    <3>3. Later(None) = None
      BY DEF Later
    <3> QED
      BY <1>13, <3>1, <3>2, <3>3, LaterFacts DEF Tick
  <2>3. delay' \in Nat
    BY <1>13, SoonerType DEF Tick, TypeOK
  <2>4. TypeOK'
    <3>1. UNCHANGED <<synced, pc, due, shared, used, ran, ended, dropped, broke>>
      BY <1>13 DEF Tick, history
    <3> QED
      BY <2>1, <2>2, <2>3, <3>1 DEF TypeOK
  <2>5. DueOK'
    <3>1. \A a \in 1 .. Len(due) : due[a] \in Jobs
      BY ElementOfSeq DEF TypeOK
    <3> QED
      BY <1>13, <2>2, <3>1 DEF Tick, DueOK
  <2> QED
    BY <2>4, <2>5
<1>14. CASE UNCHANGED vars
  BY <1>14 DEF vars, service, history, TypeOK, DueOK
<1> QED
  BY <1>1, <1>2, <1>3, <1>4, <1>5, <1>6, <1>7, <1>8, <1>9, <1>10, <1>11, <1>12,
     <1>13, <1>14 DEF Next, GatewayStep

\* The variables keep their types for every set of jobs and every period, also if
\* commands overlap the gateway's saves, saves fail and the file breaks.
THEOREM TypesHold == Spec => []TypeOK
<1>1. Spec => [](TypeOK /\ DueOK)
  BY InitTypes, NextTypes, PTL DEF Spec
<1> QED
  BY <1>1, PTL
-----------------------------------------------------------------------------
\* The stores somebody may still read: the file if it parses, the gateway's
\* cached one, the one a command is about to write.
InHand ==
  (IF disk.ok THEN {disk.store} ELSE {}) \cup ({mem, cli} \ {None})

\* Every trace of a job is of one that was added.
Known ==
  /\ ended \cup dropped \subseteq used
  /\ \A j \in Jobs : ran[j] > 0 => j \in used
  /\ \A a \in 1 .. Len(due) : due[a] \in used
  /\ \A store \in InHand :
       \A j \in Jobs : Has(store, j) \/ j \in store.hist => j \in used

\* A one-shot j that is due, or was started, is past its instant.
Past(j) == ran[j] > 0 \/ \E a \in 1 .. Len(due) : due[a] = j

OneShot(store, j) ==
  /\ j \in store.hist => ~Has(store, j)
  /\ Has(store, j) => /\ store.jobs[j].next \in {None, store.jobs[j].at}
                      /\ Past(j) => store.jobs[j].at = 0

OneShots ==
  \A store \in InHand :
    \A j \in Jobs : Kind[j] = "at" => OneShot(store, j)

Unarmed(store, j) == Has(store, j) => store.jobs[j].next = None

\* No store from which a tick may be made arms a one-shot that was started.
Retired(j) ==
  LET running == pc = "job" /\ Head(due) = j
      spent(store) == Unarmed(store, j) \/ j \in ended \ store.hist
  IN  /\ ran[j] <= 1
      /\ pc # "off" /\ ~running => Unarmed(mem, j)
      /\ pc = "job" => \A a \in 2 .. Len(due) : due[a] # j
      /\ pc = "sleep" /\ disk.ok => Unarmed(disk.store, j)
      /\ pc = "sleep" /\ cli # None => Unarmed(cli, j)
      /\ pc = "job" /\ ~running /\ disk.ok => spent(disk.store)
      /\ pc = "job" /\ ~running /\ cli # None => spent(cli)

AllRetired ==
  torn \/ \A j \in Jobs : Kind[j] = "at" /\ ran[j] > 0 => Retired(j)

\* Where the ends of the runs are recorded.
Recorded ==
  broke \/ torn \/
  /\ pc \in {"off", "sleep", "boot", "stat", "arm"} => ended \subseteq disk.store.hist
  /\ pc \in {"job", "save", "boot"} => ended \subseteq mem.hist
  /\ cli # None => cli.hist = disk.store.hist

\* The file against the two stores that may replace it.
File ==
  /\ ~broke \/ synced => disk.ok
  /\ cli # None => pc \in Awaits \cup {"off"}
  /\ pc \in {"stat", "arm"} => disk = OnDisk(mem)
  /\ pc = "arm" => synced
  /\ Coherent
  /\ pc = "save" /\ disk.ok => synced
  /\ pc = "boot" /\ disk.ok => \A j \in Jobs : Has(mem, j) <=> Has(disk.store, j)
  /\ pc \in {"job", "save"} /\ synced =>
       \A j \in Jobs : /\ Has(mem, j) => Has(disk.store, j)
                       /\ Has(disk.store, j) /\ ~Has(mem, j) => j \in dropped
  /\ cli # None /\ disk.ok =>
       \A j \in Jobs : /\ j \in dropped /\ Has(cli, j) => Has(disk.store, j)
                       /\ Has(disk.store, j) /\ ~Has(cli, j) => j \in dropped

IInv == Known /\ OneShots /\ AllRetired /\ Recorded /\ File

-----------------------------------------------------------------------------
(* Stores in hand *)

\* The stores in hand are stores, and every load yields one of them or nothing.
LEMMA InHandFacts ==
  ASSUME TypeOK
  PROVE  /\ InHand \subseteq Store
         /\ mem # None => mem \in InHand
         /\ cli # None => cli \in InHand
         /\ disk.ok => disk.store \in InHand /\ FreshLoad = disk.store
         /\ mem # None => LoadedStore \in InHand
<1>1. mem # None => LoadedStore \in {mem, disk.store} /\ (LoadedStore # mem => disk.ok)
  BY LoadedFacts
<1> QED
  BY <1>1, FreshLoadFacts DEF InHand, TypeOK

\* The steps that bring no new store about.
KeepsStores ==
  \/ TimerFires \/ SaveReplaces \/ SaveStats \/ SaveFails \/ ArmTimer \/ Halt
  \/ CliSaves \/ HandEdit \/ UNCHANGED vars

\* Most steps only move a store that is in hand.
LEMMA InHandKept ==
  ASSUME TypeOK, DueOK, KeepsStores
  PROVE  InHand' \subseteq InHand
<1> USE DEF InHand
<1>1. CASE TimerFires \/ ArmTimer
  <2>1. LoadedStore \in InHand
    BY <1>1, InHandFacts DEF TimerFires, ArmTimer, DueOK
  <2> QED
    BY <1>1, <2>1 DEF TimerFires, ArmTimer
<1>2. CASE SaveReplaces
  BY <1>2 DEF SaveReplaces, OnDisk, DueOK
<1>3. CASE SaveStats
  BY <1>3 DEF SaveStats
<1>4. CASE SaveFails
  BY <1>4 DEF SaveFails
<1>5. CASE Halt
  BY <1>5 DEF Halt
<1>6. CASE CliSaves
  BY <1>6 DEF CliSaves, OnDisk
<1>7. CASE HandEdit
  BY <1>7 DEF HandEdit, TypeOK
<1>8. CASE UNCHANGED vars
  BY <1>8 DEF vars, service
<1> QED
  BY <1>1, <1>2, <1>3, <1>4, <1>5, <1>6, <1>7, <1>8 DEF KeepsStores

\* The others put one new store in hand,
LEMMA InHandChanged ==
  ASSUME TypeOK, DueOK
  PROVE  /\ Start => InHand' \subseteq InHand \cup {RecomputeNextRuns(FreshLoad)}
         /\ JobEnds => InHand' \subseteq InHand \cup {mem'}
         /\ ToolOp => InHand' \subseteq InHand \cup {disk'.store}
         /\ CliLoads => InHand' \subseteq InHand \cup {cli'}
<1>1. Start => InHand' \subseteq InHand \cup {RecomputeNextRuns(FreshLoad)}
  BY DEF Start, InHand
<1>2. JobEnds => InHand' \subseteq InHand \cup {mem'}
  BY DEF JobEnds, InHand
<1>3. ToolOp => InHand' \subseteq InHand \cup {disk'.store}
  BY DEF ToolOp, InHand
<1>4. CliLoads => InHand' \subseteq InHand \cup {cli'}
  BY DEF CliLoads, service, InHand
<1> QED
  BY <1>1, <1>2, <1>3, <1>4

\* or let time pass over all of them.
LEMMA InHandLater ==
  ASSUME TypeOK, Tick
  PROVE  \A R \in InHand' : \E S \in InHand : R = Later(S)
<1>1. disk' = [disk EXCEPT !.store = Later(@)] /\ mem' = Later(mem) /\ cli' = Later(cli)
  BY DEF Tick
<1>2. disk'.ok = disk.ok /\ disk'.store = Later(disk.store)
  BY <1>1 DEF TypeOK
<1>3. Later(None) = None
  BY DEF Later
<1> QED
  BY <1>1, <1>2, <1>3 DEF InHand

-----------------------------------------------------------------------------
(* Known *)

\* Nothing is known of any job at first.
LEMMA InitKnown == Init => Known
BY DEF Init, Known, InHand, OnDisk, EmptyStore, Has

\* The jobs a store speaks of were added.
KnownStore(S) == \A j \in Jobs : Has(S, j) \/ j \in S.hist => j \in used

\* An operation speaks of added jobs only.
LEMMA OpKnown ==
  ASSUME TypeOK, Known, NEW op \in Ops, NEW j \in Jobs, NEW at \in Nat,
         op = "add" \/ Has(FreshLoad, j), OpHistory(op, j)
  PROVE  /\ used \subseteq used' /\ dropped' \subseteq used'
         /\ LET R == OpResult(op, FreshLoad, j, at)
            IN  \A k \in Jobs : Has(R, k) \/ k \in R.hist => k \in used'
<1> DEFINE R == OpResult(op, FreshLoad, j, at)
<1>1. /\ R.hist = FreshLoad.hist
      /\ \A k \in Jobs \ {j} : R.jobs[k] = FreshLoad.jobs[k]
  BY FreshLoadFacts, OpFacts
<1>2. \A k \in Jobs : Has(FreshLoad, k) \/ k \in FreshLoad.hist => k \in used
  BY FreshLoadFacts, InHandFacts DEF Known, TypeOK
<1>3. used \subseteq used' /\ j \in used'
  BY <1>2 DEF OpHistory
<1>4. dropped' \subseteq used'
  BY <1>3 DEF OpHistory, Known
<1> HIDE DEF R
<1>5. \A k \in Jobs : Has(R, k) \/ k \in R.hist => k \in used'
  BY <1>1, <1>2, <1>3 DEF Has
<1> QED
  BY <1>3, <1>4, <1>5 DEF R

\* Every step keeps Known: a job is added before anything else happens to it.
LEMMA NextKnown ==
  ASSUME TypeOK, DueOK, TypeOK', Known, [Next]_vars
  PROVE  Known'
<1>2. CASE KeepsStores /\ ~TimerFires
  <2>1. InHand' \subseteq InHand
    BY <1>2, InHandKept
  <2>2. /\ used' = used /\ ran' = ran /\ ended' \subseteq ended /\ dropped' = dropped
        /\ due' = due \/ due' = <<>>
    BY <1>2 DEF KeepsStores, SaveReplaces, SaveStats, SaveFails, ArmTimer, Halt,
                CliSaves, HandEdit, vars, service, history
  <2> QED
    BY <2>1, <2>2 DEF Known
<1>3. CASE TimerFires
  <2>1. LoadedStore \in InHand
    BY <1>3, InHandFacts DEF TimerFires, DueOK
  <2>2. \A a \in 1 .. Len(due') : due'[a] \in used
    BY <1>3, <2>1, TimerFacts DEF Known, IsDue
  <2>3. InHand' \subseteq InHand
    BY <1>3, InHandKept DEF KeepsStores
  <2>4. used' = used /\ ended' = ended /\ dropped' = dropped
    BY <1>3 DEF TimerFires
  <2>5. \A j \in Jobs : ran'[j] > 0 => j \in used
    BY <1>3, <2>2, TimerFacts DEF Known
  <2> QED
    BY <2>2, <2>3, <2>4, <2>5 DEF Known
<1>4. CASE Start
  <2>1. \A j \in Jobs : Has(FreshLoad, j) \/ j \in FreshLoad.hist => j \in used
    BY FreshLoadFacts, InHandFacts DEF Known, TypeOK
  <2>2. KnownStore(RecomputeNextRuns(FreshLoad))
    BY <2>1, FreshLoadFacts, RecomputeFacts DEF KnownStore
  <2> QED
    BY <1>4, <2>2, InHandChanged DEF Start, history, Known, KnownStore
<1>5. CASE JobEnds
  <2> DEFINE j == Head(due)
  <2>1. /\ j \in Jobs /\ j = due[1] /\ mem # None /\ Len(due) \in Nat \ {0}
        /\ Len(due') = Len(due) - 1
        /\ \A a \in 1 .. Len(due') : due'[a] = due[a + 1]
        /\ mem'.hist = LoadedStore.hist \cup {j}
        /\ \A k \in Jobs \ {j} : mem'.jobs[k] = LoadedStore.jobs[k]
    BY <1>5, JobEndsFacts
  <2>2. j \in used /\ \A a \in 1 .. Len(due') : due'[a] \in used
    BY <2>1 DEF Known
  <2>3. \A k \in Jobs : ran'[k] > 0 => k \in used
    BY <1>5, JobEndsFacts DEF Known
  <2>4. used' = used /\ ended' = ended \cup {j} /\ dropped' \subseteq dropped \cup {j}
    BY <1>5 DEF JobEnds
  <2>5. KnownStore(LoadedStore)
    BY <2>1, InHandFacts DEF Known, KnownStore
  <2> HIDE DEF j
  <2>6. \A k \in Jobs : Has(mem', k) \/ k \in mem'.hist => k \in used
    BY <2>1, <2>2, <2>5 DEF KnownStore, Has
  <2>7. InHand' \subseteq InHand \cup {mem'}
    BY <1>5, InHandChanged
  <2> QED
    BY <2>2, <2>3, <2>4, <2>6, <2>7 DEF Known
<1>6. CASE ToolOp
  <2>1. PICK op \in {"add", "remove"}, j \in Jobs, at \in Nat :
          /\ op = "add" \/ Has(FreshLoad, j)
          /\ disk' = OnDisk(OpResult(op, FreshLoad, j, at))
          /\ OpHistory(op, j)
    BY <1>6, ToolOpFacts
  <2>2. /\ used \subseteq used' /\ dropped' \subseteq used'
        /\ \A k \in Jobs : Has(disk'.store, k) \/ k \in disk'.store.hist => k \in used'
    BY <2>1, OpKnown DEF Ops, OnDisk
  <2>3. UNCHANGED <<due, ran, ended>>
    BY <1>6, <2>1 DEF ToolOp, OpHistory
  <2> QED
    BY <1>6, <2>2, <2>3, InHandChanged DEF Known
<1>7. CASE CliLoads
  <2>1. PICK op \in Ops, j \in Jobs, at \in Nat :
          /\ op = "add" \/ Has(FreshLoad, j)
          /\ cli' = OpResult(op, FreshLoad, j, at)
          /\ OpHistory(op, j)
    BY <1>7, CliLoadsFacts
  <2>2. /\ used \subseteq used' /\ dropped' \subseteq used'
        /\ \A k \in Jobs : Has(cli', k) \/ k \in cli'.hist => k \in used'
    BY <2>1, OpKnown
  <2>3. UNCHANGED <<due, ran, ended>>
    BY <1>7, <2>1 DEF CliLoads, service, OpHistory
  <2> QED
    BY <1>7, <2>2, <2>3, InHandChanged DEF Known
<1>8. CASE Tick
  <2>1. \A R \in InHand' : \E S \in InHand : R = Later(S)
    BY <1>8, InHandLater
  <2>2. UNCHANGED <<due, used, ran, ended, dropped>>
    BY <1>8 DEF Tick, history
  <2>3. \A S \in InHand : Later(S).hist = S.hist
                          /\ \A j \in Jobs : Has(Later(S), j) => Has(S, j)
    BY InHandFacts, LaterFacts
  <2> QED
    BY <2>1, <2>2, <2>3 DEF Known
<1> QED
  BY <1>2, <1>3, <1>4, <1>5, <1>6, <1>7, <1>8 DEF Next, GatewayStep, KeepsStores
-----------------------------------------------------------------------------
(* OneShots *)

\* There is no one-shot at first.
LEMMA InitOneShots == Init => OneShots
BY DEF Init, OneShots, OneShot, InHand, OnDisk, EmptyStore, Has

\* An operation keeps OneShot of the store it changes.
LEMMA OpOneShots ==
  ASSUME TypeOK, Known, OneShots,
         NEW op \in Ops, NEW j \in Jobs, NEW at \in Nat, OpApplies(op, FreshLoad, j),
         op = "add" \/ Has(FreshLoad, j),
         UNCHANGED <<due, ran>>,
         NEW R, R = OpResult(op, FreshLoad, j, at),
         NEW k \in Jobs, Kind[k] = "at"
  PROVE  OneShot(R, k)'
<1> DEFINE S == FreshLoad
<1>1. /\ R.hist = S.hist
      /\ \A i \in Jobs \ {j} : R.jobs[i] = S.jobs[i]
      /\ Has(R, j) <=> op # "remove" /\ ~(op = "run" /\ Kind[j] = "at")
      /\ Kind[j] = "at" /\ Has(R, j) =>
           /\ R.jobs[j].next \in {None, R.jobs[j].at}
           /\ op # "add" => R.jobs[j].at = S.jobs[j].at
  BY FreshLoadFacts, OpFacts
<1>2. OneShot(S, k)
  BY FreshLoadFacts, InHandFacts DEF OneShots, OneShot, TypeOK
<1>3. k \in S.hist => k \in used
  BY FreshLoadFacts, InHandFacts DEF Known, TypeOK
<1>4. Past(k)' <=> Past(k)
  BY DEF Past
<1>5. Past(k) => k \in used
  BY DEF Past, Known
<1> HIDE DEF S
<1>6. CASE k # j
  BY <1>1, <1>2, <1>4, <1>6 DEF OneShot, Has
<1>7. CASE k = j /\ op # "add"
  BY <1>1, <1>2, <1>4, <1>7 DEF OneShot, S
<1>8. CASE k = j /\ op = "add"
  <2>1. k \notin used
    BY <1>8 DEF OpApplies
  <2> QED
    BY <1>1, <1>3, <1>4, <1>5, <1>8, <2>1 DEF OneShot
<1> QED
  BY <1>6, <1>7, <1>8

\* Every step keeps OneShots: the load before a tick leaves only the loaded store in
\* hand, so what is due there is past its instant everywhere.
LEMMA NextOneShots ==
  ASSUME CliOverlaps = FALSE, TypeOK, DueOK, TypeOK', Known, OneShots, Coherent,
         [Next]_vars
  PROVE  OneShots'
<1>1. ASSUME \A j \in Jobs : Past(j)' => Past(j),
             NEW R, InHand' \subseteq InHand \cup {R},
             \A j \in Jobs : Kind[j] = "at" => OneShot(R, j)'
      PROVE  OneShots'
  BY <1>1 DEF OneShots, OneShot
<1>2. CASE KeepsStores /\ ~TimerFires
  <2>1. InHand' \subseteq InHand
    BY <1>2, InHandKept
  <2>2. ran' = ran /\ (due' = due \/ due' = <<>>)
    BY <1>2 DEF KeepsStores, SaveReplaces, SaveStats, SaveFails, ArmTimer, Halt,
                CliSaves, HandEdit, vars, service, history
  <2>3. \A j \in Jobs : Past(j)' => Past(j)
    BY <2>2, EmptySeq DEF Past
  <2> QED
    BY <2>1, <2>3 DEF OneShots, OneShot
<1>3. CASE TimerFires
  <2>1. cli' = None /\ pc = "sleep" /\ disk' = disk
    BY <1>3 DEF TimerFires, GatewayMayStep
  <2>2. disk.ok => disk.store = LoadedStore
    BY <1>3, <2>1, TimerFacts, LoadedFacts DEF Coherent, OnDisk, TypeOK
  <2>3. InHand' \subseteq {LoadedStore}
    BY <1>3, <2>1, <2>2, TimerFacts DEF InHand
  <2>4. LoadedStore \in InHand
    BY <1>3, TimerFacts, InHandFacts
  <2>5. ASSUME NEW j \in Jobs, Kind[j] = "at", Past(j)', Has(LoadedStore, j)
        PROVE  LoadedStore.jobs[j].at = 0
    <3>1. Past(j) \/ IsDue(LoadedStore, j)
      BY <1>3, <2>5, TimerFacts DEF Past
    <3>2. OneShot(LoadedStore, j)
      BY <2>4, <2>5 DEF OneShots
    <3> QED
      BY <2>5, <3>1, <3>2, CronAssumption DEF OneShot, IsDue
  <2> QED
    BY <2>3, <2>4, <2>5 DEF OneShots, OneShot
<1>4. CASE Start
  <2> PICK R : R = RecomputeNextRuns(FreshLoad)
    OBVIOUS
  <2>1. UNCHANGED <<due, ran>> /\ InHand' \subseteq InHand \cup {R}
    BY <1>4, InHandChanged DEF Start, history
  <2>2. /\ R.hist = FreshLoad.hist
        /\ \A j \in Jobs : /\ Has(R, j) <=> Has(FreshLoad, j)
                           /\ Has(FreshLoad, j) =>
                                R.jobs[j] = Recomputed(j, FreshLoad.jobs[j])
    BY FreshLoadFacts, RecomputeFacts
  <2>3. ASSUME NEW j \in Jobs, Kind[j] = "at" PROVE OneShot(R, j)'
    <3>1. OneShot(FreshLoad, j)
      BY <2>3, FreshLoadFacts, InHandFacts DEF OneShots, OneShot, TypeOK
    <3>2. Has(FreshLoad, j) => FreshLoad.jobs[j] \in JobState
      BY FreshLoadFacts DEF Has, Store
    <3>3. Past(j)' <=> Past(j)
      BY <2>1 DEF Past
    <3> QED
      BY <2>2, <2>3, <3>1, <3>2, <3>3, RecomputedFacts DEF OneShot
  <2> QED
    BY <1>1, <2>1, <2>3 DEF Past
<1>5. CASE JobEnds
  <2> DEFINE h == Head(due)
  <2> PICK R : R = mem'
    OBVIOUS
  <2>1. /\ h \in Jobs /\ h = due[1] /\ mem # None /\ Len(due) \in Nat \ {0}
        /\ Len(due') = Len(due) - 1
        /\ \A a \in 1 .. Len(due') : due'[a] = due[a + 1]
        /\ due' # <<>> => Head(due') = due[2] /\ 2 \in 1 .. Len(due)
        /\ R.hist = LoadedStore.hist \cup {h}
        /\ \A k \in Jobs \ {h} : R.jobs[k] = LoadedStore.jobs[k]
        /\ Has(R, h) => Kind[h] # "at"
    BY <1>5, JobEndsFacts
  <2>2. \A j \in Jobs : Past(j)' => Past(j)
    BY <1>5, <2>1, JobEndsFacts DEF Past
  <2>3. InHand' \subseteq InHand \cup {R}
    BY <1>5, InHandChanged
  <2> HIDE DEF h
  <2>4. ASSUME NEW j \in Jobs, Kind[j] = "at" PROVE OneShot(R, j)'
    <3>1. OneShot(LoadedStore, j)
      BY <2>1, <2>4, InHandFacts DEF OneShots
    <3>2. CASE j = h
      BY <2>1, <2>4, <3>2 DEF OneShot
    <3>3. CASE j # h
      BY <2>1, <2>2, <3>1, <3>3 DEF OneShot, Has
    <3> QED
      BY <3>2, <3>3
  <2> QED
    BY <1>1, <2>2, <2>3, <2>4
<1>6. CASE ToolOp
  <2>1. PICK op \in {"add", "remove"}, j \in Jobs, at \in Nat :
          /\ OpApplies(op, FreshLoad, j)
          /\ op = "add" \/ Has(FreshLoad, j)
          /\ disk' = OnDisk(OpResult(op, FreshLoad, j, at))
          /\ OpHistory(op, j)
    BY <1>6, ToolOpFacts
  <2> PICK R : R = OpResult(op, FreshLoad, j, at)
    OBVIOUS
  <2>2. UNCHANGED <<due, ran>>
    BY <1>6, <2>1 DEF ToolOp, OpHistory
  <2>3. \A k \in Jobs : Kind[k] = "at" => OneShot(R, k)'
    BY <2>1, <2>2, OpOneShots DEF Ops
  <2>4. InHand' \subseteq InHand \cup {R}
    BY <1>6, <2>1, InHandChanged DEF OnDisk
  <2> QED
    BY <1>1, <2>2, <2>3, <2>4 DEF Past
<1>7. CASE CliLoads
  <2>1. PICK op \in Ops, j \in Jobs, at \in Nat :
          /\ OpApplies(op, FreshLoad, j)
          /\ op = "add" \/ Has(FreshLoad, j)
          /\ cli' = OpResult(op, FreshLoad, j, at)
          /\ OpHistory(op, j)
    BY <1>7, CliLoadsFacts
  <2> PICK R : R = OpResult(op, FreshLoad, j, at)
    OBVIOUS
  <2>2. UNCHANGED <<due, ran>>
    BY <1>7, <2>1 DEF CliLoads, service, OpHistory
  <2>3. \A k \in Jobs : Kind[k] = "at" => OneShot(R, k)'
    BY <2>1, <2>2, OpOneShots
  <2>4. InHand' \subseteq InHand \cup {R}
    BY <1>7, <2>1, InHandChanged
  <2> QED
    BY <1>1, <2>2, <2>3, <2>4 DEF Past
<1>8. CASE Tick
  <2>1. \A R \in InHand' : \E S \in InHand : R = Later(S)
    BY <1>8, InHandLater
  <2>2. UNCHANGED <<due, ran>>
    BY <1>8 DEF Tick, history
  <2>3. ASSUME NEW S \in InHand, NEW j \in Jobs, Kind[j] = "at"
        PROVE  \A R : R = Later(S) => OneShot(R, j)'
    <3>1. OneShot(S, j) /\ S \in Store
      BY <2>3, InHandFacts DEF OneShots
    <3>2. /\ Later(S).hist = S.hist
          /\ Has(Later(S), j) <=> Has(S, j)
          /\ Has(S, j) => /\ Later(S).jobs[j].at = Sooner(S.jobs[j].at)
                          /\ Later(S).jobs[j].next = Sooner(S.jobs[j].next)
      BY <3>1, LaterFacts
    <3>3. Past(j)' <=> Past(j)
      BY <2>2 DEF Past
    <3> QED
      BY <3>1, <3>2, <3>3, CronAssumption DEF OneShot, Sooner
  <2> QED
    BY <2>1, <2>3 DEF OneShots
<1> QED
  BY <1>2, <1>3, <1>4, <1>5, <1>6, <1>7, <1>8 DEF Next, GatewayStep, KeepsStores
-----------------------------------------------------------------------------
(* AllRetired *)

\* Nothing was started at first.
LEMMA InitRetired == Init => AllRetired
BY DEF Init, AllRetired

\* An operation arms no one-shot that was started.
LEMMA OpUnarmed ==
  ASSUME TypeOK, Known, OneShots,
         NEW op \in Ops, NEW j \in Jobs, NEW at \in Nat, OpApplies(op, FreshLoad, j),
         op = "add" \/ Has(FreshLoad, j),
         NEW k \in Jobs, Kind[k] = "at", ran[k] > 0
  PROVE  LET R == OpResult(op, FreshLoad, j, at)
         IN  /\ R.hist = FreshLoad.hist
             /\ Unarmed(R, k) \/ (disk.ok /\ R.jobs[k] = disk.store.jobs[k])
<1> DEFINE S == FreshLoad
           R == OpResult(op, S, j, at)
<1>1. /\ R.hist = S.hist
      /\ \A i \in Jobs \ {j} : R.jobs[i] = S.jobs[i]
      /\ Kind[j] = "at" /\ Has(R, j) =>
           /\ op # "add" => R.jobs[j].at = S.jobs[j].at
           /\ R.jobs[j].at = 0 => R.jobs[j].next = None
  BY FreshLoadFacts, OpFacts
<1>2. k \in used
  BY DEF Known
<1>3. disk.ok => S = disk.store
  BY FreshLoadFacts
<1>4. Has(S, k) => disk.ok /\ S.jobs[k].at = 0
  BY FreshLoadFacts, InHandFacts DEF OneShots, OneShot, Past, TypeOK
<1> HIDE DEF S
<1>5. CASE k # j
  BY <1>1, <1>3, <1>4, <1>5 DEF Unarmed, Has, S
<1>6. CASE k = j
  <2>1. op # "add" /\ Has(S, k)
    BY <1>2, <1>6 DEF OpApplies, S
  <2> QED
    BY <1>1, <1>4, <1>6, <2>1 DEF Unarmed, S
<1> QED
  BY <1>5, <1>6 DEF S

\* Every step keeps AllRetired: of a started one-shot the cached store is unarmed, and
\* a reload in the same tick that would arm it again is the one that sets torn.
LEMMA NextRetired ==
  ASSUME CliOverlaps = FALSE, TypeOK, DueOK, TypeOK', DueOK', IInv, [Next]_vars
  PROVE  AllRetired'
<1> SUFFICES ASSUME ~torn', NEW j \in Jobs, Kind[j] = "at", ran'[j] > 0
             PROVE  Retired(j)'
  BY DEF AllRetired
<1>1. ~torn
  BY DEF Next, GatewayStep, Start, TimerFires, JobEnds, SaveReplaces, SaveStats,
         SaveFails, ArmTimer, Halt, ToolOp, CliLoads, CliSaves, HandEdit, Tick,
         OpHistory, history, vars
<1>2. ran[j] > 0 => Retired(j)
  BY <1>1 DEF IInv, AllRetired
<1>3. ran[j] > 0 =>
        /\ \A S \in InHand : OneShot(S, j) /\ (Has(S, j) => S.jobs[j].at = 0)
        /\ j \in used
  BY DEF IInv, OneShots, OneShot, Past, Known
<1>4. ran[j] \in 0 .. 2
  BY DEF TypeOK
<1>5. CASE Start
  <2>1. /\ ran' = ran /\ pc' = "boot" /\ mem' = RecomputeNextRuns(FreshLoad)
    BY <1>5 DEF Start, history
  <2>2. Has(FreshLoad, j) => FreshLoad.jobs[j].at = 0 /\ FreshLoad.jobs[j] \in JobState
    BY <1>3, <2>1, FreshLoadFacts, InHandFacts DEF TypeOK, Has, Store
  <2>3. Unarmed(mem', j)
    BY <2>1, <2>2, FreshLoadFacts, RecomputeFacts, RecomputedFacts DEF Unarmed
  <2> QED
    BY <1>2, <2>1, <2>3 DEF Retired
<1>6. CASE TimerFires
  <2>1. cli' = None /\ pc = "sleep" /\ disk' = disk /\ ended' = ended
    BY <1>6 DEF TimerFires, GatewayMayStep
  <2>2. /\ mem' = LoadedStore /\ pc' \in {"save", "job"} /\ Len(due') \in Nat
        /\ due' # <<>> => Head(due') = due'[1] /\ 1 \in 1 .. Len(due')
        /\ \A a, b \in 1 .. Len(due') : due'[a] = due'[b] => a = b
        /\ due' # <<>> <=> pc' = "job"
    BY <1>6, TimerFacts
  <2>3. CASE ran[j] > 0
    <3>1. Unarmed(mem, j) /\ (disk.ok => Unarmed(disk.store, j))
      BY <1>2, <2>1, <2>3 DEF Retired
    <3>2. Unarmed(LoadedStore, j)
      BY <1>6, <3>1, TimerFacts, LoadedFacts
    <3>3. ~IsDue(LoadedStore, j)
      BY <3>2, CronAssumption DEF Unarmed, IsDue
    <3>4. /\ \A a \in 1 .. Len(due') : due'[a] # j
          /\ ran'[j] = ran[j]
      BY <1>6, <3>3, TimerFacts
    <3> QED
      BY <1>2, <2>1, <2>2, <2>3, <3>1, <3>2, <3>4 DEF Retired
  <2>4. CASE ~(ran[j] > 0)
    <3>1. due' # <<>> /\ j = Head(due') /\ ran'[j] = 1
      BY <1>4, <1>6, <2>4, TimerFacts
    <3> QED
      BY <2>1, <2>2, <3>1 DEF Retired
  <2> QED
    BY <2>3, <2>4
<1>7. CASE JobEnds
  <2> DEFINE h == Head(due)
  <2>1. /\ h \in Jobs /\ h = due[1] /\ mem # None /\ Len(due) \in Nat \ {0}
        /\ Len(due') = Len(due) - 1
        /\ \A a \in 1 .. Len(due') : due'[a] = due[a + 1]
        /\ due' # <<>> => Head(due') = due[2] /\ 2 \in 1 .. Len(due)
        /\ \A k \in Jobs \ {h} : mem'.jobs[k] = LoadedStore.jobs[k]
        /\ Has(mem', h) => Kind[h] # "at"
        /\ pc' = IF due' = <<>> THEN "save" ELSE "job"
    BY <1>7, JobEndsFacts
  <2>2. /\ cli' = None /\ pc = "job" /\ disk' = disk /\ ended' = ended \cup {h}
        /\ Reloads => ended \subseteq disk.store.hist
    BY <1>7 DEF JobEnds, GatewayMayStep, LosesAnEnd
  <2>3. CASE ran[j] > 0
    <3>1. \A a \in 2 .. Len(due) : due[a] # j
      BY <1>2, <2>2, <2>3 DEF Retired
    <3>2. /\ \A a \in 1 .. Len(due') : due'[a] # j
          /\ due' # <<>> => Head(due') # j
      BY <2>1, <3>1
    <3>3. ran'[j] = ran[j] /\ ran[j] <= 1
      BY <1>2, <1>7, <2>3, <3>2, JobEndsFacts DEF Retired
    <3>4. CASE j = h
      <4>1. Unarmed(mem', j)
        BY <2>1, <3>4 DEF Unarmed
      <4>2. disk.ok => Unarmed(disk.store, j) \/ j \in ended' \ disk.store.hist
        BY <1>3, <2>2, <2>3, <3>4, InHandFacts DEF OneShot, Unarmed
      <4> QED
        BY <2>1, <2>2, <3>2, <3>3, <4>1, <4>2 DEF Retired
    <3>5. CASE j # h
      <4>1. /\ Unarmed(mem, j)
            /\ disk.ok => Unarmed(disk.store, j) \/ j \in ended \ disk.store.hist
        BY <1>2, <2>2, <2>3, <3>5 DEF Retired, DueOK
      <4>2. Unarmed(LoadedStore, j)
        BY <2>1, <2>2, <4>1, LoadedFacts
      <4>3. Unarmed(mem', j)
        BY <2>1, <3>5, <4>2 DEF Unarmed, Has
      <4> QED
        BY <2>1, <2>2, <3>2, <3>3, <4>1, <4>3 DEF Retired
    <3> QED
      BY <3>4, <3>5
  <2>4. CASE ~(ran[j] > 0)
    <3>1. due' # <<>> /\ j = Head(due') /\ ran'[j] = 1
      BY <1>4, <1>7, <2>4, JobEndsFacts
    <3>2. j = due'[1] /\ 1 \in 1 .. Len(due')
      BY <2>1, <3>1
    <3>3. \A a \in 2 .. Len(due') : due'[a] # j
      BY <2>1, <3>2 DEF DueOK
    <3> QED
      BY <2>1, <2>2, <3>1, <3>3 DEF Retired
  <2> QED
    BY <2>3, <2>4
<1>8. CASE SaveReplaces \/ SaveStats \/ SaveFails
  BY <1>2, <1>8 DEF SaveReplaces, SaveStats, SaveFails, history, Retired
<1>9. CASE ArmTimer
  <2>1. /\ ran' = ran /\ pc' = "sleep" /\ cli' = None /\ mem' = LoadedStore
        /\ disk' = disk /\ pc = "arm" /\ mem # None
    BY <1>9 DEF ArmTimer, history, GatewayMayStep, DueOK
  <2>2. mem' = mem /\ disk.store = mem
    BY <2>1, LoadedFacts DEF IInv, File, OnDisk
  <2> QED
    BY <1>2, <2>1, <2>2 DEF Retired
<1>10. CASE Halt
  BY <1>2, <1>10, EmptySeq DEF Halt, Retired
<1>11. CASE ToolOp
  <2>1. PICK op \in {"add", "remove"}, i \in Jobs, at \in Nat :
          /\ OpApplies(op, FreshLoad, i)
          /\ op = "add" \/ Has(FreshLoad, i)
          /\ disk' = OnDisk(OpResult(op, FreshLoad, i, at))
          /\ OpHistory(op, i)
    BY <1>11, ToolOpFacts
  <2>2. ran' = ran /\ UNCHANGED <<mem, pc, due, cli, ended>> /\ cli = None
        /\ pc \in Awaits
    BY <1>11, <2>1 DEF ToolOp, OpHistory, GatewayMayStep
  <2>3. /\ disk'.store.hist = FreshLoad.hist
        /\ Unarmed(disk'.store, j) \/ (disk.ok /\ disk'.store.jobs[j] = disk.store.jobs[j])
    BY <2>1, <2>2, OpUnarmed DEF OnDisk, Ops, IInv
  <2>4. disk.ok => FreshLoad = disk.store
    BY FreshLoadFacts
  <2>5. Unarmed(disk'.store, j)
        \/ (disk.ok /\ (Unarmed(disk.store, j) => Unarmed(disk'.store, j))
                    /\ disk'.store.hist = disk.store.hist)
    BY <2>3, <2>4 DEF Unarmed, Has
  <2> QED
    BY <1>2, <2>2, <2>5 DEF Retired
<1>12. CASE CliLoads
  <2>1. PICK op \in Ops, i \in Jobs, at \in Nat :
          /\ OpApplies(op, FreshLoad, i)
          /\ op = "add" \/ Has(FreshLoad, i)
          /\ cli' = OpResult(op, FreshLoad, i, at)
          /\ OpHistory(op, i)
    BY <1>12, CliLoadsFacts
  <2>2. ran' = ran /\ UNCHANGED <<mem, pc, due, disk, ended>>
    BY <1>12, <2>1 DEF CliLoads, service, OpHistory
  <2>3. /\ cli'.hist = FreshLoad.hist
        /\ Unarmed(cli', j) \/ (disk.ok /\ cli'.jobs[j] = disk.store.jobs[j])
    BY <2>1, <2>2, OpUnarmed DEF IInv
  <2>4. disk.ok => FreshLoad = disk.store
    BY FreshLoadFacts
  <2>5. Unarmed(cli', j)
        \/ (disk.ok /\ (Unarmed(disk.store, j) => Unarmed(cli', j))
                    /\ cli'.hist = disk.store.hist)
    BY <2>3, <2>4 DEF Unarmed, Has
  <2> QED
    BY <1>2, <2>2, <2>5 DEF Retired
<1>13. CASE CliSaves
  <2>1. /\ disk'.store = cli /\ cli # None /\ cli' = None
        /\ UNCHANGED <<mem, pc, due, ran, ended>>
    BY <1>13 DEF CliSaves, OnDisk, history
  <2> QED
    BY <1>2, <2>1 DEF Retired
<1>14. CASE HandEdit
  <2>1. disk'.ok = FALSE /\ cli = None
    BY <1>14 DEF HandEdit, TypeOK
  <2> QED
    BY <1>2, <1>14, <2>1 DEF HandEdit, Retired
<1>15. CASE Tick
  <2>1. UNCHANGED <<pc, due, ran, ended>>
    BY <1>15 DEF Tick, history
  <2>2. ASSUME NEW S \in Store, Unarmed(S, j)
        PROVE  Unarmed(Later(S), j)
    BY <2>2, LaterFacts, SoonerType DEF Unarmed
  <2>3. \A S \in Store : Later(S).hist = S.hist
    BY LaterFacts
  <2>4. /\ disk'.ok = disk.ok /\ disk'.store = Later(disk.store)
        /\ mem' = Later(mem) /\ cli' = Later(cli)
        /\ disk.store \in Store
        /\ mem # None => mem \in Store
        /\ cli # None => cli \in Store
        /\ Later(None) = None
    BY <1>15 DEF Tick, TypeOK, Later
  <2>5. pc # "off" => mem # None
    BY DEF DueOK
  <2> QED
    BY <1>2, <2>1, <2>2, <2>3, <2>4, <2>5 DEF Retired
<1>16. CASE UNCHANGED vars
  BY <1>2, <1>16 DEF vars, service, history, Retired
<1> QED
  BY <1>5, <1>6, <1>7, <1>8, <1>9, <1>10, <1>11, <1>12, <1>13, <1>14, <1>15, <1>16
     DEF Next, GatewayStep
-----------------------------------------------------------------------------
(* Recorded *)

\* Nothing has ended at first.
LEMMA InitRecorded == Init => Recorded
BY DEF Init, Recorded

\* Every step keeps Recorded: the end of a run is in the cached store until the save
\* puts it in the file, unless a reload drops it, which sets torn.
LEMMA NextRecorded ==
  ASSUME CliOverlaps = FALSE, TypeOK, DueOK, TypeOK', IInv, [Next]_vars
  PROVE  Recorded'
<1> SUFFICES ASSUME ~broke', ~torn' PROVE Recorded'
  BY DEF Recorded
<1>1. ~torn /\ ~broke
  <2>1. ~torn
    BY DEF Next, GatewayStep, Start, TimerFires, JobEnds, SaveReplaces, SaveStats,
           SaveFails, ArmTimer, Halt, ToolOp, CliLoads, CliSaves, HandEdit, Tick,
           OpHistory, history, vars
  <2>2. ~broke
    BY DEF Next, GatewayStep, Start, TimerFires, JobEnds, SaveReplaces, SaveStats,
           SaveFails, ArmTimer, Halt, ToolOp, CliLoads, CliSaves, HandEdit, Tick,
           OpHistory, history, vars
  <2> QED
    BY <2>1, <2>2
<1>2. /\ disk.ok
      /\ pc \in {"off", "sleep", "boot", "stat", "arm"} => ended \subseteq disk.store.hist
      /\ pc \in {"job", "save", "boot"} => ended \subseteq mem.hist
      /\ cli # None => cli.hist = disk.store.hist /\ pc \in Awaits \cup {"off"}
  BY <1>1 DEF IInv, File, Recorded
<1>3. FreshLoad = disk.store /\ disk.store \in Store
  BY <1>2, FreshLoadFacts
<1>4. CASE Start
  <2>1. mem' = RecomputeNextRuns(disk.store) /\ pc' = "boot"
        /\ UNCHANGED <<disk, cli, ended>> /\ pc = "off"
    BY <1>3, <1>4 DEF Start, history
  <2>2. mem'.hist = disk.store.hist
    BY <1>3, <2>1, RecomputeFacts
  <2> QED
    BY <1>2, <2>1, <2>2 DEF Recorded
<1>5. CASE TimerFires
  <2>1. mem' = LoadedStore /\ pc' \in {"job", "save"}
        /\ UNCHANGED <<disk, cli, ended>> /\ pc = "sleep"
    BY <1>5, TimerFacts DEF TimerFires
  <2>2. LoadedStore = disk.store
    BY <1>2, <1>5, <2>1, TimerFacts, LoadedFacts DEF IInv, File, Coherent, OnDisk
  <2> QED
    BY <1>2, <2>1, <2>2 DEF Recorded
<1>6. CASE JobEnds
  <2> DEFINE h == Head(due)
  <2>1. mem # None /\ mem'.hist = LoadedStore.hist \cup {h} /\ pc' \in {"job", "save"}
    BY <1>6, JobEndsFacts
  <2>2. UNCHANGED <<disk, cli>> /\ ended' = ended \cup {h} /\ pc = "job"
        /\ (Reloads => ended \subseteq disk.store.hist)
    BY <1>6 DEF JobEnds, LosesAnEnd
  <2>3. ended \subseteq LoadedStore.hist
    BY <1>2, <2>1, <2>2, LoadedFacts
  <2> QED
    BY <1>2, <2>1, <2>2, <2>3 DEF Recorded
<1>7. CASE SaveReplaces
  <2>1. disk'.store = mem /\ pc' = "stat" /\ pc \in {"save", "boot"}
        /\ UNCHANGED <<cli, ended>>
    BY <1>7 DEF SaveReplaces, OnDisk, history
  <2>2. cli = None
    BY <1>7 DEF SaveReplaces, GatewayMayStep
  <2> QED
    BY <1>2, <2>1, <2>2 DEF Recorded
<1>8. CASE SaveStats
  BY <1>2, <1>8 DEF SaveStats, history, Recorded
<1>9. CASE SaveFails
  BY <1>2, <1>9 DEF SaveFails, Recorded
<1>10. CASE ArmTimer
  BY <1>2, <1>10 DEF ArmTimer, history, Recorded
<1>11. CASE Halt
  BY <1>2, <1>11 DEF Halt, Recorded
<1>12. CASE ToolOp
  <2>1. PICK op \in {"add", "remove"}, i \in Jobs, at \in Nat :
          /\ op = "add" \/ Has(FreshLoad, i)
          /\ disk' = OnDisk(OpResult(op, FreshLoad, i, at))
          /\ OpHistory(op, i)
    BY <1>12, ToolOpFacts
  <2>2. disk'.store.hist = disk.store.hist
    BY <1>3, <2>1, OpFacts, SMTT(30) DEF OnDisk, Ops
  <2>3. UNCHANGED <<mem, pc, cli, ended>> /\ cli = None
    BY <1>12, <2>1 DEF ToolOp, OpHistory, GatewayMayStep
  <2> QED
    BY <1>2, <2>2, <2>3 DEF Recorded
<1>13. CASE CliLoads
  <2>1. PICK op \in Ops, i \in Jobs, at \in Nat :
          /\ op = "add" \/ Has(FreshLoad, i)
          /\ cli' = OpResult(op, FreshLoad, i, at)
          /\ OpHistory(op, i)
    BY <1>13, CliLoadsFacts
  <2>2. cli'.hist = FreshLoad.hist
    BY <2>1, FreshLoadFacts, OpFacts
  <2>3. UNCHANGED <<mem, pc, disk, ended>>
    BY <1>13, <2>1 DEF CliLoads, service, OpHistory
  <2> QED
    BY <1>2, <1>3, <2>2, <2>3 DEF Recorded
<1>14. CASE CliSaves
  <2>1. disk'.store = cli /\ cli # None /\ cli' = None /\ UNCHANGED <<mem, pc, ended>>
    BY <1>14 DEF CliSaves, OnDisk, history
  <2> QED
    BY <1>2, <2>1 DEF Recorded
<1>15. CASE HandEdit
  BY <1>15 DEF HandEdit
<1>16. CASE Tick
  <2>1. UNCHANGED <<pc, ended>>
    BY <1>16 DEF Tick, history
  <2>2. disk'.store.hist = disk.store.hist
    BY <1>3, <1>16, LaterFacts DEF Tick, TypeOK
  <2>3. /\ mem # None => mem'.hist = mem.hist
        /\ cli # None => cli'.hist = cli.hist
        /\ cli = None => cli' = None
    <3>1. /\ mem # None => mem \in Store
          /\ cli # None => cli \in Store
      BY DEF TypeOK
    <3> QED
      BY <1>16, <3>1, LaterFacts DEF Tick, Later
  <2>4. pc # "off" => mem # None
    BY DEF DueOK
  <2> QED
    BY <1>2, <2>1, <2>2, <2>3, <2>4 DEF Recorded
<1>17. CASE UNCHANGED vars
  BY <1>2, <1>17 DEF vars, service, history, Recorded
<1> QED
  BY <1>4, <1>5, <1>6, <1>7, <1>8, <1>9, <1>10, <1>11, <1>12, <1>13, <1>14, <1>15,
     <1>16, <1>17 DEF Next, GatewayStep

-----------------------------------------------------------------------------
(* File *)

\* At first the file is empty and nobody holds a store.
LEMMA InitFile == Init => File
BY DEF Init, File, Coherent, OnDisk

\* An operation loses no job and brings none back.
LEMMA OpFile ==
  ASSUME TypeOK, Known, disk.ok,
         NEW op \in Ops, NEW j \in Jobs, NEW at \in Nat, OpApplies(op, FreshLoad, j),
         op = "add" \/ Has(FreshLoad, j), OpHistory(op, j), NEW k \in Jobs
  PROVE  LET R == OpResult(op, FreshLoad, j, at)
         IN  /\ k \in dropped /\ Has(R, k) => Has(disk.store, k)
             /\ k \in dropped' /\ Has(R, k) => Has(disk.store, k)
             /\ Has(disk.store, k) /\ ~Has(R, k) => k \in dropped'
<1> DEFINE R == OpResult(op, FreshLoad, j, at)
<1>1. FreshLoad = disk.store /\ disk.store \in Store
  BY FreshLoadFacts
<1>2. /\ \A i \in Jobs \ {j} : R.jobs[i] = disk.store.jobs[i]
      /\ Has(R, j) <=> op # "remove" /\ ~(op = "run" /\ Kind[j] = "at")
  BY <1>1, OpFacts
<1>3. /\ op = "remove" \/ (op = "run" /\ Kind[j] = "at") => j \in dropped'
      /\ dropped' \subseteq dropped \cup {j}
      /\ op = "add" => dropped' = dropped
  BY DEF OpHistory
<1>4. op = "add" => j \notin dropped
  BY DEF OpApplies, Known
<1> HIDE DEF R
<1>5. CASE k # j
  BY <1>2, <1>3, <1>5 DEF Has, R
<1>6. CASE k = j
  BY <1>1, <1>2, <1>3, <1>4, <1>6 DEF R
<1> QED
  BY <1>5, <1>6

\* Every step keeps File: whoever is about to replace the file holds what it read
\* there, but for its own change.
LEMMA NextFile ==
  ASSUME CliOverlaps = FALSE, TypeOK, DueOK, TypeOK', IInv, [Next]_vars
  PROVE  File'
<1> USE DEF File, IInv
<1>1. CASE Start
  <2>1. /\ UNCHANGED <<disk, cli, broke, dropped>> /\ pc' = "boot" /\ cli = None
        /\ synced' = disk.ok /\ mem' = RecomputeNextRuns(FreshLoad)
    BY <1>1 DEF Start, history, GatewayMayStep
  <2>2. disk.ok => \A j \in Jobs : Has(mem', j) <=> Has(disk.store, j)
    BY <2>1, FreshLoadFacts, RecomputeFacts
  <2> QED
    BY <2>1, <2>2 DEF Coherent
<1>2. CASE TimerFires
  <2>1. /\ UNCHANGED <<disk, cli, broke, dropped>> /\ pc' \in {"job", "save"}
        /\ cli = None /\ synced' = SyncedByLoad /\ mem' = LoadedStore /\ pc = "sleep"
    BY <1>2, TimerFacts DEF TimerFires, GatewayMayStep
  <2>2. synced' => disk.ok
    BY <2>1 DEF SyncedByLoad
  <2>4. synced => disk.store = mem
    BY <2>1 DEF Coherent, OnDisk
  <2>5. synced' => LoadedStore = disk.store
    BY <1>2, <2>2, <2>4, TimerFacts, LoadedFacts
  <2>3. disk.ok => synced'
    BY <2>1 DEF SyncedByLoad, TypeOK
  <2> QED
    BY <2>1, <2>2, <2>3, <2>5 DEF Coherent
<1>3. CASE JobEnds
  <2> DEFINE h == Head(due)
  <2>1. /\ mem # None /\ h \in Jobs /\ pc' \in {"job", "save"}
        /\ \A k \in Jobs \ {h} : mem'.jobs[k] = LoadedStore.jobs[k]
        /\ Has(mem', h) <=> Has(LoadedStore, h) /\ Kind[h] # "at"
    BY <1>3, JobEndsFacts
  <2>2. /\ UNCHANGED <<disk, cli, broke>> /\ cli = None /\ synced' = SyncedByLoad
        /\ pc = "job"
        /\ dropped' = IF Kind[h] = "at" THEN dropped \cup {h} ELSE dropped
    BY <1>3 DEF JobEnds, GatewayMayStep
  <2> HIDE DEF h
  <2>3. ASSUME synced', NEW j \in Jobs
        PROVE  /\ Has(LoadedStore, j) => Has(disk.store, j)
               /\ Has(disk.store, j) /\ ~Has(LoadedStore, j) => j \in dropped
    BY <2>1, <2>2, <2>3, LoadedFacts DEF SyncedByLoad
  <2>4. ASSUME synced', NEW j \in Jobs
        PROVE  /\ Has(mem', j) => Has(disk.store, j)
               /\ Has(disk.store, j) /\ ~Has(mem', j) => j \in dropped'
    BY <2>1, <2>2, <2>3, <2>4 DEF Has
  <2>5. /\ synced' => disk.ok
        /\ disk.ok => synced'
    BY <2>2 DEF SyncedByLoad, TypeOK
  <2> QED
    BY <2>1, <2>2, <2>4, <2>5 DEF Coherent
<1>4. CASE SaveReplaces
  BY <1>4 DEF SaveReplaces, history, GatewayMayStep, OnDisk, Coherent
<1>5. CASE SaveStats
  BY <1>5 DEF SaveStats, history, GatewayMayStep, OnDisk, Coherent
<1>6. CASE SaveFails
  BY <1>6 DEF SaveFails, GatewayMayStep, Coherent, Awaits
<1>7. CASE ArmTimer
  <2>1. mem' = mem
    BY <1>7, LoadedFacts DEF ArmTimer, DueOK
  <2> QED
    BY <1>7, <2>1 DEF ArmTimer, history, GatewayMayStep, SyncedByLoad, Coherent
<1>8. CASE Halt
  BY <1>8 DEF Halt, Coherent
<1>9. CASE ToolOp
  BY <1>9 DEF ToolOp, GatewayMayStep, OpHistory, OnDisk, Coherent, Awaits
<1>10. CASE CliLoads
  <2>1. PICK op \in Ops, i \in Jobs, at \in Nat :
          /\ OpApplies(op, FreshLoad, i)
          /\ op = "add" \/ Has(FreshLoad, i)
          /\ cli' = OpResult(op, FreshLoad, i, at)
          /\ OpHistory(op, i)
    BY <1>10, CliLoadsFacts
  <2>2. /\ UNCHANGED <<disk, mem, synced, pc, broke>> /\ pc \in Awaits \cup {"off"}
        /\ dropped \subseteq dropped'
    BY <1>10, <2>1 DEF CliLoads, service, OpHistory
  <2>3. ASSUME disk.ok, NEW k \in Jobs
        PROVE  /\ k \in dropped' /\ Has(cli', k) => Has(disk.store, k)
               /\ Has(disk.store, k) /\ ~Has(cli', k) => k \in dropped'
    BY <2>1, <2>3, OpFile
  <2> QED
    BY <2>2, <2>3 DEF Coherent, Awaits
<1>11. CASE CliSaves
  BY <1>11 DEF CliSaves, history, OnDisk, Coherent, Awaits
<1>12. CASE HandEdit
  BY <1>12 DEF HandEdit, TypeOK, Coherent, Awaits
<1>13. CASE Tick
  <2>1. /\ UNCHANGED <<pc, synced, dropped, broke>> /\ pc \in Awaits \cup {"off"}
        /\ disk'.ok = disk.ok /\ disk'.store = Later(disk.store)
        /\ mem' = Later(mem) /\ cli' = Later(cli) /\ Later(None) = None
        /\ disk.store \in Store /\ disk' = [disk EXCEPT !.store = Later(@)]
        /\ mem # None => mem \in Store
        /\ cli # None => cli \in Store
    BY <1>13 DEF Tick, history, TypeOK, Later
  <2>2. \A S \in Store, j \in Jobs : Has(Later(S), j) <=> Has(S, j)
    BY LaterFacts
  <2>3. pc # "off" => mem # None
    BY DEF DueOK
  <2>4. Coherent'
    <3> SUFFICES ASSUME pc' = "sleep", synced' PROVE disk' = OnDisk(mem')
      BY DEF Coherent
    <3>1. disk = [ok |-> TRUE, store |-> mem]
      BY <2>1 DEF Coherent, OnDisk
    <3>2. disk' = [ok |-> TRUE, store |-> Later(mem)]
      BY <2>1, <3>1
    <3> QED
      BY <2>1, <3>2 DEF OnDisk
  <2> QED
    BY <2>1, <2>2, <2>3, <2>4 DEF Awaits
<1>14. CASE UNCHANGED vars
  BY <1>14 DEF vars, service, history, Coherent
<1> QED
  BY <1>1, <1>2, <1>3, <1>4, <1>5, <1>6, <1>7, <1>8, <1>9, <1>10, <1>11, <1>12,
     <1>13, <1>14 DEF Next, GatewayStep

-----------------------------------------------------------------------------
(* Theorems *)

\* The whole invariant.
AllInv == TypeOK /\ DueOK /\ IInv

\* The invariant, for every set of jobs and schedules, failing saves, broken files,
\* crashes and restarts, when no step of the gateway falls within a command's load and
\* save.
THEOREM InvariantHolds == CliOverlaps = FALSE /\ Spec => []AllInv
<1> SUFFICES ASSUME CliOverlaps = FALSE PROVE Spec => []AllInv
  OBVIOUS
<1>1. Init => AllInv
  BY InitTypes, InitKnown, InitOneShots, InitRetired, InitRecorded, InitFile
     DEF AllInv, IInv
<1>2. AllInv /\ [Next]_vars => AllInv'
  <2> SUFFICES ASSUME AllInv, [Next]_vars PROVE AllInv'
    OBVIOUS
  <2>1. TypeOK /\ DueOK /\ IInv /\ Known /\ OneShots /\ Coherent
    BY DEF AllInv, IInv, File
  <2>2. TypeOK' /\ DueOK'
    BY <2>1, NextTypes
  <2>3. Known' /\ OneShots' /\ AllRetired' /\ Recorded' /\ File'
    BY <2>1, <2>2, NextKnown, NextOneShots, NextRetired, NextRecorded, NextFile
  <2> QED
    BY <2>2, <2>3 DEF AllInv, IInv
<1> QED
  BY <1>1, <1>2, PTL DEF Spec

\* A one-shot that is deleted after its run is started at most once over reloads, failed
\* saves, broken files, cancelled runs, commands and restarts, unless a write during a
\* later job of its tick made the gateway drop the unsaved deletion.
THEOREM StartedAtMostOnce == CliOverlaps = FALSE /\ Spec => []AtMostOnce
<1>1. AllInv => AtMostOnce
  <2> SUFFICES ASSUME AllInv, ~torn, NEW j \in Jobs, Kind[j] = "at"
               PROVE  ran[j] <= 1
    BY DEF AtMostOnce, OneShotRunsOnce
  <2>1. ran[j] \in 0 .. 2 /\ (ran[j] > 0 => Retired(j))
    BY DEF AllInv, IInv, AllRetired, TypeOK
  <2> QED
    BY <2>1 DEF Retired
<1> QED
  BY <1>1, InvariantHolds, PTL

\* When a tick is over the file records every run it made, with the same exception and
\* as long as nobody breaks the file by hand.
THEOREM EndsAreRecorded == CliOverlaps = FALSE /\ Spec => []RunsRecorded
<1>1. AllInv => RunsRecorded
  BY DEF AllInv, IInv, Recorded, RunsRecorded
<1> QED
  BY <1>1, InvariantHolds, PTL

\* No step brings a removed job back.
LEMMA StepKeepsRemoved ==
  ASSUME AllInv, [Next]_vars, CliOverlaps = FALSE
  PROVE  \A j \in dropped : disk.ok /\ ~Has(disk.store, j) => ~Has(disk'.store, j)
<1> SUFFICES ASSUME NEW j \in dropped, disk.ok, ~Has(disk.store, j)
             PROVE  ~Has(disk'.store, j)
  OBVIOUS
<1>1. j \in Jobs /\ disk.store \in Store
  BY DEF AllInv, TypeOK
<1>2. CASE SaveReplaces
  BY <1>1, <1>2 DEF SaveReplaces, OnDisk, AllInv, IInv, File
<1>3. CASE ToolOp
  <2>1. PICK op \in {"add", "remove"}, i \in Jobs, at \in Nat :
          /\ OpApplies(op, FreshLoad, i)
          /\ op = "add" \/ Has(FreshLoad, i)
          /\ disk' = OnDisk(OpResult(op, FreshLoad, i, at))
          /\ OpHistory(op, i)
    BY <1>3, ToolOpFacts DEF AllInv
  <2> QED
    BY <1>1, <2>1, OpFile DEF Ops, OnDisk, AllInv, IInv
<1>4. CASE CliSaves
  BY <1>1, <1>4 DEF CliSaves, OnDisk, AllInv, IInv, File
<1>5. CASE HandEdit
  BY <1>5 DEF HandEdit, AllInv, TypeOK
<1>6. CASE Tick
  BY <1>1, <1>6, LaterFacts DEF Tick, AllInv, TypeOK
<1>7. CASE UNCHANGED disk
  BY <1>7
<1> QED
  BY <1>2, <1>3, <1>4, <1>5, <1>6, <1>7
     DEF Next, GatewayStep, Start, TimerFires, JobEnds, SaveStats, SaveFails, ArmTimer,
         Halt, CliLoads, vars

\* No step loses a job that nobody asked to remove.
LEMMA StepLosesNoJob ==
  ASSUME AllInv, [Next]_vars, CliOverlaps = FALSE
  PROVE  \A j \in Jobs :
           ~broke /\ Has(disk.store, j) /\ ~Has(disk'.store, j) => j \in dropped'
<1> SUFFICES ASSUME NEW j \in Jobs, ~broke, Has(disk.store, j), ~Has(disk'.store, j)
             PROVE  j \in dropped'
  OBVIOUS
<1>1. disk.ok /\ disk.store \in Store
  BY DEF AllInv, TypeOK, IInv, File
<1>2. CASE SaveReplaces
  BY <1>1, <1>2 DEF SaveReplaces, history, OnDisk, AllInv, IInv, File
<1>3. CASE ToolOp
  <2>1. PICK op \in {"add", "remove"}, i \in Jobs, at \in Nat :
          /\ OpApplies(op, FreshLoad, i)
          /\ op = "add" \/ Has(FreshLoad, i)
          /\ disk' = OnDisk(OpResult(op, FreshLoad, i, at))
          /\ OpHistory(op, i)
    BY <1>3, ToolOpFacts DEF AllInv
  <2> QED
    BY <1>1, <2>1, OpFile DEF Ops, OnDisk, AllInv, IInv
<1>4. CASE CliSaves
  BY <1>1, <1>4 DEF CliSaves, history, OnDisk, AllInv, IInv, File
<1>5. CASE HandEdit
  BY <1>5 DEF HandEdit, AllInv, TypeOK
<1>6. CASE Tick
  BY <1>1, <1>6, LaterFacts DEF Tick, AllInv, TypeOK
<1>7. CASE UNCHANGED disk
  BY <1>7
<1> QED
  BY <1>2, <1>3, <1>4, <1>5, <1>6, <1>7
     DEF Next, GatewayStep, Start, TimerFires, JobEnds, SaveStats, SaveFails, ArmTimer,
         Halt, CliLoads, vars

\* The scheduler, the cron tool and the cron command never pin an old cache, lose each
\* other's jobs or resurrect one, for every set of jobs and schedules.
THEOREM InstancesAgree == CliOverlaps = FALSE /\ Spec => FileAndCacheAgree
<1> SUFFICES ASSUME CliOverlaps = FALSE PROVE Spec => FileAndCacheAgree
  OBVIOUS
<1>1. AllInv => TypeOK /\ Coherent
  BY DEF AllInv, IInv, File
<1>2. AllInv /\ [Next]_vars =>
        [\A j \in dropped :
           disk.ok /\ ~Has(disk.store, j) => ~Has(disk'.store, j)]_vars
  BY StepKeepsRemoved
<1>3. AllInv /\ [Next]_vars =>
        [\A j \in Jobs :
           ~broke /\ Has(disk.store, j) /\ ~Has(disk'.store, j) => j \in dropped']_vars
  BY StepLosesNoJob
<1> QED
  BY <1>1, <1>2, <1>3, InvariantHolds, PTL
     DEF Spec, FileAndCacheAgree, NoResurrection, NoLostJob
==============================================================================
