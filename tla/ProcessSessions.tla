-------------------------- MODULE ProcessSessions ---------------------------
(***************************************************************************)
(* openpipixia/runtime/process_sessions.py and the tools that drive it     *)
(* (exec_command and process_session of tooling/registry.py), for one      *)
(* session: sessions share nothing but the two dictionaries.               *)
(*                                                                         *)
(* The tools run on the event loop, one call at a time, and are the        *)
(* `caller`; beside it run one reader thread per stream, the thread that   *)
(* waits for the process, and the process.  An action of a thread is the   *)
(* code between two points where another one can change what it looks at:  *)
(* a region under a lock, a signal, a blocking wait.                       *)
(*                                                                         *)
(* Output is counted in units: a chunk is the interval of the units one    *)
(* read returned.  The 200 000 characters kept for "log" are taken to be   *)
(* more than a process writes.                                             *)
(***************************************************************************)
EXTENDS Integers, Sequences

CONSTANTS
  MaxOut,      \* how many units each stream may carry
  Block,       \* units of one read (4096 bytes)
  PendingCap,  \* pending_max_output_chars
  Scopes,      \* scope_key a command is started with, None outside of a route
  ExecModes,   \* how exec is called: "background", "yield"
  None

Streams == {"stdout", "stderr"}

ASSUME SessionAssumption ==
  /\ MaxOut \in [Streams -> Nat] /\ Block \in Nat \ {0} /\ PendingCap \in Nat
  /\ ExecModes \subseteq {"background", "yield"}
  /\ None \notin {"alive", "ok", "fail", "signal", "completed", "failed", "killed",
                  "removed", "error", "output", "background"}

VARIABLES
  pty,          \* the session runs on a terminal, not on pipes
  scope,        \* the session's scope_key
  proc,         \* the process: None, "alive", or how it ended
  written,      \* units the process has written to each stream
  reader,       \* the reader threads: "none", "reading", "done"
  watcher,      \* the exit watcher: "none", "waiting", "archiving", "done"
  tables,       \* which of _running and _finished hold the session
  pending,      \* pending_stdout and pending_stderr, chunk by chunk
  read,         \* units the reader has taken from each stream
  truncated, backgrounded, exited, exitCode,
  reason,       \* termination_reason
  event,        \* output_event
  closes,       \* how often the terminal's descriptor was closed
  aged,         \* the session ended longer ago than the TTL
  pc,           \* where the caller stands
  byExec,       \* the caller is inside exec_command
  answer,       \* what exec_command answered: None, "error", "output", "background"
  taken,        \* history: chunks that polls have drained
  reported,     \* history: the last final status a poll reported
  late          \* history: marked as backgrounded after the watcher had looked

child   == <<pty, scope, proc, written>>
session == <<truncated, backgrounded, exited, exitCode, reason, event>>
output  == <<pending, read>>
threads == <<reader, watcher>>
caller  == <<pc, byExec, answer>>
history == <<taken, reported, late>>
vars == <<child, session, output, threads, tables, closes, aged, caller, history>>

Points == {"new", "mark", "poll", "wait", "drain", "kill", "killed", "remove",
           "close", "idle"}

Init ==
  /\ pty = FALSE /\ scope = None /\ proc = None /\ written = [s \in Streams |-> 0]
  /\ reader = [s \in Streams |-> "none"] /\ watcher = "none"
  /\ tables = {} /\ closes = 0 /\ aged = FALSE
  /\ pending = [s \in Streams |-> <<>>] /\ read = [s \in Streams |-> 0]
  /\ truncated = FALSE /\ backgrounded = FALSE
  /\ exited = FALSE /\ exitCode = None /\ reason = None /\ event = FALSE
  /\ pc = "new" /\ byExec = FALSE /\ answer = None
  /\ taken = [s \in Streams |-> <<>>]
  /\ reported = None /\ late = FALSE

Started == proc # None
Ended == proc \in {"ok", "fail", "signal"}

\* _status_for_session.
Status ==
  IF ~exited THEN "running"
  ELSE IF reason = "killed" THEN "killed"
  ELSE IF exitCode = "ok" THEN "completed" ELSE "failed"

\* SIGKILL to the process group; it does nothing to a process that has ended.
Signalled == IF proc = "alive" THEN "signal" ELSE proc

-----------------------------------------------------------------------------
(* The process *)

\* A terminal carries both streams on one descriptor.
ChildWrites(s) ==
  /\ proc = "alive" /\ written[s] < MaxOut[s]
  /\ pty => s = "stdout"
  /\ written' = [written EXCEPT ![s] = @ + 1]
  /\ UNCHANGED <<pty, scope, proc, session, output, threads, tables, closes, aged,
                 caller, history>>

ChildExits ==
  /\ proc = "alive"
  /\ proc' \in {"ok", "fail"}
  /\ UNCHANGED <<pty, scope, written, session, output, threads, tables, closes, aged,
                 caller, history>>

-----------------------------------------------------------------------------
(* The reader threads *)

\* pending_..._chars: only whole chunks at the head are ever dropped.
Chars(chunks) ==
  IF chunks = <<>> THEN 0 ELSE chunks[Len(chunks)].to - Head(chunks).from + 1

\* _trim_pending drops whole chunks until the rest fits; its second part, which
\* would cut the head chunk, never finds more than the cap left.
Trimmed(chunks) ==
  LET Fits(k) == Chars(SubSeq(chunks, k, Len(chunks))) <= PendingCap
      first == CHOOSE k \in 1 .. Len(chunks) + 1 :
                 Fits(k) /\ \A i \in 1 .. k - 1 : ~Fits(i)
  IN  [chunks |-> SubSeq(chunks, first, Len(chunks)), cut |-> first > 1]

\* One read of a stream.  BufferedReader.read(4096) of a pipe returns a full block
\* or, at the end of the stream, what is left; os.read of a terminal returns what
\* there is.
ReadSizes(s) ==
  LET left == written[s] - read[s]
  IN  IF pty THEN {n \in 1 .. left : n <= Block}
      ELSE IF left >= Block THEN {Block}
      ELSE IF Ended /\ left > 0 THEN {left} ELSE {}

\* _append_output.
AppendOutput_CutsSilently(s, n) ==
  LET chunk == [from |-> read[s] + 1, to |-> read[s] + n]
      trim == Trimmed(Append(pending[s], chunk))
  IN  /\ pending' = [pending EXCEPT ![s] = trim.chunks]
      /\ read' = [read EXCEPT ![s] = @ + n]
      /\ truncated' = truncated
      /\ event' = TRUE
AppendOutput(s, n) ==
  LET chunk == [from |-> read[s] + 1, to |-> read[s] + n]
      trim == Trimmed(Append(pending[s], chunk))
  IN  /\ pending' = [pending EXCEPT ![s] = trim.chunks]
      /\ read' = [read EXCEPT ![s] = @ + n]
      /\ truncated' = (truncated \/ trim.cut)
      /\ event' = TRUE

ReaderReads(s) ==
  /\ reader[s] = "reading" /\ closes = 0
  /\ \E n \in ReadSizes(s) : AppendOutput(s, n)
  /\ UNCHANGED <<child, backgrounded, exited, exitCode, reason, threads, tables,
                 closes, aged, caller, history>>

\* The stream ends, or the descriptor under it is closed.
ReaderEnds(s) ==
  /\ reader[s] = "reading"
  /\ \/ closes > 0
     \/ Ended /\ read[s] = written[s]
  /\ reader' = [reader EXCEPT ![s] = "done"]
  /\ event' = TRUE
  /\ UNCHANGED <<child, truncated, backgrounded, exited, exitCode, reason, output,
                 watcher, tables, closes, aged, caller, history>>

-----------------------------------------------------------------------------
(* The exit watcher *)

WatcherMarks_NeverArchives ==
  /\ watcher = "waiting" /\ Ended
  /\ exited' = TRUE /\ exitCode' = proc
  /\ event' = TRUE
  /\ watcher' = "done"
  /\ UNCHANGED <<child, truncated, backgrounded, reason, output, reader, tables,
                 closes, aged, caller, history>>
WatcherMarks ==
  /\ watcher = "waiting" /\ Ended
  /\ exited' = TRUE /\ exitCode' = proc
  /\ event' = TRUE
  /\ watcher' = IF backgrounded THEN "archiving" ELSE "done"
  /\ UNCHANGED <<child, truncated, backgrounded, reason, output, reader, tables,
                 closes, aged, caller, history>>

\* _archive_finished: a session that was removed meanwhile stays removed.
Archived_Blindly(t) == {"finished"}
Archived(t) == IF "running" \in t THEN {"finished"} ELSE t

WatcherArchives ==
  /\ watcher = "archiving"
  /\ tables' = Archived(tables)
  /\ watcher' = "done"
  /\ UNCHANGED <<child, session, output, reader, closes, aged, caller, history>>

\* finished_ttl_seconds have passed since the end.
TtlPasses ==
  /\ exited /\ ~aged
  /\ aged' = TRUE
  /\ UNCHANGED <<child, session, output, threads, tables, closes, caller, history>>

-----------------------------------------------------------------------------
(* What every call of a tool begins with: _prune_finished, then the lookup *)

Pruned == IF aged THEN tables \ {"finished"} ELSE tables

\* cleanup_mode, which only a terminal has.
Closed(n) == IF pty THEN n + 1 ELSE n

Prune ==
  /\ tables' = Pruned
  /\ closes' = IF Pruned # tables THEN Closed(closes) ELSE closes

Found(requested) == Pruned # {} /\ requested = scope

-----------------------------------------------------------------------------
(* exec_command, once the command has passed the guards *)

ExecSpawns ==
  /\ pc = "new"
  /\ pty' \in BOOLEAN /\ scope' \in Scopes
  /\ proc' = "alive"
  /\ tables' = {"running"}
  /\ reader' = [s \in Streams |-> IF pty' /\ s = "stderr" THEN "none" ELSE "reading"]
  /\ watcher' = "waiting"
  /\ \E mode \in ExecModes : pc' = IF mode = "background" THEN "mark" ELSE "poll"
  /\ byExec' = TRUE
  /\ UNCHANGED <<written, session, output, closes, aged, answer, history>>

\* mark_backgrounded, with the session's own scope.
ExecMarks ==
  /\ pc = "mark"
  /\ backgrounded' = TRUE
  /\ late' = (watcher # "waiting")
  /\ answer' = "background"
  /\ pc' = "idle" /\ byExec' = FALSE
  /\ UNCHANGED <<child, truncated, exited, exitCode, reason, event, output,
                 threads, tables, closes, aged, taken, reported>>

\* The first poll of exec_command names no scope.
ExecPollFails ==
  /\ pc = "poll" /\ ~Found(None)
  /\ answer' = "error"
  /\ pc' = "idle" /\ byExec' = FALSE
  /\ UNCHANGED <<child, session, output, threads, tables, closes, aged, history>>

\* poll_session up to its wait, for a session that was found.
ShouldWait_UnlessOutput ==
  \A s \in Streams : Chars(pending[s]) = 0
ShouldWait ==
  /\ ~exited
  /\ \A s \in Streams : Chars(pending[s]) = 0

PollBegins(wait) ==
  /\ IF wait /\ ShouldWait
     THEN pc' = "wait" /\ event' = FALSE
     ELSE pc' = "drain" /\ event' = event
  /\ UNCHANGED <<child, truncated, backgrounded, exited, exitCode, reason, output,
                 threads, aged, byExec, answer, history>>

ExecPolls ==
  /\ pc = "poll" /\ Found(None)
  /\ PollBegins(TRUE)
  /\ UNCHANGED <<tables, closes>>

\* output_event.wait returns, because the event is set or by its timeout.
PollWakes ==
  /\ pc = "wait"
  /\ pc' = "drain"
  /\ UNCHANGED <<child, session, output, threads, tables, closes, aged, byExec,
                 answer, history>>

\* The rest of poll_session and what its caller does with the result.  Output
\* drained by exec for a command that still runs is not part of the answer.
PollDrains ==
  /\ pc = "drain"
  /\ taken' = [s \in Streams |-> taken[s] \o pending[s]]
  /\ pending' = [s \in Streams |-> <<>>]
  /\ pc' = IF ~byExec THEN "idle" ELSE IF exited THEN "remove" ELSE "mark"
  /\ reported' = IF exited THEN Status ELSE reported
  /\ UNCHANGED <<child, session, read, threads, tables, closes, aged, byExec,
                 answer, late>>

-----------------------------------------------------------------------------
(* process_session: poll, kill, remove, list and log *)

\* The agent knows the id, and its calls carry the session's scope.
Known == pc = "idle" /\ answer = "background"

ToolPoll ==
  /\ Known /\ Found(scope)
  /\ Prune
  /\ \E wait \in BOOLEAN : PollBegins(wait)

\* list, log, or a call for a session that is gone.
ToolLooks ==
  /\ Known /\ Pruned # tables
  /\ Prune
  /\ UNCHANGED <<child, session, output, threads, aged, caller, history>>

KillChecks ==
  /\ Known /\ Found(scope) /\ backgrounded /\ ~exited
  /\ Prune
  /\ pc' = "kill"
  /\ UNCHANGED <<child, session, output, threads, aged, byExec, answer, history>>

KillSignals ==
  /\ pc = "kill"
  /\ proc' = Signalled
  /\ pc' = "killed"
  /\ UNCHANGED <<pty, scope, written, session, output, threads, tables, closes, aged,
                 byExec, answer, history>>

KillRecords ==
  /\ pc = "killed"
  /\ reason' = "killed"
  /\ pc' = "idle"
  /\ UNCHANGED <<child, truncated, backgrounded, exited, exitCode, event, output,
                 threads, tables, closes, aged, byExec, answer, history>>

\* remove_session pops the session under the manager's lock, from one table.
RemoveFrom(t) == IF "running" \in t THEN t \ {"running"} ELSE t \ {"finished"}

ToolRemoves ==
  /\ Known /\ tables # {}
  /\ tables' = RemoveFrom(tables)
  /\ pc' = "remove"
  /\ UNCHANGED <<child, session, output, threads, closes, aged, byExec, answer,
                 history>>

\* exec's own remove, of a command that ended within the wait, names no scope.
ExecRemoves ==
  /\ pc = "remove" /\ byExec
  /\ tables' = RemoveFrom(tables)
  /\ answer' = "output"
  /\ byExec' = FALSE
  /\ UNCHANGED <<child, session, output, threads, closes, aged, pc, history>>

RemoveKills_ForgetsProcess ==
  /\ pc = "remove" /\ ~byExec
  /\ reason' = IF exited THEN reason ELSE "removed"
  /\ pc' = "close"
  /\ UNCHANGED <<child, truncated, backgrounded, exited, exitCode, event,
                 output, threads, tables, closes, aged, byExec, answer, history>>
RemoveKills ==
  /\ pc = "remove" /\ ~byExec
  /\ IF exited THEN UNCHANGED <<proc, reason>>
     ELSE proc' = Signalled /\ reason' = "removed"
  /\ pc' = "close"
  /\ UNCHANGED <<pty, scope, written, truncated, backgrounded, exited, exitCode, event,
                 output, threads, tables, closes, aged, byExec, answer, history>>

RemoveCloses ==
  /\ pc = "close"
  /\ closes' = Closed(closes)
  /\ pc' = "idle"
  /\ UNCHANGED <<child, session, output, threads, tables, aged, byExec, answer,
                 history>>

-----------------------------------------------------------------------------
CallerStep ==
  \/ ExecMarks \/ ExecPollFails \/ ExecPolls \/ PollWakes \/ PollDrains
  \/ KillSignals \/ KillRecords \/ ExecRemoves \/ RemoveKills \/ RemoveCloses

ReaderStep(s) == ReaderReads(s) \/ ReaderEnds(s)

WatcherStep == WatcherMarks \/ WatcherArchives

Next ==
  \/ ExecSpawns \/ CallerStep
  \/ ToolPoll \/ ToolLooks \/ KillChecks \/ ToolRemoves
  \/ \E s \in Streams : ChildWrites(s) \/ ReaderStep(s)
  \/ ChildExits \/ WatcherStep \/ TtlPasses

Spec == Init /\ [][Next]_vars

\* The operating system runs the threads, and a call that was begun goes on.  The
\* process need not end, and nobody need call a tool.
Fairness ==
  /\ WF_vars(CallerStep) /\ WF_vars(WatcherStep)
  /\ \A s \in Streams : WF_vars(ReaderStep(s))

FairSpec == Spec /\ Fairness

-----------------------------------------------------------------------------
(* Properties *)

Chunk == [from : Nat, to : Nat]

\* The variables have the types the code gives them.
TypeOK ==
  /\ pty \in BOOLEAN /\ scope \in Scopes \cup {None}
  /\ proc \in {None, "alive", "ok", "fail", "signal"}
  /\ written \in [Streams -> Nat] /\ read \in [Streams -> Nat]
  /\ reader \in [Streams -> {"none", "reading", "done"}]
  /\ watcher \in {"none", "waiting", "archiving", "done"}
  /\ tables \subseteq {"running", "finished"}
  /\ pending \in [Streams -> Seq(Chunk)] /\ taken \in [Streams -> Seq(Chunk)]
  /\ truncated \in BOOLEAN /\ backgrounded \in BOOLEAN
  /\ exited \in BOOLEAN /\ exitCode \in {None, "ok", "fail", "signal"}
  /\ reason \in {None, "killed", "removed"}
  /\ event \in BOOLEAN /\ closes \in Nat /\ aged \in BOOLEAN
  /\ pc \in Points /\ byExec \in BOOLEAN /\ late \in BOOLEAN
  /\ answer \in {None, "error", "output", "background"}
  /\ reported \in {None, "completed", "failed", "killed"}

\* Polls return what the readers read in order and once each, and where something
\* is missing the session says so: a gap without `truncated` is never left by the
\* threads that append and drain at the same time (lines 241-247, 419-443).
GapsAreFlagged ==
  \A s \in Streams :
    LET all == taken[s] \o pending[s]
        Starts(i) == IF i = 1 THEN 1 ELSE all[i - 1].to + 1
    IN  /\ \A i \in DOMAIN all :
             IF truncated THEN all[i].from >= Starts(i) ELSE all[i].from = Starts(i)
        /\ ~truncated => read[s] = IF all = <<>> THEN 0 ELSE all[Len(all)].to

\* A poll that still waits has not missed anything: no output and no exit came in
\* before it cleared the event (lines 230-239).
NoLostWakeup ==
  pc = "wait" /\ ~event => ~exited /\ \A s \in Streams : pending[s] = <<>>

\* A final status, once a poll has reported it, is never revised: a process that
\* completed does not turn into a killed one (lines 336-347, 574-581).
FinalStatusStable == [][reported # None => reported' = reported]_vars

\* A removed session does not come back: the watcher, which decided to archive
\* before the removal, looks again under the lock (lines 541-549).
RemovedStaysRemoved ==
  [][Started /\ tables = {} => tables' = {}]_vars

\* The terminal's descriptor is closed once at most, by removal or by pruning: a
\* second os.close could hit a descriptor that belongs to somebody else by then.
ClosedOnce == closes <= 1

\* A session that was removed leaves no process running that no tool can reach.
RemovedDies == [](Started /\ tables = {} => <>Ended)

\* A backgrounded session that ends moves to the finished ones, where the TTL
\* applies, unless it was marked after the watcher had looked (lines 529-532).
ExitedArchived ==
  [](exited /\ backgrounded /\ ~late => <>("running" \notin tables))

\* What a removal leaves behind is final, whichever of the threads is late: neither
\* the descriptor nor the status nor the session's place is changed once more.
RemovalIsFinal ==
  [](TypeOK /\ ClosedOnce) /\ FinalStatusStable /\ RemovedStaysRemoved

\* "Foreground output (legacy behavior), or a background session message."
ExecAnswers == answer # "error"

==============================================================================
