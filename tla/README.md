# Verification of openpipixia

TLA+ modules of the parts of openpipixia that decide *what happens when*: the
channels through which users write, the gateway and its message bus, the
heartbeat, the cron scheduler, background processes, the browser and GUI tools,
the memory, the model call, and the commands that start, configure and repair all
this.  TLC checks them on small instances; all of the safety properties are also
proved with TLAPS, for every value of the constants.  All paths below
are under `src/openpipixia/`.

## 1. The system

openpipixia is a personal agent.  A *gateway* process runs one asyncio event
loop.  Chat channels put what users write into an inbound queue; one worker
takes a message, runs a turn of the agent for it (Google ADK), and puts the
answer into an outbound queue; a dispatcher hands that to the channel.  Beside
this run a heartbeat, a cron scheduler, sub-agents and background processes.
Commands (`ppx ...`) start, stop, configure and repair gateways from other processes.

### Components

| Component (files) | State | Operations | Correct when | Modules |
|---|---|---|---|---|
| Heartbeat runner (`runtime/heartbeat_runner.py`) | pending reason and priority, the one tracked wake, run lock, loop task | `request_wake`, `trigger_now`, interval tick, wake, busy retry, `start`, `stop` | requests coalesce by priority and are served; runs exclude each other; a busy gateway is retried after the backoff and not before; nothing survives `stop` | `HeartbeatRunner`, `WakeServer` |
| Cron service (`runtime/cron_service.py`, the cron tool, `app/cli_runtime_ops.py`) | store file, cached store and mtime, timer task | `start`, `stop`, `tick_once`, add, remove, enable, disable, run | a one-shot runs once; no job is lost or comes back; cache and file agree | `CronService` |
| Cron schedules (`runtime/cron_service.py`, `cron_schedule_parser.py`) | | next run of an expression | it is the next minute meant, also when clocks change | `CronSchedule` |
| Process sessions (`runtime/process_sessions.py`, `exec_command`, `process_session`) | running and finished tables, pending buffers, flags | start, poll, background, kill, remove, prune; reader and watcher threads | output complete, in order, or flagged; removal final; no process out of reach | `ProcessSessions` |
| Gateway worker, sub-agents, shutdown (`app/gateway.py`) | worker task, in-flight counter, session overrides, sub-agent tasks | `start`, `stop`, `process_message`, `/new`, `/help`, sub-agents | answers in order, busy exactly while it serves, what a closed session said is in the memory, clean `stop` | `Gateway` |
| Bus and dispatch (`bus/`, `channels/manager.py`), local channel | two queues, stream buffers | publish, consume, dispatch, stream | FIFO; a failing channel does not stop dispatch; one text, one turn | `Gateway` |
| Heartbeat and cron delivery (`app/gateway.py`, `runtime/heartbeat_utils.py`, `tool_context.py`) | last target, delivery record, routes (context variables) | a heartbeat's and a job's turn, the tools of a turn | each answer and each tool's message goes to its own chat | `HeartbeatDelivery` |
| Polling channels (Telegram, WeChat, Slack, Discord, e-mail) | cursors, remembered ids, batch in hand | poll, handle, send, `start`, `stop` | no message twice in a life or passed over; within a chat in order | `PollIntake`, `ChannelSend` |
| Push channels (Feishu, WeCom, DingTalk, QQ) | remembered ids, kept frames, files | callbacks, handlers, acknowledgement, send | pushes and publications match; no attachment replaced by another, but for the races of section 7; streams without holes | `PushIntake`, `FeishuMedia`, `ChannelSend` |
| WhatsApp (`channels/whatsapp.py`, `bridge/src/`) | bridge: socket, clients, retry; channel: connected flag | join, broadcast, send, reconnect | never mute beside an open WhatsApp; no token, no frame | `WhatsAppBridge` |
| Gateway process life (`app/cli_gateway_surface.py`, `runtime/gateway_service.py`) | pid and metadata files | start, stop, restart, status, boot | the files name what runs; one generation of gateways; a gateway that boots serves | `GatewayLife` |
| MCP servers (`core/mcp_registry.py`, `core/doctor_rules.py`) | availability of each toolset | health check, retries, listing | no server keeps a gateway from starting by how it behaves | `McpProbe` |
| Configuration files (`core/config.py`, `app/cli.py`) | config.json, the environment | load, save, apply, `doctor --fix`, `install` | user's values stay, also those under older names; a fixed file runs | `ConfigFiles` |
| Model call (`core/openai_codex_llm.py`, `runtime/debug_callbacks.py`, `token_usage_store.py`) | note of a request by invocation, stream state, usage rows | before/after model callbacks, streaming | results meet their calls; usage its request | `ModelCall` |
| Markdown memory (`runtime/markdown_memory_service.py`) | HISTORY.md, MEMORY.md, event ids | ingest, search | what counts as written is, and once | `MarkdownMemory` |
| File tools (`tooling/registry.py`) | | `read_file`, `write_file`, `edit_file` | pages cover the file | `FilePages` |
| Browser tool and runtimes (`browser/`) | profiles, tabs, last target, refs | the tool's actions; proxy and relay | a caller keeps its tab; refs tell elements apart; one effect per call | `Browser`, `MemoryBrowser`, `TabList`, `BrowserTool` |
| GUI tools (`gui/`) | step counter, history, guards | ground, perform, verify, plan | reports what was done; ends when stuck | `GuiTask` |
| Channel assembly, provider tables, security policy, session and runner assembly, skills | none that changes between calls | | | not modelled, section 7 |

### How they interact

* A channel calls `MessageBus.publish_inbound`; only the gateway's worker consumes.
  Turns, streamed deltas, sub-agents, cron jobs and the heartbeat all publish to the
  one outbound queue; only the dispatcher of `ChannelManager` consumes.
* The heartbeat asks the gateway `is_busy()` (the in-flight counter) and runs only if
  not; it is woken by its interval, by a cron job that has run, and by the end of a
  command (`exec`).  Both calls in `app/gateway.py` (lines 129 and 453) pass
  `coalesce_ms=0`.
* A cron job is an agent turn, which may call the cron tool, which makes *another*
  `CronService` on the same file.  The command line makes a third, in another process.
* Turns of several origins (a user's, a heartbeat's, a job's, a sub-agent's) overlap; their
  tools find the chat to answer in context variables.
* The process-session manager is called by the tools, on the event loop and one call at
  a time, and shares each session with two reader threads and an exit watcher.
* Every command first maps `config.json` onto its environment; the processes it starts
  inherit that.  Commands and gateways know each other only through pid files.
* The WhatsApp bridge is a Node process of its own behind a WebSocket.

### What is hard

* asyncio cancellation: a cancelled task still runs its `finally` later, when others
  have already replaced what it cleans up;
* three writers of one file without a lock, with a cached copy and state carried
  across an `await`; two writers of the memory's files;
* real threads that append, drain, archive and remove under three different locks;
* cursors, confirmations and flags that run ahead of, or behind, what was handled, with
  crashes between;
* two processes and a socket, each of which comes and goes;
* `stop()` with several awaits while turns, sub-agents and wakes go on;
* failing turns, sends, saves, probes; unparsable files; answers that are lost.

`PROJECT.json` lists each hazard at its line with the properties that cover it, or
the reason why none does.

## 2. Modules

| Module | What it is |
|---|---|
| `HeartbeatRunner` | the wake scheduler |
| `WakeServer` | abstract: what it promises, without tasks, delays and reasons |
| `HeartbeatRunner_proofs`, `CronService_proofs`, `ProcessSessions_proofs`, `Gateway_proofs`, `GatewayLife_proofs` | theorems and proofs about the module of that name (`GatewayLife_proofs`: about `McpProbe` too) |
| `Channels_proofs` | the same about `PollIntake`, `PushIntake`, `FeishuMedia`, `ChannelSend`, `WhatsAppBridge` |
| `Tools_proofs` | the same about `BrowserTool`, `HeartbeatDelivery`, `MemoryBrowser`, `Browser`, `MarkdownMemory`, `FilePages`, `ConfigFiles`, `GuiTask`, `CronSchedule`, `ModelCall` |
| `Enumeration`, `Enumeration_proofs` | what a loop keeps of a sequence, without recursion, and what is true of it; that a loop's steps are a function |
| `CronService`, `MCCronService` | the scheduler, the tool and the command on one store file |
| `ProcessSessions`, `MCProcessSessions` | one session, its threads and the tools that use it |
| `Gateway`, `MCGateway` | worker, bus, dispatcher, local channel, sub-agents, `stop()` |
| `PollIntake` | channels that ask a service for messages |
| `PushIntake` | channels to which a service pushes |
| `Inbox` | abstract: what the gateway relies on of either; implemented by both and by `WhatsAppBridge` |
| `FeishuMedia` | attachments of Feishu's messages, in threads |
| `ChannelSend` | the way out, channel by channel |
| `WhatsAppBridge` | bridge process and channel |
| `GatewayLife` | commands, pid files, processes, the boot of channels |
| `McpProbe` | the health check of MCP servers |
| `Browser`, `MemoryBrowser` | the two browser runtimes |
| `TabList` | abstract: what a caller of a runtime relies on; implemented by both |
| `BrowserTool` | a call over proxy or relay |
| `GuiTask` | `gui_action` and `gui_task` |
| `MarkdownMemory` | history, facts and ids of two processes |
| `ModelCall` | ids, notes, streams and usage of model requests |
| `ConfigFiles`, `MCConfigFiles` | config.json, the environment and the commands |
| `HeartbeatDelivery` | who hears of what |
| `FilePages` | paged reads and writes between them |
| `CronSchedule`, `MCCronSchedule` | expressions, search, and a clock that changes |
| `MCChannels`, `MCGatewayLife`, `MCTools` | sums of modules for TLC |

Everywhere an action is the code between two points at which somebody else can run:
an `await` on the event loop, a lock or a blocking call in a thread, a system call
between which a process may be killed.  A definition named `X_Something` next to `X`
is a faulty variant of `X` (a dropped guard, a wrong order) which shows that a property
can tell the two apart; no specification uses it.

**Sums.**  `MCChannels`, `MCGatewayLife` and `MCTools` put modules side by side that
share no state.  Their variable `part` says which of them moves in a behaviour, while the
others stand at an initial state.  Each property is thus checked of each module's own
behaviours, which is what composition without shared variables would give, without the
product of their states.

### HeartbeatRunner

`pending` is `_pending_reason`; `wakeTask`, `wakeDue`, `wakeKind` are the three
fields of the tracked wake; `tasks` holds every wake task object, because a task
that was cancelled is still there until its `finally` has run; `lock` is `_run_lock`
and who holds it; `stopping` and `joining` are where `stop()` stands.  `asked` and
`backoff` are history.  Time is the delay that remains, which loses nothing: the code
only compares instants with *now*.  `Request` is `request_wake` with `_schedule_wake`;
`IntervalTick` is `_run_loop`; `BeginSleep` .. `CancelEnds` are `_run_wake_after` and
`_execute_once`; `TriggerRuns`/`TriggerEnds` are `trigger_now`, and `triggering` says
that such a caller is inside of `on_run`; `StopLoop`, `StopWake`, `StopReturns` are the
three stretches of `stop()`.  `active` is the answer of the active-hours test, free to
change, as a window of hours is in the configuration.

### CronService and CronSchedule

`disk` is the file, `mem` the gateway's `_store`, `synced` whether `_store_mtime_ns`
is the file's mtime.  `pc` is where the scheduler stands: asleep in the timer, in
`on_job`, and the stretches after a tick (`SaveReplaces`, `SaveStats`, `ArmTimer`).
`shared` says whether the job objects the tick holds are still those of the cached
store; after a reload in the middle of a tick (line 629) they are not, and what
`_execute_job` assigns to them is lost.  `ToolOp` is the cron tool, one stretch of code
of the same process; `CliLoads`/`CliSaves` the `ppx cron` command in its own process.
`Halt` is `stop()` or a crash, `SaveFails` a failing write, `HandEdit` a file left
unparsable.

`CronService` takes a cron expression as a period.  `CronSchedule` computes it:
`Matches` are the fields with their lists, ranges and steps, `NextCronRun` the search
minute by minute, and the zone's clock (`Wall`, `SecondTime`) may be put forward or back
once.  `Meant` is the reference: the instants an expression means, by the calendar.

### ProcessSessions

One session; others share only the dictionaries.  Output is counted in units and a
chunk is an interval of units, so *lost*, *repeated*, *reordered* and *flagged* are
visible and the text is not.  The caller (`exec_command`, then `process_session` calls)
is sequential, as the tool layer is; the two readers, the watcher and the process run
at any time.  `tables` says which of `_running` and `_finished` holds the session.

### Gateway and HeartbeatDelivery

The n-th message a channel publishes is the number n.  A turn is the session it speaks in,
the deltas it streams, the sub-agents it spawns and how it ends.  What is said is left out: a
message or task stands for all that its turn puts in the session, and `said` tells which
session that is.  A turn reads its session when it begins (`seen`, `view`), and after it the
callback gives what was read to the memory (`kept`); `/new` does the same before it replaces
the session (`FlushRead`, `NewRotates`).  When a sub-agent has executed, the turn that spawned it
is resumed in the session it had then (`Resumes`, `ResumeSpawns`, `SubEnds`), beside the
worker: before `/new` reads that session, between the reading and the replacement, or when it
has long been replaced; `late` (history) are those that came too late for the flush,
`unflushed` (history) the sessions closed without one.  `worker` and
`hand` are the worker task and the message it processes, `inflight` the counter behind
`is_busy()`, `session` how often `/new` replaced each chat's session, `subs` the
sub-agents from queue to notification, `life` where `stop()` stands (it awaits the
heartbeat runner, the sub-agents, the worker, the dispatcher, in this order).  A session
belongs to a user and a chat's key, while `/new` counts by chat: in a group it replaces the
sessions of all and flushes that of the sender.

`HeartbeatDelivery` has the turns that nobody wrote for: the task gate, the model's turn,
the filter of acknowledgements, the choice of a target, the snapshot, and the
`message`, `message_image` and `message_file` tools of turns in progress, with the route each
turn was given or a chat that the tool names, published or put into the outbox.

### Channels

A message is its place in the service's log.  In `PollIntake` a poll is `Ask`, the answer
(`TakeUpdates`, `TakeSlackHistory`, `TakeDiscordHistory`, `TakeBatch`, `SearchUnseen` ...)
and the handling, one message a step where the code awaits between them; `cursor` is what
the channel asks from, `settled` what the service or `account.json` holds for dealt with,
`excused` (history) what was lost in a way the code accepts.  `PushIntake` has a callback
per channel; Feishu's starts a coroutine (`handling`) that may be overtaken.
`FeishuMedia` splits the naming of a file from its writing, which threads do; a taken name gets
`HeadOf[m]`, the first eight characters of the message's id, which two messages may share.
`ChannelSend` takes a message apart into files and chunks of text and lets each call be
accepted, refused or raise; Feishu's stream is patched from `buffer`.  `WhatsAppBridge` has both
ends of the WebSocket with the frames in flight (`upward`, `downward`); the WhatsApp
library, which opens and closes when it likes, is external.

### GatewayLife and McpProbe

`proc` are the processes of the machine, a pid being reused by a `stranger` once its
process has ended.  A command is split where a process is made and where a file is
written (`SpawnGateway`, `RecordGateways`, `StopCommand`, `StopCommandReturns` ...), and may be
killed between.  `ChannelStarts`, `LoginBegins`, `LoginEnds` are `start_all`;
`StartsToServe` the worker.  In `McpProbe` the probes of `Preflight` run side by side, each
with its attempts and backoff; `mood` is how a server behaves.

### Tools

* `Browser`: `browser`, `context` and `owns` are the launched or attached browser and what
  the runtime owns of it, `pages` the pages that live, `tabs`/`lastTarget`/`refs` what the
  runtime remembers.  `Synced` is `_sync_tabs`, the first thing of a call; `BuildSnapshotRefs` is
  `build_snapshot_refs`, `Entered` its loop.  Users, pop-ups and the browser's death come between calls.
* `BrowserTool`: `at` is where the call is, `done` (history) how often it was carried out.
* `GuiTask`: the planner's answers and the screen are open; `history` is the report.
* `MarkdownMemory`: the three files, per process an ingest that stands between two of its
  writes; `disturbed` (history) says that an ingest was killed or overlapped.  `MissFile` and
  `WriteHeader` are the two halves of `_ensure_markdown_file`, between which another process may
  make the file and append to it, and lose that; `present` are the files there are (both, after
  `init`), `missed` who stands between the halves, and `raced` (history) the files this befell.
* `ModelCall`: `Sanitized` is the walk of `_sanitize_tool_ids` over a request's parts;
  `contents` are the requests' parts, `phase` where a request is, Codex's stream
  event by event; `rows` are the usage rows.
* `ConfigFiles`: `Boot` is what `main` does to the environment, `Fixed` is `doctor --fix`
  from raw and normalized form, `Installs` the refresh; a save truncates, then writes.  Of the
  fields, a key and a token are empty by default, a model and the bridge's url are not
  (`Defaults`), and each of them, and `env`, has its older form, which a load drops (`Normalized`).
* `FilePages`: `ReadFile` is a call that follows the offset of the last notice.

## 3. The runs

A run marked *violated* checks what a comment, a tool description or a test of the
repository says, and TLC finds a behaviour of the code that contradicts it; section 5
tells each story.

| Run (cfg) | States | Shows |
|---|---|---|
| `cron_gateway` (`CronGateway.cfg`) | 389 222 | cache and file agree, no job is lost or comes back (`FileAndCacheAgree`); a one-shot starts once, but for the case of `cron_two_due`; runs are recorded; an armed one-shot is executed |
| `session_threads` (`SessionThreads.cfg`) | 168 567 | gaps are flagged, a poll misses no wake-up, a removal is final, removed processes end, ended sessions are archived |
| `gateway_turns` (`GatewayTurns.cfg`) | 183 662 | answers in order, nothing left behind by turns, sub-agents or `stop`, one turn per streamed text, every message and sub-agent served |
| `gateway_sessions` (`GatewaySessions.cfg`) | 5 220 803 | what was said in a session that `/new` closed is in the memory, also by turns that sub-agents resumed (`ClosedSessionsRemembered`) |
| `channels` (`Channels.cfg`) | 281 111 | no message is passed over or, while requests fail and recover, left; pushes and publications match; attachments and streams are whole; WhatsApp's channel never stays mute; intake implements `Inbox` |
| `gateway_life` (`GatewayLife.cfg`) | 122 446 | pid files are true; what a channel publishes is taken; no MCP server blocks a start; as the gateway drives it, the heartbeat's runner has one wake at most, each for a request, keeps the top request, excludes runs, stops clean (`RunnerSafe`, `PendingIsTopRequest`), never attempts within the backoff, serves requests, and implements `WakeServer` |
| `tools` (`Tools.cfg`) | 1 412 902 | refs, tabs and profiles; one effect per browser call; GUI reports; the memory's files; model calls; the configuration; routes; pages; the next run of a cron expression |
| `cron_two_due` (`CronTwoDue.cfg`) | | *violated*: `OneShotRunsOnce` |
| `session_scoped` (`SessionScoped.cfg`) | | *violated*: `ExecAnswers` |
| `gateway_wecom` (`GatewayWecom.cfg`) | | *violated*: `StartLeadsToService` |
| `doctor_backfill` (`DoctorBackfill.cfg`) | | *violated*: `ShellFillsTheGap` |
| `cron_fallback` (`CronFallback.cfg`) | | *violated*: `NextRunIsLater` |

Deadlock is checked in the cron (`cron_gateway`, `cron_two_due`) and gateway
(`gateway_turns`, `gateway_sessions`) runs.  The others say `CHECK_DEADLOCK FALSE`: a session that was removed,
with its process gone and its threads ended, has nothing left to do; and the
sums hold modules that bound what their environment does (messages, lives, edits, tasks), after which they
come to rest.

### Bounds, and why they are enough

* **HeartbeatRunner** — two sources of different priority plus the interval's;
  two task objects (with `coalesce_ms = 0` one is ever alive, which is `TrackedWake`
  and is proved; the retry is created while its predecessor runs its `finally`, hence
  the second).  Delays are small numbers that keep the order the code has: retry <
  interval, and 0 for the gateway's wakes.  Nothing else in the state grows.
* **CronService** — a one-shot and a recurring job are the smallest set in which the
  end of one job meets the execution of another in one tick; instants up to 2 units
  ahead, a poll of 1, so that jobs become due before, at, and after a poll.  `cron_two_due`
  has a third job, which the tool adds while the second executes.  A job
  id is added once, as `add_job` makes a fresh uuid.  `ran` counts to 2, which is all
  "more than once" needs.
* **ProcessSessions** — a block of 2 units, a pending buffer of 2, up to 3 units of
  stdout and 1 of stderr: a full block, a rest, and a buffer that overflows between two
  polls.  Terminal and pipes, and a session inside and outside of a route, are taken.
* **Gateway** — four messages in one chat (`/help`, a turn, `/new`, a turn), one
  delta each, two sub-agents and one permit: a streamed turn on both sides of a change
  of session, and a sub-agent that must wait for a permit.  One chat, because chats share
  the worker and the queues, and only the order within a chat is promised to anybody.
  For the sessions: two users of a group with a turn each, a `/new` of each with a turn between,
  and two sub-agents, so that a session is closed with and without a flush and a resumed turn
  comes before, within and after either.
* **Channels** — three messages in two chats with pages of one message and a memory of
  two ids: a page that leaves something behind, and an id that is forgotten while another
  is repeated.  Two lives: one crash or stop and what is found afterwards.  A message is
  pushed twice at most.  Three deltas: a patch that fails between two that do not.  Three
  messages with files of one name, two with ids that begin alike, and a post of two: the third
  file of a name is the first that two messages may put at one path.  Two frames in flight either way on the bridge.
* **GatewayLife** — two pids: a single gateway, or two agents, or a gateway and a bridge
  or a stranger that has the pid of a dead one.  The channel list has one of each kind that
  starts differently, with the WeChat login in the middle.  Two MCP servers, two
  attempts, one change of mood: a failure that heals between attempts, and one that does
  not.
* **Browser** — two pages and documents of up to four elements with room for three
  refs: doubles before and after, and one element too many; three pages in memory, as the
  choice after a close needs an order of those that remain.
* **GuiTask** — four steps, stalls after two without progress and three equal actions:
  each guard can be the first.  **MarkdownMemory** — two processes of one user with two
  events each, with and without the files.  **ModelCall** — a turn and a sub-agent, two requests, two calls with two
  ids.  **ConfigFiles** — three edits (fields of today and of older releases, enabled flags, keys) and
  three commands, over shells with no key, both, or only the other provider's.  Three, because what
  a killed `doctor` and a later `install` leave shows up only at the third.
  **HeartbeatDelivery** — two chats, two turns in progress.  **FilePages** — lines shorter
  than, just below and above a budget of 3.  **CronSchedule** — an hour of three minutes and a
  day of three hours, with the clock changed once in the middle of a horizon of 30: each
  kind of field and both days restricted, with midnight and a week's end inside.

### Fairness

* *Event loop*: a task that is ready is run (`WF` of each wake, worker, dispatcher,
  sub-agent, `stop()`).  The loop is FIFO, so this is weaker than what it does.
* *Agent turns and callbacks end* (`RunEnds`, `JobEnds`, `TurnEnds` or `TurnFails`):
  an assumption on the model provider, and the liveness properties hold only with it.
* *Time passes* (`WF` of `Tick`, `SF` in the cron model, where agent turns take time even
  if the scheduler never rests).
* *Cron*: `SF` of the gateway's step, because in this model the gateway waits while a
  command is between load and save; the real one does not wait.
* *Threads*: the operating system runs them (`WF` of readers, watcher, caller).
* *Polls* (`PollFairness`): the loop goes on asking and handling (`WF`); a service that is
  asked again and again about a chat answers at some time (`SF`), as the loop retries for
  ever after its backoff.  Mails are excepted: one whose fetch always breaks is fetched again
  at every poll and keeps the others back.
* *Boot and MCP* (`BootFairness`, `McpFairness`): a gateway's own next step is taken (`WF`), a
  login comes to its end because its QR code expires, and each attempt of a probe ends
  because the code gives it a timeout.
* No fairness of users, of the process a session runs, of `start`, `stop`, commands, or
  tool calls.

## 4. Proofs

Every module with a property has its safety properties proved for all values of its
constants that satisfy its assumptions, under the hypotheses given below.  A theorem is about the
component's own specification (`ToolSpec`, `PollSpec`, ...); where a run checks the sum of
modules or a property that speaks of several, a last theorem carries it over to `MCSpec`.

### HeartbeatRunner

For every set of sources, delays, intervals and wake identities that satisfies
`RunnerAssumption`:

| Theorem | States |
|---|---|
| `TypeCorrect` | `[]TypeOK` |
| `RunsExclude` | `[]ExclusiveRun`: two `on_run`s never overlap |
| `PendingIsTop` | `[]PendingIsTopRequest` |

and, assuming `Coalesce = {0}`, which is how `app/gateway.py` calls `request_wake`
in both places (lines 129 and 453):

| Theorem | States |
|---|---|
| `OneWake` | `[]TrackedWake`: the tracked wake is the only one alive |
| `StopLeavesNothing` | `[]StopQuiesces` |
| `WakesAreAskedFor` | `[]NoSpuriousWake` |
| `WakesAreSafe` | `[]RunnerSafe`: the conjunction that the run checks |
| `RetriesBackOff` | `RetryBackoff`: no attempt within the retry delay |
| `Implements` | `ServesRequests`: `Spec` implements `WakeServer` under the mapping |

The assumption is needed: with two delays (`Coalesce = {0, 2}`) and three wakes TLC
finds `RetryBackoff` violated (section 5).

`TypeOK`, `ExclusiveRun` and `PendingIsTopRequest` are inductive
(the latter two relative to `TypeOK`).  The others are not.  That a wake is the only
one alive depends on `_schedule_wake` never replacing a live one, which depends on the
live one being a retry or due at once (`TrackedIsDue`); that nothing is alive after
`stop()` depends on `stop()` awaiting whatever is alive (`StopJoins`); that no attempt
is made within a backoff depends on the tracked wake still sleeping at least as long as
the backoff lasts (`BackoffHeld`).  Their conjunction, `GatewayInv`, is inductive:
`InitGatewayInv`, and `NextGatewayInv` by one lemma for requests
(`RequestGatewayInv`, over `RequestNeverCancels`), one for the steps of a wake
(`WakeStepGatewayInv`), and a case for each other action.  `RetriesBackOff` then reads
off that a wake that is due has slept its backoff, and `Implements` shows for each step
which action of `WakeServer`, or stutter, it is.

### CronService

| Theorem | States |
|---|---|
| `TypesHold` | `[]TypeOK`, also when commands overlap |
| `StartedAtMostOnce` | `[]AtMostOnce` |
| `EndsAreRecorded` | `[]RunsRecorded` |
| `InstancesAgree` | `FileAndCacheAgree` |

The last three assume `CliOverlaps = FALSE`: between a command's load and its save the gateway
takes no step.  Without it they are false (section 5).  `CronAssumption` asks for a finite set
of jobs, because the histories in the store are counted.  The invariant `AllInv` says of the
stretch the gateway is in (`pc`) which of file, cache and the job objects in the tick's hands are the
same, which runs are in the cache and not yet in the file, and that a one-shot that has run
is either in the file as run, or in the hands of the tick, or the tick was torn.

### Gateway and ProcessSessions

| Theorem | States |
|---|---|
| `Gateway_proofs!NothingIsLeftBehind` | `[]NothingLeftBehind` |
| `ClosedSessionsAreRemembered` | `[]ClosedSessionsRemembered` |
| `StreamsStayApart` | `[]StreamOfOneTurn` |
| `AnswersKeepOrder` | `AnsweredInOrder` (an action property) |
| `ProcessSessions_proofs!WaitsForWhatComes` | `[]NoLostWakeup` |
| `CutsAreFlagged` | `[]GapsAreFlagged` |
| `RemovalLeavesNothing` | `RemovalIsFinal` |

The gateway's `Inv` adds what serves whom (a message in hand or none, a stop that waits for what
is alive), who holds the permits, the order of inbound queue, message in hand, outbound queue
and what was shown, and whose delta each buffer has.  For the memory (`Memory`): nothing is said
in a session that is not open yet, the worker works in its chat's newest one, a flush that waits
has read all that was said in its session but by late turns, and who has ended well is in
`kept`, because each turn has read what it said itself.  That of a session says where each unit of
output is: with a reader, pending, drained, in an answer, or cut and flagged.

### Channels

| Theorem | States |
|---|---|
| `NothingIsPassedOver` | `[]NothingPassedOver` (polling channels) |
| `PollRefinesInbox`, `PushRefinesInbox`, `BridgeRefinesInbox` | each implements `Inbox` |
| `PushesAreCounted` | `[]EachPushCounted` |
| `AttachmentsAreKept` | `[]AttachmentsKept` |
| `AnswersAreWhole` | `[]AnswersStayWhole` |
| `NeverStaysMute`, `TokenIsNeeded` | `[]NeverMute`; `[]TokenGuards` with the types |
| `ChannelsAreInboxes` | `ChannelsKeepOrder`, of the sum |

`PollInv` relates, for any number of messages, chats and lives, the service's log, the page in
hand, the cursor, the ids remembered and what was published; WeChat's memory may have any
length.  Assumptions on constants are what the code makes true: a page and a memory hold one at
least, ids of chats differ once stripped (`base.py`, `dedupe_stripped`), `"plain"` and
`"nobody"` are no files and no chats.

### GatewayLife and McpProbe

`ProcessesAreReached` (`[]EveryProcessIsReached`), `GenerationsDoNotMix` (`[]OneGeneration`) and, of the
sum, `FilesStayTrue` (`[]FilesAreTrue`), for any number of agents, pids and channels.  `LifeInv` says of
each process by which file it is named or which step of the command at work is about to
name it, and which pids are dead or a stranger's.

### Tools

| Theorem | States |
|---|---|
| `CallsHaveOneEffect` | `[]OneEffectPerCall` |
| `SayingsReachTheirs` | `[]RoutesKept` |
| `MemoryIsTabList`, `BrowserIsTabList` | both runtimes implement `TabList` |
| `BrowserInvariant` | types, profiles and the user's pages |
| `RuntimesAreTabLists` | `RuntimesKeepTabs`, of the sum |
| `MemoryWritesOnce` | `[]FactsWrittenOnce` |
| `PagesShowTheFile` | `[]PagesCoverTheFile` |
| `ConfigIsKept` | `[]ConfigKept` |
| `TasksAreAccounted` | `[]TaskAccounted` |
| `CronRunsWhenMeant` | `[]DueWhenMeant` (`CronSchedule`) |
| `RefsTellElementsApart` | `[]EachElementHasItsRef` (`Browser`) |
| `CallsArePaired` | `[]ModelCallsPaired` (`ModelCall`) |

* `MarkdownInv`: what an ingestion takes for new is on its way into the files at the place where
  it stands (`NewIsOnItsWay`), ids stand for events that are kept (`KnownIsKept`) in each file that no
  two processes made (`HistoryHas`, `MemoryHas`), a file that is missing was never appended to
  (`MadeToWrite`), and while nothing was
  killed and nobody overlapped the files are those of the sessions up to some event (`FullUpTo`), in
  order.
* `PagesInv`: while nobody writes, the lines shown are `1 .. offset - 1`; the pages' ends come
  from `Max` and `Min` of finite sets (`GreatestOf`, `SmallerOfTwo`).
* `ConfigInv`: the file is what the user wrote, or both are in today's fields and the file only
  fills what was missing (`FileOf`, `Fills`; `FillsIsOrder` makes two fixes as good as one), where a
  field of today that has a default is not missing; a content
  that doctor leaves alone has nothing to do (`Settled`), and what a command is about to write is
  what it computed.  `ShellValues` must be records of a key for each provider and a token.  The
  attempt showed that the history of what the user wrote was wrong when a `doctor` went before an
  `install`, one command beyond the bound the run had then; both are mended.
* `GuiInv`: what was performed is in the history or at work (`ActsAreNoted`), and the history up
  to the last step has moved (`Moves`).
* `ScheduleInv`: what is due is what the search found when it was computed.  What is left is
  arithmetic (`SearchFindsWhatIsMeant`): the search walks over the wall clock's minutes and
  `Meant` over instants, and the two meet because the wall clock runs beside them
  (`SearchAsUsual`), misses an hour (`SearchAcrossTheGap`) or has one twice
  (`SearchAcrossTwoHours`).  The hour that is missed is one hour of the wall clock, so that what
  an expression says of a minute of it and of the same minute an hour later it says of both
  (`GapIsAnHour`): hence the assumption `ChangeAt % Minutes = 0`, zones change their clocks on the
  hour.
* `RefsTellElementsApart` holds of a snapshot whatever the tab's earlier refs are: an entry takes
  a ref that no other has, kept or new (`EntryIsAdded`, `NumberIsFree`), so that after the
  last the refs used are as many as the entries (`EntriesAreListed`, `SnapshotRefsAreDistinct`).
  Documents are finite sequences.
* `CallInv`: at each point of a conversation the walk that gives ids to its parts has sent
  each call with an id of its own and each result with its call's (`SentWell`), and holds the
  ids of the calls that have had no result yet, in order (`Awaits`), which are none unless the
  tools are at work (`GoesOut`).  `CallsAreSent` and `ResultsAreSent` take the walk through a
  content; `CodexIsSentAll` shows that Codex's input, which puts results before texts
  before calls, is the content as it was, because contents come shaped so (`Shaped`).
  `NoId \notin GivenIds` says that no provider's id is the absence of one.

`Entered` and `Sanitized` are loops written as recursive functions.  That such a function exists,
with each value made from the one before, is proved (`StepsExist` in `Enumeration_proofs`): the
numbers of steps for which it does are all numbers (`AllNumbers`).

### What is not proved

**Liveness** (`WakeServed`, `OneShotServed`, `RemovedDies`, `ExitedArchived`, `MessageServed`,
`SubagentNotifies`, `PollDelivers`, `MessagesAreTaken`, the first part of `ServersDoNotBlock`) needs
fairness and `ENABLED`, and stays with TLC.  All other properties of the passing runs are proved.

## 5. Where code and documentation disagree

Five that a run shows:

1. **A one-shot that runs twice** (`cron_two_due`).  A reminder and a recurring job are due at
   one tick.  The reminder has been executed; while the recurring job executes, the cron tool adds
   a third job and the file's mtime changes; when the second ends, the reload at line 629 of
   `cron_service.py` brings the reminder back, and the next tick executes it again.
2. **`exec_command` with `yield_ms` on a route** (`session_scoped`) starts the session with
   the route's scope, polls it without one, and answers with an error.
3. **WeCom alone keeps the gateway from serving** (`gateway_wecom`).  `WeComChannel.start()`
   connects and then loops until `stop()` (`channels/wecom.py` 75), and `start_all` awaits it:
   the channels after it and the worker are never started.
4. **`doctor --fix` does not find the token in the shell** (`doctor_backfill`).  `main` has
   mapped the file onto the environment, and an empty value there removes the variable
   (`core/config.py` 950), before the fix looks for it.
5. **A cron job runs again and again in the hour after clocks go back** (`cron_fallback`).
   The search drops the clock's fold (`cron_service.py` 113); the next run it finds lies an
   hour in the past.

Others were seen while modelling, of which no run is kept:

* **A retry that is not backed off.**  `_schedule_wake` cancels a wake and stores its
  successor; then the cancelled wake's `finally` (`heartbeat_runner.py` 306) clears the three
  fields of the successor.  The gateway is not affected, as `coalesce_ms` is 0 in its calls.
  (`Coalesce = {0, 2}`, three wakes, `RetryBackoff`.)
* **A one-shot that runs twice by a command** that loaded the file before the tick saved
  it and writes it back after.  (`CliOverlaps = TRUE`, `OneShotRunsOnce`.)
* **A recurring job that stays due**: its own turn writes the file, and its new next run is
  assigned to an object that is no longer in the store.
* **Memory of others in a group.**  `/new` replaces the chat's session for all its users and
  flushes only the sender's (`gateway.py` 504): what another user's turn said that failed
  is never given to memory.  Nor is what a resumed turn said that failed after the flush had read
  its session.
* **Memory that is lost on its first writes.**  Two processes find HISTORY.md missing; one
  writes the header and appends its events, then the other writes the header, which empties the
  file (`markdown_memory_service.py` 211-213, whose docstring says "never rewriting existing
  file").  The first saves the ids of events that are gone, so that they never come back.
  (`Writers` two, `MaxEvents = 1`, `OldLinesStay`.)
* **`doctor --fix` drops what older releases called otherwise.**  Whether today's field is empty
  is asked of the normalized config (`app/cli.py` 684, 570), where a model, a base address or the
  bridge's url is never empty; the save then drops the older one, though the comment at line 921
  says that it is migrated before.  (`LegacyFieldsMove`, with two commands.)
* **`env` of an older config.json is dropped, not moved.**  `save_config` moves it if it is given
  it (`core/config.py` 528-548), and no command does: all save what a load has normalized.
  (`LegacyEnvMoves`, with two commands.)
* **Output missing from exec's answer**, when the exit watcher is ahead of the readers; and
  **output shown to nobody**, drained by exec's first poll of a command that goes on.
* **Refs do not remain stable** as the docstring of `build_snapshot_refs` says
  (`playwright_runtime.py` 84): a new element takes the first number free so far, and the
  element that had it and comes later gets another (97-115).  What holds is that refs of one snapshot tell
  elements apart.

## 6. Plan

Done: all modules of section 2, and the proofs of section 4.  Next:

1. Compositions that share state: `HeartbeatRunner` with `busy` replaced by the gateway's
   counter; `GatewayLife` with the check of `McpProbe` in place of `ChecksPass`.
2. A command whose write falls between `os.replace` and the reading of the mtime
   (`cron_service.py` 545).

## 7. Abstractions, and what is left out

* **Heartbeat**: the text of reasons; the active-hours arithmetic; the run history.  The clock
  does not step back, so that a request of equal priority is never older than the pending one.
* **Cron**: job texts; in `CronService`, `next_run` of a cron expression is `Period` ahead at
  most and two writes never get the same mtime; with `CliOverlaps = FALSE` commands do not
  overlap a stretch of the gateway's code.  `CronSchedule` has no month field (it works like
  the hour's); invalid expressions are accepted by the code and never run; `*/1` counts as a
  restricted day; a restart in the hour after clocks go forward drops a run in the hour that was
  left out; a job without a zone keeps the offset of the moment it is computed.
* **Process sessions**: `write`, `submit`, `send_keys`, `paste` (they only pass bytes on);
  the security guards before a command starts; the 200 000 characters kept for `log`;
  reuse of pids; failure of `Popen`.
* **Gateway**: media, several channels, `start()` that fails half-way; taking an outbound
  message and sending it are one step.  What two turns that speak in one session at once do to
  ADK's session is ADK's; each is taken to have read what was there when it began, and its own.
  A memory service that fails in a turn's callback fails the turn, and one that does so in the flush
  is logged; both lose nothing else.  The turns of the heartbeat and of cron jobs have sessions
  of their own and are not among these.
* **HeartbeatDelivery**: what the model says.  In the code a failed or cancelled run leaves
  the record of an earlier delivery; the snapshot is persisted before the runner has
  recorded the end of the run; and the target is read after the turn, so that an alert
  goes to whoever wrote last.
* **Polling channels**: markup, media, typing tickets, the QR login (but for the wait, in
  `GatewayLife`).  More new messages than a page of a history loses the older ones; WeChat's
  cursor is saved before its batch, which a crash loses; a mail whose fetch always breaks
  holds up the others.
* **Push channels**: cards, markup, tokens of access.  Feishu and DingTalk neither look for
  ids they have seen nor keep an order, so that `ChannelsKeepOrder` leaves them out.
* **FeishuMedia**: two threads may both find a name free, and a third file of a name shares the
  path of the second if they are of one post or of messages whose ids agree in their first eight
  characters (`feishu.py` 574-575), which ids with one prefix do easily; the older one is then
  replaced.  `AttachmentsKept` excepts these and no others.
* **ChannelSend**: a WeChat notice about a failed file that raises drops the rest of the
  message; excepted.
* **WhatsApp**: the library; `connect()` that rejects inside the retry's timer is not handled in
  the code and not modelled; frames of more than one client.
* **Process life**: unit files of systemd and launchd; one command at a time (two starts at
  once both find no gateway).  SIGTERM is not handled, so that `gateway stop` never runs
  `Gateway.stop()`; gateways run by hand are in no file; killing npm leaves node an orphan; cron
  and heartbeat already run while a login waits.
* **MCP**: building a toolset; errors of unknown kind are not retried; a server blocks the start
  only by a message that holds "failed health check" or by being absent.
* **Configuration**: two providers and two channels stand for all, one field with a default
  under the alias for all of them; `runtime.json` and what its variables mean (only whether `env`
  comes to it at all), the e-mail
  consent, multi-agent install, edits by the user while a command is between load and save.
  Enabling another provider leaves the default one enabled and active; the fix validates with
  the environment of before the fix and is not idempotent; a refresh drops the keys of older
  releases; an unparsable file is overwritten with defaults when there is something to fill;
  `ppx init` rewrites `global_config.json` with only the first agent enabled; a child agent
  inherits its parent's key when its own file has none.
* **ModelCall**: HTTP, texts, aggregate queries.  A provider that gives an id twice breaks the
  pairing; Codex's stream counts as finished without `response.completed` and reports no
  usage; the note of a request stays when the model raises.
* **MarkdownMemory**: `add_memory`, events without an id, facts of several lines, the in-memory
  fallback, `ppx init --force`, which writes both files anew.  The truncation and the write of a
  header are one step: lines that another process appends between the two are overwritten in part,
  and the model has them lost with those before.
* **FilePages**: the rest of a line that the budget cut is reachable only with `limit`; when
  it is the last line, the notice names an offset past the end.
* **Browser**: of two refs that one selector had in the last snapshot the model keeps the
  greater, the code the one entered last (`WithEntry`); console buckets of Playwright.  In the code a relay `act` without a target
  never finds a ref; `upload` takes a ref for a selector; `dialog` and `stop` do not look at the
  active profile; a failed start leaves its driver; the browser's death is not noticed;
  Playwright's snapshot does not choose its tab while the in-memory one does; a navigation keeps
  the refs of the page before.
* **BrowserTool**: replies to status, start, stop, profiles and tabs carry an error code even
  when they succeed; an empty answer of the proxy with status 2xx counts as success.
* **GUI**: the desktop and the models.  Screenshots of one second share a name; a chord that
  raises leaves keys down; an exception loses the report of the steps before it; an action whose
  effect came late is performed again.
* **Not modelled**: channel assembly (a table of constructors); provider tables, security and
  exec policy (pure functions of their input); session and runner assembly (construction of
  ADK objects); skills (documents and scripts, vendored in large part); of the command line,
  parsing, printing, provider logins and the usage report.
