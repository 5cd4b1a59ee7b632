------------------------------ MODULE GatewayLife ------------------------------
(***************************************************************************)
(* The life of gateway processes: the commands that start and stop them in *)
(* the background and remember them in files, the same for the WhatsApp    *)
(* bridge, and what a gateway does between its start and its first answer. *)
(* The operating system may give the pid of a process that has ended to a  *)
(* stranger, which the commands cannot tell from what they started.        *)
(***************************************************************************)
EXTENDS Integers, Sequences, FiniteSets

CONSTANTS Pids,        \* process identifiers
          NoPid,       \* no pid file
          ChannelList, \* the channels of a gateway, in the order they are started
          AgentCounts  \* how many agents global_config.json may enable; 0: single-agent mode

ASSUME LifeAssumption ==
    /\ NoPid \notin Pids /\ AgentCounts \subseteq Nat
    /\ ChannelList \in Seq({"local", "polling", "weixin", "wecom"})

VARIABLES
    proc,       \* the processes: "free", "checking", "starting", "serving" (gateways),
                \* "bridge", "dying" (a signal is on its way), "stranger"
    started,    \* how many channels of ChannelList the gateway has started
    login,      \* the gateway waits for a WeChat login
    waiting,    \* a channel of the gateway has published a message no worker took
    byHand,     \* the gateways run by hand or by systemd: in no file
    pidFile,    \* gateway.pid
    agentsFile, \* gateway.multi.meta.json: the pids of its agents; {}: no such file
    bridgeFile, \* runtime_state.json of the bridge
    command,    \* the command at work, with the processes it has made
    orphans     \* history: processes whose command was killed before it wrote its file

files == <<pidFile, agentsFile, bridgeFile>>
process == <<proc, started, login, waiting, byHand>>
lifeVars == <<process, files, command, orphans>>

Gateways == {p \in Pids : proc[p] \in {"checking", "starting", "serving"}}
Idle == [kind |-> "none", made |-> {}, agents |-> 0, restart |-> FALSE]

\* _is_pid_running: somebody has this pid.
IsRunning(p) == p # NoPid /\ proc[p] # "free"

LifeInit ==
    /\ proc = [p \in Pids |-> "free"] /\ started = [p \in Pids |-> 0]
    /\ login = [p \in Pids |-> FALSE] /\ waiting = [p \in Pids |-> FALSE]
    /\ byHand = {} /\ orphans = {} /\ command = Idle
    /\ pidFile = NoPid /\ agentsFile = {} /\ bridgeFile = NoPid

-----------------------------------------------------------------------------
\* The operating system

Ends(p) ==
    /\ proc' = [proc EXCEPT ![p] = "free"] /\ started' = [started EXCEPT ![p] = 0]
    /\ login' = [login EXCEPT ![p] = FALSE] /\ waiting' = [waiting EXCEPT ![p] = FALSE]
    /\ byHand' = byHand \ {p} /\ orphans' = orphans \ {p}

\* A process dies, of a signal or by itself.
Dies(p) ==
    /\ proc[p] # "free"
    /\ Ends(p)
    /\ UNCHANGED <<files, command>>

\* A pid is given to somebody else.
Reuse(p) ==
    /\ proc[p] = "free"
    /\ proc' = [proc EXCEPT ![p] = "stranger"]
    /\ UNCHANGED <<started, login, waiting, byHand, files, command, orphans>>

\* A new process with a pid of its own.
Popen(p, as) == proc[p] = "free" /\ proc' = [proc EXCEPT ![p] = as]

\* SIGTERM: neither the gateway nor npm handles it, so that Gateway.stop() is not run.
Terminate(S) ==
    /\ proc' = [p \in Pids |-> IF p \in S THEN "dying" ELSE proc[p]]
    /\ started' = [p \in Pids |-> IF p \in S THEN 0 ELSE started[p]]
    /\ login' = [p \in Pids |-> login[p] /\ p \notin S]
    /\ waiting' = [p \in Pids |-> waiting[p] /\ p \notin S]

-----------------------------------------------------------------------------
\* The commands, one at a time

\* Mutant: only gateway.pid is looked at.
StartCommand_LooksAtOneFile ==
    /\ command = Idle
    /\ pidFile' = IF IsRunning(pidFile) THEN pidFile ELSE NoPid
    /\ \E n \in AgentCounts :
          command' = IF IsRunning(pidFile) THEN Idle ELSE [Idle EXCEPT !.kind = "start", !.agents = n]
    /\ UNCHANGED <<process, agentsFile, bridgeFile, orphans>>

\* ppx gateway start: a recorded process that runs refuses it, dead records go.
StartCommand ==
    /\ command = Idle
    /\ LET several == \E p \in agentsFile : IsRunning(p)
           refused == several \/ IsRunning(pidFile)
       IN /\ agentsFile' = IF several THEN agentsFile ELSE {}
          /\ pidFile' = IF several \/ IsRunning(pidFile) THEN pidFile ELSE NoPid
          /\ \E n \in AgentCounts :
                command' = IF refused THEN Idle ELSE [Idle EXCEPT !.kind = "start", !.agents = n]
    /\ UNCHANGED <<process, bridgeFile, orphans>>

\* One gateway, or one of each agent.
SpawnGateway(p) ==
    /\ command.kind = "start" /\ ~command.restart
    /\ Cardinality(command.made) < (IF command.agents = 0 THEN 1 ELSE command.agents)
    /\ Popen(p, "checking")
    /\ command' = [command EXCEPT !.made = @ \cup {p}]
    /\ UNCHANGED <<started, login, waiting, byHand, files, orphans>>

\* The single-agent mode writes gateway.pid, the other the list of those that
\* started: an agent without a configuration, or whose start fails, is left out.
RecordGateways ==
    /\ command.kind = "start" /\ ~command.restart
    /\ IF command.agents = 0
       THEN /\ pidFile' \in IF command.made = {} THEN {pidFile} ELSE command.made
            /\ UNCHANGED agentsFile
       ELSE /\ agentsFile' = IF command.made = {} THEN agentsFile ELSE command.made
            /\ UNCHANGED pidFile
    /\ command' = Idle
    /\ UNCHANGED <<process, bridgeFile, orphans>>

\* ppx gateway stop: all that runs of what is recorded gets a SIGTERM (the agents
\* one after the other); a dead record goes.
StopCommand ==
    /\ command = Idle
    /\ LET targets == IF agentsFile # {} THEN {p \in agentsFile : IsRunning(p)}
                      ELSE {p \in {pidFile} : IsRunning(p)}
       IN /\ Terminate(targets)
          /\ \E again \in BOOLEAN :
                command' = [Idle EXCEPT !.kind = "stop", !.restart = again]
    /\ UNCHANGED <<byHand, files, orphans>>

\* It returns when they are gone, or after a SIGKILL: then gateway.pid goes
\* at once, and of the agents those that are still there are kept.  restart
\* starts again, unless an agent is still there.
StopCommandReturns ==
    /\ command.kind = "stop"
    /\ LET rest == {p \in agentsFile : IsRunning(p)}
       IN /\ agentsFile' = rest
          /\ pidFile' = IF agentsFile = {} THEN NoPid ELSE pidFile
          /\ command' = IF command.restart /\ rest = {}
                        THEN [Idle EXCEPT !.kind = "start", !.restart = TRUE] ELSE Idle
    /\ UNCHANGED <<process, bridgeFile, orphans>>

\* The start of a restart looks at the files again.
RestartCommand ==
    /\ command.kind = "start" /\ command.restart
    /\ \E n \in AgentCounts :
          command' = IF \E p \in agentsFile \cup {pidFile} : IsRunning(p)
                     THEN Idle ELSE [command EXCEPT !.restart = FALSE, !.agents = n]
    /\ UNCHANGED <<process, files, orphans>>

\* ppx gateway status removes the pid file of a process that is gone.
StatusCommand ==
    /\ command = Idle /\ agentsFile = {} /\ pidFile # NoPid /\ ~IsRunning(pidFile)
    /\ pidFile' = NoPid
    /\ UNCHANGED <<process, agentsFile, bridgeFile, command, orphans>>

\* ppx channels bridge start, stop; a bridge that outlives SIGKILL stays recorded.
StartBridgeCommand ==
    /\ command = Idle /\ ~IsRunning(bridgeFile)
    /\ bridgeFile' = NoPid
    /\ command' = [Idle EXCEPT !.kind = "bridge"]
    /\ UNCHANGED <<process, pidFile, agentsFile, orphans>>

SpawnBridge(p) ==
    /\ command.kind = "bridge" /\ command.made = {}
    /\ Popen(p, "bridge")
    /\ command' = [command EXCEPT !.made = {p}]
    /\ UNCHANGED <<started, login, waiting, byHand, files, orphans>>

\* A bridge that cannot be built or started is not recorded.
RecordBridge ==
    /\ command.kind = "bridge"
    /\ bridgeFile' \in IF command.made = {} THEN {NoPid} ELSE command.made
    /\ command' = Idle
    /\ UNCHANGED <<process, pidFile, agentsFile, orphans>>

StopBridgeCommand ==
    /\ command = Idle /\ bridgeFile # NoPid
    /\ Terminate({bridgeFile} \cap {p \in Pids : IsRunning(p)})
    /\ command' = [Idle EXCEPT !.kind = "bridge stop"]
    /\ UNCHANGED <<byHand, files, orphans>>

StopBridgeReturns ==
    /\ command.kind = "bridge stop"
    /\ bridgeFile' = IF IsRunning(bridgeFile) THEN bridgeFile ELSE NoPid
    /\ command' = Idle
    /\ UNCHANGED <<process, pidFile, agentsFile, orphans>>

\* A command is interrupted: what it has made and not written down is orphaned.
CommandKilled ==
    /\ command # Idle
    /\ orphans' = orphans \cup {p \in command.made : proc[p] # "free"}
    /\ command' = Idle
    /\ UNCHANGED <<process, files>>

-----------------------------------------------------------------------------
\* ppx gateway run, in the process p

\* By hand, or by the service manager that the installed manifest tells to.
RunByHand(p) ==
    /\ byHand = {} /\ Popen(p, "checking")
    /\ byHand' = {p}
    /\ UNCHANGED <<started, login, waiting, files, command, orphans>>

\* The setup is valid, the bridge answers, the required MCP servers are there.
\* (A check that fails ends the process: Dies.)
ChecksPass(p) ==
    /\ proc[p] = "checking"
    /\ proc' = [proc EXCEPT ![p] = "starting"]
    /\ UNCHANGED <<started, login, waiting, byHand, files, command, orphans>>

NextChannel(p) == ChannelList[started[p] + 1]
More(p) == proc[p] = "starting" /\ started[p] < Len(ChannelList)

\* start_all: the start() of a channel returns, and the next is started.  (One
\* that raises ends the process.)
ChannelStarts(p) ==
    /\ More(p) /\ NextChannel(p) # "wecom"
    /\ NextChannel(p) = "weixin" => ~login[p]
    /\ started' = [started EXCEPT ![p] = @ + 1]
    /\ UNCHANGED <<proc, login, waiting, byHand, files, command, orphans>>

\* WeChat without a token waits until the code is scanned or has expired; either
\* way start() returns.
LoginBegins(p) ==
    /\ More(p) /\ NextChannel(p) = "weixin" /\ ~login[p]
    /\ login' = [login EXCEPT ![p] = TRUE]
    /\ UNCHANGED <<proc, started, waiting, byHand, files, command, orphans>>

\* Mutant: when the code expires another one is shown, and so on.
LoginEnds_ShowsAnother(p) == login[p] /\ UNCHANGED lifeVars

LoginEnds(p) ==
    /\ login[p]
    /\ login' = [login EXCEPT ![p] = FALSE]
    /\ started' = [started EXCEPT ![p] = @ + 1]
    /\ UNCHANGED <<proc, waiting, byHand, files, command, orphans>>

\* The channels that have started publish messages; WeCom's connection stands
\* while its start() sleeps, as long as the channel runs.
Arrives(p) ==
    /\ proc[p] \in {"starting", "serving"} /\ ~waiting[p]
    /\ started[p] > 0 \/ (More(p) /\ NextChannel(p) = "wecom")
    /\ waiting' = [waiting EXCEPT ![p] = TRUE]
    /\ UNCHANGED <<proc, started, login, byHand, files, command, orphans>>

\* The dispatcher and the worker are started after all channels.
StartsToServe(p) ==
    /\ proc[p] = "starting" /\ started[p] = Len(ChannelList)
    /\ proc' = [proc EXCEPT ![p] = "serving"]
    /\ UNCHANGED <<started, login, waiting, byHand, files, command, orphans>>

Takes(p) ==
    /\ proc[p] = "serving" /\ waiting[p]
    /\ waiting' = [waiting EXCEPT ![p] = FALSE]
    /\ UNCHANGED <<proc, started, login, byHand, files, command, orphans>>

LifeNext ==
    \/ StartCommand \/ RecordGateways \/ StopCommand \/ StopCommandReturns \/ RestartCommand
    \/ StatusCommand \/ StartBridgeCommand \/ RecordBridge \/ StopBridgeCommand
    \/ StopBridgeReturns \/ CommandKilled
    \/ \E p \in Pids :
          \/ Dies(p) \/ Reuse(p) \/ SpawnGateway(p) \/ SpawnBridge(p) \/ RunByHand(p)
          \/ ChecksPass(p) \/ ChannelStarts(p) \/ LoginBegins(p) \/ LoginEnds(p)
          \/ Arrives(p) \/ StartsToServe(p) \/ Takes(p)

\* The event loop runs what is ready, and WeChat's code expires.
Boots(p) ==
    ChecksPass(p) \/ ChannelStarts(p) \/ LoginEnds(p) \/ StartsToServe(p) \/ Takes(p)

BootFairness == \A p \in Pids : WF_lifeVars(Boots(p))

LifeSpec == LifeInit /\ [][LifeNext]_lifeVars /\ BootFairness

-----------------------------------------------------------------------------
\* The variables have their types.
LifeTypeOK ==
    /\ proc \in [Pids -> {"free", "checking", "starting", "serving", "bridge", "dying", "stranger"}]
    /\ started \in [Pids -> 0 .. Len(ChannelList)]
    /\ login \in [Pids -> BOOLEAN] /\ waiting \in [Pids -> BOOLEAN]
    /\ {pidFile, bridgeFile} \subseteq Pids \cup {NoPid}
    /\ {agentsFile, byHand, orphans, command.made} \subseteq SUBSET Pids

Recorded == agentsFile \cup ({pidFile, bridgeFile} \cap Pids)

\* Whatever was started in the background and runs is written in a file, or about
\* to be, so that stop can reach it; but for what a killed command had not written.
EveryProcessIsReached ==
    \A p \in Pids :
        p \in Gateways \/ proc[p] = "bridge"
           => p \in Recorded \cup command.made \cup byHand \cup orphans

\* The gateways of two starts never run together, nor two bridges: a start is
\* refused while one of the last start runs, and stop does not forget one that does.
OneGeneration ==
    /\ \A p, q \in Gateways \ (byHand \cup orphans) :
          p # q => {p, q} \subseteq agentsFile \/ {p, q} \subseteq command.made
    /\ Cardinality({p \in Pids \ orphans : proc[p] = "bridge"}) <= 1

\* A gateway that starts comes to serve, or ends.
StartLeadsToService ==
    \A p \in Pids : (proc[p] = "starting") ~> (proc[p] # "starting")

\* A message that a channel published is taken by the worker, or the process ends,
\* also when the other channels are not started yet.
MessagesAreTaken == \A p \in Pids : waiting[p] ~> ~waiting[p]
==============================================================================
