-------------------------- MODULE GatewayLife_proofs --------------------------
(***************************************************************************)
(* What holds of the gateway's processes, of the files in which the        *)
(* commands remember them and of the check of MCP servers, for any number  *)
(* of pids, agents, channels and servers.                                  *)
(***************************************************************************)
EXTENDS MCGatewayLife, FiniteSetTheorems, TLAPS

-----------------------------------------------------------------------------
(* GatewayLife *)

Kinds == {"none", "start", "stop", "bridge", "bridge stop"}

Commands == [kind : Kinds, made : SUBSET Pids, agents : AgentCounts \cup {0}, restart : BOOLEAN]

LifeTypes ==
  /\ proc \in [Pids -> {"free", "checking", "starting", "serving", "bridge", "dying", "stranger"}]
  /\ pidFile \in Pids \cup {NoPid} /\ bridgeFile \in Pids \cup {NoPid}
  /\ agentsFile \in SUBSET Pids /\ byHand \in SUBSET Pids /\ orphans \in SUBSET Pids
  /\ command \in Commands

\* A process waits for a WeChat login only in the start of that channel.
BootTypes ==
  /\ started \in [Pids -> 0 .. Len(ChannelList)]
  /\ login \in [Pids -> BOOLEAN] /\ waiting \in [Pids -> BOOLEAN]
  /\ \A p \in Pids : login[p] => /\ proc[p] = "starting" /\ started[p] < Len(ChannelList)
                                 /\ ChannelList[started[p] + 1] = "weixin"

\* The gateways and bridges that the commands answer for.
Ours == Gateways \ (byHand \cup orphans)
Bridges == {p \in Pids \ orphans : proc[p] = "bridge"}

\* A command that starts nothing yet has made nothing; one gateway is made where no
\* agents are, one bridge in any case; while gateways start, no agents are recorded,
\* and while a bridge starts, no bridge is.
CommandInv ==
  /\ IsFiniteSet(command.made)
  /\ command.made # {} => command.kind = "bridge" \/ (command.kind = "start" /\ ~command.restart)
  /\ command.agents = 0 \/ command.kind = "bridge" => \A p, q \in command.made : p = q
  /\ command.kind = "start" => agentsFile = {}
  /\ command.kind = "bridge" => bridgeFile = NoPid

\* gateway.pid names no gateway of ours once stop has sent its signal, nor, but for one
\* just made, once start has looked at it.
PidFileInv ==
  /\ command.kind = "stop" /\ agentsFile = {} => pidFile \notin Ours
  /\ command.kind = "start" /\ ~command.restart => pidFile \notin Ours \ command.made

\* Each process is in the file of its kind, or made by the command at work.
WrittenDown ==
  /\ \A p \in Ours : p \in agentsFile \/ p = pidFile \/ (command.kind = "start" /\ p \in command.made)
  /\ \A p \in Bridges : p = bridgeFile \/ (command.kind = "bridge" /\ p \in command.made)

Together ==
  \A p, q \in Ours : p # q => {p, q} \subseteq agentsFile \/ {p, q} \subseteq command.made

LifeInv == LifeTypes /\ BootTypes /\ CommandInv /\ PidFileInv /\ WrittenDown /\ Together


\* A step of the system or of a gateway: no file and no command changes, and nothing
\* is ours that was not.
Quiet ==
  /\ UNCHANGED <<files, command>>
  /\ Ours' \subseteq Ours /\ Bridges' \subseteq Bridges

LEMMA QuietFacts ==
  ASSUME LifeTypes, NEW p \in Pids,
         \/ Dies(p) \/ Reuse(p) \/ RunByHand(p) \/ ChecksPass(p) \/ ChannelStarts(p)
         \/ LoginBegins(p) \/ LoginEnds(p) \/ Arrives(p) \/ StartsToServe(p) \/ Takes(p)
  PROVE  Quiet
<1>0. proc \in [Pids -> {"free", "checking", "starting", "serving", "bridge", "dying", "stranger"}]
  BY DEF LifeTypes
<1>1. CASE Dies(p)
  <2>1. /\ UNCHANGED <<files, command>>
        /\ \A q \in Pids : proc'[q] = IF q = p THEN "free" ELSE proc[q]
        /\ byHand' = byHand \ {p} /\ orphans' = orphans \ {p}
    BY <1>0, <1>1 DEF Dies, Ends
  <2> QED
    BY <2>1 DEF Quiet, Ours, Bridges, Gateways
<1>2. CASE Reuse(p)
  <2>1. /\ UNCHANGED <<files, command, byHand, orphans>>
        /\ \A q \in Pids : proc'[q] = IF q = p THEN "stranger" ELSE proc[q]
    BY <1>0, <1>2 DEF Reuse
  <2> QED
    BY <2>1 DEF Quiet, Ours, Bridges, Gateways
<1>3. CASE RunByHand(p)
  <2>1. /\ UNCHANGED <<files, command, orphans>>
        /\ \A q \in Pids : proc'[q] = IF q = p THEN "checking" ELSE proc[q]
        /\ byHand = {} /\ byHand' = {p}
    BY <1>0, <1>3 DEF RunByHand, Popen
  <2> QED
    BY <2>1 DEF Quiet, Ours, Bridges, Gateways
<1>4. CASE ChecksPass(p) \/ StartsToServe(p)
  <2>1. /\ UNCHANGED <<files, command, byHand, orphans>>
        /\ proc[p] \in {"checking", "starting"}
        /\ \A q \in Pids : q # p => proc'[q] = proc[q]
        /\ proc'[p] \in {"starting", "serving"}
    BY <1>0, <1>4 DEF ChecksPass, StartsToServe
  <2> QED
    BY <2>1 DEF Quiet, Ours, Bridges, Gateways
<1>5. CASE ChannelStarts(p) \/ LoginBegins(p) \/ LoginEnds(p) \/ Arrives(p) \/ Takes(p)
  BY <1>5 DEF ChannelStarts, LoginBegins, LoginEnds, Arrives, Takes, Quiet, Ours, Bridges, Gateways
<1> QED
  BY <1>1, <1>2, <1>3, <1>4, <1>5

\* A signal ends what it is sent to, and nothing else.
LEMMA SignalFacts ==
  ASSUME LifeTypes, NEW S, Terminate(S), UNCHANGED <<byHand, orphans>>
  PROVE  Ours' \subseteq Ours \ S /\ Bridges' \subseteq Bridges \ S
<1>1. \A q \in Pids : proc'[q] = IF q \in S THEN "dying" ELSE proc[q]
  BY DEF Terminate
<1> QED
  BY <1>1 DEF Ours, Bridges, Gateways

\* What a command makes is ours.
LEMMA SpawnFacts ==
  ASSUME LifeTypes, NEW p \in Pids, SpawnGateway(p) \/ SpawnBridge(p)
  PROVE  /\ UNCHANGED <<files, byHand, orphans>>
         /\ command'.made = command.made \cup {p}
         /\ command'.kind = command.kind /\ command'.restart = command.restart
         /\ command'.agents = command.agents
         /\ SpawnGateway(p) => Ours' \subseteq Ours \cup {p} /\ Bridges' \subseteq Bridges
         /\ SpawnBridge(p) => Ours' \subseteq Ours /\ Bridges' \subseteq Bridges \cup {p}
<1>0. /\ proc \in [Pids -> {"free", "checking", "starting", "serving", "bridge", "dying", "stranger"}]
      /\ command \in Commands
  BY DEF LifeTypes
<1>1. /\ UNCHANGED <<files, byHand, orphans>>
  BY DEF SpawnGateway, SpawnBridge
<1>2. CASE SpawnGateway(p)
  <2>1. \A q \in Pids : proc'[q] = IF q = p THEN "checking" ELSE proc[q]
    BY <1>0, <1>2 DEF SpawnGateway, Popen
  <2>2. Ours' \subseteq Ours \cup {p} /\ Bridges' \subseteq Bridges
    BY <1>1, <2>1 DEF Ours, Bridges, Gateways
  <2>3. /\ command'.made = command.made \cup {p} /\ command'.kind = command.kind
        /\ command'.restart = command.restart /\ command'.agents = command.agents
    BY <1>0, <1>2 DEF SpawnGateway, Commands
  <2>4. ~SpawnBridge(p)
    BY <1>2 DEF SpawnGateway, SpawnBridge
  <2> QED
    BY <1>1, <2>2, <2>3, <2>4
<1>3. CASE SpawnBridge(p)
  <2>1. \A q \in Pids : proc'[q] = IF q = p THEN "bridge" ELSE proc[q]
    BY <1>0, <1>3 DEF SpawnBridge, Popen
  <2>2. Ours' \subseteq Ours /\ Bridges' \subseteq Bridges \cup {p}
    BY <1>1, <2>1 DEF Ours, Bridges, Gateways
  <2>3. /\ command'.made = command.made \cup {p} /\ command'.kind = command.kind
        /\ command'.restart = command.restart /\ command'.agents = command.agents
    BY <1>0, <1>3 DEF SpawnBridge, Commands
  <2>4. ~SpawnGateway(p)
    BY <1>3 DEF SpawnGateway, SpawnBridge
  <2> QED
    BY <1>1, <2>2, <2>3, <2>4
<1> QED
  BY <1>2, <1>3

\* What is ours runs, and has a pid.
LEMMA OursRun ==
  ASSUME LifeTypes
  PROVE  /\ \A p \in Ours \cup Bridges : IsRunning(p) /\ p \in Pids
         /\ Ours \cap Bridges = {}
BY LifeAssumption DEF LifeAssumption, LifeTypes, Ours, Bridges, Gateways, IsRunning

\* Every step is quiet or one of a command.
CommandStep ==
  \/ StartCommand \/ RecordGateways \/ StopCommand \/ StopCommandReturns \/ RestartCommand
  \/ StatusCommand \/ StartBridgeCommand \/ RecordBridge \/ StopBridgeCommand
  \/ StopBridgeReturns \/ CommandKilled
  \/ \E p \in Pids : SpawnGateway(p) \/ SpawnBridge(p)

\* What a command is before it begins and when it is over.
LEMMA IdleFacts ==
  /\ Idle \in Commands /\ Idle.kind = "none" /\ Idle.made = {} /\ Idle.agents = 0
  /\ "start" \in Kinds /\ "stop" \in Kinds /\ "bridge" \in Kinds /\ "bridge stop" \in Kinds
BY DEF Idle, Commands, Kinds

\* A command that begins has made nothing.
LEMMA BeginFacts ==
  ASSUME StartCommand \/ StopCommand \/ StopCommandReturns \/ StartBridgeCommand \/ StopBridgeCommand
  PROVE  /\ command' \in Commands /\ command'.made = {}
         /\ StartCommand /\ command' # Idle => command'.kind = "start"
         /\ StopCommand => command'.kind = "stop"
         /\ StopCommandReturns => command'.kind \in {"none", "start"}
         /\ StopCommandReturns /\ command'.kind = "start" => command' = [Idle EXCEPT !.kind = "start", !.restart = TRUE]
         /\ StartBridgeCommand => command'.kind = "bridge"
         /\ StopBridgeCommand => command'.kind = "bridge stop"
<1>0. /\ Idle \in Commands /\ Idle.kind = "none" /\ Idle.made = {} /\ Idle.agents = 0
      /\ "start" \in Kinds /\ "stop" \in Kinds /\ "bridge" \in Kinds /\ "bridge stop" \in Kinds
  BY IdleFacts
<1>1. ASSUME StartCommand
      PROVE  command' \in Commands /\ command'.made = {} /\ (command' # Idle => command'.kind = "start")
  <2>1. PICK n \in AgentCounts : command' \in {Idle, [Idle EXCEPT !.kind = "start", !.agents = n]}
    BY <1>1 DEF StartCommand
  <2>2. LET d == [Idle EXCEPT !.kind = "start", !.agents = n]
        IN  d \in Commands /\ d.kind = "start" /\ d.made = {}
    BY <1>0 DEF Commands
  <2> QED
    BY <1>0, <2>1, <2>2
<1>2. ASSUME StopCommand
      PROVE  command' \in Commands /\ command'.made = {} /\ command'.kind = "stop"
  <2>1. PICK again \in BOOLEAN : command' = [Idle EXCEPT !.kind = "stop", !.restart = again]
    BY <1>2 DEF StopCommand
  <2>2. LET d == [Idle EXCEPT !.kind = "stop", !.restart = again]
        IN  d \in Commands /\ d.kind = "stop" /\ d.made = {}
    BY <1>0 DEF Commands
  <2> QED
    BY <2>1, <2>2
<1>3. ASSUME StopCommandReturns
      PROVE  /\ command' \in Commands /\ command'.made = {} /\ command'.kind \in {"none", "start"}
             /\ command'.kind = "start" => command' = [Idle EXCEPT !.kind = "start", !.restart = TRUE]
  <2>1. command' \in {Idle, [Idle EXCEPT !.kind = "start", !.restart = TRUE]}
    BY <1>3 DEF StopCommandReturns
  <2>2. LET d == [Idle EXCEPT !.kind = "start", !.restart = TRUE]
        IN  d \in Commands /\ d.kind = "start" /\ d.made = {}
    BY <1>0 DEF Commands
  <2> QED
    BY <1>0, <2>1, <2>2
<1>4. ASSUME StartBridgeCommand
      PROVE  command' \in Commands /\ command'.made = {} /\ command'.kind = "bridge"
  <2>1. LET d == [Idle EXCEPT !.kind = "bridge"]
        IN  d \in Commands /\ d.kind = "bridge" /\ d.made = {}
    BY <1>0 DEF Commands
  <2> QED
    BY <1>4, <2>1 DEF StartBridgeCommand
<1>5. ASSUME StopBridgeCommand
      PROVE  command' \in Commands /\ command'.made = {} /\ command'.kind = "bridge stop"
  <2>1. LET d == [Idle EXCEPT !.kind = "bridge stop"]
        IN  d \in Commands /\ d.kind = "bridge stop" /\ d.made = {}
    BY <1>0 DEF Commands
  <2> QED
    BY <1>5, <2>1 DEF StopBridgeCommand
<1> QED
  BY <1>1, <1>2, <1>3, <1>4, <1>5

LEMMA LifeSteps ==
  ASSUME LifeTypes, [LifeNext]_lifeVars
  PROVE  Quiet \/ CommandStep
<1>1. CASE UNCHANGED lifeVars
  BY <1>1 DEF lifeVars, process, files, Quiet, Ours, Bridges, Gateways
<1> QED
  BY <1>1, QuietFacts DEF LifeNext, CommandStep

\* Steps keep the types.
LEMMA LifeTypesStep ==
  ASSUME LifeTypes, [LifeNext]_lifeVars
  PROVE  LifeTypes'
<1>0. /\ proc \in [Pids -> {"free", "checking", "starting", "serving", "bridge", "dying", "stranger"}]
      /\ pidFile \in Pids \cup {NoPid} /\ bridgeFile \in Pids \cup {NoPid}
      /\ agentsFile \in SUBSET Pids /\ byHand \in SUBSET Pids /\ orphans \in SUBSET Pids
      /\ command \in Commands
  BY DEF LifeTypes
<1>1. proc' \in [Pids -> {"free", "checking", "starting", "serving", "bridge", "dying", "stranger"}]
  <2>1. CASE \E S \in SUBSET Pids : Terminate(S)
    BY <1>0, <2>1 DEF Terminate
  <2>2. CASE \E p \in Pids, as \in {"free", "checking", "starting", "serving", "bridge", "stranger"} :
                proc' = [proc EXCEPT ![p] = as]
    <3>1. PICK p \in Pids, as \in {"free", "checking", "starting", "serving", "bridge", "stranger"} :
             proc' = [proc EXCEPT ![p] = as]
      BY <2>2
    <3>2. as \in {"free", "checking", "starting", "serving", "bridge", "dying", "stranger"}
      OBVIOUS
    <3> QED
      BY <1>0, <3>1, <3>2
  <2>3. CASE proc' = proc
    BY <1>0, <2>3
  <2>4. StopCommand \/ StopBridgeCommand => \E S \in SUBSET Pids : Terminate(S)
    <3>1. ASSUME StopCommand PROVE \E S \in SUBSET Pids : Terminate(S)
      <4>1. /\ {p \in agentsFile : IsRunning(p)} \in SUBSET Pids
            /\ {p \in {pidFile} : IsRunning(p)} \in SUBSET Pids
        BY <1>0 DEF IsRunning
      <4> QED
        BY <3>1, <4>1 DEF StopCommand
    <3>2. ASSUME StopBridgeCommand PROVE \E S \in SUBSET Pids : Terminate(S)
      <4>1. {bridgeFile} \cap {p \in Pids : IsRunning(p)} \in SUBSET Pids
        OBVIOUS
      <4> QED
        BY <3>2, <4>1 DEF StopBridgeCommand
    <3> QED
      BY <3>1, <3>2
  <2>5. ASSUME NEW p \in Pids,
               \/ Dies(p) \/ Reuse(p) \/ SpawnGateway(p) \/ SpawnBridge(p) \/ RunByHand(p)
               \/ ChecksPass(p) \/ StartsToServe(p)
        PROVE  \E as \in {"free", "checking", "starting", "serving", "bridge", "stranger"} :
                  proc' = [proc EXCEPT ![p] = as]
    BY <2>5 DEF Dies, Ends, Reuse, SpawnGateway, SpawnBridge, RunByHand, Popen, ChecksPass, StartsToServe
  <2>6. ASSUME NEW p \in Pids,
               ChannelStarts(p) \/ LoginBegins(p) \/ LoginEnds(p) \/ Arrives(p) \/ Takes(p)
        PROVE  proc' = proc
    BY <2>6 DEF ChannelStarts, LoginBegins, LoginEnds, Arrives, Takes
  <2>7. ASSUME \/ StartCommand \/ RecordGateways \/ StopCommandReturns \/ RestartCommand
               \/ StatusCommand \/ StartBridgeCommand \/ RecordBridge
               \/ StopBridgeReturns \/ CommandKilled \/ UNCHANGED lifeVars
        PROVE  proc' = proc
    BY <2>7 DEF StartCommand, RecordGateways, StopCommandReturns, RestartCommand, StatusCommand,
                StartBridgeCommand, RecordBridge, StopBridgeReturns, CommandKilled, lifeVars, process
  <2> QED
    BY <2>1, <2>2, <2>3, <2>4, <2>5, <2>6, <2>7 DEF LifeNext
<1>5. command.made \in SUBSET Pids
  BY <1>0 DEF Commands
<1>2. byHand' \in SUBSET Pids /\ orphans' \in SUBSET Pids
  <2>1. ASSUME NEW p \in Pids, Dies(p) \/ RunByHand(p)
        PROVE  byHand' \in SUBSET Pids /\ orphans' \in SUBSET Pids
    BY <1>0, <2>1 DEF Dies, Ends, RunByHand
  <2>2. ASSUME NEW p \in Pids,
               \/ Reuse(p) \/ SpawnGateway(p) \/ SpawnBridge(p) \/ ChecksPass(p) \/ StartsToServe(p)
               \/ ChannelStarts(p) \/ LoginBegins(p) \/ LoginEnds(p) \/ Arrives(p) \/ Takes(p)
        PROVE  byHand' = byHand /\ orphans' = orphans
    BY <2>2 DEF Reuse, SpawnGateway, SpawnBridge, ChecksPass, StartsToServe, ChannelStarts,
                LoginBegins, LoginEnds, Arrives, Takes
  <2>3. ASSUME \/ StartCommand \/ RecordGateways \/ StopCommand \/ StopCommandReturns \/ RestartCommand
               \/ StatusCommand \/ StartBridgeCommand \/ RecordBridge \/ StopBridgeCommand
               \/ StopBridgeReturns \/ UNCHANGED lifeVars
        PROVE  byHand' = byHand /\ orphans' = orphans
    BY <2>3 DEF StartCommand, RecordGateways, StopCommand, StopCommandReturns, RestartCommand,
                StatusCommand, StartBridgeCommand, RecordBridge, StopBridgeCommand,
                StopBridgeReturns, lifeVars, process
  <2>4. CASE CommandKilled
    BY <1>0, <1>5, <2>4 DEF CommandKilled, process
  <2> QED
    BY <1>0, <2>1, <2>2, <2>3, <2>4 DEF LifeNext
<1>3. pidFile' \in Pids \cup {NoPid} /\ bridgeFile' \in Pids \cup {NoPid} /\ agentsFile' \in SUBSET Pids
  <2>1. CASE Quiet
    BY <1>0, <2>1 DEF Quiet, files
  <2>2. CASE CommandStep
    BY <1>0, <1>5, <2>2
    DEF CommandStep, files, StartCommand, RecordGateways, StopCommand, StopCommandReturns,
        RestartCommand, StatusCommand, StartBridgeCommand, RecordBridge, StopBridgeCommand,
        StopBridgeReturns, CommandKilled, SpawnGateway, SpawnBridge
  <2> QED
    BY <2>1, <2>2, LifeSteps
<1>4. command' \in Commands
  <2>1. CASE Quiet
    BY <1>0, <2>1 DEF Quiet
  <2>2. CASE StartCommand \/ StopCommand \/ StopCommandReturns \/ StartBridgeCommand \/ StopBridgeCommand
    BY <2>2, BeginFacts
  <2>3. CASE RecordGateways \/ RecordBridge \/ StopBridgeReturns \/ CommandKilled \/ StatusCommand
    <3>1. command' \in {Idle, command}
      BY <2>3 DEF RecordGateways, RecordBridge, StopBridgeReturns, CommandKilled, StatusCommand
    <3> QED
      BY <1>0, <3>1, IdleFacts
  <2>4. CASE RestartCommand
    <3>1. PICK n \in AgentCounts : command' \in {Idle, [command EXCEPT !.restart = FALSE, !.agents = n]}
      BY <2>4 DEF RestartCommand
    <3>2. [command EXCEPT !.restart = FALSE, !.agents = n] \in Commands
      BY <1>0 DEF Commands
    <3> QED
      BY <3>1, <3>2, IdleFacts
  <2>5. CASE \E p \in Pids : SpawnGateway(p) \/ SpawnBridge(p)
    BY <1>0, <2>5 DEF SpawnGateway, SpawnBridge, Commands
  <2> QED
    BY <2>1, <2>2, <2>3, <2>4, <2>5, LifeSteps DEF CommandStep
<1> QED
  BY <1>0, <1>1, <1>2, <1>3, <1>4 DEF LifeTypes

\* The start of a restart.
LEMMA RestartFacts ==
  ASSUME LifeTypes, RestartCommand
  PROVE  /\ UNCHANGED <<process, files, orphans>> /\ command.kind = "start" /\ command.restart
         /\ \/ command' = Idle
            \/ /\ command'.kind = "start" /\ command'.made = command.made
               /\ \A p \in agentsFile \cup {pidFile} : ~IsRunning(p)
<1>1. command \in Commands
  BY DEF LifeTypes
<1>2. PICK n \in AgentCounts :
         command' = IF \E p \in agentsFile \cup {pidFile} : IsRunning(p)
                    THEN Idle ELSE [command EXCEPT !.restart = FALSE, !.agents = n]
  BY DEF RestartCommand
<1>3. LET d == [command EXCEPT !.restart = FALSE, !.agents = n]
      IN  d.kind = command.kind /\ d.made = command.made
  BY <1>1 DEF Commands
<1> QED
  BY <1>2, <1>3 DEF RestartCommand

\* Steps keep what a login waits for.
LEMMA BootTypesStep ==
  ASSUME LifeTypes, BootTypes, [LifeNext]_lifeVars
  PROVE  BootTypes'
<1>0. /\ proc \in [Pids -> {"free", "checking", "starting", "serving", "bridge", "dying", "stranger"}]
      /\ started \in [Pids -> 0 .. Len(ChannelList)] /\ Len(ChannelList) \in Nat
      /\ login \in [Pids -> BOOLEAN] /\ waiting \in [Pids -> BOOLEAN]
      /\ \A p \in Pids : login[p] => /\ proc[p] = "starting" /\ started[p] < Len(ChannelList)
                                     /\ ChannelList[started[p] + 1] = "weixin"
  BY LifeAssumption DEF LifeAssumption, LifeTypes, BootTypes
<1>1. ASSUME NEW p \in Pids, Dies(p)
      PROVE  BootTypes'
  <2>1. /\ \A q \in Pids : proc'[q] = IF q = p THEN "free" ELSE proc[q]
        /\ \A q \in Pids : started'[q] = IF q = p THEN 0 ELSE started[q]
        /\ \A q \in Pids : login'[q] = IF q = p THEN FALSE ELSE login[q]
        /\ started' \in [Pids -> 0 .. Len(ChannelList)]
        /\ login' \in [Pids -> BOOLEAN] /\ waiting' \in [Pids -> BOOLEAN]
    BY <1>0, <1>1 DEF Dies, Ends
  <2> QED
    BY <1>0, <2>1 DEF BootTypes
<1>2. ASSUME NEW p \in Pids, Reuse(p) \/ SpawnGateway(p) \/ SpawnBridge(p) \/ RunByHand(p)
      PROVE  BootTypes'
  <2>1. UNCHANGED <<started, login, waiting>> /\ proc[p] = "free"
        /\ \A q \in Pids : q # p => proc'[q] = proc[q]
    BY <1>0, <1>2 DEF Reuse, SpawnGateway, SpawnBridge, RunByHand, Popen
  <2> QED
    BY <1>0, <2>1 DEF BootTypes
<1>3. ASSUME NEW p \in Pids, ChecksPass(p) \/ StartsToServe(p)
      PROVE  BootTypes'
  <2>1. UNCHANGED <<started, login, waiting>> /\ ~login[p]
        /\ \A q \in Pids : q # p => proc'[q] = proc[q]
    <3>1. CASE ChecksPass(p)
      BY <1>0, <3>1 DEF ChecksPass
    <3>2. CASE StartsToServe(p)
      BY <1>0, <3>2 DEF StartsToServe
    <3> QED
      BY <1>3, <3>1, <3>2
  <2> QED
    BY <1>0, <2>1 DEF BootTypes
<1>4. ASSUME NEW p \in Pids, ChannelStarts(p) \/ LoginEnds(p)
      PROVE  BootTypes'
  <2>1. /\ proc[p] = "starting" /\ started[p] < Len(ChannelList)
        /\ UNCHANGED <<proc, waiting>> /\ started' = [started EXCEPT ![p] = @ + 1]
        /\ login' = [login EXCEPT ![p] = FALSE]
    <3>1. CASE ChannelStarts(p)
      <4>1. proc[p] = "starting" /\ started[p] < Len(ChannelList)
            /\ UNCHANGED <<proc, waiting, login>> /\ started' = [started EXCEPT ![p] = @ + 1]
        BY <3>1 DEF ChannelStarts, More
      <4>2. ~login[p]
        BY <1>0, <3>1 DEF ChannelStarts, NextChannel
      <4>3. login = [login EXCEPT ![p] = FALSE]
        BY <1>0, <4>2
      <4> QED
        BY <4>1, <4>3
    <3>2. CASE LoginEnds(p)
      BY <1>0, <3>2 DEF LoginEnds
    <3> QED
      BY <1>4, <3>1, <3>2
  <2>2. /\ \A q \in Pids : started'[q] = IF q = p THEN started[q] + 1 ELSE started[q]
        /\ \A q \in Pids : login'[q] = IF q = p THEN FALSE ELSE login[q]
        /\ login' \in [Pids -> BOOLEAN]
    BY <1>0, <2>1
  <2>3. started' \in [Pids -> 0 .. Len(ChannelList)]
    BY <1>0, <2>1
  <2> QED
    BY <1>0, <2>1, <2>2, <2>3 DEF BootTypes
<1>5. ASSUME NEW p \in Pids, LoginBegins(p)
      PROVE  BootTypes'
  <2>1. /\ UNCHANGED <<proc, started, waiting>>
        /\ \A q \in Pids : login'[q] = IF q = p THEN TRUE ELSE login[q]
        /\ login' \in [Pids -> BOOLEAN]
        /\ proc[p] = "starting" /\ started[p] < Len(ChannelList) /\ ChannelList[started[p] + 1] = "weixin"
    BY <1>0, <1>5 DEF LoginBegins, More, NextChannel
  <2> QED
    BY <1>0, <2>1 DEF BootTypes
<1>6. ASSUME NEW p \in Pids, Arrives(p) \/ Takes(p)
      PROVE  BootTypes'
  <2>1. UNCHANGED <<proc, started, login>> /\ waiting' \in [Pids -> BOOLEAN]
    BY <1>0, <1>6 DEF Arrives, Takes
  <2> QED
    BY <1>0, <2>1 DEF BootTypes
<1>7. ASSUME NEW S, Terminate(S) PROVE BootTypes'
  <2>1. /\ \A q \in Pids : proc'[q] = IF q \in S THEN "dying" ELSE proc[q]
        /\ \A q \in Pids : started'[q] = IF q \in S THEN 0 ELSE started[q]
        /\ started' \in [Pids -> 0 .. Len(ChannelList)]
    BY <1>0, <1>7 DEF Terminate
  <2>2. /\ login' \in [Pids -> BOOLEAN] /\ waiting' \in [Pids -> BOOLEAN]
        /\ \A q \in Pids : login'[q] => login[q] /\ q \notin S
    BY <1>0, <1>7, Zenon DEF Terminate
  <2> QED
    BY <1>0, <2>1, <2>2 DEF BootTypes
<1>8. StopCommand \/ StopBridgeCommand => \E S : Terminate(S)
  BY DEF StopCommand, StopBridgeCommand
<1>9. ASSUME \/ StartCommand \/ RecordGateways \/ StopCommandReturns \/ RestartCommand
             \/ StatusCommand \/ StartBridgeCommand \/ RecordBridge
             \/ StopBridgeReturns \/ CommandKilled \/ UNCHANGED lifeVars
      PROVE  BootTypes'
  <2>1. UNCHANGED <<proc, started, login, waiting>>
    BY <1>9 DEF StartCommand, RecordGateways, StopCommandReturns, RestartCommand, StatusCommand,
                StartBridgeCommand, RecordBridge, StopBridgeReturns, CommandKilled, lifeVars, process
  <2> QED
    BY <1>0, <2>1 DEF BootTypes
<1> QED
  BY <1>1, <1>2, <1>3, <1>4, <1>5, <1>6, <1>7, <1>8, <1>9 DEF LifeNext

\* Steps keep what a command has made in its bounds.
LEMMA CommandInvStep ==
  ASSUME LifeTypes, CommandInv, [LifeNext]_lifeVars
  PROVE  CommandInv'
<1>0. IsFiniteSet({}) /\ Idle.kind = "none" /\ Idle.made = {}
  BY IdleFacts, FS_EmptySet
<1>1. CASE Quiet
  BY <1>1 DEF Quiet, files, CommandInv
<1>2. CASE StartCommand \/ StopCommand \/ StopCommandReturns \/ StartBridgeCommand \/ StopBridgeCommand
  <2>1. command'.made = {}
    BY <1>2, BeginFacts
  <2>2. ASSUME command'.kind = "start" PROVE agentsFile' = {}
    <3>1. CASE StartCommand
      <4>1. command' # Idle
        BY <1>0, <2>2
      <4> QED
        BY <3>1, <4>1 DEF StartCommand
    <3>2. CASE StopCommandReturns
      <4>1. command' # Idle
        BY <1>0, <2>2
      <4> QED
        BY <3>2, <4>1 DEF StopCommandReturns
    <3> QED
      BY <1>2, <2>2, <3>1, <3>2, BeginFacts
  <2>3. ASSUME command'.kind = "bridge" PROVE bridgeFile' = NoPid
    <3>1. StartBridgeCommand
      <4>1. ~StartCommand
        BY <1>0, <2>3, BeginFacts
      <4> QED
        BY <1>2, <2>3, <4>1, BeginFacts
    <3> QED
      BY <3>1 DEF StartBridgeCommand
  <2> QED
    BY <1>0, <2>1, <2>2, <2>3 DEF CommandInv
<1>3. CASE RecordGateways \/ RecordBridge \/ StopBridgeReturns \/ CommandKilled
  <2>1. command' = Idle
    BY <1>3 DEF RecordGateways, RecordBridge, StopBridgeReturns, CommandKilled
  <2> QED
    BY <1>0, <2>1 DEF CommandInv
<1>4. CASE StatusCommand
  BY <1>4 DEF StatusCommand, CommandInv
<1>5. CASE RestartCommand
  <2>1. /\ UNCHANGED <<agentsFile, bridgeFile>> /\ command.kind = "start" /\ command.restart
        /\ command' = Idle \/ (command'.kind = "start" /\ command'.made = command.made)
    BY <1>5, RestartFacts DEF files
  <2>2. command.made = {}
    BY <2>1 DEF CommandInv
  <2> QED
    BY <1>0, <2>1, <2>2 DEF CommandInv
<1>6. ASSUME NEW p \in Pids, SpawnGateway(p) \/ SpawnBridge(p)
      PROVE  CommandInv'
  <2>1. /\ UNCHANGED <<agentsFile, bridgeFile>>
        /\ command'.made = command.made \cup {p}
        /\ command'.kind = command.kind /\ command'.restart = command.restart
        /\ command'.agents = command.agents
    BY <1>6, SpawnFacts DEF files
  <2>2. IsFiniteSet(command.made)
    BY DEF CommandInv
  <2>3. IsFiniteSet(command'.made)
    BY <2>1, <2>2, FS_AddElement
  <2>4. CASE SpawnGateway(p)
    <3>1. command.kind = "start" /\ ~command.restart
      BY <2>4 DEF SpawnGateway
    <3>2. ASSUME command.agents = 0 PROVE command.made = {}
      <4>1. Cardinality(command.made) < 1
        BY <2>4, <3>2 DEF SpawnGateway
      <4>2. Cardinality(command.made) = 0
        BY <2>2, <4>1, FS_CardinalityType
      <4> QED
        BY <2>2, <4>2, FS_EmptySet
    <3> QED
      BY <2>1, <2>3, <3>1, <3>2 DEF CommandInv
  <2>5. CASE SpawnBridge(p)
    <3>1. command.kind = "bridge" /\ command.made = {}
      BY <2>5 DEF SpawnBridge
    <3> QED
      BY <2>1, <2>3, <3>1 DEF CommandInv
  <2> QED
    BY <1>6, <2>4, <2>5
<1> QED
  BY <1>1, <1>2, <1>3, <1>4, <1>5, <1>6, LifeSteps DEF CommandStep

\* Steps of the commands that neither signal nor make anything leave what is ours.
LEMMA FileSteps ==
  ASSUME \/ StartCommand \/ RecordGateways \/ StopCommandReturns \/ RestartCommand
         \/ StatusCommand \/ StartBridgeCommand \/ RecordBridge \/ StopBridgeReturns
  PROVE  Ours' = Ours /\ Bridges' = Bridges
BY DEF StartCommand, RecordGateways, StopCommandReturns, RestartCommand, StatusCommand,
       StartBridgeCommand, RecordBridge, StopBridgeReturns, process, Ours, Bridges, Gateways

\* What a killed command has made is nobody's.
LEMMA KilledFacts ==
  ASSUME LifeTypes, CommandKilled
  PROVE  /\ UNCHANGED files /\ command' = Idle
         /\ Ours' \subseteq Ours \ command.made /\ Bridges' \subseteq Bridges \ command.made
BY DEF LifeTypes, CommandKilled, process, Ours, Bridges, Gateways

\* What the commands signal.
LEMMA StopFacts ==
  ASSUME LifeTypes
  PROVE  /\ StopCommand => /\ UNCHANGED files
                           /\ Ours' \subseteq Ours /\ Bridges' \subseteq Bridges
                           /\ agentsFile = {} => pidFile \notin Ours'
         /\ StopBridgeCommand => UNCHANGED files /\ Ours' \subseteq Ours /\ Bridges' \subseteq Bridges
<1>1. ASSUME StopCommand
      PROVE  /\ UNCHANGED files /\ Ours' \subseteq Ours /\ Bridges' \subseteq Bridges
             /\ agentsFile = {} => pidFile \notin Ours'
  <2> DEFINE S == IF agentsFile # {} THEN {p \in agentsFile : IsRunning(p)}
                  ELSE {p \in {pidFile} : IsRunning(p)}
  <2>1. Terminate(S) /\ UNCHANGED <<byHand, files, orphans>>
    BY <1>1 DEF StopCommand
  <2>2. Ours' \subseteq Ours \ S /\ Bridges' \subseteq Bridges \ S
    BY <2>1, SignalFacts
  <2>3. pidFile \in Ours => IsRunning(pidFile)
    BY OursRun
  <2> QED
    BY <2>1, <2>2, <2>3
<1>2. ASSUME StopBridgeCommand
      PROVE  UNCHANGED files /\ Ours' \subseteq Ours /\ Bridges' \subseteq Bridges
  <2> DEFINE S == {bridgeFile} \cap {p \in Pids : IsRunning(p)}
  <2>1. Terminate(S) /\ UNCHANGED <<byHand, files, orphans>>
    BY <1>2 DEF StopBridgeCommand
  <2> QED
    BY <2>1, SignalFacts
<1> QED
  BY <1>1, <1>2

\* Steps keep gateway.pid from naming what start and stop have dealt with.
LEMMA PidFileStep ==
  ASSUME LifeTypes, CommandInv, PidFileInv, [LifeNext]_lifeVars
  PROVE  PidFileInv'
<1>0. Idle.kind = "none" /\ NoPid \notin Ours /\ NoPid \notin Ours'
  BY IdleFacts, LifeAssumption DEF LifeAssumption, Ours, Gateways
<1>1. CASE Quiet
  BY <1>1 DEF Quiet, files, PidFileInv
<1>2. CASE StartCommand
  <2>1. Ours' = Ours /\ (command' # Idle => command'.kind = "start")
    BY <1>2, FileSteps, BeginFacts
  <2>2. command' # Idle => pidFile' = NoPid
    BY <1>2 DEF StartCommand
  <2> QED
    BY <1>0, <2>1, <2>2 DEF PidFileInv
<1>3. CASE StopCommand
  BY <1>3, StopFacts, BeginFacts DEF PidFileInv, files
<1>4. CASE StopCommandReturns
  <2>1. command'.kind \in {"none", "start"}
        /\ (command'.kind = "start" => command' = [Idle EXCEPT !.kind = "start", !.restart = TRUE])
    BY <1>4, BeginFacts
  <2>2. [Idle EXCEPT !.kind = "start", !.restart = TRUE].restart
    BY DEF Idle
  <2> QED
    BY <2>1, <2>2 DEF PidFileInv
<1>5. CASE StartBridgeCommand \/ StopBridgeCommand
  BY <1>5, BeginFacts DEF PidFileInv
<1>6. CASE RecordGateways \/ RecordBridge \/ StopBridgeReturns \/ CommandKilled
  <2>1. command' = Idle
    BY <1>6 DEF RecordGateways, RecordBridge, StopBridgeReturns, CommandKilled
  <2> QED
    BY <1>0, <2>1 DEF PidFileInv
<1>7. CASE StatusCommand
  <2>1. command.kind = "none" /\ command' = command
    BY <1>0, <1>7 DEF StatusCommand
  <2> QED
    BY <2>1 DEF PidFileInv
<1>8. CASE RestartCommand
  <2>1. /\ pidFile' = pidFile
        /\ command' = Idle \/ (command'.kind = "start" /\ ~IsRunning(pidFile))
    BY <1>8, RestartFacts DEF files
  <2>2. Ours' = Ours
    BY <1>8, FileSteps
  <2>3. pidFile \in Ours => IsRunning(pidFile)
    BY OursRun
  <2> QED
    BY <1>0, <2>1, <2>2, <2>3 DEF PidFileInv
<1>9. ASSUME NEW p \in Pids, SpawnGateway(p) \/ SpawnBridge(p)
      PROVE  PidFileInv'
  <2>1. /\ UNCHANGED <<agentsFile, pidFile>>
        /\ command'.made = command.made \cup {p}
        /\ command'.kind = command.kind /\ command'.restart = command.restart
        /\ Ours' \subseteq Ours \cup {p}
        /\ command.kind # "stop"
    BY <1>9, SpawnFacts DEF files, SpawnGateway, SpawnBridge
  <2> QED
    BY <2>1 DEF PidFileInv
<1> QED
  BY <1>1, <1>2, <1>3, <1>4, <1>5, <1>6, <1>7, <1>8, <1>9, LifeSteps DEF CommandStep

\* Where gateways start, all of ours are those just made.
LEMMA OursAreMade ==
  ASSUME CommandInv, PidFileInv, WrittenDown, command.kind = "start", ~command.restart
  PROVE  Ours \subseteq command.made
BY DEF CommandInv, PidFileInv, WrittenDown

\* Where a bridge starts, all of them are the one just made.
LEMMA BridgesAreMade ==
  ASSUME CommandInv, WrittenDown, command.kind = "bridge"
  PROVE  Bridges \subseteq command.made
BY LifeAssumption DEF LifeAssumption, CommandInv, WrittenDown, Bridges

\* Steps keep each process in its file.
LEMMA WrittenDownStep ==
  ASSUME LifeTypes, CommandInv, PidFileInv, WrittenDown, [LifeNext]_lifeVars
  PROVE  WrittenDown'
<1>0. Idle.kind = "none"
  BY IdleFacts
<1>1. CASE Quiet
  BY <1>1 DEF Quiet, files, WrittenDown
<1>2. CASE StartCommand
  <2>1. Ours' = Ours /\ Bridges' = Bridges /\ command.kind = "none" /\ bridgeFile' = bridgeFile
    BY <1>0, <1>2, FileSteps DEF StartCommand
  <2>2. \A p \in Ours : p \in agentsFile => agentsFile' = agentsFile
    BY <1>2, OursRun DEF StartCommand
  <2>3. \A p \in Ours : p = pidFile => pidFile' = pidFile
    BY <1>2, OursRun DEF StartCommand
  <2> QED
    BY <2>1, <2>2, <2>3 DEF WrittenDown
<1>3. CASE RecordGateways
  <2>1. Ours' = Ours /\ Bridges' = Bridges /\ bridgeFile' = bridgeFile /\ command.kind = "start"
    BY <1>3, FileSteps DEF RecordGateways
  <2>2. Ours \subseteq command.made
    BY <1>3, OursAreMade DEF RecordGateways
  <2>3. CASE command.agents = 0
    <3>1. command.made # {} => pidFile' \in command.made
      BY <1>3, <2>3 DEF RecordGateways
    <3>2. \A p, q \in command.made : p = q
      BY <2>3 DEF CommandInv
    <3> QED
      BY <2>1, <2>2, <3>1, <3>2 DEF WrittenDown
  <2>4. CASE command.agents # 0
    <3>1. command.made # {} => agentsFile' = command.made
      BY <1>3, <2>4 DEF RecordGateways
    <3> QED
      BY <2>1, <2>2, <3>1 DEF WrittenDown
  <2> QED
    BY <2>3, <2>4
<1>4. CASE StopCommand \/ StopBridgeCommand
  <2>1. UNCHANGED files /\ Ours' \subseteq Ours /\ Bridges' \subseteq Bridges
    BY <1>4, StopFacts
  <2>2. command.kind = "none"
    BY <1>0, <1>4 DEF StopCommand, StopBridgeCommand
  <2> QED
    BY <2>1, <2>2 DEF WrittenDown, files
<1>5. CASE StopCommandReturns
  <2>1. Ours' = Ours /\ Bridges' = Bridges /\ command.kind = "stop" /\ bridgeFile' = bridgeFile
    BY <1>5, FileSteps DEF StopCommandReturns
  <2>2. \A p \in Ours : p \in agentsFile => p \in agentsFile'
    BY <1>5, OursRun DEF StopCommandReturns
  <2>3. \A p \in Ours : p = pidFile => p \in agentsFile \/ pidFile' = pidFile
    BY <1>5, <2>1 DEF StopCommandReturns, PidFileInv
  <2> QED
    BY <2>1, <2>2, <2>3 DEF WrittenDown
<1>6. CASE RestartCommand
  <2>1. Ours' = Ours /\ Bridges' = Bridges /\ UNCHANGED files /\ command.kind = "start"
        /\ command.restart
    BY <1>6, FileSteps, RestartFacts
  <2>2. command.made = {}
    BY <2>1 DEF CommandInv
  <2> QED
    BY <2>1, <2>2 DEF WrittenDown, files
<1>7. CASE StatusCommand
  <2>1. Ours' = Ours /\ Bridges' = Bridges /\ UNCHANGED <<agentsFile, bridgeFile, command>>
    BY <1>7, FileSteps DEF StatusCommand
  <2>2. pidFile \notin Ours
    BY <1>7, OursRun DEF StatusCommand
  <2> QED
    BY <2>1, <2>2 DEF WrittenDown
<1>8. CASE StartBridgeCommand
  <2>1. Ours' = Ours /\ Bridges' = Bridges /\ UNCHANGED <<agentsFile, pidFile>> /\ command.kind = "none"
    BY <1>0, <1>8, FileSteps DEF StartBridgeCommand
  <2>2. bridgeFile \notin Bridges
    BY <1>8, OursRun DEF StartBridgeCommand
  <2> QED
    BY <2>1, <2>2 DEF WrittenDown
<1>9. CASE RecordBridge
  <2>1. Ours' = Ours /\ Bridges' = Bridges /\ UNCHANGED <<agentsFile, pidFile>> /\ command.kind = "bridge"
    BY <1>9, FileSteps DEF RecordBridge
  <2>2. Bridges \subseteq command.made /\ \A p, q \in command.made : p = q
    BY <2>1, BridgesAreMade DEF CommandInv
  <2>3. command.made # {} => bridgeFile' \in command.made
    BY <1>9 DEF RecordBridge
  <2> QED
    BY <2>1, <2>2, <2>3 DEF WrittenDown
<1>10. CASE StopBridgeReturns
  <2>1. Ours' = Ours /\ Bridges' = Bridges /\ UNCHANGED <<agentsFile, pidFile>> /\ command.kind = "bridge stop"
    BY <1>10, FileSteps DEF StopBridgeReturns
  <2>2. bridgeFile \in Bridges => bridgeFile' = bridgeFile
    BY <1>10, OursRun DEF StopBridgeReturns
  <2> QED
    BY <2>1, <2>2 DEF WrittenDown
<1>11. CASE CommandKilled
  BY <1>11, KilledFacts DEF WrittenDown, files
<1>12. ASSUME NEW p \in Pids, SpawnGateway(p) \/ SpawnBridge(p)
       PROVE  WrittenDown'
  <2>1. /\ UNCHANGED <<agentsFile, pidFile, bridgeFile>>
        /\ command'.made = command.made \cup {p} /\ command'.kind = command.kind
        /\ SpawnGateway(p) => Ours' \subseteq Ours \cup {p} /\ Bridges' \subseteq Bridges
        /\ SpawnBridge(p) => Ours' \subseteq Ours /\ Bridges' \subseteq Bridges \cup {p}
    BY <1>12, SpawnFacts DEF files
  <2>2. /\ SpawnGateway(p) => command.kind = "start"
        /\ SpawnBridge(p) => command.kind = "bridge"
    BY DEF SpawnGateway, SpawnBridge
  <2> QED
    BY <1>12, <2>1, <2>2 DEF WrittenDown
<1> QED
  BY <1>1, <1>2, <1>3, <1>4, <1>5, <1>6, <1>7, <1>8, <1>9, <1>10, <1>11, <1>12, LifeSteps
  DEF CommandStep

\* Steps keep the gateways that run together those of one start.
LEMMA TogetherStep ==
  ASSUME LifeTypes, CommandInv, PidFileInv, WrittenDown, Together, [LifeNext]_lifeVars
  PROVE  Together'
<1>1. CASE Quiet
  BY <1>1 DEF Quiet, files, Together
<1>2. CASE StartCommand
  <2>1. Ours' = Ours /\ command.made = {}
    BY <1>2, FileSteps, IdleFacts DEF StartCommand
  <2>2. \A p \in Ours : p \in agentsFile => agentsFile' = agentsFile
    BY <1>2, OursRun DEF StartCommand
  <2> QED
    BY <2>1, <2>2 DEF Together
<1>3. CASE RecordGateways
  <2>1. Ours' = Ours
    BY <1>3, FileSteps
  <2>2. Ours \subseteq command.made
    BY <1>3, OursAreMade DEF RecordGateways
  <2>3. CASE command.agents = 0
    BY <2>1, <2>2, <2>3 DEF CommandInv, Together
  <2>4. CASE command.agents # 0
    BY <1>3, <2>1, <2>2, <2>4 DEF RecordGateways, Together
  <2> QED
    BY <2>3, <2>4
<1>4. CASE StopCommand \/ StopBridgeCommand
  <2>1. UNCHANGED files /\ Ours' \subseteq Ours
    BY <1>4, StopFacts
  <2>2. command.made = {}
    BY <1>4, IdleFacts DEF StopCommand, StopBridgeCommand
  <2> QED
    BY <2>1, <2>2 DEF Together, files
<1>5. CASE StopCommandReturns
  <2>1. Ours' = Ours /\ command.made = {}
    BY <1>5, FileSteps DEF StopCommandReturns, CommandInv
  <2>2. \A p \in Ours : p \in agentsFile => p \in agentsFile'
    BY <1>5, OursRun DEF StopCommandReturns
  <2> QED
    BY <2>1, <2>2 DEF Together
<1>6. CASE RestartCommand
  <2>1. Ours' = Ours /\ agentsFile' = agentsFile /\ command.kind = "start" /\ command.restart
    BY <1>6, FileSteps, RestartFacts DEF files
  <2>2. command.made = {}
    BY <2>1 DEF CommandInv
  <2> QED
    BY <2>1, <2>2 DEF Together
<1>7. CASE StatusCommand
  BY <1>7, FileSteps DEF StatusCommand, Together
<1>8. CASE StartBridgeCommand
  <2>1. Ours' = Ours /\ agentsFile' = agentsFile /\ command.made = {}
    BY <1>8, FileSteps, IdleFacts DEF StartBridgeCommand
  <2> QED
    BY <2>1 DEF Together
<1>9. CASE RecordBridge \/ StopBridgeReturns
  <2>1. Ours' = Ours /\ agentsFile' = agentsFile
    BY <1>9, FileSteps DEF RecordBridge, StopBridgeReturns
  <2>2. \A p, q \in command.made : p = q
    BY <1>9 DEF RecordBridge, StopBridgeReturns, CommandInv
  <2> QED
    BY <2>1, <2>2 DEF Together
<1>10. CASE CommandKilled
  BY <1>10, KilledFacts DEF Together, files
<1>11. ASSUME NEW p \in Pids, SpawnGateway(p) \/ SpawnBridge(p)
       PROVE  Together'
  <2>1. /\ agentsFile' = agentsFile /\ command'.made = command.made \cup {p}
        /\ SpawnGateway(p) => Ours' \subseteq Ours \cup {p}
        /\ SpawnBridge(p) => Ours' \subseteq Ours
    BY <1>11, SpawnFacts DEF files
  <2>2. SpawnGateway(p) => Ours \subseteq command.made
    BY OursAreMade DEF SpawnGateway
  <2>3. CASE SpawnGateway(p)
    BY <2>1, <2>2, <2>3 DEF Together
  <2>4. CASE SpawnBridge(p)
    BY <2>1, <2>4 DEF Together
  <2> QED
    BY <1>11, <2>3, <2>4
<1> QED
  BY <1>1, <1>2, <1>3, <1>4, <1>5, <1>6, <1>7, <1>8, <1>9, <1>10, <1>11, LifeSteps
  DEF CommandStep

\* A step keeps the invariant.
LEMMA LifeInvStep ==
  ASSUME LifeInv, [LifeNext]_lifeVars
  PROVE  LifeInv'
BY LifeTypesStep, BootTypesStep, CommandInvStep, PidFileStep, WrittenDownStep, TogetherStep
DEF LifeInv

\* It holds at the start.
LEMMA LifeInvInit ==
  ASSUME LifeInit
  PROVE  LifeInv
<1>0. /\ proc = [p \in Pids |-> "free"] /\ started = [p \in Pids |-> 0]
      /\ login = [p \in Pids |-> FALSE] /\ waiting = [p \in Pids |-> FALSE]
      /\ byHand = {} /\ orphans = {} /\ command = Idle
      /\ pidFile = NoPid /\ agentsFile = {} /\ bridgeFile = NoPid
  BY DEF LifeInit
<1>1. LifeTypes
  BY <1>0, IdleFacts DEF LifeTypes
<1>2. BootTypes
  <2>1. Len(ChannelList) \in Nat
    BY LifeAssumption DEF LifeAssumption
  <2> QED
    BY <1>0, <2>1 DEF BootTypes
<1>3. CommandInv
  BY <1>0, IdleFacts, FS_EmptySet DEF CommandInv
<1>4. Ours = {} /\ Bridges = {}
  BY <1>0 DEF Ours, Bridges, Gateways
<1>5. PidFileInv /\ WrittenDown /\ Together
  BY <1>0, <1>4, IdleFacts DEF PidFileInv, WrittenDown, Together
<1> QED
  BY <1>1, <1>2, <1>3, <1>5 DEF LifeInv

\* What the invariant says of the properties.
LEMMA LifeInvProperties ==
  ASSUME LifeInv
  PROVE  LifeTypeOK /\ EveryProcessIsReached /\ OneGeneration
<1>1. LifeTypeOK
  <2>1. command.made \in SUBSET Pids
    BY DEF LifeInv, LifeTypes, Commands
  <2> QED
    BY <2>1 DEF LifeInv, LifeTypes, BootTypes, LifeTypeOK
<1>2. EveryProcessIsReached
  <2>1. ASSUME NEW p \in Pids, p \in Gateways
        PROVE  p \in Recorded \cup command.made \cup byHand \cup orphans
    BY <2>1 DEF LifeInv, WrittenDown, Ours, Recorded
  <2>2. ASSUME NEW p \in Pids, proc[p] = "bridge"
        PROVE  p \in Recorded \cup command.made \cup byHand \cup orphans
    BY <2>2 DEF LifeInv, WrittenDown, Bridges, Recorded
  <2> QED
    BY <2>1, <2>2 DEF EveryProcessIsReached
<1>3. \E b : Bridges \subseteq {b}
  <2>1. CASE command.kind = "bridge"
    <3>1. Bridges \subseteq command.made /\ \A p, q \in command.made : p = q
      BY <2>1, BridgesAreMade DEF LifeInv, CommandInv
    <3> QED
      BY <3>1
  <2>2. CASE command.kind # "bridge"
    BY <2>2 DEF LifeInv, WrittenDown
  <2> QED
    BY <2>1, <2>2
<1>4. Cardinality(Bridges) <= 1
  <2>1. PICK b : Bridges \subseteq {b}
    BY <1>3
  <2>2. CASE Bridges = {}
    BY <2>2, FS_EmptySet
  <2>3. CASE Bridges # {}
    <3>1. Bridges = {b}
      BY <2>1, <2>3
    <3>2. Cardinality({b}) = 1
      BY FS_Singleton
    <3> QED
      BY <3>1, <3>2
  <2> QED
    BY <2>2, <2>3
<1>5. OneGeneration
  BY <1>4 DEF LifeInv, Together, OneGeneration, Ours, Bridges
<1> QED
  BY <1>1, <1>2, <1>5

\* The files, the command at work and the processes agree, whatever dies, is killed or
\* gets whose pid.
THEOREM LifeInvariant == LifeSpec => []LifeInv
<1>1. LifeInit => LifeInv
  BY LifeInvInit
<1>2. LifeInv /\ [LifeNext]_lifeVars => LifeInv'
  BY LifeInvStep
<1> QED
  BY <1>1, <1>2, PTL DEF LifeSpec

\* Whatever was started in the background and runs can be reached by stop.
THEOREM ProcessesAreReached == LifeSpec => []EveryProcessIsReached
<1>1. LifeInv => EveryProcessIsReached
  BY LifeInvProperties
<1> QED
  BY <1>1, LifeInvariant, PTL

\* The gateways of two starts never run together, nor do two bridges.
THEOREM GenerationsDoNotMix == LifeSpec => []OneGeneration
<1>1. LifeInv => OneGeneration
  BY LifeInvProperties
<1> QED
  BY <1>1, LifeInvariant, PTL

-----------------------------------------------------------------------------
(* McpProbe *)

ProbeTypes ==
  /\ probes \in [Servers -> [at : {"none", "asking", "backing off", "done"}, attempt : 0 .. MaxAttempts,
                              status : {"unknown", "ok", "timeout", "error"}, kind : {"", "transient", "config", "unknown"}]]
  /\ status \in [Servers -> {"unknown", "available", "unavailable"}]
  /\ listed \subseteq Servers
  /\ boot \in {"off", "checking", "refused", "serving", "listed"}

\* Only a server with attempts left is asked again, and only a missing one refuses a start.
McpInv ==
  /\ ProbeTypes
  /\ \A s \in Servers : probes[s].at = "backing off" => probes[s].attempt < MaxAttempts
  /\ boot = "refused" => Missing # {}

\* Steps keep the types of the probes, and the attempts in their bounds.
LEMMA McpInvStep ==
  ASSUME McpInv, [McpNext]_mcpVars
  PROVE  McpInv'
<1> DEFINE P == [at : {"none", "asking", "backing off", "done"}, attempt : 0 .. MaxAttempts,
                 status : {"unknown", "ok", "timeout", "error"}, kind : {"", "transient", "config", "unknown"}]
           A == {"unknown", "available", "unavailable"}
<1>0. /\ MaxAttempts \in Nat \ {0}
      /\ probes \in [Servers -> P] /\ status \in [Servers -> A] /\ listed \subseteq Servers
      /\ boot \in {"off", "checking", "refused", "serving", "listed"}
      /\ \A s \in Servers : probes[s].at = "backing off" => probes[s].attempt < MaxAttempts
      /\ boot = "refused" => Missing # {}
  BY McpAssumption DEF McpAssumption, McpInv, ProbeTypes
<1>1. ASSUME NEW s \in Servers, MoodChanges(s) PROVE McpInv'
  BY <1>1 DEF MoodChanges, McpInv, ProbeTypes, Missing, Toolsets, ServerEnabled, Connects
<1>2. CASE Preflight
  <2>1. NoProbe \in P /\ [NoProbe EXCEPT !.at = "asking", !.attempt = 1] \in P
    <3>1. 0 \in 0 .. MaxAttempts /\ 1 \in 0 .. MaxAttempts
      BY McpAssumption DEF McpAssumption
    <3>2. NoProbe \in P
      BY <3>1 DEF NoProbe
    <3> QED
      BY <3>1, <3>2
  <2>2. NoProbe.at = "none" /\ [NoProbe EXCEPT !.at = "asking", !.attempt = 1].at = "asking"
    BY DEF NoProbe
  <2>3. UNCHANGED <<status, listed>> /\ boot' = "checking"
        /\ probes' = [s \in Servers |-> IF s \in Probed THEN [NoProbe EXCEPT !.at = "asking", !.attempt = 1]
                                        ELSE NoProbe]
    BY <1>2 DEF Preflight
  <2> DEFINE asking == [NoProbe EXCEPT !.at = "asking", !.attempt = 1]
  <2> HIDE DEF asking, P
  <2>4. probes' \in [Servers -> P] /\ \A s \in Servers : probes'[s] \in {NoProbe, asking}
    BY <2>1, <2>3 DEF asking
  <2>5. \A s \in Servers : probes'[s].at # "backing off"
    BY <2>2, <2>4 DEF asking
  <2> QED
    BY <1>0, <2>3, <2>4, <2>5 DEF McpInv, ProbeTypes, P
<1>3. ASSUME NEW s \in Servers, Attempt(s) PROVE McpInv'
  <2> DEFINE result == Result(mood[s])
             again == Retries(result, probes[s].attempt)
             probe == [at |-> IF again THEN "backing off" ELSE "done", attempt |-> probes[s].attempt,
                       status |-> result.status, kind |-> result.kind]
  <2>1. /\ result.status \in {"ok", "timeout", "error"}
        /\ result.kind \in {"", "transient", "config", "unknown"}
    BY DEF Result, KindOf
  <2>2. UNCHANGED <<config, required, boot, listed>>
        /\ probes' = [probes EXCEPT ![s] = probe]
        /\ \/ status' = status
           \/ \E a \in {"available", "unavailable"} : status' = [status EXCEPT ![s] = a]
    BY <1>0, <1>3 DEF Attempt
  <2>3. probe.at \in {"backing off", "done"} /\ probe.attempt = probes[s].attempt
        /\ (probe.at = "backing off" => probes[s].attempt < MaxAttempts)
    BY DEF Retries
  <2>4. probe \in P
    BY <1>0, <2>1
  <2> HIDE DEF result, again, probe
  <2>5. probes' \in [Servers -> P]
        /\ \A r \in Servers : probes'[r] = IF r = s THEN probe ELSE probes[r]
    <3> HIDE DEF P
    <3> QED
      BY <1>0, <2>2, <2>4
  <2>6. status' \in [Servers -> A]
    BY <1>0, <2>2
  <2>7. \A r \in Servers : probes'[r].at = "backing off" => probes'[r].attempt < MaxAttempts
    BY <1>0, <2>3, <2>5
  <2>8. Missing' = Missing
    BY <2>2 DEF Missing, Toolsets, ServerEnabled, Connects
  <2> QED
    BY <1>0, <2>2, <2>5, <2>6, <2>7, <2>8 DEF McpInv, ProbeTypes
<1>4. ASSUME NEW s \in Servers, BackedOff(s) PROVE McpInv'
  <2>1. UNCHANGED <<config, required, boot, status, listed>> /\ probes[s].at = "backing off"
        /\ probes' = [probes EXCEPT ![s].at = "asking", ![s].attempt = @ + 1]
    BY <1>4 DEF BackedOff
  <2>2. probes[s].attempt \in 0 .. MaxAttempts /\ probes[s].attempt + 1 \in 0 .. MaxAttempts
    <3>1. probes[s] \in P
      BY <1>0
    <3>2. probes[s].attempt \in 0 .. MaxAttempts
      BY <3>1
    <3>3. probes[s].attempt < MaxAttempts
      BY <1>0, <2>1
    <3> QED
      BY McpAssumption, <3>2, <3>3 DEF McpAssumption
  <2>3. probes' \in [Servers -> P]
        /\ probes'[s].at = "asking" /\ \A r \in Servers \ {s} : probes'[r] = probes[r]
    BY <1>0, <2>1, <2>2, ZenonT(60)
  <2>4. Missing' = Missing
    BY <2>1 DEF Missing, Toolsets, ServerEnabled, Connects
  <2> QED
    BY <1>0, <2>1, <2>3, <2>4 DEF McpInv, ProbeTypes
<1>5. CASE PreflightOver
  <2>1. UNCHANGED <<config, required, probes, status, listed>>
        /\ boot' \in {"refused", "serving"} /\ (boot' = "refused" => Missing # {})
    BY <1>5 DEF PreflightOver, Blocking
  <2>2. Missing' = Missing
    BY <2>1 DEF Missing, Toolsets, ServerEnabled, Connects
  <2> QED
    BY <1>0, <2>1, <2>2 DEF McpInv, ProbeTypes
<1>6. CASE CollectApis
  <2>1. UNCHANGED probes /\ boot' = "listed"
        /\ listed' = {s \in Probed : probes[s].status = "ok" /\ mood[s] = "up"}
        /\ status' = [s \in Servers |-> IF s \notin Probed \/ probes[s].status # "ok" THEN status[s]
                                       ELSE IF mood[s] = "up" THEN "available" ELSE "unavailable"]
    BY <1>6 DEF CollectApis
  <2>2. Probed \subseteq Servers
    BY DEF Probed, Toolsets
  <2>3. listed' \subseteq Servers /\ status' \in [Servers -> A]
    BY <1>0, <2>1, <2>2
  <2> QED
    BY <1>0, <2>1, <2>3 DEF McpInv, ProbeTypes
<1>7. ASSUME NEW s \in Servers, GetTools(s) PROVE McpInv'
  <2>1. UNCHANGED <<config, required, probes, boot, listed>>
        /\ status' = [status EXCEPT ![s] = IF mood[s] = "up" THEN "available" ELSE "unavailable"]
    BY <1>7 DEF GetTools
  <2>2. status' \in [Servers -> A]
    BY <1>0, <2>1
  <2>3. Missing' = Missing
    BY <2>1 DEF Missing, Toolsets, ServerEnabled, Connects
  <2> QED
    BY <1>0, <2>1, <2>2, <2>3 DEF McpInv, ProbeTypes
<1>8. CASE UNCHANGED mcpVars
  BY <1>8 DEF mcpVars, McpInv, ProbeTypes, Missing, Toolsets, ServerEnabled, Connects
<1> QED
  BY <1>1, <1>2, <1>3, <1>4, <1>5, <1>6, <1>7, <1>8 DEF McpNext, McpStep

\* They hold at the start.
LEMMA McpInvInit ==
  ASSUME McpInit
  PROVE  McpInv
<1>1. NoProbe \in [at : {"none", "asking", "backing off", "done"}, attempt : 0 .. MaxAttempts,
                   status : {"unknown", "ok", "timeout", "error"}, kind : {"", "transient", "config", "unknown"}]
      /\ NoProbe.at = "none"
  BY McpAssumption DEF McpAssumption, NoProbe
<1>2. /\ boot = "off" /\ listed = {}
      /\ probes = [s \in Servers |-> NoProbe] /\ status = [s \in Servers |-> "unknown"]
  BY DEF McpInit
<1> HIDE DEF NoProbe
<1> QED
  BY <1>1, <1>2 DEF McpInv, ProbeTypes

\* However the servers behave, a gateway is refused only for a required server that is
\* not configured, and no server is asked more often than allowed.
THEOREM McpInvariant == McpSpec => []McpInv
<1>1. McpInit => McpInv
  BY McpInvInit
<1>2. McpInv /\ [McpNext]_mcpVars => McpInv'
  BY McpInvStep
<1> QED
  BY <1>1, <1>2, PTL DEF McpSpec

-----------------------------------------------------------------------------
(* MCGatewayLife *)

\* The processes, their files and the check of the MCP servers beside them.
THEOREM FilesStayTrue == MCSpec => []FilesAreTrue
<1>1. MCInit => LifeInv /\ McpInv
  BY LifeInvInit, McpInvInit DEF MCInit
<1>2. LifeInv /\ McpInv /\ [MCNext]_partVars => (LifeInv /\ McpInv)'
  <2> SUFFICES ASSUME LifeInv, McpInv, [MCNext]_partVars PROVE LifeInv' /\ McpInv'
    OBVIOUS
  <2>1. [LifeNext]_lifeVars /\ [McpNext]_mcpVars
    BY DEF MCNext, partVars
  <2> QED
    BY <2>1, LifeInvStep, McpInvStep
<1>3. LifeInv /\ McpInv => FilesAreTrue
  <2> SUFFICES ASSUME LifeInv, McpInv PROVE FilesAreTrue
    OBVIOUS
  <2>1. LifeTypeOK /\ EveryProcessIsReached /\ OneGeneration
    BY LifeInvProperties
  <2>2. McpTypeOK
    BY DEF McpInv, ProbeTypes, McpTypeOK
  <2> QED
    BY <2>1, <2>2 DEF FilesAreTrue
<1> QED
  BY <1>1, <1>2, <1>3, PTL DEF MCSpec

===============================================================================
