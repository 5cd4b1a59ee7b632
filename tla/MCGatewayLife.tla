---------------------------- MODULE MCGatewayLife ----------------------------
(***************************************************************************)
(* The life of gateway processes, the check of MCP servers before one of   *)
(* them starts, and the heartbeat of one that runs, for TLC: a behaviour   *)
(* is one of the three.  In GatewayLife the check is a step of the         *)
(* process.  Wakes of the heartbeat are asked for by a cron job that has   *)
(* run and by the exec tool, sources of different priority; the interval   *)
(* loop is the third.                                                      *)
(***************************************************************************)
EXTENDS GatewayLife, McpProbe, HeartbeatRunner

VARIABLE part \* the module that moves

partVars == <<part, lifeVars, mcpVars, vars>>

SomeChannels == <<"polling", "weixin", "local">>
WithWecom == <<"polling", "wecom", "local">>
GatewayReasons == {"cron", "exec"}

\* The check has nothing to do where it does not move.
MCInit ==
    /\ part \in {"life", "mcp", "heartbeat"}
    /\ LifeInit /\ McpInit /\ Init
    /\ part # "mcp" =>
          /\ purpose = "gateway" /\ required = {}
          /\ \A s \in Servers : config[s] = "off" /\ mood[s] = "up"

MCNext ==
    \/ part = "life" /\ LifeNext /\ UNCHANGED <<part, mcpVars, vars>>
    \/ part = "mcp" /\ McpNext /\ UNCHANGED <<part, lifeVars, vars>>
    \/ part = "heartbeat" /\ Next /\ UNCHANGED <<part, lifeVars, mcpVars>>

\* Each module's own fairness; the module that does not move owes nothing.
MCFairness == BootFairness /\ WF_mcpVars(part = "mcp" /\ McpStep) /\ Fairness

MCSpec == MCInit /\ [][MCNext]_partVars /\ MCFairness

\* The variables have their types; and what the commands have written down of the
\* processes they started is true: each can be reached, and no two generations run.
FilesAreTrue == LifeTypeOK /\ McpTypeOK /\ EveryProcessIsReached /\ OneGeneration
==============================================================================
