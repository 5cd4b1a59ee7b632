-------------------------------- MODULE McpProbe --------------------------------
(***************************************************************************)
(* The MCP servers of a gateway: which of them become toolsets, the check  *)
(* of the required ones before the gateway starts, with its timeouts and   *)
(* retries, and the turns that list their tools afterwards.  Servers come  *)
(* and go as they like.                                                    *)
(***************************************************************************)
EXTENDS Integers, FiniteSets

CONSTANTS Servers,     \* the names that may be configured or required
          MaxAttempts, \* retry_attempts
          MaxChanges   \* bound: changes of the servers

ASSUME McpAssumption == MaxAttempts \in Nat \ {0} /\ MaxChanges \in Nat

Moods == {"up", "refusing", "silent", "misconfigured", "odd"}

VARIABLES
    config,   \* each server's section: "off" (none, or disabled), "empty", "server" (a command or url)
    required, \* OPENPIPIXIA_MCP_REQUIRED_SERVERS
    mood,     \* what a server does when it is asked
    purpose,  \* what is run: the "gateway", or "mcps", which lists what the servers offer
    boot,     \* "off", "checking", then "refused" or "serving", or "listed"
    probes,   \* each probe: [at, attempt, status, kind]
    status,   \* availability_status of each toolset
    listed,   \* the servers whose tools mcps shows
    nChanges

mcpVars == <<config, required, mood, purpose, boot, probes, status, listed, nChanges>>

NoProbe == [at |-> "none", attempt |-> 0, status |-> "unknown", kind |-> ""]

McpInit ==
    /\ config \in [Servers -> {"off", "empty", "server"}]
    /\ required \in SUBSET Servers
    /\ mood \in [Servers -> Moods]
    /\ purpose \in {"gateway", "mcps"} /\ boot = "off" /\ listed = {} /\ nChanges = 0
    /\ probes = [s \in Servers |-> NoProbe] /\ status = [s \in Servers |-> "unknown"]

\* _is_server_enabled, _build_connection_params, build_mcp_toolsets: what is enabled and
\* has a command or a url.
ServerEnabled(s) == config[s] # "off"
Connects(s) == config[s] # "empty"
Toolsets == {s \in Servers : ServerEnabled(s) /\ Connects(s)}

Missing == required \ Toolsets

\* The preflight asks the required servers, mcps all of them.
Probed == IF purpose = "gateway" THEN required \cap Toolsets ELSE Toolsets

MoodChanges(s) ==
    /\ boot # "off" /\ nChanges < MaxChanges /\ nChanges' = nChanges + 1
    /\ \E m \in Moods \ {mood[s]} : mood' = [mood EXCEPT ![s] = m]
    /\ UNCHANGED <<config, required, purpose, boot, probes, status, listed>>

-----------------------------------------------------------------------------
\* The probes.

\* probe_mcp_toolsets: they start together.
Preflight ==
    /\ boot = "off" /\ boot' = "checking"
    /\ probes' = [s \in Servers |-> IF s \in Probed THEN [NoProbe EXCEPT !.at = "asking", !.attempt = 1]
                                    ELSE NoProbe]
    /\ UNCHANGED <<config, required, mood, purpose, status, listed, nChanges>>

\* _classify_probe_error
KindOf(m) ==
    CASE m = "refusing" -> "transient" [] m = "misconfigured" -> "config" [] OTHER -> "unknown"

\* What an attempt comes to: wait_for ends one that gets no answer.
Result(m) ==
    CASE m = "up"     -> [status |-> "ok", kind |-> ""]
      [] m = "silent" -> [status |-> "timeout", kind |-> "transient"]
      [] OTHER        -> [status |-> "error", kind |-> KindOf(m)]

\* Only what may pass is worth another attempt.
Retries(result, attempt) == result.kind = "transient" /\ attempt < MaxAttempts

\* Mutant: an attempt waits for the answer as long as it takes.
Attempt_WithoutTimeout(s) ==
    /\ probes[s].at = "asking" /\ mood[s] # "silent"
    /\ LET result == Result(mood[s]) IN
           /\ probes' = [probes EXCEPT ![s] = [at |-> "done", attempt |-> @.attempt,
                                               status |-> result.status, kind |-> result.kind]]
           /\ status' = [status EXCEPT ![s] = IF result.status = "ok" THEN "available" ELSE "unavailable"]
    /\ UNCHANGED <<config, required, mood, purpose, boot, listed, nChanges>>

\* _probe_one_toolset: one attempt, and what is noted of the last.
Attempt(s) ==
    /\ probes[s].at = "asking"
    /\ LET result == Result(mood[s])
           again  == Retries(result, probes[s].attempt)
       IN  /\ probes' = [probes EXCEPT ![s] = [at |-> IF again THEN "backing off" ELSE "done", attempt |-> @.attempt,
                                               status |-> result.status, kind |-> result.kind]]
           /\ status' = IF again THEN status
                        ELSE [status EXCEPT ![s] = IF result.status = "ok" THEN "available" ELSE "unavailable"]
    /\ UNCHANGED <<config, required, mood, purpose, boot, listed, nChanges>>

BackedOff(s) ==
    /\ probes[s].at = "backing off"
    /\ probes' = [probes EXCEPT ![s].at = "asking", ![s].attempt = @ + 1]
    /\ UNCHANGED <<config, required, mood, purpose, boot, status, listed, nChanges>>

ProbesDone == boot = "checking" /\ \A s \in Probed : probes[s].at = "done"

\* _required_mcp_preflight, _cmd_gateway: what is configured and does not answer does
\* not keep the gateway from starting.
Blocking == Missing # {}

PreflightOver ==
    /\ ProbesDone /\ purpose = "gateway"
    /\ boot' = IF Blocking THEN "refused" ELSE "serving"
    /\ UNCHANGED <<config, required, mood, purpose, probes, status, listed, nChanges>>

\* collect_connected_mcp_apis: the servers whose probe went well are asked once more.
CollectApis ==
    /\ ProbesDone /\ purpose = "mcps"
    /\ listed' = {s \in Probed : probes[s].status = "ok" /\ mood[s] = "up"}
    /\ status' = [s \in Servers |-> IF s \notin Probed \/ probes[s].status # "ok" THEN status[s]
                                   ELSE IF mood[s] = "up" THEN "available" ELSE "unavailable"]
    /\ boot' = "listed"
    /\ UNCHANGED <<config, required, mood, purpose, probes, nChanges>>

-----------------------------------------------------------------------------
\* SafeMcpToolset.get_tools: a turn lists the tools of every toolset; of one that does
\* not answer (which is the ADK's own timeout where it is silent) there are none.
GetTools(s) ==
    /\ boot = "serving" /\ s \in Toolsets
    /\ status' = [status EXCEPT ![s] = IF mood[s] = "up" THEN "available" ELSE "unavailable"]
    /\ UNCHANGED <<config, required, mood, purpose, boot, probes, listed, nChanges>>

McpStep == Preflight \/ PreflightOver \/ CollectApis \/ \E s \in Servers : Attempt(s) \/ BackedOff(s)
McpNext == McpStep \/ \E s \in Servers : MoodChanges(s) \/ GetTools(s)
McpFairness == WF_mcpVars(McpStep)
McpSpec == McpInit /\ [][McpNext]_mcpVars /\ McpFairness

-----------------------------------------------------------------------------
\* Properties.

McpTypeOK ==
    /\ boot \in {"off", "checking", "refused", "serving", "listed"} /\ listed \subseteq Servers
    /\ \A s \in Servers : probes[s].attempt \in 0 .. MaxAttempts
    /\ \A s \in Servers : status[s] \in {"unknown", "available", "unavailable"}

\* No server keeps a gateway from starting, or a command from ending, by how it behaves:
\* the probes end, and a gateway is refused only for a server that is not configured.
ServersDoNotBlock ==
    /\ (boot = "checking") ~> (boot \in {"refused", "serving", "listed"})
    /\ [](boot = "refused" => Missing # {})
================================================================================
