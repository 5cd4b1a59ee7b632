------------------------------- MODULE BrowserTool -------------------------------
(***************************************************************************)
(* A call of the browser tool on its way: checked, dispatched to the       *)
(* runtime in this process, or by HTTP to a proxy (targets node, sandbox)  *)
(* or to the chrome relay.  Remote ends may carry a request out and their  *)
(* answer be lost; the relay has two paths for uploads and dialogs.        *)
(***************************************************************************)
EXTENDS Naturals, FiniteSets

CONSTANTS Targets, \* of {"runtime", "relay", "proxy"}; {}: no browser tool
          Listed,  \* the kinds of call the proxy's capability lists; {}: it has none
          Paths    \* how many paths the relay has for an upload or a dialog

CallKinds == {"read", "change", "hook"}  \* hook: an upload or a dialog

ASSUME ToolAssumption ==
    /\ Targets \subseteq {"runtime", "relay", "proxy"}
    /\ Listed \subseteq CallKinds /\ Paths \in Nat \ {0}

VARIABLES
    at,     \* "idle", "checked", "dispatched", "sent", "answered"
    kind,   \* what is asked for, of CallKinds
    target,
    path,   \* the relay's path that is tried
    response, \* "none", "ok", "error", "notfound", "silence", "garbled"
    reply,  \* what the tool returns: "none", "ok", "error"
    done,   \* history: how often the call was carried out
    woken   \* the call has asked for a heartbeat

toolVars == <<at, kind, target, path, response, reply, done, woken>>

ToolInit ==
    /\ at = "idle" /\ kind = "read" /\ target = "runtime" /\ path = 1
    /\ response = "none" /\ reply = "none" /\ done = 0 /\ woken = FALSE

\* timeout_ms, request, action and node make sense.
CallBrowser(k, t) ==
    /\ at = "idle" /\ t \in Targets
    /\ at' = "checked" /\ kind' = k /\ target' = t
    /\ path' = 1 /\ response' = "none" /\ reply' = "none" /\ done' = 0 /\ woken' = FALSE

Returns(r) == at' = "idle" /\ reply' = r

\* An unknown action, a node that is named for another target.
Refused ==
    /\ at = "checked"
    /\ Returns("error")
    /\ UNCHANGED <<kind, target, path, response, done, woken>>

\* A capability that is not set, no JSON or empty lists nothing, and lets all pass.
Supported(k) == Listed = {} \/ k \in Listed

\* A proxy that has no url, or does not support the action.
ProxyRefuses ==
    /\ at = "checked" /\ target = "proxy"
    /\ Returns("error")
    /\ UNCHANGED <<kind, target, path, response, done, woken>>

\* dispatch: the tokens are those of the service's start, which a token set since
\* then is not; there is a route.
DispatchDenied ==
    /\ at = "checked" /\ target # "proxy"
    /\ Returns("error")
    /\ UNCHANGED <<kind, target, path, response, done, woken>>

Dispatch ==
    /\ at = "checked" /\ target # "proxy"
    /\ at' = "dispatched"
    /\ UNCHANGED <<kind, target, path, response, reply, done, woken>>

\* The handler of the route calls the runtime: what the Browser module does in a
\* step; an error it raises may come before or after the page was changed.
Handles ==
    /\ at = "dispatched" /\ target = "runtime"
    /\ at' = "answered"
    /\ \/ response' = "ok" /\ done' = 1
       \/ response' = "error" /\ done' \in {0, 1}
    /\ UNCHANGED <<kind, target, path, reply, woken>>

\* status, start, stop, profiles, tabs
RunBasicRoute == kind # "hook" /\ Handles

\* The others; those that lack an url, paths, a kind or a decision answer 400.
RunAgentRoute == Handles

SendToProxy ==
    /\ at = "checked" /\ target = "proxy" /\ Supported(kind)
    /\ at' = "sent"
    /\ UNCHANGED <<kind, target, path, response, reply, done, woken>>

\* An act whose kind the relay does not know, that lacks its text, url, key, values,
\* fields or function, or names a reference no snapshot gave.
RelayRefuses ==
    /\ at = "dispatched" /\ target = "relay" /\ kind = "change"
    /\ at' = "answered" /\ response' = "error"
    /\ UNCHANGED <<kind, target, path, reply, done, woken>>

SendToRelay ==
    /\ at = "dispatched" /\ target = "relay"
    /\ at' = "sent"
    /\ UNCHANGED <<kind, target, path, response, reply, done, woken>>

\* The remote end: it does it or not; a 404 says that it did not.
RemoteAnswers ==
    /\ at = "sent"
    /\ at' = "answered"
    /\ \/ response' \in {"ok", "error", "silence", "garbled"} /\ done' = done + 1
       \/ response' \in {"error", "silence", "garbled", "notfound"} /\ UNCHANGED done
    /\ UNCHANGED <<kind, target, path, reply, woken>>

FallsBack_AfterAnyFailure == target = "relay" /\ kind = "hook" /\ response # "ok" /\ path < Paths

\* _relay_request_with_path_fallbacks: an upload or dialog goes to the next path
\* after a 404, and after nothing else.
FallsBack == target = "relay" /\ kind = "hook" /\ response = "notfound" /\ path < Paths

TryNextPath ==
    /\ at = "answered" /\ FallsBack
    /\ path' = path + 1 /\ at' = "dispatched" /\ response' = "none"
    /\ UNCHANGED <<kind, target, reply, done, woken>>

\* What an answer is taken for.
Parsed(r) == IF r = "ok" THEN "ok" ELSE "error"

\* The reply; a hook that went well asks for a heartbeat.
Reply ==
    /\ at = "answered" /\ ~FallsBack
    /\ Returns(Parsed(response))
    /\ woken' = (kind = "hook" /\ Parsed(response) = "ok")
    /\ UNCHANGED <<kind, target, path, response, done>>

ToolNext ==
    \/ \E k \in CallKinds, t \in Targets : CallBrowser(k, t)
    \/ Refused \/ ProxyRefuses \/ DispatchDenied \/ Dispatch
    \/ RunBasicRoute \/ RunAgentRoute
    \/ SendToProxy \/ RelayRefuses \/ SendToRelay
    \/ RemoteAnswers \/ TryNextPath \/ Reply

ToolSpec == ToolInit /\ [][ToolNext]_toolVars

-----------------------------------------------------------------------------
\* A call is carried out once at most, though it may be sent to two paths and its
\* answer be lost; and a heartbeat is asked for only after an upload or a dialog
\* that was.
OneEffectPerCall == done <= 1 /\ (woken => done = 1 /\ kind = "hook")
==============================================================================
