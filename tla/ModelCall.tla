-------------------------------- MODULE ModelCall --------------------------------
(***************************************************************************)
(* A request to the model and its way back: the callback before it makes   *)
(* the ids of tool calls and results agree and notes the request; Codex's  *)
(* answer is put together from a stream of events; the callback after it   *)
(* files the tokens used under the request noted.  Invocations (a turn, a  *)
(* sub-agent) are at it at the same time, each in a conversation.          *)
(***************************************************************************)
EXTENDS Enumeration, FiniteSetsExt, SequencesExt

CONSTANTS Invocations, \* {}: no model
          Providers,   \* of {"codex", "other"}
          GivenIds,    \* the ids that a provider gives calls, each once
          MaxRequests, MaxCalls, MaxFragments \* bounds: requests, calls and pieces of arguments

NoId == "none"

ASSUME CallAssumption ==
    /\ Providers \subseteq {"codex", "other"} /\ Providers # {}
    /\ NoId \notin GivenIds
    /\ {MaxRequests, MaxCalls, MaxFragments} \subseteq Nat

VARIABLES
    provider,
    phase,    \* of each invocation: "idle", "asked", "answered", "tools"
    nr,       \* the number of its last request
    noted,    \* _REQUEST_META_BY_INVOCATION_ID: the number of the request noted, 0: none
    contents, \* its conversation: contents, each a sequence of parts
    buffers,  \* tool_call_buffers: what has come of each call's arguments
    answer,   \* the answer: [error, text, calls, usage]
    rows      \* the rows of token_usage.db: the request noted and the one answered

callVars == <<provider, phase, nr, noted, contents, buffers, answer, rows>>

Call(id, whole) == [what |-> "call", id |-> id, of |-> id, whole |-> whole]
Text0 == [what |-> "text", id |-> NoId, of |-> NoId, whole |-> TRUE]
NoAnswer == [error |-> FALSE, text |-> FALSE, calls |-> <<>>, usage |-> FALSE]

CallInit ==
    /\ provider \in Providers
    /\ phase = [i \in Invocations |-> "idle"] /\ nr = [i \in Invocations |-> 0]
    /\ noted = [i \in Invocations |-> 0] /\ contents = [i \in Invocations |-> <<>>]
    /\ buffers = [i \in Invocations |-> << >>] /\ answer = [i \in Invocations |-> NoAnswer]
    /\ rows = {}

-----------------------------------------------------------------------------
\* Tool ids.  An id is a pair of what was given and a number that tells doubles
\* apart; the ADK sends calls of providers that gave no id without one, and the
\* results in the order of the calls.

Given(id) == <<id, 0>>
NewToolId(n) == <<"new", n>>

\* _ensure_unique_tool_id
UniqueToolId(id, used) ==
    IF id \notin used THEN id
    ELSE <<id[1], CHOOSE n \in 1 .. Cardinality(used) + 1 :
                     /\ <<id[1], n>> \notin used
                     /\ \A m \in 1 .. n - 1 : <<id[1], m>> \in used>>

\* The function_call branch: a missing id is made, a double one changed.
SanitizedCall(s, part) ==
    LET id == IF part.id = NoId THEN NewToolId(s.made + 1)
              ELSE UniqueToolId(Given(part.id), s.used)
    IN [out |-> Append(s.out, [what |-> "call", id |-> id, of |-> part.of]),
        pending |-> Append(s.pending, id), used |-> s.used \cup {id},
        made |-> IF part.id = NoId THEN s.made + 1 ELSE s.made]

SanitizedResponse_OfTheLastCall(s, part) ==
    LET id == IF part.id = NoId /\ s.pending # <<>> THEN Last(s.pending) ELSE Given(part.id)
    IN [s EXCEPT !.out = Append(@, [what |-> "response", id |-> id, of |-> part.of]),
                 !.pending = Picked(@, {k \in DOMAIN @ : @[k] # id}), !.used = @ \cup {id}]

\* The function_response branch: without an id it goes to the first call that
\* waits for one.
SanitizedResponse(s, part) ==
    LET orphan == part.id = NoId /\ s.pending = <<>>
        id == IF orphan THEN NewToolId(s.made + 1)
              ELSE IF part.id = NoId THEN Head(s.pending)
              ELSE IF Given(part.id) \in s.used THEN Given(part.id)
              ELSE UniqueToolId(Given(part.id), s.used)
    IN [out |-> Append(s.out, [what |-> "response", id |-> id, of |-> part.of]),
        pending |-> Picked(s.pending, {k \in DOMAIN s.pending : s.pending[k] # id}),
        used |-> s.used \cup {id}, made |-> IF orphan THEN s.made + 1 ELSE s.made]

SanitizedPart(s, part) ==
    CASE part.what = "call" -> SanitizedCall(s, part)
      [] part.what = "response" -> SanitizedResponse(s, part)
      [] OTHER -> s

\* _sanitize_tool_ids over the parts of a request, in turn.
Sanitized(parts) ==
    LET s[k \in 0 .. Len(parts)] ==
            IF k = 0 THEN [out |-> <<>>, pending |-> <<>>, used |-> {}, made |-> 0]
            ELSE SanitizedPart(s[k - 1], parts[k])
    IN s

SanitizeToolIds(parts) == Sanitized(parts)[Len(parts)].out

\* _convert_llm_request: of a content the results first, then its text, then its calls.
PartsThatAre(content, what) == Picked(content, {k \in DOMAIN content : content[k].what = what})

CodexInput(cs) ==
    FlattenSeq([k \in DOMAIN cs |->
       PartsThatAre(cs[k], "response") \o PartsThatAre(cs[k], "text") \o PartsThatAre(cs[k], "call")])

-----------------------------------------------------------------------------
\* before_model_debug_callback; the request leaves.
BeforeModel(i) ==
    /\ phase[i] = "idle" /\ MapThenSumSet(LAMBDA j : nr[j], Invocations) < MaxRequests
    /\ nr' = [nr EXCEPT ![i] = @ + 1]
    /\ noted' = [noted EXCEPT ![i] = nr'[i]]
    /\ phase' = [phase EXCEPT ![i] = "asked"]
    /\ UNCHANGED <<provider, contents, buffers, answer, rows>>

\* The model's client raises: there is no answer, what was noted stays.
ModelRaises(i) ==
    /\ phase[i] = "asked" /\ provider = "other"
    /\ phase' = [phase EXCEPT ![i] = "idle"]
    /\ UNCHANGED <<provider, nr, noted, contents, buffers, answer, rows>>

\* The ids used up in a conversation or an answer.
UsedIn(i) == {p.of : p \in ToSet(FlattenSeq(contents[i]))} \cup {c.of : c \in ToSet(answer[i].calls)}
CallCount(i) == Cardinality({c \in DOMAIN FlattenSeq(contents[i]) :
                                FlattenSeq(contents[i])[c].what = "call"})

\* Another provider: pieces marked partial, which nothing is done about, then the
\* answer, with the calls' ids or, if it gives none, without.
OtherAnswers(i) ==
    /\ phase[i] = "asked" /\ provider = "other"
    /\ \E n \in 0 .. MaxCalls - CallCount(i), bare \in BOOLEAN, usage \in BOOLEAN :
          \E ids \in {s \in [1 .. n -> GivenIds \ UsedIn(i)] : IsInjective(s)} :
             answer' = [answer EXCEPT ![i] =
                 [error |-> FALSE, text |-> TRUE, usage |-> usage,
                  calls |-> [k \in 1 .. n |->
                     [Call(ids[k], TRUE) EXCEPT !.id = IF bare THEN NoId ELSE @]]]]
    /\ phase' = [phase EXCEPT ![i] = "answered"]
    /\ UNCHANGED <<provider, nr, noted, contents, buffers, rows>>

\* Codex's events.  The arguments of a call come in pieces, those of several calls
\* mixed, and once more as a whole.
Streams(i) == phase[i] = "asked" /\ provider = "codex"

TextDelta(i) ==
    /\ Streams(i) /\ answer' = [answer EXCEPT ![i].text = TRUE]
    /\ UNCHANGED <<provider, phase, nr, noted, contents, buffers, rows>>

ItemAdded(i, c) ==
    /\ Streams(i) /\ c \notin DOMAIN buffers[i] \cup UsedIn(i)
    /\ Cardinality(DOMAIN buffers[i]) + CallCount(i) < MaxCalls
    /\ buffers' = [buffers EXCEPT ![i] = [d \in DOMAIN @ \cup {c} |-> IF d = c THEN <<>> ELSE @[d]]]
    /\ UNCHANGED <<provider, phase, nr, noted, contents, answer, rows>>

ArgumentsDelta(i, c) ==
    /\ Streams(i) /\ c \in DOMAIN buffers[i] \ UsedIn(i) /\ Len(buffers[i][c]) < MaxFragments
    /\ buffers' = [buffers EXCEPT ![i][c] = Append(@, Len(@) + 1)]
    /\ UNCHANGED <<provider, phase, nr, noted, contents, answer, rows>>

\* The complete arguments of a call.
Complete == [k \in 1 .. MaxFragments |-> k]

ArgumentsDone(i, c) ==
    /\ Streams(i) /\ c \in DOMAIN buffers[i] \ UsedIn(i)
    /\ buffers' = [buffers EXCEPT ![i][c] = Complete]
    /\ UNCHANGED <<provider, phase, nr, noted, contents, answer, rows>>

\* What was gathered, or else the arguments of the event; the service ends an item
\* after all its pieces, or sends none.
ItemDone(i, c) ==
    /\ Streams(i) /\ c \in DOMAIN buffers[i] \ UsedIn(i)
    /\ Len(buffers[i][c]) \notin 1 .. MaxFragments - 1
    /\ LET arguments == IF buffers[i][c] = <<>> THEN Complete ELSE buffers[i][c]
       IN answer' = [answer EXCEPT ![i].calls = Append(@, Call(c, arguments = Complete))]
    /\ UNCHANGED <<provider, phase, nr, noted, contents, buffers, rows>>

\* The stream ends, complete or cut off: what is done by then is the answer.
CodexAnswers(i) ==
    /\ Streams(i) /\ phase' = [phase EXCEPT ![i] = "answered"]
    /\ UNCHANGED <<provider, nr, noted, contents, buffers, answer, rows>>

\* A failure, an HTTP error or a missing token is an answer with an error code.
CodexFails(i) ==
    /\ Streams(i) /\ phase' = [phase EXCEPT ![i] = "answered"]
    /\ answer' = [answer EXCEPT ![i] = [NoAnswer EXCEPT !.error = TRUE]]
    /\ UNCHANGED <<provider, nr, noted, contents, buffers, rows>>

\* What is written of an answer: under the request noted.
Recorded(i) == [noted |-> noted[i], answered |-> nr[i], by |-> i]

\* A row, if the answer says what was used, which Codex's never does; an insert
\* that fails is passed over.
WriteUsage(i) ==
    rows' \in {rows} \cup (IF answer[i].usage THEN {rows \cup {Recorded(i)}} ELSE {})

\* after_model_debug_callback
AfterModel(i) ==
    /\ phase[i] = "answered"
    /\ noted' = [noted EXCEPT ![i] = 0]
    /\ WriteUsage(i)
    /\ contents' = IF answer[i].error THEN contents
                   ELSE [contents EXCEPT ![i] = Append(@,
                           (IF answer[i].text THEN <<Text0>> ELSE <<>>) \o answer[i].calls)]
    /\ phase' = [phase EXCEPT ![i] = IF answer[i].calls = <<>> THEN "idle" ELSE "tools"]
    /\ buffers' = [buffers EXCEPT ![i] = << >>]
    /\ answer' = IF answer[i].calls = <<>> THEN [answer EXCEPT ![i] = NoAnswer] ELSE answer
    /\ UNCHANGED <<provider, nr>>

\* The tools have run: their results are one content, in the order of the calls.
ToolsRespond(i) ==
    /\ phase[i] = "tools"
    /\ contents' = [contents EXCEPT ![i] = Append(@,
           [k \in DOMAIN answer[i].calls |-> [answer[i].calls[k] EXCEPT !.what = "response"]])]
    /\ phase' = [phase EXCEPT ![i] = "idle"] /\ answer' = [answer EXCEPT ![i] = NoAnswer]
    /\ UNCHANGED <<provider, nr, noted, buffers, rows>>

CallNext ==
    \E i \in Invocations :
       \/ BeforeModel(i) \/ ModelRaises(i) \/ OtherAnswers(i) \/ TextDelta(i)
       \/ \E c \in GivenIds :
             ItemAdded(i, c) \/ ArgumentsDelta(i, c) \/ ArgumentsDone(i, c) \/ ItemDone(i, c)
       \/ CodexAnswers(i) \/ CodexFails(i) \/ AfterModel(i) \/ ToolsRespond(i)

CallSpec == CallInit /\ [][CallNext]_callVars

-----------------------------------------------------------------------------
PartsOf(i) == FlattenSeq(contents[i])

\* In the next request every tool call has an id of its own and every result that
\* of its call and comes after it, whether the provider gives ids or not; and a
\* call that Codex answered has all of its arguments, in whatever order they came.
ResultsMeetTheirCalls ==
    \A i \in Invocations :
       LET sent == SanitizeToolIds(IF provider = "codex" THEN CodexInput(contents[i]) ELSE PartsOf(i))
           calls == {k \in DOMAIN sent : sent[k].what = "call"}
       IN /\ \A j, k \in calls : j # k => sent[j].id # sent[k].id
          /\ \A k \in DOMAIN sent \ calls :
                \E j \in calls : j < k /\ sent[j].of = sent[k].of /\ sent[j].id = sent[k].id
          /\ \A p \in ToSet(PartsOf(i)) : p.whole

\* The tokens of an answer are filed under the request that it answers, though
\* others were made meanwhile and some had no answer.
UsageOfItsRequest == \A row \in rows : row.noted = row.answered
==================================================================================
