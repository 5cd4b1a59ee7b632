----------------------------- MODULE MarkdownMemory -----------------------------
(***************************************************************************)
(* The markdown memory: after each turn the events of the session are      *)
(* appended to HISTORY.md, the facts among them to MEMORY.md, and then the *)
(* ids of all that was ingested for the user are written back.  The lock   *)
(* is one process's; a gateway and a command that work in one workspace    *)
(* share nothing but the files, and either may be killed between two.      *)
(***************************************************************************)
EXTENDS Integers, Sequences, FiniteSets, SequencesExt, Enumeration

CONSTANTS Writers,  \* the processes, each with a session; {}: no memory
          Persons,  \* the users whose sessions they are
          MaxEvents, \* bound: events of a session
          MaxEntries \* bound: entries of HISTORY.md

ASSUME MemoryFilesAssumption == MaxEvents \in Nat /\ MaxEntries \in Nat

VARIABLES
    person,      \* whose session a process has
    sessionLog,  \* the kinds of the events of its session
    ingest,      \* its add_events_to_memory: where it is, the ids it read, the events to write
    historyFile, \* HISTORY.md
    memoryFile,  \* MEMORY.md
    idFiles,     \* .event_ids.<app>.<user>.json, by user
    present,     \* which of the two files there are
    missed,      \* the processes that found theirs missing and have not made it yet
    disturbed,   \* history: the users for whom an ingest was killed or two overlapped
    raced        \* history: the files that one process made after another had found them
                 \* missing, and before that one made them too

memoryFiles == <<historyFile, memoryFile, idFiles>>
headers == <<present, missed, raced>>
markdownVars == <<person, sessionLog, ingest, memoryFiles, headers, disturbed>>

BothFiles == {"history", "memory"}

EventKinds == {"talk", "fact", "silent"}
Idle0 == [at |-> "idle", known |-> {}, new |-> <<>>]

KindOf(e) == sessionLog[e.by][e.nr]

MarkdownInit ==
    /\ person \in [Writers -> Persons]
    /\ sessionLog = [w \in Writers |-> <<>>] /\ ingest = [w \in Writers |-> Idle0]
    /\ historyFile = <<>> /\ memoryFile = <<>>
    /\ present \in {{}, BothFiles} /\ missed = {} /\ raced = {} \* `init` makes both
    /\ idFiles = [u \in Persons |-> {}] /\ disturbed = {}

\* A turn adds an event: a text, one of the user's that names a fact, or a call
\* or result of a tool, which has no text.
TurnAdds(w) ==
    /\ ingest[w].at = "idle" /\ Len(sessionLog[w]) < MaxEvents
    /\ \E k \in EventKinds : sessionLog' = [sessionLog EXCEPT ![w] = Append(@, k)]
    /\ UNCHANGED <<person, ingest, memoryFiles, headers, disturbed>>

\* The events of its session at the places D, as the loop comes to them.
EventsAt(w, D) == Picked([i \in DOMAIN sessionLog[w] |-> [by |-> w, nr |-> i]], D)

NewEvents_KnownToo(w, known) == EventsAt(w, {i \in DOMAIN sessionLog[w] : sessionLog[w][i] # "silent"})

\* The loop of add_events_to_memory: what is not known and has a text.
NewEvents(w, known) ==
    EventsAt(w, {i \in DOMAIN sessionLog[w] : [by |-> w, nr |-> i] \notin known /\ sessionLog[w][i] # "silent"})

Others(w) == {v \in Writers \ {w} : person[v] = person[w] /\ ingest[v].at # "idle"}

\* The callback after a turn, or /new: the ids are read; with nothing new that is all.
ReadIds(w) ==
    /\ ingest[w].at = "idle"
    /\ LET known == idFiles[person[w]]
       IN /\ NewEvents(w, known) # <<>>
          /\ Len(historyFile) + Len(NewEvents(w, known)) <= MaxEntries
          /\ ingest' = [ingest EXCEPT ![w] = [at |-> "history", known |-> known,
                                              new |-> NewEvents(w, known)]]
    /\ disturbed' = IF Others(w) = {} THEN disturbed ELSE disturbed \cup {person[w]}
    /\ UNCHANGED <<person, sessionLog, memoryFiles, headers>>

FactsAmong(new) == Picked(new, {j \in DOMAIN new : KindOf(new[j]) = "fact"})

\* What it appends to its next file; without facts MEMORY.md is left alone.
ToAppend(w) == IF ingest[w].at = "memory" THEN FactsAmong(ingest[w].new) ELSE ingest[w].new

\* _ensure_markdown_file: the file is looked for ...
MissFile(w) ==
    /\ ingest[w].at \in BothFiles \ present /\ w \notin missed /\ ToAppend(w) # <<>>
    /\ missed' = missed \cup {w}
    /\ UNCHANGED <<person, sessionLog, ingest, memoryFiles, present, raced, disturbed>>

\* ... and made, which empties one that another process has made since.
WriteHeader(w) ==
    /\ w \in missed
    /\ LET file == ingest[w].at
       IN /\ historyFile' = IF file = "history" THEN <<>> ELSE historyFile
          /\ memoryFile' = IF file = "memory" THEN <<>> ELSE memoryFile
          /\ raced' = IF file \in present THEN raced \cup {file} ELSE raced
          /\ present' = present \cup {file}
    /\ missed' = missed \ {w}
    /\ UNCHANGED <<person, sessionLog, ingest, idFiles, disturbed>>

\* A file that is there stays, so finding it and appending to it are one step.
AppendHistory(w) ==
    /\ ingest[w].at = "history" /\ "history" \in present /\ w \notin missed
    /\ historyFile' = historyFile \o ingest[w].new
    /\ ingest' = [ingest EXCEPT ![w].at = "memory"]
    /\ UNCHANGED <<person, sessionLog, memoryFile, idFiles, headers, disturbed>>

\* _is_user_author and _infer_fact_category pick the facts.
AppendMemory(w) ==
    /\ ingest[w].at = "memory" /\ w \notin missed
    /\ FactsAmong(ingest[w].new) # <<>> => "memory" \in present
    /\ memoryFile' = memoryFile \o FactsAmong(ingest[w].new)
    /\ ingest' = [ingest EXCEPT ![w].at = "save"]
    /\ UNCHANGED <<person, sessionLog, historyFile, idFiles, headers, disturbed>>

\* write_text empties the file first; who reads it then, knows nothing, ...
EmptyIds(w) ==
    /\ ingest[w].at = "save"
    /\ idFiles' = [idFiles EXCEPT ![person[w]] = {}]
    /\ ingest' = [ingest EXCEPT ![w].at = "saving"]
    /\ UNCHANGED <<person, sessionLog, historyFile, memoryFile, headers, disturbed>>

\* ... and what another process has saved since the read is overwritten.
SaveIds(w) ==
    /\ ingest[w].at = "saving"
    /\ idFiles' = [idFiles EXCEPT ![person[w]] = ingest[w].known \cup ToSet(ingest[w].new)]
    /\ ingest' = [ingest EXCEPT ![w] = Idle0]
    /\ UNCHANGED <<person, sessionLog, historyFile, memoryFile, headers, disturbed>>

\* The process is killed, or a write fails and raises: the session is in its
\* database and the next ingest starts anew.
IngestBreaks(w) ==
    /\ ingest[w].at # "idle"
    /\ ingest' = [ingest EXCEPT ![w] = Idle0]
    /\ disturbed' = disturbed \cup {person[w]} /\ missed' = missed \ {w}
    /\ UNCHANGED <<person, sessionLog, memoryFiles, present, raced>>

MarkdownNext ==
    \E w \in Writers :
       \/ TurnAdds(w) \/ ReadIds(w) \/ MissFile(w) \/ WriteHeader(w) \/ AppendHistory(w)
       \/ AppendMemory(w) \/ EmptyIds(w) \/ SaveIds(w) \/ IngestBreaks(w)

MarkdownSpec == MarkdownInit /\ [][MarkdownNext]_markdownVars

-----------------------------------------------------------------------------
\* search_memory: the facts of the user, of any of his sessions.
SearchMemory(u) == {e \in ToSet(memoryFile) : person[e.by] = u}

\* An event whose id is kept is in HISTORY.md, and found if it is a fact: whatever
\* is killed or overlaps, nothing is taken for ingested that is not, as long as no
\* process makes a file that another had found missing and made in the meantime.
RememberedIsWritten ==
    \A u \in Persons : \A e \in idFiles[u] :
       /\ "history" \notin raced => e \in ToSet(historyFile)
       /\ KindOf(e) = "fact" /\ "memory" \notin raced => e \in SearchMemory(u)

\* A user's events are written once and in the order of their session, unless an
\* ingest was killed or two processes ingested at the same time.
WrittenOnce ==
    \A s \in {historyFile, memoryFile} : \A j, k \in DOMAIN s :
       j < k /\ s[j].by = s[k].by /\ person[s[j].by] \notin disturbed => s[j].nr < s[k].nr

\* HISTORY.md is appended to "without modifying old lines", its header written "once
\* [...], never rewriting existing file": what is in it stays.
OldLinesStay == [][IsPrefix(historyFile, historyFile')]_historyFile
=================================================================================
