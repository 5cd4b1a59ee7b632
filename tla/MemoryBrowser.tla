------------------------------ MODULE MemoryBrowser ------------------------------
(***************************************************************************)
(* The browser runtime that stands in when Playwright is not asked for or  *)
(* not there: tabs that only this process knows.                           *)
(***************************************************************************)
EXTENDS Integers, Sequences, SequencesExt

CONSTANTS MemPages, NoTab, LogLimit, MemoryOn

ASSUME MemoryAssumption == NoTab \notin MemPages /\ LogLimit \in Nat /\ MemoryOn \in BOOLEAN

VARIABLES running, memTabs, memLast,
          logs    \* how many messages _console_messages_by_tab has of a tab

memoryVars == <<running, memTabs, memLast, logs>>

InMemory == ToSet(memTabs)
MemoryInit ==
    /\ running = FALSE /\ memTabs = <<>> /\ memLast = NoTab
    /\ logs = [g \in MemPages |-> 0]

\* _record_console_message: the oldest go.
Record(g) == logs' = [logs EXCEPT ![g] = IF @ = LogLimit THEN @ ELSE @ + 1]

\* _resolve_tab
MemResolve(id, g) ==
    /\ running /\ memTabs # <<>>
    /\ IF id # NoTab THEN id \in InMemory /\ g = id
       ELSE g = IF memLast \in InMemory THEN memLast ELSE Last(memTabs)

StartMemory ==
    /\ MemoryOn /\ running' = TRUE
    /\ UNCHANGED <<memTabs, memLast, logs>>

StopMemory ==
    /\ running' = FALSE /\ memTabs' = <<>> /\ memLast' = NoTab
    /\ logs' = [g \in MemPages |-> 0]

\* A tab has a new id.
MemOpen(g) ==
    /\ running /\ g \notin InMemory
    /\ memTabs' = Append(memTabs, g) /\ memLast' = g
    /\ Record(g)
    /\ UNCHANGED running

MemFocus(id, g) ==
    /\ MemResolve(id, g) /\ memLast' = g /\ Record(g)
    /\ UNCHANGED <<running, memTabs>>

MemClose(id, g) ==
    /\ MemResolve(id, g)
    /\ memTabs' = RemoveFirst(memTabs, g)
    /\ memLast' = IF memTabs' = <<>> THEN NoTab ELSE Last(memTabs')
    /\ logs' = [logs EXCEPT ![g] = 0]
    /\ UNCHANGED running

\* Unlike Playwright's, this snapshot makes the tab the last one.
MemSnapshot(id, g) ==
    /\ MemResolve(id, g) /\ memLast' = g
    /\ UNCHANGED <<running, memTabs, logs>>

MemNavigate(id, g) ==
    /\ MemResolve(id, g) /\ memLast' = g /\ Record(g)
    /\ UNCHANGED <<running, memTabs>>

\* act close closes the tab; the other kinds are only recorded.
MemAct(id, g) == MemNavigate(id, g) \/ MemClose(id, g)

\* screenshot and pdf: a path outside of its root, or a wrong image type, is
\* refused when the tab is found and not yet the last one.
MemScreenshot(id, g) ==
    /\ MemResolve(id, g) /\ memLast' \in {g, memLast}
    /\ UNCHANGED <<running, memTabs, logs>>

MemPdf(id, g) == MemScreenshot(id, g)

\* console: the tab is the last one before its file is written.
MemConsole(id, g) ==
    /\ MemResolve(id, g) /\ memLast' = g
    /\ UNCHANGED <<running, memTabs, logs>>

\* upload: the paths are looked at first.
MemUpload(id, g) ==
    /\ MemResolve(id, g) /\ memLast' \in {g, memLast}
    /\ UNCHANGED <<running, memTabs, logs>>

MemDialog(id, g) ==
    /\ MemResolve(id, g) /\ memLast' = g
    /\ UNCHANGED <<running, memTabs, logs>>

MemoryNext ==
    \/ StartMemory \/ (running /\ StopMemory)
    \/ \E g \in MemPages :
          \/ MemOpen(g)
          \/ \E id \in {g, NoTab} :
                \/ MemFocus(id, g) \/ MemClose(id, g) \/ MemSnapshot(id, g)
                \/ MemNavigate(id, g) \/ MemAct(id, g) \/ MemScreenshot(id, g) \/ MemPdf(id, g)
                \/ MemConsole(id, g) \/ MemUpload(id, g) \/ MemDialog(id, g)

MemorySpec == MemoryInit /\ [][MemoryNext]_memoryVars

-----------------------------------------------------------------------------
\* A call that names no tab gets the tab of the call before it while that is open,
\* and an open one in any case.
MemoryTabs == INSTANCE TabList WITH
    Page <- MemPages, None <- NoTab, open <- InMemory, chosen <- memLast

MemoryKeepsTabs == MemoryTabs!TabListSpec
==============================================================================
