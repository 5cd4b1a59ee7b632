-------------------------------- MODULE Browser --------------------------------
(***************************************************************************)
(* The browser runtime of the browser tool: one Playwright connection that *)
(* two profiles share, over a browser it launches or over one of the       *)
(* user's that it attaches to (CDP), with the chrome profile possibly      *)
(* behind an HTTP relay instead.  A tool call is one step; between two     *)
(* calls pages open, change and close by themselves, and the browser may   *)
(* die.  A page stands for its target id: a new page has a new one.        *)
(***************************************************************************)
EXTENDS Integers, Sequences, FiniteSets, SequencesExt, FiniteSetsExt

CONSTANTS Pages, NoPage,
          Documents,  \* what a page may show: its elements' selectors, in order
          MaxRefs,    \* build_snapshot_refs: max_refs
          OwnCdp,     \* OPENPIPIXIA_BROWSER_CDP_URL is set
          Transports  \* the values of _resolve_chrome_transport; {}: no browser tool

ASSUME BrowserAssumption ==
    /\ NoPage \notin Pages /\ OwnCdp \in BOOLEAN /\ MaxRefs \in Nat
    /\ Transports \subseteq {"relay", "cdp", "unsupported"}
    /\ \A d \in Documents : d \in Seq(ToSet(d))

VARIABLES
    chrome,     \* how the chrome profile is reached, if at all
    browser,    \* _browser: "none", "launched", "attached"
    context,    \* _context is there
    owns,       \* _owns_browser, _owns_context
    driver,     \* _pw_context_manager is there
    active,     \* _active_profile
    mode,       \* _mode
    tabs,       \* _tabs, in order
    lastTarget, \* _last_target_id
    refs,       \* _snapshot_ref_selectors_by_tab
    pages,      \* the pages of the context
    theirs,     \* the pages of the user's browser while it is not attached
    startedFor, \* history: the profile the browser was started for
    users,      \* history: the pages the user opened and nobody closed
    lastUsed    \* history: the page last opened, focused or acted on

connection == <<chrome, browser, context, owns, driver, active, mode, startedFor>>
tabState == <<tabs, lastTarget, refs>>
world == <<pages, theirs, users>>
browserVars == <<connection, tabState, world, lastUsed>>

NoRefs == << >>
Profiles == {"openpipixia", "chrome"}
Live == ToSet(pages)

Relayed == chrome = "relay"
Local(p) == chrome # "off" /\ (p = "openpipixia" \/ chrome = "cdp")
Attaches(p) == p = "chrome" \/ OwnCdp

\* _ensure_profile_active and _ensure_running.
Usable(p) == Local(p) /\ active \in {"none", p} /\ browser # "none" /\ context

BrowserInit ==
    /\ chrome \in IF Transports = {} THEN {"off"} ELSE Transports
    /\ browser = "none" /\ context = FALSE /\ owns = {} /\ driver = FALSE
    /\ active = "none" /\ mode = "idle" /\ startedFor = "none"
    /\ tabs = <<>> /\ lastTarget = NoPage /\ refs = [g \in Pages |-> NoRefs]
    /\ pages = <<>> /\ theirs = <<>> /\ users = {} /\ lastUsed = NoPage

-----------------------------------------------------------------------------
\* Snapshot refs

WithEntry_KeepsTakenOnes(made, selector, previous) ==
    LET old == {r \in DOMAIN previous : previous[r] = selector}
    IN IF Len(made.refs) >= MaxRefs THEN made
       ELSE IF old # {} THEN [made EXCEPT !.refs = Append(@, [ref |-> Max(old), selector |-> selector])]
       ELSE [refs |-> Append(made.refs, [ref |-> made.next, selector |-> selector]), next |-> made.next + 1]

\* One entry more: the ref its selector had, unless it is taken; else the next
\* free number.  (A new element may so take the number of a later one.  Of two refs
\* that a selector had the code keeps the one entered last, here the greater: either
\* is one of its own.)
WithEntry(made, selector, previous) ==
    LET old == {r \in DOMAIN previous : previous[r] = selector}
        kept == IF old = {} THEN 0 ELSE Max(old)
        used == {made.refs[i].ref : i \in DOMAIN made.refs}
        free == Min({n \in made.next .. made.next + MaxRefs : n \notin used})
    IN IF Len(made.refs) >= MaxRefs THEN made
       ELSE IF kept # 0 /\ kept \notin used
       THEN [made EXCEPT !.refs = Append(@, [ref |-> kept, selector |-> selector])]
       ELSE [refs |-> Append(made.refs, [ref |-> free, selector |-> selector]), next |-> free + 1]

\* The entries in turn.
Entered(entries, previous) ==
    LET made[k \in 0 .. Len(entries)] ==
            IF k = 0 THEN [refs |-> <<>>, next |-> 1]
            ELSE WithEntry(made[k - 1], entries[k], previous)
    IN made

\* build_snapshot_refs: refs_payload and ref_selectors are filled together.
BuildSnapshotRefs(entries, previous) ==
    LET made == Entered(entries, previous)[Len(entries)].refs
    IN [r \in {made[i].ref : i \in DOMAIN made} |->
           made[Max({i \in DOMAIN made : made[i].ref = r})].selector]

-----------------------------------------------------------------------------
\* Tabs

\* _sync_existing_tabs: the tabs are the pages there are.
Stale == ToSet(tabs) \ Live
Synced(last) == IF last \notin Live /\ pages # <<>> THEN Last(pages) ELSE last
SyncedRefs == [g \in Pages |-> IF g \in Stale THEN NoRefs ELSE refs[g]]

\* _resolve_tab without a target id: the last one, or the newest.
DefaultTab == IF Synced(lastTarget) \in Live THEN Synced(lastTarget) ELSE Last(pages)

\* A call for p finds its tab g, by its target id or without one.
Finds(p, id, g) ==
    /\ Usable(p) /\ pages # <<>>
    /\ (id \in Live /\ g = id) \/ (id = NoPage /\ g = DefaultTab)

\* What most calls do to the tab they found.
Touches(g) ==
    /\ tabs' = pages /\ refs' = SyncedRefs
    /\ lastTarget' = g /\ lastUsed' = g

-----------------------------------------------------------------------------
\* The calls

\* start: nothing more if the browser is there (another profile's: 409).
StartBrowser(p) ==
    /\ Local(p) /\ browser = "none"
    /\ driver' = TRUE /\ context' = TRUE /\ active' = p /\ startedFor' = p
    /\ browser' = IF Attaches(p) THEN "attached" ELSE "launched"
    /\ mode' = IF Attaches(p) THEN "cdp" ELSE "launch"
    /\ IF Attaches(p)
       THEN /\ owns' \in {{}} \cup (IF theirs = <<>> THEN {{"context"}} ELSE {})
            /\ pages' = theirs /\ theirs' = <<>>
       ELSE /\ owns' = {"browser", "context"}
            /\ pages' = <<>> /\ UNCHANGED theirs
    /\ tabs' = pages' /\ lastTarget' = IF pages' = <<>> THEN lastTarget ELSE Last(pages')
    /\ UNCHANGED <<chrome, refs, users, lastUsed>>

\* The launch fails, or new_context does: the driver, or the browser too, stays
\* behind; the profile is not set.
StartFails(p) ==
    /\ Local(p) /\ browser = "none"
    /\ driver' = TRUE
    /\ \/ UNCHANGED <<browser, startedFor>>
       \/ /\ browser' = (IF Attaches(p) THEN "attached" ELSE "launched")
          /\ startedFor' = p /\ (Attaches(p) => theirs = <<>>)
    /\ UNCHANGED <<chrome, context, owns, active, mode, tabState, world, lastUsed>>

\* start and stop of the relayed chrome: nobody is connected to; a browser of the
\* other profile keeps running.
StartRelay ==
    /\ Relayed /\ browser = "none"
    /\ active' = "chrome" /\ mode' = "relay"
    /\ UNCHANGED <<chrome, browser, context, owns, driver, startedFor, tabState, world, lastUsed>>

StopRelay ==
    /\ Relayed
    /\ active' = IF active = "chrome" THEN "none" ELSE active
    /\ mode' = "idle"
    /\ UNCHANGED <<chrome, browser, context, owns, driver, startedFor, tabState, world, lastUsed>>

KeptOpen_WhatNobodyAttached == theirs

\* The pages that stay open when the connection goes: those of the user's
\* browser, unless they are in a context that the runtime made.
KeptOpen == IF browser = "attached" /\ "context" \notin owns THEN theirs \o pages ELSE theirs

\* stop, whichever profile is active: closes what is owned, ends the driver.
StopBrowser(p) ==
    /\ Local(p)
    /\ browser' = "none" /\ context' = FALSE /\ owns' = {} /\ driver' = FALSE
    /\ active' = "none" /\ mode' = "idle" /\ startedFor' = "none"
    /\ tabs' = <<>> /\ lastTarget' = NoPage /\ refs' = [g \in Pages |-> NoRefs]
    /\ theirs' = KeptOpen /\ pages' = <<>> /\ lastUsed' = NoPage
    /\ UNCHANGED <<chrome, users>>

\* tabs; and any other call that syncs and then fails (no such tab, a bad request).
Tabs(p) ==
    /\ Usable(p)
    /\ tabs' = pages /\ refs' = SyncedRefs /\ lastTarget' = Synced(lastTarget)
    /\ UNCHANGED <<connection, world, lastUsed>>

\* A new page, of which nothing is known.
Fresh(g) == g \notin Live \cup ToSet(theirs) \cup ToSet(tabs) \cup {lastTarget, lastUsed}

\* open: the tabs are not synced.
OpenTab(p, g) ==
    /\ Usable(p) /\ Fresh(g)
    /\ pages' = Append(pages, g) /\ tabs' = Append(tabs, g)
    /\ lastTarget' = g /\ lastUsed' = g
    /\ UNCHANGED <<connection, refs, theirs, users>>

\* goto raises: the page is there and not registered.
OpenFails(p, g) ==
    /\ Usable(p) /\ Fresh(g)
    /\ pages' = Append(pages, g)
    /\ UNCHANGED <<connection, tabState, theirs, users, lastUsed>>

FocusTab(p, id, g) ==
    /\ Finds(p, id, g) /\ Touches(g)
    /\ UNCHANGED <<connection, world>>

\* navigate keeps the refs of what the page showed before.
Navigate(p, id, g) ==
    /\ Finds(p, id, g) /\ Touches(g)
    /\ UNCHANGED <<connection, world>>

\* close, or act close: the newest tab is the last one then.
CloseTab(p, id, g) ==
    LET rest == RemoveFirst(pages, g)
    IN /\ Finds(p, id, g)
       /\ pages' = rest /\ tabs' = rest /\ users' = users \ {g}
       /\ refs' = [SyncedRefs EXCEPT ![g] = NoRefs]
       /\ lastTarget' = IF rest = <<>> THEN NoPage ELSE Last(rest)
       /\ lastUsed' = NoPage
       /\ UNCHANGED <<connection, theirs>>

\* snapshot (ai), of whatever the page shows; the tab does not become the last one.
Snapshot(p, id, g) ==
    /\ Finds(p, id, g)
    /\ tabs' = pages /\ lastTarget' = Synced(lastTarget)
    /\ \E d \in Documents :
          refs' = [SyncedRefs EXCEPT ![g] = BuildSnapshotRefs(d, SyncedRefs[g])]
    /\ UNCHANGED <<connection, world, lastUsed>>

\* act, on a selector or on a ref the last snapshot of the tab has.
Act(p, id, g) ==
    /\ Finds(p, id, g) /\ Touches(g)
    /\ UNCHANGED <<connection, world>>

\* screenshot and pdf: taken, or an error before or after the tab is found, which
\* is Tabs.
Screenshot(p, id, g) ==
    /\ Finds(p, id, g) /\ Touches(g)
    /\ UNCHANGED <<connection, world>>

PdfSave(p, id, g) == Screenshot(p, id, g)

\* console: the tab is the last one before the file is written, which may fail.
ConsoleMessages(p, id, g) ==
    /\ Finds(p, id, g) /\ Touches(g)
    /\ UNCHANGED <<connection, world>>

\* upload, to the input found by a selector: a ref of a snapshot is taken for one
\* and finds none, which is Tabs.
Upload(p, id, g) ==
    /\ Finds(p, id, g) /\ Touches(g)
    /\ UNCHANGED <<connection, world>>

\* dialog: the active profile is not looked at.
Dialog(p, id, g) ==
    /\ Local(p) /\ browser # "none" /\ context /\ pages # <<>>
    /\ (id \in Live /\ g = id) \/ (id = NoPage /\ g = DefaultTab)
    /\ Touches(g)
    /\ UNCHANGED <<connection, world>>

-----------------------------------------------------------------------------
\* Between the calls

\* A page opens a window, or the user does in the attached browser.
PopUp(g, byUser) ==
    /\ browser # "none" /\ context /\ Fresh(g)
    /\ byUser => browser = "attached" /\ owns = {}
    /\ pages' = Append(pages, g)
    /\ users' = IF byUser THEN users \cup {g} ELSE users
    /\ UNCHANGED <<connection, tabState, theirs, lastUsed>>

\* The user opens a page in his browser that is not attached.
UserOpens(g) ==
    /\ chrome # "off" /\ Fresh(g)
    /\ browser # "attached" \/ owns # {} \/ ~context
    /\ theirs' = Append(theirs, g) /\ users' = users \cup {g}
    /\ UNCHANGED <<connection, tabState, pages, lastUsed>>

\* A page goes by itself, or the user closes it.
PageCloses(g) ==
    /\ g \in Live \cup ToSet(theirs)
    /\ pages' = RemoveFirst(pages, g)
    /\ theirs' = RemoveFirst(theirs, g)
    /\ users' = users \ {g}
    /\ UNCHANGED <<connection, tabState, lastUsed>>

\* The browser dies; the runtime does not notice.
BrowserDies ==
    /\ pages # <<>>
    /\ users' = users \ Live /\ pages' = <<>>
    /\ UNCHANGED <<connection, tabState, theirs, lastUsed>>

BrowserNext ==
    \/ StartRelay \/ StopRelay \/ BrowserDies
    \/ \E p \in Profiles :
          \/ StartBrowser(p) \/ StartFails(p) \/ StopBrowser(p) \/ Tabs(p)
          \/ \E g \in Pages :
                \/ OpenTab(p, g) \/ OpenFails(p, g)
                \/ \E id \in {g, NoPage} :
                      \/ FocusTab(p, id, g) \/ Navigate(p, id, g) \/ CloseTab(p, id, g)
                      \/ Snapshot(p, id, g) \/ Act(p, id, g) \/ Dialog(p, id, g)
                      \/ Screenshot(p, id, g) \/ PdfSave(p, id, g)
                      \/ ConsoleMessages(p, id, g) \/ Upload(p, id, g)
    \/ \E g \in Pages :
          \/ \E byUser \in BOOLEAN : PopUp(g, byUser)
          \/ UserOpens(g) \/ PageCloses(g)

BrowserSpec == BrowserInit /\ [][BrowserNext]_browserVars

-----------------------------------------------------------------------------
\* The variables have their types; _active_profile agrees with the browser.
BrowserTypeOK ==
    /\ browser \in {"none", "launched", "attached"}
    /\ owns \subseteq {"browser", "context"} /\ mode \in {"idle", "launch", "cdp", "relay"}
    /\ ToSet(tabs) \cup Live \subseteq Pages
    /\ context => driver /\ browser # "none" /\ active = startedFor

\* A call that names no tab gets the tab the agent last opened, focused or acted
\* on, as long as it is there, whatever pages have come and gone meanwhile.
BrowserTabs == INSTANCE TabList WITH
    Page <- Pages, None <- NoPage, open <- Live,
    chosen <- IF lastUsed \in Live THEN DefaultTab ELSE NoPage

BrowserKeepsTabs == BrowserTabs!TabListSpec

\* No call for one profile reaches the pages of a browser started for the other.
\* (dialog is not such a call, and stop: they do not look at the active profile.)
ProfilesDoNotMix == \A p \in Profiles : Usable(p) => p = startedFor

\* The pages that the user opened in his browser stay there when the runtime
\* attaches, fails, stops or switches the profile.
UsersPagesStay == users \subseteq Live \cup ToSet(theirs)

\* A snapshot gives each element that it has room for a ref of its own, whatever the
\* tab showed before and whatever refs the snapshots of it gave.
EachElementHasItsRef ==
    \A g \in Live, d \in Documents :
       LET made == BuildSnapshotRefs(d, refs[g])
           kept == SubSeq(d, 1, Min({Len(d), MaxRefs}))
       IN \A s \in ToSet(d) : Cardinality({r \in DOMAIN made : made[r] = s})
                                 = Cardinality({i \in DOMAIN kept : kept[i] = s})
==============================================================================
