--------------------------------- MODULE MCTools ---------------------------------
(***************************************************************************)
(* The modules of the tools, of the model call, of the configuration and   *)
(* of what a turn says, for TLC.  A behaviour is one of one of them, the   *)
(* others staying at an initial state: each works on state of its own.     *)
(***************************************************************************)
EXTENDS Browser, MemoryBrowser, BrowserTool, GuiTask, MarkdownMemory, ModelCall,
        MCConfigFiles, HeartbeatDelivery, FilePages, MCCronSchedule

VARIABLE part \* the module that moves

vars == <<part, browserVars, memoryVars, toolVars, guiVars, markdownVars, callVars,
          configVars, deliveryVars, pagesVars, scheduleVars>>

\* A page that shows one element, two, a double, and one element more than fits.
MCDocuments == {<<"a">>, <<"b", "a">>, <<"a", "b", "a">>, <<"b", "a", "a", "b">>}

Parts == {"browser", "memory", "tool", "gui", "markdown", "call", "config",
          "delivery", "pages", "schedule"}

\* Where a module that does not move stands.
Stands(p, condition) == part = p \/ condition

MCInit ==
    /\ part \in Parts
    /\ BrowserInit  /\ Stands("browser", chrome = "cdp")
    /\ MemoryInit
    /\ ToolInit
    /\ GuiInit
    /\ MarkdownInit
    /\ CallInit     /\ Stands("call", provider = "other")
    /\ ConfigInit   /\ Stands("config", shell.token = "" /\ shell.key["m"] = "")
    /\ DeliveryInit /\ Stands("delivery", settings = [mode |-> "last", ok |-> FALSE, alerts |-> TRUE])
    /\ PagesInit    /\ Stands("pages", lines = <<>> /\ limit = 0)
    /\ ScheduleInit /\ Stands("schedule", expr = Expression(Every, Every, Every, Every)
                                          /\ change = "none" /\ instant = 0)

MCNext ==
    \/ part = "browser" /\ BrowserNext
       /\ UNCHANGED <<part, memoryVars, toolVars, guiVars, markdownVars, callVars,
                      configVars, deliveryVars, pagesVars, scheduleVars>>
    \/ part = "memory" /\ MemoryNext
       /\ UNCHANGED <<part, browserVars, toolVars, guiVars, markdownVars, callVars,
                      configVars, deliveryVars, pagesVars, scheduleVars>>
    \/ part = "tool" /\ ToolNext
       /\ UNCHANGED <<part, browserVars, memoryVars, guiVars, markdownVars, callVars,
                      configVars, deliveryVars, pagesVars, scheduleVars>>
    \/ part = "gui" /\ GuiNext
       /\ UNCHANGED <<part, browserVars, memoryVars, toolVars, markdownVars, callVars,
                      configVars, deliveryVars, pagesVars, scheduleVars>>
    \/ part = "markdown" /\ MarkdownNext
       /\ UNCHANGED <<part, browserVars, memoryVars, toolVars, guiVars, callVars,
                      configVars, deliveryVars, pagesVars, scheduleVars>>
    \/ part = "call" /\ CallNext
       /\ UNCHANGED <<part, browserVars, memoryVars, toolVars, guiVars, markdownVars,
                      configVars, deliveryVars, pagesVars, scheduleVars>>
    \/ part = "config" /\ ConfigNext
       /\ UNCHANGED <<part, browserVars, memoryVars, toolVars, guiVars, markdownVars,
                      callVars, deliveryVars, pagesVars, scheduleVars>>
    \/ part = "delivery" /\ DeliveryNext
       /\ UNCHANGED <<part, browserVars, memoryVars, toolVars, guiVars, markdownVars,
                      callVars, configVars, pagesVars, scheduleVars>>
    \/ part = "pages" /\ PagesNext
       /\ UNCHANGED <<part, browserVars, memoryVars, toolVars, guiVars, markdownVars,
                      callVars, configVars, deliveryVars, scheduleVars>>
    \/ part = "schedule" /\ ScheduleNext
       /\ UNCHANGED <<part, browserVars, memoryVars, toolVars, guiVars, markdownVars,
                      callVars, configVars, deliveryVars, pagesVars>>

MCSpec == MCInit /\ [][MCNext]_vars

\* A caller of either browser runtime keeps its tab, its profile and the user's pages.
RuntimesKeepTabs ==
    /\ BrowserKeepsTabs /\ MemoryKeepsTabs
    /\ [](BrowserTypeOK /\ ProfilesDoNotMix /\ UsersPagesStay)

\* A GUI task's report has every action that was performed, and it does not go on
\* without progress.
TaskAccounted == StepsAreReported /\ TaskDoesNotSpin

\* The markdown memory has each event that it takes for written, and once.
FactsWrittenOnce == RememberedIsWritten /\ WrittenOnce

\* Tool results meet their calls, token rows their requests.
ModelCallsPaired == ResultsMeetTheirCalls /\ UsageOfItsRequest

\* The commands keep what the user wrote in config.json, and a fixed one runs.
ConfigKept == ConfigTypeOK /\ UserValuesStay /\ FixedConfigRuns

\* What is said in a turn reaches whom it is for, and nobody else.
RoutesKept == DeliveryTypeOK /\ AlertsReachOne /\ TurnsKeepTheirRoutes
==================================================================================
