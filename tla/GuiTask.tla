-------------------------------- MODULE GuiTask --------------------------------
(***************************************************************************)
(* The GUI tools: gui_action grounds one action in a screenshot, performs  *)
(* it and looks whether the screen has changed; gui_task lets a planner    *)
(* choose actions until it replies, gives up, or a guard stops it.  What   *)
(* the models answer and what the screen shows is open.                    *)
(***************************************************************************)
EXTENDS Integers, Sequences, FiniteSets, FiniteSetsExt

CONSTANTS Texts,            \* actions in the planner's words; {}: no GUI tools
          MaxSteps, MaxParseRetries, MaxActionRetries,
          MaxNoProgress, MaxRepeats

ASSUME GuiAssumption ==
    /\ {MaxParseRetries, MaxActionRetries} \subseteq Nat
    /\ {MaxSteps, MaxNoProgress, MaxRepeats} \subseteq Nat \ {0}

VARIABLES
    gui,     \* "idle", "plan", "ground", "perform", "verify"
    isTask, dryRun,
    step, attempts, retries,
    text,    \* the action at work
    again,   \* it is one that may be performed again if the screen does not change
    history, \* the steps of the task
    outcome, \* status_code, "done" of gui_action, or "raised"
    acts     \* history: actions performed since the call

guiVars == <<gui, isTask, dryRun, step, attempts, retries, text, again, history, outcome, acts>>

GuiInit ==
    /\ gui = "idle" /\ isTask = FALSE /\ dryRun = FALSE
    /\ step = 1 /\ attempts = 0 /\ retries = 0 /\ text = "none" /\ again = FALSE
    /\ history = <<>> /\ outcome = "none" /\ acts = 0

Ends(code) == gui' = "idle" /\ outcome' = code

\* A call of gui_action with an action, or of gui_task.
StartGui(t, dry) ==
    /\ gui = "idle"
    /\ isTask' = (t = "none") /\ dryRun' = dry /\ text' = t
    /\ gui' = IF t = "none" THEN "plan" ELSE "ground"
    /\ step' = 1 /\ attempts' = 0 /\ retries' = 0 /\ again' = FALSE
    /\ history' = <<>> /\ outcome' = "none" /\ acts' = 0

\* The settings are missing, a screenshot, a model call or an action raises: the
\* tool returns the error alone.
Raises ==
    /\ gui # "idle"
    /\ Ends("raised")
    /\ UNCHANGED <<isTask, dryRun, step, attempts, retries, text, again, history, acts>>

\* What a model says is not understood: the planner and the grounding try again.
NotUnderstood ==
    /\ gui \in {"plan", "ground"}
    /\ attempts' = attempts + 1
    /\ IF attempts >= MaxParseRetries THEN Ends("raised") ELSE UNCHANGED <<gui, outcome>>
    /\ UNCHANGED <<isTask, dryRun, step, retries, text, again, history, acts>>

-----------------------------------------------------------------------------
\* The planner

\* reply; or something that makes no sense.
PlanEnds ==
    /\ gui = "plan"
    /\ \E code \in {"completed", "failed"} : Ends(code)
    /\ UNCHANGED <<isTask, dryRun, step, attempts, retries, text, again, history, acts>>

\* The next step, if there is one.
NextStep ==
    IF step < MaxSteps
    THEN gui' = "plan" /\ step' = step + 1 /\ attempts' = 0 /\ retries' = 0 /\ UNCHANGED outcome
    ELSE Ends("max_steps") /\ UNCHANGED <<step, attempts, retries>>

\* save_info and modify_plan.
PlanNotes ==
    /\ gui = "plan"
    /\ history' = Append(history, [type |-> "note", text |-> "none", changed |-> TRUE, retries |-> 0])
    /\ NextStep
    /\ UNCHANGED <<isTask, dryRun, text, again, acts>>

PlanExecutes(t) ==
    /\ gui = "plan"
    /\ gui' = "ground" /\ text' = t /\ attempts' = 0 /\ retries' = 0
    /\ UNCHANGED <<isTask, dryRun, step, again, history, outcome, acts>>

-----------------------------------------------------------------------------
\* The executor

\* The grounding names an action: one of those that change the screen, or another.
Grounds ==
    /\ gui = "ground"
    /\ gui' = IF dryRun THEN "verify" ELSE "perform"
    /\ again' \in BOOLEAN
    /\ UNCHANGED <<isTask, dryRun, step, attempts, retries, text, history, outcome, acts>>

\* The policy allows it, and it is done.
Performs ==
    /\ gui = "perform"
    /\ gui' = "verify" /\ acts' = acts + 1
    /\ UNCHANGED <<isTask, dryRun, step, attempts, retries, text, again, history, outcome>>

\* How many steps at the end of h are executions of which Same holds.
TrailOf(h, Same(_)) ==
    Max({0} \cup {k \in 1 .. Len(h) : \A i \in Len(h) - k + 1 .. Len(h) : h[i].type = "execute" /\ Same(h[i])})

Stalled_OneLater(h, t) ==
    \/ TrailOf(h, LAMBDA s : ~s.changed) > MaxNoProgress
    \/ TrailOf(h, LAMBDA s : s.text = t) > MaxRepeats

\* Too many executions in a row without a change, or of the same action.
Stalled(h, t) ==
    \/ TrailOf(h, LAMBDA s : ~s.changed) >= MaxNoProgress
    \/ TrailOf(h, LAMBDA s : s.text = t) >= MaxRepeats

\* Once more, with a new screenshot, if the screen should have changed and did not.
PerformsAgain(changed) ==
    ~dryRun /\ ~changed /\ again /\ retries < MaxActionRetries

\* The screen after it.
Verifies(changed) ==
    /\ gui = "verify"
    /\ IF PerformsAgain(changed)
       THEN /\ gui' = "ground" /\ retries' = retries + 1 /\ attempts' = 0
            /\ UNCHANGED <<step, history, outcome>>
       ELSE IF ~isTask
       THEN Ends("done") /\ UNCHANGED <<step, attempts, retries, history>>
       ELSE /\ history' = Append(history, [type |-> "execute", text |-> text,
                                           changed |-> changed, retries |-> retries])
            /\ IF Stalled(history', text)
               THEN Ends("no_progress") /\ UNCHANGED <<step, attempts, retries>>
               ELSE NextStep
    /\ UNCHANGED <<isTask, dryRun, text, again, acts>>

GuiNext ==
    \/ Raises \/ NotUnderstood \/ PlanEnds \/ PlanNotes \/ Grounds \/ Performs
    \/ \E t \in Texts : PlanExecutes(t)
    \/ \E t \in Texts, dry \in BOOLEAN : StartGui(t, dry)
    \/ \E dry \in BOOLEAN : Texts # {} /\ StartGui("none", dry)
    \/ \E changed \in BOOLEAN : Verifies(changed)

GuiSpec == GuiInit /\ [][GuiNext]_guiVars

-----------------------------------------------------------------------------
Executed(h) == {i \in DOMAIN h : h[i].type = "execute"}

\* What a history says was performed: each executed step, and each time it was tried again.
Reported(h) == UNION {{i} \X (0 .. h[i].retries) : i \in Executed(h)}

\* A task that returns reports every action that was performed for it, the repeated
\* ones included, and a dry run performs none.  (One that raises reports none.)
StepsAreReported ==
    outcome \in {"completed", "failed", "no_progress", "max_steps"} =>
       acts = IF dryRun THEN 0 ELSE Cardinality(Reported(history))

\* No task goes on while nothing changes or the same is done over and over, unless
\* the planner takes notes in between.
TaskDoesNotSpin ==
    \A i \in 1 .. Len(history) - Min({MaxNoProgress, MaxRepeats}) :
       LET Window(n) == {history[j] : j \in i .. Min({i + n - 1, Len(history)})}
       IN /\ i + MaxNoProgress <= Len(history)
               => \E s \in Window(MaxNoProgress) : s.type # "execute" \/ s.changed
          /\ i + MaxRepeats <= Len(history)
               => Cardinality({<<s.type, s.text>> : s \in Window(MaxRepeats)}) > 1
                  \/ \E s \in Window(MaxRepeats) : s.type # "execute"
==============================================================================
