------------------------------ MODULE CronSchedule ------------------------------
(***************************************************************************)
(* When a job with a cron expression is due: the expression's fields, the  *)
(* search for the next minute that matches, and the clock of a time zone   *)
(* that may be put forward or back once.  CronService takes the result as  *)
(* a period; here it is computed.                                          *)
(***************************************************************************)
EXTENDS Integers, Sequences, FiniteSets, FiniteSetsExt

CONSTANTS
    Minutes, Hours, MonthDays, WeekDays, \* of an hour, a day, a month, a week
    Expressions,  \* the expressions: five fields, see Values
    Changes,      \* of {"none", "forward", "back"}: what happens to the zone's clock
    ChangeAt,     \* the instant (in minutes) at which it does, by one hour
    Horizon,      \* bound: the last instant
    ScanLimit     \* how many minutes the search tries (two years in the code)

ASSUME ScheduleAssumption ==
    /\ {Minutes, Hours, MonthDays, WeekDays} \subseteq Nat \ {0}
    /\ Changes \subseteq {"none", "forward", "back"}
    /\ {ChangeAt, Horizon, ScanLimit} \subseteq Nat
    /\ ChangeAt % Minutes = 0 \* zones change their clocks on the hour

VARIABLES
    expr,     \* the job's expression
    change,   \* what the zone's clock does
    instant,  \* now
    due,      \* next_run_at_ms, or Never
    computed  \* history: when due was computed, or Never

scheduleVars == <<expr, change, instant, due, computed>>

Never == -1

-----------------------------------------------------------------------------
\* The zone.  The wall clock is counted in minutes from a midnight; one hour is
\* ahead of the instants before the change.

Shift(after) ==
    IF ~after \/ change = "none" THEN Minutes
    ELSE IF change = "forward" THEN 2 * Minutes ELSE 0

Wall(t) == t + Shift(t >= ChangeAt)

\* timestamp() of a wall time with fold = 0, which a time has after minutes were
\* added to it: of the two instants of an hour that comes twice the first, and a
\* time that was left out by the clock of before.
Timestamp(w) ==
    IF w - Shift(FALSE) >= ChangeAt /\ w - Shift(TRUE) >= ChangeAt
    THEN w - Shift(TRUE) ELSE w - Shift(FALSE)

-----------------------------------------------------------------------------
\* Expressions

\* A field is a set of chunks [all, from, to, step], all for "*/step"; "*" alone is
\* the empty set.  _parse_cron_values: its values, or {} if it makes no sense.
Chunk(c, low, high) ==
    LET from == IF c.all THEN low ELSE c.from
        to   == IF c.all THEN high ELSE c.to
    IN IF c.step <= 0 \/ from \notin low .. high \/ to \notin from .. high THEN {}
       ELSE {n \in from .. to : (n - from) % c.step = 0}

Anything(field) == field = {}

Values(field, low, high) ==
    IF Anything(field) THEN low .. high
    ELSE IF \E c \in field : Chunk(c, low, high) = {} THEN {}
    ELSE UNION {Chunk(c, low, high) : c \in field}

\* The last day of the week is the first.
WeekValues(field) == {n % WeekDays : n \in Values(field, 0, WeekDays)}

Sensible(e) ==
    /\ Values(e.minute, 0, Minutes - 1) # {} /\ Values(e.hour, 0, Hours - 1) # {}
    /\ Values(e.day, 1, MonthDays) # {} /\ WeekValues(e.week) # {}

DayOf(w) == w \div (Minutes * Hours)

\* _matches_day: where both are restricted, one is enough.
MatchesDay(e, w) ==
    LET onDay  == (DayOf(w) % MonthDays) + 1 \in Values(e.day, 1, MonthDays)
        onWeek == DayOf(w) % WeekDays \in WeekValues(e.week)
    IN \/ Anything(e.day) /\ Anything(e.week)
       \/ Anything(e.day) /\ ~Anything(e.week) /\ onWeek
       \/ ~Anything(e.day) /\ Anything(e.week) /\ onDay
       \/ ~Anything(e.day) /\ ~Anything(e.week) /\ (onDay \/ onWeek)

Matches(e, w) ==
    /\ (w \div Minutes) % Hours \in Values(e.hour, 0, Hours - 1)
    /\ w % Minutes \in Values(e.minute, 0, Minutes - 1)
    /\ MatchesDay(e, w)

NextCronRun_FromThisMinute(e, t) ==
    LET found == {w \in Wall(t) .. Wall(t) + ScanLimit : Matches(e, w)}
    IN IF ~Sensible(e) \/ found = {} THEN Never ELSE Timestamp(Min(found))

\* _compute_next_cron_run: the minutes of the wall clock after this one, in turn.
NextCronRun(e, t) ==
    LET found == {w \in Wall(t) + 1 .. Wall(t) + ScanLimit : Matches(e, w)}
    IN IF ~Sensible(e) \/ found = {} THEN Never ELSE Timestamp(Min(found))

-----------------------------------------------------------------------------
\* A job

\* parse_schedule_input takes any text for an expression; add_job computes when
\* the job is due.  An expression without sense is a job that never is.
ScheduleInit ==
    /\ expr \in Expressions /\ change \in Changes
    /\ instant \in 0 .. Horizon
    /\ due = Never /\ computed = Never

AddCronJob ==
    /\ computed = Never
    /\ due' = NextCronRun(expr, instant) /\ computed' = instant
    /\ UNCHANGED <<expr, change, instant>>

MinutePasses ==
    /\ instant < Horizon /\ instant' = instant + 1
    /\ UNCHANGED <<expr, change, due, computed>>

\* A tick, perhaps late, runs the job; the next time follows the end of the run.
RunDueJob ==
    /\ due # Never /\ due <= instant
    /\ due' = NextCronRun(expr, instant) /\ computed' = instant
    /\ UNCHANGED <<expr, change, instant>>

\* _recompute_next_runs at the start of the service.
RestartCron ==
    /\ computed # Never /\ computed # instant
    /\ due' = NextCronRun(expr, instant) /\ computed' = instant
    /\ UNCHANGED <<expr, change, instant>>

ScheduleNext == AddCronJob \/ MinutePasses \/ RunDueJob \/ RestartCron

ScheduleSpec == ScheduleInit /\ [][ScheduleNext]_scheduleVars

-----------------------------------------------------------------------------
\* An hour comes twice when the clock is put back.
SecondTime(t) == change = "back" /\ t \in ChangeAt .. ChangeAt + Minutes - 1

\* The instants an expression means, read off the clock: those at which the wall
\* clock matches, the first of two; or, seen from before the change, at which it
\* would have, had it not been put forward over that time.
Meant(t) ==
    /\ ~SecondTime(t)
    /\ \/ Matches(expr, Wall(t))
       \/ /\ change = "forward" /\ computed < ChangeAt
          /\ t \in ChangeAt .. ChangeAt + Minutes - 1
          /\ Matches(expr, t + Shift(FALSE))

\* A job is due at the first instant after now that its expression means, across a
\* change of the clock too; unless it is computed in the second hour of two.
DueWhenMeant ==
    computed # Never /\ ~SecondTime(computed) =>
        LET ahead == {t \in computed + 1 .. computed + ScanLimit - Minutes : Meant(t)}
        IN IF ~Sensible(expr) THEN due = Never
           ELSE ahead # {} => due = Min(ahead)

\* What is computed at the end of a run lies ahead, so that a job does not run again
\* at once.
NextRunIsLater == computed # Never /\ due # Never => due > computed
==================================================================================
