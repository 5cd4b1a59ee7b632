---------------------------- MODULE MCCronService -----------------------------
(***************************************************************************)
(* CronService for TLC: a one-shot reminder and a recurring job, and in    *)
(* CronTwoDue.cfg a second one, so that two may be due with the reminder   *)
(* or one of them be added while the other is executed.                    *)
(***************************************************************************)
EXTENDS CronService

CONSTANTS reminder, report, extra

MCJobs == {reminder, report}
MCThreeJobs == MCJobs \cup {extra}
MCKind == [j \in Jobs |-> IF j = reminder THEN "at" ELSE "every"]
==============================================================================
