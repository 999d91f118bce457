----------------------------- MODULE MCScheduler -----------------------------
(***************************************************************************)
(* Scheduler on a small instance: two test times, and the edits of the     *)
(* settings page that change the number of tests, switch reports and       *)
(* backups on and off, mistype a time, and move, clear or disable the      *)
(* contract reminder.                                                      *)
(***************************************************************************)
EXTENDS Scheduler

CONSTANTS early, late

MCTrigger == {early, late}

Plain ==
    [tests |-> <<early, late>>, weekly |-> late, monthly |-> NoTrigger,
     backup |-> NoTrigger, remind |-> TRUE, end |-> 2]

OneTest     == [Plain EXCEPT !.tests = <<late>>, !.end = 1]
NoScan      == [Plain EXCEPT !.tests = <<>>, !.weekly = NoTrigger, !.remind = FALSE]
Mistyped    == [Plain EXCEPT !.weekly = Unparsable, !.monthly = early, !.end = 0]
Backups     == [Plain EXCEPT !.backup = early]
BadBackups  == [OneTest EXCEPT !.backup = Unparsable, !.end = 2]

MCConfig == {Plain, OneTest, NoScan, Mistyped, Backups, BadBackups}
MCPickupConfig == {Plain, BadBackups}
==============================================================================
