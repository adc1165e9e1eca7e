------------------------- MODULE MCScheduleExecution -------------------------
(* Instances of ScheduleExecution for TLC. *)
EXTENDS ScheduleExecution

CONSTANT RecurrenceCommands    \* bound: the user commands of a recurrence

MCNext == Next /\ (Kind = "RRule" => commands' <= RecurrenceCommands)

MCSpec == Init /\ [][MCNext]_vars
MCFairSpec == MCSpec /\ Fairness

=============================================================================
