-------------------------- MODULE ScheduleAggregate --------------------------
(***************************************************************************)
(* One schedule's decider (trogon-scheduler-domain and the recurrence      *)
(* commands of trogon-scheduler). A command is one guarded append: every   *)
(* command of the aggregate is StreamUnchanged or NoStream, and            *)
(* SerialStream states what such an append promises. The instants of a     *)
(* recurrence are 1 .. Occurrences; expanding the rule is not modelled.    *)
(***************************************************************************)
EXTENDS Naturals, Sequences

CONSTANTS
    Kinds,         \* the kinds of schedule: "At", "Every" (also cron), "RRule"
    Occurrences,   \* the instants of an RRule
    MaxCommands    \* bound: pauses, resumes and removals together

ASSUME AggregateAssumption ==
    /\ Kinds \subseteq {"At", "Every", "RRule"}
    /\ Occurrences \in Nat \ {0} /\ MaxCommands \in Nat

VARIABLES
    events,    \* the schedule's event stream
    state,     \* its fold
    elapsed,   \* the clock: instants further in the past than the grace
    commands   \* user commands so far

aggregateVars == <<events, state, elapsed, commands>>

None == 0
Instants == 1..Occurrences

\* The kind of the schedule, which is part of its definition and never changes.
Kind == state.kind

Event(type, at) == [type |-> type, at |-> at]

\* evolve of commands/state.rs. Resuming discards a pending occurrence.
Evolve(s, e) ==
    CASE e.type = "Created" -> [s EXCEPT !.phase = "enabled"]
      [] e.type = "CreatedPaused" -> [s EXCEPT !.phase = "disabled"]
      [] e.type = "Removed" -> [s EXCEPT !.phase = "deleted", !.pending = None]
      [] e.type = "Paused" -> [s EXCEPT !.phase = "disabled"]
      [] e.type = "Resumed" -> [s EXCEPT !.phase = "enabled", !.pending = None]
      [] e.type = "Recorded" -> [s EXCEPT !.last = e.at, !.pending = None]
      [] e.type = "Scheduled" -> [s EXCEPT !.pending = e.at]
      [] e.type = "Completed" -> [s EXCEPT !.pending = None, !.completed = TRUE]

\* A decision of one event, or of the two an occurrence raises.
Append1(e) ==
    /\ events' = Append(events, e)
    /\ state' = Evolve(state, e)

Append2(e, f) ==
    /\ events' = events \o <<e, f>>
    /\ state' = Evolve(Evolve(state, e), f)

AggregateInit ==
    /\ events = <<>>
    /\ state \in [kind : Kinds, phase : {"missing"}, last : {None}, pending : {None},
                  completed : {FALSE}]
    /\ elapsed = 0
    /\ commands = 0

Command(phases, e) ==
    /\ state.phase \in phases
    /\ commands < MaxCommands
    /\ commands' = commands + 1
    /\ Append1(e)
    /\ UNCHANGED elapsed

CreateSchedule ==
    /\ state.phase = "missing"
    /\ \E type \in {"Created", "CreatedPaused"} : Append1(Event(type, None))
    /\ UNCHANGED <<elapsed, commands>>

PauseSchedule == Command({"enabled"}, Event("Paused", None))
ResumeSchedule == ~state.completed /\ Command({"disabled"}, Event("Resumed", None))
RemoveSchedule == Command({"enabled", "disabled"}, Event("Removed", None))

\* Time passes.
Tick ==
    /\ elapsed < Occurrences
    /\ elapsed' = elapsed + 1
    /\ UNCHANGED <<events, state, commands>>

\* Mutant of Follows: a recurrence resumes at the pending instant itself.
FollowsAgain(at) ==
    IF at <= Occurrences THEN Event("Scheduled", at) ELSE Event("Completed", None)

\* plan_next and recurrence_event: the first instant after the given one, or
\* the end of the recurrence.
Follows(at) ==
    IF at < Occurrences THEN Event("Scheduled", at + 1) ELSE Event("Completed", None)

\* ScheduleNextOccurrence: after the last recorded instant or, before any was
\* recorded, the first that is not past its grace.
NextOccurrence(now) == Follows(IF state.last = None THEN now ELSE state.last)

Arms ==
    /\ state.phase = "enabled" /\ ~state.completed /\ state.pending = None

\* RecordScheduleOccurrence: the wakeup has to be the pending one. A paused
\* schedule records it without planning another, but may complete.
Records(at) ==
    /\ state.phase \in {"enabled", "disabled"}
    /\ state.last < at
    /\ state.pending = at

RecordOccurrence(at) ==
    IF state.phase = "disabled" /\ Follows(at).type = "Scheduled"
    THEN Append1(Event("Recorded", at))
    ELSE Append2(Event("Recorded", at), Follows(at))

-----------------------------------------------------------------------------
EventTypes == {"Created", "CreatedPaused", "Removed", "Paused", "Resumed",
               "Recorded", "Scheduled", "Completed"}
Events == [type : EventTypes, at : Nat]
States == [kind : Kinds, phase : {"missing", "enabled", "disabled", "deleted"},
           last : Nat, pending : Nat, completed : BOOLEAN]

AggregateTypeOK ==
    /\ events \in Seq(Events)
    /\ state \in States
    /\ elapsed \in Nat /\ commands \in Nat

=============================================================================
