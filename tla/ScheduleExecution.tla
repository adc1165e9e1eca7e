-------------------------- MODULE ScheduleExecution --------------------------
(***************************************************************************)
(* The execution side of one schedule (trogon-scheduler,                   *)
(* processor/execution): a durable consumer delivers the events of the     *)
(* schedule to the lane dispatcher of each instance, which applies them    *)
(* one at a time to the broker's scheduled messages and records how far it *)
(* got in a checkpoint. A fired wakeup of a recurrence comes back as a     *)
(* command to the aggregate.                                               *)
(*                                                                         *)
(* The consumer, the duplicate window and the scheduled messages of the    *)
(* broker are external, modelled from how the processor uses them. A       *)
(* corrupt checkpoint and a request that fails validation are not          *)
(* modelled.                                                               *)
(***************************************************************************)
EXTENDS ScheduleAggregate, KvEntry

CONSTANTS
    Instances,      \* processor instances pulling from the one durable
    Ceiling,        \* MISSING_CHECKPOINT_DELIVERY_CEILING
    FaultKinds,     \* the faults of this instance of the model
    MaxFaults       \* bound: faults of all kinds together

ASSUME ExecutionAssumption ==
    /\ Ceiling \in Nat \ {0} /\ MaxFaults \in Nat
    /\ FaultKinds \subseteq {"fail", "crash", "early", "ack", "wakeup", "window"}

VARIABLES
    settled,       \* positions the consumer is done with: acked or terminated
    deliveries,    \* deliveries[p]: how often p was delivered, up to Ceiling
    lane,          \* lane[i]: deliveries queued by instance i
    run,           \* run[i]: the record instance i is processing
    checkpoint,    \* the KV entry of the checkpoint
    scheduled,     \* messages on the execution subject
    window,        \* what the duplicate windows hold: <<stream, event>>
    dispatched,    \* the events whose message reached the user, in order
    wakeups,       \* fired instants the wakeup consumer has not acked
    failures,      \* positions with a durable failure record
    faults,
    \* What happened, for the properties; no action reads it.
    duplicates,    \* positions whose execution publish was dropped as a duplicate
    overtaken      \* positions still open when a later one was reconciled

brokerVars == <<scheduled, window, dispatched, wakeups, duplicates>>
consumerVars == <<settled, deliveries, failures, faults, overtaken>>
vars == <<aggregateVars, brokerVars, consumerVars, lane, run, checkpoint>>

\* The creation and the user's commands; for a recurrence, each of them may arm
\* it and an instant raises two events.
MaxEvents ==
    1 + MaxCommands + IF "RRule" \in Kinds THEN 1 + MaxCommands + 2 * Occurrences ELSE 0

Positions == 1..Len(events)

Idle == [pc |-> "idle", pos |-> 0, count |-> 0, now |-> 0, revision |-> 0,
         does |-> "None", status |-> "None"]

\* The checkpoint record, with the status of a schedule that has none.
Current == IF IsPut(checkpoint) THEN checkpoint.value
           ELSE [status |-> "None", applied |-> 0]

-----------------------------------------------------------------------------

\* decide_enabled: a recurrence is armed by the aggregate, a one-shot past its
\* grace expires, anything else is published.
DecideEnabled(now) ==
    IF Kind = "RRule" THEN <<"Arm", "Scheduled">>
    ELSE IF Kind = "At" /\ now >= 1 THEN <<"Only", "Expired">>
    ELSE <<"Publish", "Scheduled">>

\* The occurrences of a recurrence against a checkpoint. Stale is
\* DuplicateStale, which is acknowledged without touching anything.
DecidesOccurrence(e, cp) ==
    CASE e.type = "Recorded" /\ cp.status \in {"Scheduled", "Paused"} -> <<"Dispatch", cp.status>>
      [] e.type = "Scheduled" /\ cp.status = "Scheduled" -> <<"Publish", "Scheduled">>
      [] e.type = "Completed" /\ cp.status # "Removed" -> <<"Purge", "Expired">>
      [] OTHER -> <<"Stale", cp.status>>

\* reconcile, after the stale check: the side effect of an event and the status
\* its checkpoint gets. Missing is MissingCheckpoint.
Decides(e, cp, now) ==
    IF cp.status = "None" /\ e.type \notin {"Created", "CreatedPaused"}
    THEN <<"Missing", "None">>
    ELSE CASE e.type \in {"Created", "Resumed"} -> DecideEnabled(now)
           [] e.type = "CreatedPaused" -> <<"Only", "Paused">>
           [] e.type = "Paused" -> <<"Purge", "Paused">>
           [] e.type = "Removed" -> <<"Purge", "Removed">>
           [] OTHER -> DecidesOccurrence(e, cp)

\* Mutant of Reconcile: no position is stale.
ReconcileAlways(cp, p, now) == Decides(events[p], cp, now)

\* Mutant of Reconcile: an occurrence of a paused schedule is not dispatched.
ReconcileEnabled(cp, p, now) ==
    IF cp.applied >= p \/ (events[p].type = "Recorded" /\ cp.status = "Paused")
    THEN <<"Stale", cp.status>> ELSE Decides(events[p], cp, now)

Reconcile(cp, p, now) ==
    IF cp.applied >= p THEN <<"Stale", cp.status>> ELSE Decides(events[p], cp, now)

\* The first network call of an outcome.
FirstCall(does) ==
    CASE does \in {"Publish", "Purge"} -> "purge"
      [] does = "Dispatch" -> "dispatch"
      [] does = "Arm" -> "arm"
      [] does = "Only" -> "save"
      [] does = "Missing" -> "missing"
      [] does = "Stale" -> "ack"

-----------------------------------------------------------------------------

Init ==
    /\ AggregateInit
    /\ settled = {} /\ deliveries = <<>> /\ failures = {} /\ faults = 0
    /\ lane = [i \in Instances |-> <<>>]
    /\ run = [i \in Instances |-> Idle]
    /\ checkpoint = NoEntry
    /\ scheduled = {} /\ window = {} /\ dispatched = <<>> /\ wakeups = {}
    /\ duplicates = {} /\ overtaken = {}

Fault(kind) == kind \in FaultKinds /\ faults < MaxFaults /\ faults' = faults + 1

InHand(p) == \E i \in Instances :
    run[i].pos = p \/ \E k \in DOMAIN lane[i] : lane[i][k].pos = p

\* The consumer's next delivery of p to instance i. First deliveries are in
\* stream order; a redelivery follows a NAK or the end of ack_wait, which may
\* also run out while the record is still in hand. The dispatcher queues the
\* delivery on the schedule's lane.
Deliver(i, p) ==
    /\ p \in Positions \ settled
    /\ p <= Len(deliveries) + 1
    /\ IF InHand(p) THEN Fault("early") ELSE UNCHANGED faults
    /\ LET count == IF p > Len(deliveries) THEN 1
                    ELSE IF deliveries[p] < Ceiling THEN deliveries[p] + 1 ELSE Ceiling
       IN  /\ deliveries' = IF p > Len(deliveries) THEN Append(deliveries, count)
                            ELSE [deliveries EXCEPT ![p] = count]
           /\ lane' = [lane EXCEPT ![i] = Append(@, [pos |-> p, count |-> count])]
    /\ UNCHANGED <<aggregateVars, brokerVars, settled, failures, overtaken, run, checkpoint>>

\* Positions before p that are neither applied nor settled.
Open(p) == {q \in Positions \ settled : Current.applied < q /\ q < p}

\* resolve_ready_key pops the lane once nothing of it is in flight; process_one
\* reads the clock, loads the checkpoint and reconciles.
Load(i) ==
    /\ run[i] = Idle
    /\ lane[i] # <<>>
    /\ LET head == Head(lane[i])
           outcome == Reconcile(Current, head.pos, elapsed)
       IN  /\ run' = [run EXCEPT ![i] =
                        [pc |-> FirstCall(outcome[1]), pos |-> head.pos, count |-> head.count,
                         now |-> elapsed, revision |-> checkpoint.revision,
                         does |-> outcome[1], status |-> outcome[2]]]
           /\ overtaken' = overtaken \cup Open(head.pos)
    /\ lane' = [lane EXCEPT ![i] = Tail(@)]
    /\ UNCHANGED <<aggregateVars, brokerVars, settled, deliveries, failures, faults, checkpoint>>

At(i, pc) == run[i].pc = pc
Goto(i, pc) == run' = [run EXCEPT ![i].pc = pc]

\* A publish the duplicate window remembers is acknowledged but not stored.
Publishes(stream, i) == <<stream, run[i].pos>> \notin window
Remember(stream, i) == window' = window \cup {<<stream, run[i].pos>>}

\* ExecutionScheduleWriter::purge, alone or as the first half of an upsert. It
\* empties the subject; the duplicate window is the stream's and stays. (A
\* purge that also forgets is a purge followed by ExpireWindow.)
Purge(i) ==
    /\ At(i, "purge")
    /\ scheduled' = {}
    /\ Goto(i, IF run[i].does = "Publish" THEN "publish" ELSE "save")
    /\ UNCHANGED <<aggregateVars, consumerVars, lane, checkpoint, window, dispatched, wakeups,
                   duplicates>>

\* The second half of an upsert: the event id is the message id. What the
\* broker answers to a duplicate is a success like any other.
Publish(i) ==
    /\ At(i, "publish")
    /\ scheduled' = IF Publishes("execution", i)
                    THEN scheduled \cup {[pos |-> run[i].pos, at |-> events[run[i].pos].at]}
                    ELSE scheduled
    /\ duplicates' = IF Publishes("execution", i) THEN duplicates
                     ELSE duplicates \cup {run[i].pos}
    /\ Remember("execution", i)
    /\ Goto(i, "save")
    /\ UNCHANGED <<aggregateVars, consumerVars, lane, checkpoint, dispatched, wakeups>>

\* Mutant of Dispatch: every attempt has a message id of its own.
DispatchUnidentified(i) ==
    /\ At(i, "dispatch")
    /\ dispatched' = Append(dispatched, run[i].pos)
    /\ Goto(i, "save")
    /\ UNCHANGED <<aggregateVars, consumerVars, lane, checkpoint, scheduled, window, wakeups,
                   duplicates>>

\* dispatch: the user's message of a recorded occurrence.
Dispatch(i) ==
    /\ At(i, "dispatch")
    /\ dispatched' = IF Publishes("delivery", i)
                     THEN Append(dispatched, run[i].pos) ELSE dispatched
    /\ Remember("delivery", i)
    /\ Goto(i, "save")
    /\ UNCHANGED <<aggregateVars, consumerVars, lane, checkpoint, scheduled, wakeups,
                   duplicates>>

\* settle_message with a NAK, after a RetryableError.
Retry(i) ==
    /\ run' = [run EXCEPT ![i] = Idle]
    /\ UNCHANGED consumerVars

\* arm_next_occurrence: ScheduleNextOccurrence under the id of this event. An
\* armed, completed or paused schedule is done; a removed one is an error.
Arm(i) ==
    /\ At(i, "arm")
    /\ IF state.phase = "deleted"
       THEN Retry(i) /\ UNCHANGED <<events, state, window>>
       ELSE /\ Goto(i, "save")
            /\ UNCHANGED consumerVars
            /\ IF Arms THEN Remember("command", i) ELSE UNCHANGED window
            /\ IF Arms /\ Publishes("command", i)
               THEN Append1(NextOccurrence(run[i].now))
               ELSE UNCHANGED <<events, state>>
    /\ UNCHANGED <<elapsed, commands, scheduled, dispatched, wakeups, duplicates, lane,
                   checkpoint>>

\* Mutant of Saves: the checkpoint is written whatever its revision is.
SavesAlways(i) == TRUE

\* ScheduleCheckpointStore::save: create without a loaded revision, update at
\* the loaded one otherwise. Revision 0 is "nothing was loaded".
Saves(i) ==
    IF run[i].revision = 0 THEN Creates(checkpoint)
    ELSE Unchanged(checkpoint, run[i].revision)

Save(i) ==
    /\ At(i, "save")
    /\ IF Saves(i)
       THEN /\ checkpoint' = PutValue(checkpoint, [status |-> run[i].status,
                                                   applied |-> run[i].pos])
            /\ Goto(i, "ack")
       ELSE Goto(i, "resolve") /\ UNCHANGED checkpoint
    /\ UNCHANGED <<aggregateVars, brokerVars, consumerVars, lane>>

\* resolve_save_conflict: the winner's checkpoint decides.
Resolve(i) ==
    /\ At(i, "resolve")
    /\ IF Current.applied >= run[i].pos
       THEN Goto(i, "ack") /\ UNCHANGED consumerVars
       ELSE Retry(i)
    /\ UNCHANGED <<aggregateVars, brokerVars, lane, checkpoint>>

\* Mutant of Missing: the record is given up on one delivery early.
MissingEarly(i) ==
    /\ At(i, "missing")
    /\ IF run[i].count + 1 >= Ceiling
       THEN /\ failures' = failures \cup {run[i].pos}
            /\ Goto(i, "term")
            /\ UNCHANGED <<settled, deliveries, faults, overtaken>>
       ELSE Retry(i)
    /\ UNCHANGED <<aggregateVars, brokerVars, lane, checkpoint>>

\* Mutant of Missing: the record is given up on without a failure record.
MissingUnrecorded(i) ==
    /\ At(i, "missing")
    /\ IF run[i].count >= Ceiling THEN Goto(i, "term") /\ UNCHANGED consumerVars ELSE Retry(i)
    /\ UNCHANGED <<aggregateVars, brokerVars, lane, checkpoint>>

\* A change whose checkpoint does not exist is retried; at the ceiling
\* poison_failure writes a durable failure record first.
Missing(i) ==
    /\ At(i, "missing")
    /\ IF run[i].count >= Ceiling
       THEN /\ failures' = failures \cup {run[i].pos}
            /\ Goto(i, "term")
            /\ UNCHANGED <<settled, deliveries, faults, overtaken>>
       ELSE Retry(i)
    /\ UNCHANGED <<aggregateVars, brokerVars, lane, checkpoint>>

\* settle_message with a Term, of a record that has its failure record.
Term(i) ==
    /\ At(i, "term")
    /\ settled' = settled \cup {run[i].pos}
    /\ run' = [run EXCEPT ![i] = Idle]
    /\ UNCHANGED <<aggregateVars, brokerVars, deliveries, failures, faults, overtaken, lane,
                   checkpoint>>

\* Mutant of Ack: a duplicate is retried.
AckApplied(i) ==
    /\ At(i, "ack")
    /\ settled' = IF run[i].does = "Stale" THEN settled ELSE settled \cup {run[i].pos}
    /\ run' = [run EXCEPT ![i] = Idle]
    /\ UNCHANGED <<aggregateVars, brokerVars, deliveries, failures, faults, overtaken, lane,
                   checkpoint>>

Ack(i) ==
    /\ At(i, "ack")
    /\ settled' = settled \cup {run[i].pos}
    /\ run' = [run EXCEPT ![i] = Idle]
    /\ UNCHANGED <<aggregateVars, brokerVars, deliveries, failures, faults, overtaken, lane,
                   checkpoint>>

\* A transient error of any call: the record is retried and its lane goes on.
\* At the call after the one that failed, this is a call that took effect but
\* whose answer was lost. An ack or a Term that fails or is lost leaves the
\* record to ack_wait.
Fail(i) ==
    /\ run[i] # Idle
    /\ \/ Fault("fail")
       \/ (At(i, "ack") \/ At(i, "term")) /\ Fault("ack")
    /\ run' = [run EXCEPT ![i] = Idle]
    /\ UNCHANGED <<aggregateVars, brokerVars, settled, deliveries, failures, overtaken, lane,
                   checkpoint>>

\* The instance stops: nothing it holds is settled.
Crash(i) ==
    /\ run[i] # Idle \/ lane[i] # <<>>
    /\ Fault("crash")
    /\ run' = [run EXCEPT ![i] = Idle]
    /\ lane' = [lane EXCEPT ![i] = <<>>]
    /\ UNCHANGED <<aggregateVars, brokerVars, settled, deliveries, failures, overtaken, checkpoint>>

-----------------------------------------------------------------------------

\* The broker fires a one-shot message: a wakeup goes to the wakeup consumer,
\* any other to the user.
Fire(m) ==
    /\ Kind # "Every"
    /\ scheduled' = scheduled \ {m}
    /\ IF Kind = "RRule"
       THEN wakeups' = wakeups \cup {m.at} /\ UNCHANGED dispatched
       ELSE dispatched' = Append(dispatched, m.pos) /\ UNCHANGED wakeups
    /\ UNCHANGED <<aggregateVars, consumerVars, lane, run, checkpoint, window, duplicates>>

\* RRuleWakeupProcessor::process, then the ack, which may be lost.
HandleWakeup(at) ==
    /\ IF Records(at) THEN RecordOccurrence(at) ELSE UNCHANGED <<events, state>>
    /\ \/ wakeups' = wakeups \ {at} /\ UNCHANGED faults
       \/ wakeups' = wakeups /\ Fault("wakeup")
    /\ UNCHANGED <<elapsed, commands, settled, deliveries, failures, overtaken, lane, run,
                   checkpoint, scheduled, window, dispatched, duplicates>>

\* An outage outlasts the duplicate windows.
ExpireWindow ==
    /\ window # {} /\ Fault("window")
    /\ window' = {}
    /\ UNCHANGED <<aggregateVars, settled, deliveries, failures, overtaken, lane, run,
                   checkpoint, scheduled, dispatched, wakeups, duplicates>>

User == CreateSchedule \/ PauseSchedule \/ ResumeSchedule \/ RemoveSchedule \/ Tick

Process(i) ==
    \/ Load(i) \/ Purge(i) \/ Publish(i) \/ Dispatch(i) \/ Arm(i)
    \/ Save(i) \/ Resolve(i) \/ Missing(i) \/ Term(i) \/ Ack(i)

Next ==
    \/ User /\ UNCHANGED <<brokerVars, consumerVars, lane, run, checkpoint>>
    \/ \E i \in Instances, p \in Positions : Deliver(i, p)
    \/ \E i \in Instances : Process(i) \/ Fail(i) \/ Crash(i)
    \/ \E m \in scheduled : Fire(m)
    \/ \E at \in wakeups : HandleWakeup(at)
    \/ ExpireWindow

Spec == Init /\ [][Next]_vars

\* The dispatcher polls its workers, and the consumer redelivers what is not
\* settled and no longer in hand, for as long as it takes (max_deliver: -1).
\* Users, time, the broker's timers and faults owe nothing.
Fairness ==
    /\ \A i \in Instances : WF_vars(Process(i))
    /\ \A p \in 1..MaxEvents :
           WF_vars(~InHand(p) /\ \E i \in Instances : Deliver(i, p))

FairSpec == Spec /\ Fairness

-----------------------------------------------------------------------------

Statuses == {"None", "Scheduled", "Paused", "Removed", "Expired"}
WritingCalls == {"purge", "publish", "dispatch", "arm", "save"}
Runs == [pc : WritingCalls \cup {"idle", "resolve", "missing", "term", "ack"},
         pos : Nat, count : Nat, now : Nat, revision : Nat,
         does : {"None", "Publish", "Purge", "Dispatch", "Arm", "Only", "Missing", "Stale"},
         status : Statuses]

TypeOK ==
    /\ AggregateTypeOK
    /\ settled \subseteq Nat /\ failures \subseteq Nat /\ faults \in Nat
    /\ deliveries \in Seq(Nat)
    /\ lane \in [Instances -> Seq([pos : Nat, count : Nat])]
    /\ run \in [Instances -> Runs]
    /\ checkpoint \in {NoEntry} \cup [operation : {"Put"}, revision : Nat \ {0},
                                     value : [status : Statuses, applied : Nat]]
    /\ scheduled \subseteq [pos : Nat, at : Nat]
    /\ window \subseteq {"execution", "delivery", "command"} \X Nat
    /\ dispatched \in Seq(Nat)
    /\ wakeups \subseteq Nat
    /\ duplicates \subseteq Nat /\ overtaken \subseteq Nat

\* Records that are known to exist are the ones in hand, a record is given up on
\* only when it was delivered up to the ceiling, and the aggregate's state is the
\* fold of its events as far as arming it can tell.
ScheduleInv ==
    /\ Len(events) <= MaxEvents /\ Len(deliveries) <= Len(events)
    /\ settled \subseteq 1..Len(deliveries)
    /\ \A p \in failures : p <= Len(deliveries) /\ deliveries[p] = Ceiling
    /\ \A i \in Instances : run[i] # Idle => run[i].pos \in 1..Len(deliveries)
    /\ Current.applied <= Len(events)
    /\ (state.pending # None /\ state.last # None => state.pending = state.last + 1)
    /\ (state.phase = "missing" <=> events = <<>>)

\* While the checkpoint still has the revision instance i loaded, it has not
\* reached the record the instance is applying.
AppliesAhead(i) ==
    /\ run[i].revision <= checkpoint.revision
    /\ run[i].pc \in WritingCalls /\ Unchanged(checkpoint, run[i].revision) =>
          Current.applied < run[i].pos

\* What instance i processes or has queued is on the stream.
HoldsEvents(i) ==
    /\ run[i].pc # "idle" => run[i].pos \in Positions
    /\ \A k \in 1..Len(lane[i]) : lane[i][k].pos \in Positions

\* The inductive invariant that keeps the checkpoint going forward.
CheckpointInv == TypeOK /\ \A i \in Instances : HoldsEvents(i) /\ AppliesAhead(i)

\* Every event was settled and nothing is being processed.
Quiet ==
    /\ settled = Positions
    /\ \A i \in Instances : run[i] = Idle /\ lane[i] = <<>>

\* Once the events of a paused or removed schedule are applied, the broker
\* holds no scheduled message of it: no late or repeated event brings one
\* back. (An event that was given up on at the ceiling is excepted.)
SilentWhenNotEnabled ==
    Quiet /\ failures = {} /\ state.phase # "enabled" => scheduled = {}

\* A change is settled only when the checkpoint covers it or a failure record
\* names it, though the record, the Term and the ack are separate calls that
\* fail separately: "the failure is durable before any ack" (processor.rs).
ChangesAccounted ==
    \A p \in settled : events[p].type \notin {"Recorded", "Scheduled", "Completed"} =>
        p <= Current.applied \/ p \in failures

TheMessage == [pos |-> Len(events), at |-> None]
Delivered(p) == \E m \in 1..Len(dispatched) : dispatched[m] = p

\* Once the events of an enabled native schedule are applied, the broker holds
\* exactly one message for it, the one of the last event that enabled it: "purge
\* any existing scheduled message for the key, then publish exactly one", which
\* is to be "independent of the duplicate window" (execution_schedules/mod.rs).
OneMessageWhenEnabled ==
    Quiet /\ failures = {} /\ Kind = "Every" /\ state.phase = "enabled" =>
        scheduled = {TheMessage}

\* What does hold: there is never another message, and the one may be missing
\* only when the broker took a repeated publish of it for a duplicate.
OneMessageUnlessDuplicate ==
    Quiet /\ failures = {} /\ Kind = "Every" /\ state.phase = "enabled" =>
        \/ scheduled = {TheMessage}
        \/ scheduled = {} /\ Len(events) \in duplicates

\* Once the events of an enabled one-shot are applied, the last one that
\* enabled it left a message that is still there, or fired, or was past its
\* grace: "delivered instead of silently expired" (constants.rs). It too may be
\* lost to a repeated publish that was taken for a duplicate.
OneShotUnlessDuplicate ==
    Quiet /\ failures = {} /\ Kind = "At" /\ state.phase = "enabled" =>
        \/ scheduled = {TheMessage}
        \/ Delivered(Len(events))
        \/ Current.status = "Expired" /\ elapsed >= 1
        \/ Len(events) \in duplicates

\* The checkpoint never returns to an earlier position, whichever instance
\* writes it: ScheduleCheckpointStore::save is conditional on the loaded revision.
CheckpointNeverRegresses == [][Current'.applied > Current.applied]_Current

\* No occurrence of a recurrence reaches the user twice: the message id of a
\* dispatch is the event it is for.
DispatchedOnce ==
    \A m, n \in 1..Len(dispatched) : dispatched[m] = dispatched[n] => m = n

\* Every recorded occurrence reached the user by the time its event is
\* settled: "last_applied_stream_position advances only after both the NATS
\* operation and the final checkpoint write succeed, which is what makes
\* at-least-once redelivery safe" (processor.rs).
OccurrencesDispatched ==
    \A p \in settled \ failures : events[p].type = "Recorded" => Delivered(p)

\* What does hold, whatever fails, crashes, is lost or is delivered again: an
\* occurrence is settled without reaching the user only when a later record was
\* reconciled while it was still open.
LostOnlyWhenOvertaken ==
    \A p \in settled \ (failures \cup overtaken) :
        events[p].type = "Recorded" => Delivered(p)

\* Positions from the last event that enabled the schedule on.
SinceEnabled(p) ==
    \A q \in Positions : p < q => events[q].type \notin {"Created", "Resumed"}

\* An enabled recurrence that is not completed has its next occurrence on the
\* way once its events are applied: "the next concrete occurrence arrives back
\* as a ScheduleOccurrenceScheduled event" whose wakeup is published
\* (reconcile.rs). Whatever failed, crashed or was lost, only a record that was
\* overtaken, given up on or dropped as a duplicate can stall it, and only until
\* the schedule is enabled again.
RecurrenceAlive ==
    /\ Quiet /\ Kind = "RRule" /\ state.phase = "enabled" /\ ~state.completed
    /\ \A p \in overtaken \cup failures \cup duplicates : ~SinceEnabled(p)
    =>
    /\ state.pending # None
    /\ state.pending \in wakeups \cup {m.at : m \in scheduled}

\* Every event is settled: its failures are transient, so that retrying ends.
EventsSettle == \A p \in 1..MaxEvents : (p \in Positions) ~> (p \in settled)

=============================================================================
