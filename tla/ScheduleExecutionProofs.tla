----------------------- MODULE ScheduleExecutionProofs -----------------------
(***************************************************************************)
(* The processor of a schedule, proved for every value of the constants,   *)
(* or for those a theorem assumes. In order:                               *)
(*                                                                         *)
(*  - the checkpoint never returns to an earlier position, for any number  *)
(*    of instances, events, faults and redeliveries: a record is applied   *)
(*    only if the loaded checkpoint has not reached it, and a write goes   *)
(*    through only if the checkpoint is still the loaded one;              *)
(*  - the flow of events, from the stream through the deliveries and the   *)
(*    lanes to the checkpoint, and that a change of the schedule is        *)
(*    settled only once the checkpoint has it or a failure record names it;*)
(*  - no record is dispatched twice while the broker remembers message     *)
(*    ids, since what a rule publishes and what it fires have ids of their *)
(*    own;                                                                 *)
(*  - what a native schedule leaves at the broker, when one instance       *)
(*    works: no message unless enabled, and while enabled its one message, *)
(*    or none if a repeated publish of it was taken for a duplicate;       *)
(*  - that each recorded occurrence of a recurrence is dispatched before   *)
(*    it is settled, whatever fails and however many instances work,       *)
(*    unless a later record overtook it;                                   *)
(*  - that an enabled recurrence goes on, when one instance works: the     *)
(*    occurrence it waits for is in a message or a wakeup, unless a record *)
(*    since it was enabled was overtaken, given up on or dropped.          *)
(***************************************************************************)
EXTENDS ScheduleExecution, SequenceTheorems, TLAPS

-----------------------------------------------------------------------------
(* The aggregate. *)

\* Folding an event of the aggregate yields a state of the aggregate.
LEMMA EvolveType ==
  ASSUME NEW s \in States, NEW e \in Events
  PROVE  Evolve(s, e) \in States
  <1> USE DEF States, Events, EventTypes, None
  <1>1. CASE e.type \in {"Created", "CreatedPaused"}
    BY <1>1 DEF Evolve
  <1>2. CASE e.type \in {"Removed", "Paused", "Resumed"}
    BY <1>2 DEF Evolve
  <1>3. CASE e.type \in {"Recorded", "Scheduled", "Completed"}
    BY <1>3 DEF Evolve
  <1> QED BY <1>1, <1>2, <1>3

\* An append of one event keeps the types and lengthens the stream.
LEMMA Append1Type ==
  ASSUME AggregateTypeOK, NEW e \in Events, Append1(e)
  PROVE  events' \in Seq(Events) /\ state' \in States /\ Positions \subseteq Positions'
  <1>1. events' \in Seq(Events) /\ state' \in States
    BY EvolveType, AppendProperties DEF AggregateTypeOK, Append1
  <1>2. Len(events') = Len(events) + 1 /\ Len(events) \in Nat
    BY AppendProperties, LenProperties DEF AggregateTypeOK, Append1
  <1> QED BY <1>1, <1>2 DEF Positions

\* So does an append of two.
LEMMA Append2Type ==
  ASSUME AggregateTypeOK, NEW e \in Events, NEW f \in Events, Append2(e, f)
  PROVE  events' \in Seq(Events) /\ state' \in States /\ Positions \subseteq Positions'
  <1>1. <<e, f>> \in Seq(Events) /\ Len(<<e, f>>) = 2
    OBVIOUS
  <1>2. events' \in Seq(Events) /\ Len(events') = Len(events) + 2 /\ Len(events) \in Nat
    BY <1>1, ConcatProperties, LenProperties DEF AggregateTypeOK, Append2
  <1>3. state' \in States
    BY EvolveType DEF AggregateTypeOK, Append2
  <1> QED BY <1>2, <1>3 DEF Positions

\* What a command decides is an event.
LEMMA EventType ==
  ASSUME NEW type \in EventTypes, NEW at \in Nat
  PROVE  Event(type, at) \in Events
  BY DEF Event, Events

\* So is the plan after an instant.
LEMMA FollowsType ==
  ASSUME NEW at \in Nat
  PROVE  Follows(at) \in Events
  BY DEF Follows, Event, Events, EventTypes, None

\* So is the plan that arms a recurrence.
LEMMA NextOccurrenceType ==
  ASSUME AggregateTypeOK, NEW now \in Nat
  PROVE  NextOccurrence(now) \in Events
  BY FollowsType DEF NextOccurrence, AggregateTypeOK, States

\* The commands of users and the clock.
LEMMA UserType ==
  ASSUME AggregateTypeOK, User
  PROVE  AggregateTypeOK' /\ Positions \subseteq Positions'
  <1> USE DEF EventTypes, None
  <1>1. CASE CreateSchedule
    BY <1>1, Append1Type, EventType DEF CreateSchedule, AggregateTypeOK
  <1>2. ASSUME NEW phases, NEW type \in EventTypes, Command(phases, Event(type, None))
        PROVE  AggregateTypeOK' /\ Positions \subseteq Positions'
    <2>1. Append1(Event(type, None)) /\ Event(type, None) \in Events
      BY <1>2, EventType DEF Command
    <2> QED BY <1>2, <2>1, Append1Type DEF Command, AggregateTypeOK
  <1>3. CASE PauseSchedule
    BY <1>2, <1>3 DEF PauseSchedule
  <1>4. CASE ResumeSchedule
    BY <1>2, <1>4 DEF ResumeSchedule
  <1>5. CASE RemoveSchedule
    BY <1>2, <1>5 DEF RemoveSchedule
  <1>6. CASE Tick
    BY <1>6 DEF Tick, AggregateTypeOK, Positions
  <1> QED BY <1>1, <1>3, <1>4, <1>5, <1>6 DEF User

\* Recording a wakeup keeps the types and lengthens the stream.
LEMMA RecordOccurrenceType ==
  ASSUME AggregateTypeOK, NEW at \in Nat, RecordOccurrence(at)
  PROVE  events' \in Seq(Events) /\ state' \in States /\ Positions \subseteq Positions'
  <1>1. Event("Recorded", at) \in Events /\ Follows(at) \in Events
    BY EventType, FollowsType DEF EventTypes
  <1> QED BY <1>1, Append1Type, Append2Type DEF RecordOccurrence

-----------------------------------------------------------------------------
(* The checkpoint and the runs. *)

\* A checkpoint has a revision exactly when it was ever written.
LEMMA CheckpointType ==
  ASSUME TypeOK
  PROVE  /\ checkpoint.revision \in Nat
         /\ Current.applied \in Nat /\ Current.status \in Statuses
         /\ ~IsPut(checkpoint) => checkpoint.revision = 0 /\ Current.applied = 0
         /\ IsPut(checkpoint) => checkpoint.revision > 0 /\ Current = checkpoint.value
  <1>1. CASE checkpoint = NoEntry
    BY <1>1 DEF NoEntry, IsPut, Current, Statuses
  <1>2. CASE checkpoint \in [operation : {"Put"}, revision : Nat \ {0},
                             value : [status : Statuses, applied : Nat]]
    BY <1>2 DEF IsPut, Current
  <1> QED BY <1>1, <1>2 DEF TypeOK

\* A step takes no record in hand, it goes on with those there are.
RunsKept == \A j \in Instances :
    run'[j].pc = "idle" \/ (run[j].pc # "idle" /\ run'[j].pos = run[j].pos)

\* What is in hand stays on a stream that only grows.
LEMMA HoldsStep ==
  ASSUME CheckpointInv, RunsKept, Positions \subseteq Positions',
         \A j \in Instances : lane'[j] = lane[j] \/ lane'[j] = <<>>
  PROVE  \A j \in Instances : HoldsEvents(j)'
  <1> SUFFICES ASSUME NEW j \in Instances PROVE HoldsEvents(j)' OBVIOUS
  <1>1. HoldsEvents(j)
    BY DEF CheckpointInv
  <1>2. run'[j].pc # "idle" => run'[j].pos \in Positions'
    BY <1>1 DEF RunsKept, HoldsEvents
  <1>3. CASE lane'[j] = lane[j]
    BY <1>1, <1>2, <1>3 DEF HoldsEvents
  <1>4. CASE lane'[j] = <<>>
    BY <1>2, <1>4 DEF HoldsEvents
  <1> QED BY <1>3, <1>4

\* A run that is dropped.
LEMMA IdleRun ==
  ASSUME CheckpointInv, NEW i \in Instances,
         run' = [run EXCEPT ![i] = Idle], checkpoint' = checkpoint
  PROVE  run' \in [Instances -> Runs] /\ RunsKept /\ \A j \in Instances : AppliesAhead(j)'
  <1>1. Idle.pc = "idle" /\ Idle \in Runs /\ Idle.revision = 0 /\ Idle.pc \notin WritingCalls
    BY DEF Idle, Runs, WritingCalls, Statuses
  <1>2. run' \in [Instances -> Runs]
    BY <1>1 DEF CheckpointInv, TypeOK
  <1>3. checkpoint.revision \in Nat /\ Current' = Current
    BY CheckpointType DEF CheckpointInv, Current
  <1>4. ASSUME NEW j \in Instances PROVE AppliesAhead(j)'
    <2>1. run'[j] = IF j = i THEN Idle ELSE run[j]
      BY DEF CheckpointInv, TypeOK
    <2> QED BY <1>1, <1>3, <2>1 DEF CheckpointInv, AppliesAhead
  <1>5. RunsKept
    BY <1>1 DEF RunsKept, CheckpointInv, TypeOK
  <1> QED BY <1>2, <1>4, <1>5

\* A run that goes on to its next call, without starting to write.
LEMMA NextCall ==
  ASSUME CheckpointInv, NEW i \in Instances, NEW pc,
         pc \in WritingCalls \cup {"idle", "resolve", "missing", "term", "ack"},
         run[i].pc # "idle", run[i].pc \in WritingCalls \/ pc \notin WritingCalls,
         Goto(i, pc), checkpoint' = checkpoint
  PROVE  run' \in [Instances -> Runs] /\ RunsKept /\ \A j \in Instances : AppliesAhead(j)'
  <1> DEFINE next == [run[i] EXCEPT !.pc = pc]
  <1>1. run' = [run EXCEPT ![i] = next] /\ run[i] \in Runs
    BY DEF Goto, CheckpointInv, TypeOK
  <1>2. next \in Runs /\ next.pc = pc /\ next.pos = run[i].pos /\ next.revision = run[i].revision
    BY <1>1 DEF Runs
  <1> HIDE DEF next
  <1>3. run' \in [Instances -> Runs]
    BY <1>1, <1>2 DEF CheckpointInv, TypeOK
  <1>4. Current' = Current
    BY DEF Current
  <1>5. ASSUME NEW j \in Instances PROVE AppliesAhead(j)'
    <2>1. run'[j] = IF j = i THEN next ELSE run[j]
      BY <1>1 DEF CheckpointInv, TypeOK
    <2> QED BY <1>2, <1>4, <2>1 DEF CheckpointInv, AppliesAhead
  <1>6. RunsKept
    BY <1>1, <1>2 DEF RunsKept, CheckpointInv, TypeOK
  <1> QED BY <1>3, <1>5, <1>6

\* A step that touches neither.
LEMMA SameRuns ==
  ASSUME CheckpointInv, UNCHANGED <<run, checkpoint>>
  PROVE  /\ run' \in [Instances -> Runs] /\ RunsKept
         /\ \A j \in Instances : AppliesAhead(j)'
  BY DEF CheckpointInv, TypeOK, AppliesAhead, Current, RunsKept

-----------------------------------------------------------------------------
(* Loading and reconciling. *)

Outcomes == {"Publish", "Purge", "Dispatch", "Arm", "Only", "Missing", "Stale"} \X Statuses

\* An enabled schedule is reconciled to an outcome.
LEMMA DecideEnabledType ==
  ASSUME NEW now
  PROVE  DecideEnabled(now) \in Outcomes
  BY DEF DecideEnabled, Outcomes, Statuses

\* So is an occurrence of a recurrence.
LEMMA DecidesOccurrenceType ==
  ASSUME NEW e, NEW cp, cp.status \in Statuses
  PROVE  DecidesOccurrence(e, cp) \in Outcomes
  BY DEF DecidesOccurrence, Outcomes, Statuses

\* Whatever a record is reconciled to is an outcome, and a record the
\* checkpoint has reached is stale.
LEMMA ReconcileType ==
  ASSUME NEW cp, NEW p, NEW now, cp.status \in Statuses
  PROVE  /\ Reconcile(cp, p, now) \in Outcomes
         /\ cp.applied >= p => Reconcile(cp, p, now) = <<"Stale", cp.status>>
  <1>1. ASSUME NEW e PROVE Decides(e, cp, now) \in Outcomes
    <2> DEFINE enabled == DecideEnabled(now)
               occurrence == DecidesOccurrence(e, cp)
    <2>1. enabled \in Outcomes /\ occurrence \in Outcomes
      BY DecideEnabledType, DecidesOccurrenceType
    <2>2. /\ <<"Only", "Paused">> \in Outcomes /\ <<"Missing", "None">> \in Outcomes
          /\ <<"Purge", "Paused">> \in Outcomes /\ <<"Purge", "Removed">> \in Outcomes
      BY DEF Outcomes, Statuses
    <2>3. Decides(e, cp, now) \in {enabled, <<"Only", "Paused">>, <<"Missing", "None">>,
              <<"Purge", "Paused">>, <<"Purge", "Removed">>, occurrence}
      BY DEF Decides
    <2> QED BY <2>1, <2>2, <2>3
  <1>2. <<"Stale", cp.status>> \in Outcomes
    BY DEF Outcomes
  <1> QED BY <1>1, <1>2 DEF Reconcile

\* Only an outcome that is not stale has a call that writes.
LEMMA FirstCallType ==
  ASSUME NEW outcome \in Outcomes
  PROVE  /\ FirstCall(outcome[1]) \in WritingCalls \cup {"missing", "ack"}
         /\ outcome[1] = "Stale" => FirstCall(outcome[1]) = "ack"
  BY DEF FirstCall, Outcomes, WritingCalls

\* The lanes keep their type when a record is taken off one.
LEMMA LaneTail ==
  ASSUME TypeOK, NEW i \in Instances, lane[i] # <<>>
  PROVE  /\ [lane EXCEPT ![i] = Tail(@)] \in [Instances -> Seq([pos : Nat, count : Nat])]
         /\ Head(lane[i]) \in [pos : Nat, count : Nat]
  <1>1. lane[i] \in Seq([pos : Nat, count : Nat])
    BY DEF TypeOK
  <1>2. /\ Head(lane[i]) \in [pos : Nat, count : Nat]
        /\ Tail(lane[i]) \in Seq([pos : Nat, count : Nat])
    BY <1>1, HeadTailProperties
  <1> QED BY <1>2 DEF TypeOK

\* A record starts to be applied only ahead of the loaded checkpoint.
LEMMA LoadRun ==
  ASSUME CheckpointInv, NEW i \in Instances, Load(i)
  PROVE  run' \in [Instances -> Runs] /\ \A j \in Instances : AppliesAhead(j)'
  <1> DEFINE head == Head(lane[i])
             outcome == Reconcile(Current, head.pos, elapsed)
             next == [pc |-> FirstCall(outcome[1]), pos |-> head.pos, count |-> head.count,
                      now |-> elapsed, revision |-> checkpoint.revision,
                      does |-> outcome[1], status |-> outcome[2]]
  <1>1. run' = [run EXCEPT ![i] = next] /\ checkpoint' = checkpoint /\ lane[i] # <<>>
    BY DEF Load
  <1>2. head \in [pos : Nat, count : Nat]
    BY <1>1, LaneTail DEF CheckpointInv
  <1>3. /\ checkpoint.revision \in Nat /\ Current.applied \in Nat
        /\ Current.status \in Statuses /\ elapsed \in Nat
    BY CheckpointType DEF CheckpointInv, TypeOK, AggregateTypeOK
  <1>4. /\ outcome \in Outcomes
        /\ Current.applied >= head.pos => outcome[1] = "Stale"
    BY <1>3, ReconcileType
  <1> HIDE DEF outcome, head
  <1>5. /\ FirstCall(outcome[1]) \in WritingCalls \cup {"missing", "ack"}
        /\ outcome[1] = "Stale" => FirstCall(outcome[1]) = "ack"
    BY <1>4, FirstCallType
  <1>6. next \in Runs
    BY <1>2, <1>3, <1>4, <1>5 DEF Runs, Outcomes
  <1>7. /\ next.revision = checkpoint.revision /\ next.pos = head.pos
        /\ next.pc \in WritingCalls => Current.applied < head.pos
    BY <1>2, <1>3, <1>4, <1>5 DEF WritingCalls
  <1> HIDE DEF next
  <1>8. run' \in [Instances -> Runs]
    BY <1>1, <1>6 DEF CheckpointInv, TypeOK
  <1>9. ASSUME NEW j \in Instances PROVE AppliesAhead(j)'
    <2>1. run'[j] = IF j = i THEN next ELSE run[j]
      BY <1>1 DEF CheckpointInv, TypeOK
    <2>2. Current' = Current
      BY <1>1 DEF Current
    <2> QED BY <1>1, <1>3, <1>7, <2>1, <2>2 DEF CheckpointInv, AppliesAhead
  <1> QED BY <1>8, <1>9

-----------------------------------------------------------------------------
(* Writing the checkpoint. *)

\* A write that goes through takes the checkpoint forward.
LEMMA SaveAdvances ==
  ASSUME CheckpointInv, NEW i \in Instances, At(i, "save"), Saves(i),
         checkpoint' = PutValue(checkpoint, [status |-> run[i].status,
                                             applied |-> run[i].pos])
  PROVE  /\ checkpoint' \in [operation : {"Put"}, revision : Nat \ {0},
                              value : [status : Statuses, applied : Nat]]
         /\ checkpoint'.revision = checkpoint.revision + 1
         /\ Current'.applied > Current.applied
  <1>1. run[i] \in Runs
    BY DEF CheckpointInv, TypeOK
  <1>2. /\ checkpoint.revision \in Nat /\ Current.applied \in Nat
        /\ ~IsPut(checkpoint) => checkpoint.revision = 0
    BY CheckpointType DEF CheckpointInv
  <1>3. Unchanged(checkpoint, run[i].revision)
    BY <1>2 DEF Saves, Creates, Unchanged
  <1>4. Current.applied < run[i].pos
    BY <1>3 DEF At, CheckpointInv, AppliesAhead, WritingCalls
  <1>5. /\ checkpoint'.operation = "Put"
        /\ checkpoint'.value = [status |-> run[i].status, applied |-> run[i].pos]
    BY DEF PutValue
  <1>6. Current'.applied = run[i].pos
    BY <1>5 DEF Current, IsPut
  <1>7. checkpoint' \in [operation : {"Put"}, revision : Nat \ {0},
                         value : [status : Statuses, applied : Nat]]
    BY <1>1, <1>2 DEF PutValue, Runs
  <1>8. checkpoint'.revision = checkpoint.revision + 1
    BY DEF PutValue
  <1> QED BY <1>1, <1>2, <1>4, <1>6, <1>7, <1>8 DEF Runs

\* Whoever else was applying a record can no longer write.
LEMMA SaveRun ==
  ASSUME CheckpointInv, NEW i \in Instances, Save(i)
  PROVE  /\ run' \in [Instances -> Runs] /\ RunsKept
         /\ \A j \in Instances : AppliesAhead(j)'
         /\ checkpoint' = checkpoint
            \/ checkpoint' \in [operation : {"Put"}, revision : Nat \ {0},
                                value : [status : Statuses, applied : Nat]]
  <1>1. CASE ~Saves(i)
    <2>1. Goto(i, "resolve") /\ checkpoint' = checkpoint
      BY <1>1 DEF Save
    <2>2. "resolve" \notin WritingCalls /\ run[i].pc # "idle"
      BY DEF WritingCalls, Save, At
    <2> QED BY ONLY <2>1, <2>2, CheckpointInv, i \in Instances, NextCall
  <1>2. CASE Saves(i)
    <2> DEFINE next == [run[i] EXCEPT !.pc = "ack"]
    <2>1. At(i, "save") /\ Goto(i, "ack")
          /\ checkpoint' = PutValue(checkpoint, [status |-> run[i].status, applied |-> run[i].pos])
      BY <1>2 DEF Save
    <2>2. /\ checkpoint' \in [operation : {"Put"}, revision : Nat \ {0},
                               value : [status : Statuses, applied : Nat]]
          /\ checkpoint'.revision = checkpoint.revision + 1
      BY <1>2, <2>1, SaveAdvances
    <2>3. run' = [run EXCEPT ![i] = next] /\ run \in [Instances -> Runs]
      BY <2>1 DEF Goto, CheckpointInv, TypeOK
    <2>4. next \in Runs /\ next.revision = run[i].revision /\ next.pos = run[i].pos
      BY <2>3 DEF Runs
    <2> HIDE DEF next
    <2>5. run' \in [Instances -> Runs]
      BY <2>3, <2>4
    <2>6. checkpoint.revision \in Nat
      BY CheckpointType DEF CheckpointInv
    <2>7. ASSUME NEW j \in Instances PROVE AppliesAhead(j)'
      <3>1. run'[j].revision = run[j].revision /\ run[j].revision \in Nat
        BY <2>3, <2>4 DEF Runs
      <3>2. run[j].revision <= checkpoint.revision
        BY DEF CheckpointInv, AppliesAhead
      <3> QED BY <2>2, <2>6, <3>1, <3>2 DEF AppliesAhead, Unchanged
    <2>8. RunsKept
      BY <2>1, <2>3, <2>4 DEF RunsKept, At
    <2> QED BY <2>2, <2>5, <2>7, <2>8
  <1> QED BY <1>1, <1>2

-----------------------------------------------------------------------------
(* Every step preserves the invariant. *)

\* The types of all that a run of a record does not own.
Rest ==
    /\ AggregateTypeOK
    /\ settled \subseteq Nat /\ failures \subseteq Nat /\ faults \in Nat
    /\ deliveries \in Seq(Nat)
    /\ lane \in [Instances -> Seq([pos : Nat, count : Nat])]
    /\ scheduled \subseteq [pos : Nat, at : Nat]
    /\ window \subseteq {"execution", "delivery", "command"} \X Nat
    /\ dispatched \in Seq(Nat)
    /\ wakeups \subseteq Nat
    /\ duplicates \subseteq Nat /\ overtaken \subseteq Nat

\* The invariant, from the parts a step may disturb.
LEMMA Assemble ==
  ASSUME CheckpointInv, Rest', run' \in [Instances -> Runs],
         \A j \in Instances : HoldsEvents(j)', \A j \in Instances : AppliesAhead(j)',
         \/ checkpoint' = checkpoint
         \/ checkpoint' \in [operation : {"Put"}, revision : Nat \ {0},
                             value : [status : Statuses, applied : Nat]]
  PROVE  CheckpointInv'
  BY DEF CheckpointInv, TypeOK, Rest

\* Counting a fault keeps the counter's type.
LEMMA FaultType ==
  ASSUME TypeOK, NEW kind, Fault(kind)
  PROVE  faults' \in Nat
  BY DEF TypeOK, Fault

\* A user's command or a tick of the clock preserves the invariant.
LEMMA UserStep ==
  ASSUME CheckpointInv, User, UNCHANGED <<brokerVars, consumerVars, lane, run, checkpoint>>
  PROVE  CheckpointInv'
  <1>1. AggregateTypeOK' /\ Positions \subseteq Positions'
    BY UserType DEF CheckpointInv, TypeOK
  <1>2. Rest'
    BY <1>1 DEF Rest, CheckpointInv, TypeOK, brokerVars, consumerVars
  <1> QED BY <1>1, <1>2, SameRuns, HoldsStep, Assemble

\* A delivery, first or repeated, preserves the invariant.
LEMMA DeliverStep ==
  ASSUME CheckpointInv, NEW i \in Instances, NEW p \in Positions, Deliver(i, p)
  PROVE  CheckpointInv'
  <1> DEFINE count == IF p > Len(deliveries) THEN 1
                      ELSE IF deliveries[p] < Ceiling THEN deliveries[p] + 1 ELSE Ceiling
  <1>1. /\ deliveries \in Seq(Nat) /\ Len(deliveries) \in Nat
        /\ events \in Seq(Events) /\ Len(events) \in Nat
        /\ lane[i] \in Seq([pos : Nat, count : Nat])
    BY LenProperties DEF CheckpointInv, TypeOK, AggregateTypeOK
  <1>2. p \in Nat \ {0} /\ (p <= Len(deliveries) => p \in 1..Len(deliveries))
    BY <1>1 DEF Positions
  <1>3. count \in Nat
    <2>1. CASE p > Len(deliveries)
      BY <2>1
    <2>2. CASE p <= Len(deliveries)
      <3>1. deliveries[p] \in Nat
        BY <1>1, <1>2, <2>2, ElementOfSeq
      <3> QED BY <2>2, <3>1, ExecutionAssumption, <1>1, <1>2
    <2> QED BY <1>1, <1>2, <2>1, <2>2
  <1>4. /\ deliveries' = IF p > Len(deliveries) THEN Append(deliveries, count)
                         ELSE [deliveries EXCEPT ![p] = count]
        /\ lane' = [lane EXCEPT ![i] = Append(@, [pos |-> p, count |-> count])]
    BY DEF Deliver
  <1> HIDE DEF count
  <1>5. deliveries' \in Seq(Nat)
    BY <1>1, <1>2, <1>3, <1>4, AppendProperties, ExceptSeq
  <1>6. Append(lane[i], [pos |-> p, count |-> count]) \in Seq([pos : Nat, count : Nat])
    <2>1. [pos |-> p, count |-> count] \in [pos : Nat, count : Nat]
      BY <1>2, <1>3
    <2> QED BY ONLY <1>1, <2>1, AppendProperties
  <1>7. lane' \in [Instances -> Seq([pos : Nat, count : Nat])]
    BY <1>4, <1>6 DEF CheckpointInv, TypeOK
  <1>8. faults' \in Nat
    BY FaultType DEF Deliver, CheckpointInv, TypeOK
  <1>9. Rest'
    BY <1>5, <1>7, <1>8 DEF Deliver, Rest, CheckpointInv, TypeOK, AggregateTypeOK,
                            aggregateVars, brokerVars
  <1>10. UNCHANGED <<run, checkpoint>> /\ Positions' = Positions
    BY DEF Deliver, aggregateVars, Positions
  <1>11. ASSUME NEW j \in Instances PROVE HoldsEvents(j)'
    <2>1. HoldsEvents(j)
      BY DEF CheckpointInv
    <2>2. ASSUME j = i, NEW k \in 1..Len(lane'[j])
          PROVE  lane'[j][k].pos \in Positions
      <3>1. lane'[j] = Append(lane[i], [pos |-> p, count |-> count])
        BY <1>4, <2>2 DEF CheckpointInv, TypeOK
      <3>2. /\ Len(lane'[j]) = Len(lane[i]) + 1 /\ Len(lane[i]) \in Nat
            /\ lane'[j][Len(lane[i]) + 1] = [pos |-> p, count |-> count]
            /\ \A n \in 1..Len(lane[i]) : lane'[j][n] = lane[i][n]
        BY <1>1, <3>1
      <3>3. CASE k = Len(lane[i]) + 1
        BY <3>2, <3>3
      <3>4. CASE k \in 1..Len(lane[i])
        BY <2>1, <2>2, <3>2, <3>4 DEF HoldsEvents
      <3> QED BY <2>2, <3>2, <3>3, <3>4
    <2>3. j # i => lane'[j] = lane[j]
      BY <1>4 DEF CheckpointInv, TypeOK
    <2> QED BY <1>10, <2>1, <2>2, <2>3 DEF HoldsEvents
  <1> QED BY <1>9, <1>10, <1>11, SameRuns, Assemble

\* Loading a record and reconciling it preserves the invariant.
LEMMA LoadStep ==
  ASSUME CheckpointInv, NEW i \in Instances, Load(i)
  PROVE  CheckpointInv'
  <1>1. lane' \in [Instances -> Seq([pos : Nat, count : Nat])]
    BY LaneTail DEF Load, CheckpointInv
  <1>2. Rest'
    <2>1. overtaken' \subseteq Nat
      <3>1. overtaken' = overtaken \cup Open(Head(lane[i]).pos)
        BY DEF Load
      <3>2. \A p : Open(p) \subseteq Nat
        BY DEF Open, Positions
      <3>3. overtaken \subseteq Nat
        BY DEF CheckpointInv, TypeOK
      <3> QED BY <3>1, <3>2, <3>3
    <2> QED BY <1>1, <2>1 DEF Load, Rest, CheckpointInv, TypeOK, AggregateTypeOK,
                              aggregateVars, brokerVars
  <1>3. checkpoint' = checkpoint /\ Positions' = Positions
    BY DEF Load, aggregateVars, Positions
  <1>4. ASSUME NEW j \in Instances PROVE HoldsEvents(j)'
    <2>1. HoldsEvents(j)
      BY DEF CheckpointInv
    <2>2. lane[i] \in Seq([pos : Nat, count : Nat]) /\ lane[i] # <<>>
      BY DEF Load, CheckpointInv, TypeOK
    <2>3. ASSUME j = i
          PROVE  HoldsEvents(j)'
      <3>1. /\ run'[j].pos = Head(lane[i]).pos /\ lane'[j] = Tail(lane[i])
        BY <2>3 DEF Load, CheckpointInv, TypeOK
      <3>2. /\ Len(lane[i]) \in Nat \ {0} /\ Head(lane[i]) = lane[i][1]
            /\ Len(Tail(lane[i])) = Len(lane[i]) - 1
            /\ \A k \in 1..Len(Tail(lane[i])) : Tail(lane[i])[k] = lane[i][k + 1]
        BY <2>2
      <3>3. /\ lane[i][1].pos \in Positions
            /\ \A k \in 1..Len(Tail(lane[i])) : lane[i][k + 1].pos \in Positions
        BY <2>1, <2>3, <3>2 DEF HoldsEvents
      <3> QED BY <1>3, <3>1, <3>2, <3>3 DEF HoldsEvents
    <2>4. j # i => run'[j] = run[j] /\ lane'[j] = lane[j]
      BY DEF Load, CheckpointInv, TypeOK
    <2> QED BY <1>3, <2>1, <2>3, <2>4 DEF HoldsEvents
  <1> QED BY <1>2, <1>3, <1>4, LoadRun, Assemble

\* The type of the record an instance is applying.
LEMMA RunType ==
  ASSUME CheckpointInv, NEW i \in Instances
  PROVE  run[i] \in Runs
  BY DEF CheckpointInv, TypeOK

\* A call that took effect, on the way to the next one.
LEMMA CallStep ==
  ASSUME CheckpointInv, NEW i \in Instances, Rest', UNCHANGED <<lane, checkpoint>>,
         Positions \subseteq Positions', run[i].pc \in WritingCalls,
         NEW pc \in {"publish", "save"}, Goto(i, pc)
  PROVE  CheckpointInv'
  <1>1. pc \in WritingCalls \cup {"idle", "resolve", "missing", "term", "ack"}
        /\ run[i].pc # "idle"
    BY DEF WritingCalls
  <1>2. run' \in [Instances -> Runs] /\ RunsKept /\ \A j \in Instances : AppliesAhead(j)'
    BY <1>1, NextCall
  <1> QED BY <1>2, HoldsStep, Assemble

\* A record that leaves an instance.
LEMMA DropStep ==
  ASSUME CheckpointInv, NEW i \in Instances, Rest', UNCHANGED <<events, checkpoint>>,
         \A j \in Instances : lane'[j] = lane[j] \/ lane'[j] = <<>>,
         run' = [run EXCEPT ![i] = Idle]
  PROVE  CheckpointInv'
  <1>1. run' \in [Instances -> Runs] /\ RunsKept /\ \A j \in Instances : AppliesAhead(j)'
    BY IdleRun
  <1>2. Positions' = Positions
    BY DEF Positions
  <1> QED BY <1>1, <1>2, HoldsStep, Assemble

\* The duplicate window remembers message ids.
LEMMA RememberType ==
  ASSUME CheckpointInv, NEW i \in Instances,
         NEW stream \in {"execution", "delivery", "command"}, Remember(stream, i)
  PROVE  window' \subseteq {"execution", "delivery", "command"} \X Nat
  <1>1. run[i].pos \in Nat
    BY RunType DEF Runs
  <1>2. window \subseteq {"execution", "delivery", "command"} \X Nat
    BY DEF CheckpointInv, TypeOK
  <1> QED BY <1>1, <1>2 DEF Remember

\* Purging the scheduled messages preserves the invariant.
LEMMA PurgeStep ==
  ASSUME CheckpointInv, NEW i \in Instances, Purge(i)
  PROVE  CheckpointInv'
  <1>1. Rest'
    BY DEF Purge, Rest, CheckpointInv, TypeOK, AggregateTypeOK, aggregateVars, consumerVars
  <1>2. /\ run[i].pc \in WritingCalls /\ UNCHANGED <<lane, checkpoint>>
        /\ Goto(i, "publish") \/ Goto(i, "save")
        /\ Positions' = Positions
    BY DEF Purge, At, WritingCalls, aggregateVars, Positions
  <1> QED BY <1>1, <1>2, CallStep

\* Publishing a scheduled message preserves the invariant.
LEMMA PublishStep ==
  ASSUME CheckpointInv, NEW i \in Instances, Publish(i)
  PROVE  CheckpointInv'
  <1>1. run[i].pc \in WritingCalls /\ run[i].pc # "idle"
    BY DEF Publish, At, WritingCalls
  <1>2. run[i].pos \in Positions /\ run[i].pos \in Nat
    BY <1>1, RunType DEF CheckpointInv, HoldsEvents, Runs
  <1>3. events[run[i].pos].at \in Nat
    <2>1. events \in Seq(Events)
      BY DEF CheckpointInv, TypeOK, AggregateTypeOK
    <2>2. events[run[i].pos] \in Events
      BY <1>2, <2>1, ElementOfSeq DEF Positions
    <2> QED BY <2>2 DEF Events
  <1>4. scheduled' \subseteq [pos : Nat, at : Nat]
    BY <1>2, <1>3 DEF Publish, CheckpointInv, TypeOK
  <1>5. /\ window' \subseteq {"execution", "delivery", "command"} \X Nat
        /\ duplicates' \subseteq Nat
    BY <1>2, RememberType DEF Publish, CheckpointInv, TypeOK
  <1>6. Rest'
    BY <1>4, <1>5 DEF Publish, Rest, CheckpointInv, TypeOK, AggregateTypeOK,
                      aggregateVars, consumerVars
  <1>7. UNCHANGED <<lane, checkpoint>> /\ Goto(i, "save") /\ Positions' = Positions
    BY DEF Publish, aggregateVars, Positions
  <1> QED BY <1>1, <1>6, <1>7, CallStep

\* Dispatching an occurrence preserves the invariant.
LEMMA DispatchStep ==
  ASSUME CheckpointInv, NEW i \in Instances, Dispatch(i)
  PROVE  CheckpointInv'
  <1>1. run[i].pc \in WritingCalls
    BY DEF Dispatch, At, WritingCalls
  <1>2. dispatched' \in Seq(Nat)
    <2>1. run[i].pos \in Nat /\ dispatched \in Seq(Nat)
      BY RunType DEF Runs, CheckpointInv, TypeOK
    <2> QED BY <2>1, AppendProperties DEF Dispatch
  <1>3. window' \subseteq {"execution", "delivery", "command"} \X Nat
    BY RememberType DEF Dispatch
  <1>4. Rest'
    BY <1>2, <1>3 DEF Dispatch, Rest, CheckpointInv, TypeOK, AggregateTypeOK,
                      aggregateVars, consumerVars
  <1>5. UNCHANGED <<lane, checkpoint>> /\ Goto(i, "save") /\ Positions' = Positions
    BY DEF Dispatch, aggregateVars, Positions
  <1> QED BY <1>1, <1>4, <1>5, CallStep

\* Arming a recurrence, or failing to, preserves the invariant.
LEMMA ArmStep ==
  ASSUME CheckpointInv, NEW i \in Instances, Arm(i)
  PROVE  CheckpointInv'
  <1>1. run[i].pc \in WritingCalls /\ run[i].now \in Nat
    BY RunType DEF Arm, At, WritingCalls, Runs
  <1>2. /\ UNCHANGED <<elapsed, commands, scheduled, dispatched, wakeups, duplicates, lane,
                       checkpoint>>
        /\ UNCHANGED consumerVars
    BY DEF Arm, Retry
  <1>3. CASE state.phase = "deleted"
    <2>1. run' = [run EXCEPT ![i] = Idle] /\ UNCHANGED <<events, state, window>>
      BY <1>3 DEF Arm, Retry
    <2>2. Rest'
      BY <1>2, <2>1 DEF Rest, CheckpointInv, TypeOK, AggregateTypeOK, consumerVars
    <2> QED BY <1>2, <2>1, <2>2, DropStep
  <1>4. CASE state.phase # "deleted"
    <2>1. Goto(i, "save")
      BY <1>4 DEF Arm
    <2>2. window' \subseteq {"execution", "delivery", "command"} \X Nat
      <3>1. Remember("command", i) \/ window' = window
        BY <1>4 DEF Arm
      <3>2. CASE Remember("command", i)
        BY <3>2, RememberType
      <3> QED BY <3>1, <3>2 DEF CheckpointInv, TypeOK
    <2>3. events' \in Seq(Events) /\ state' \in States /\ Positions \subseteq Positions'
      <3>1. AggregateTypeOK
        BY DEF CheckpointInv, TypeOK
      <3>2. Append1(NextOccurrence(run[i].now)) \/ UNCHANGED <<events, state>>
        BY <1>4 DEF Arm
      <3>3. CASE Append1(NextOccurrence(run[i].now))
        BY <1>1, <3>1, <3>3, NextOccurrenceType, Append1Type
      <3>4. CASE UNCHANGED <<events, state>>
        BY <3>1, <3>4 DEF AggregateTypeOK, Positions
      <3> QED BY <3>2, <3>3, <3>4
    <2>4. Rest'
      BY <1>2, <2>2, <2>3 DEF Rest, CheckpointInv, TypeOK, AggregateTypeOK, consumerVars
    <2> QED BY <1>1, <1>2, <2>1, <2>3, <2>4, CallStep
  <1> QED BY <1>3, <1>4

\* A checkpoint write, accepted or refused, preserves the invariant.
LEMMA SaveStep ==
  ASSUME CheckpointInv, NEW i \in Instances, Save(i)
  PROVE  CheckpointInv'
  <1>1. UNCHANGED <<aggregateVars, brokerVars, consumerVars, lane>>
    BY DEF Save
  <1>2. Rest' /\ Positions' = Positions
    BY <1>1 DEF Rest, CheckpointInv, TypeOK, AggregateTypeOK,
                aggregateVars, brokerVars, consumerVars, Positions
  <1>3. \A j \in Instances : HoldsEvents(j)'
    BY <1>1, <1>2, SaveRun, HoldsStep
  <1> QED BY <1>2, <1>3, SaveRun, Assemble

\* Resolving a refused write preserves the invariant.
LEMMA ResolveStep ==
  ASSUME CheckpointInv, NEW i \in Instances, Resolve(i)
  PROVE  CheckpointInv'
  <1>1. UNCHANGED <<aggregateVars, brokerVars, consumerVars, lane, checkpoint>>
    BY DEF Resolve, Retry
  <1>2. Rest' /\ Positions' = Positions /\ events' = events /\ lane' = lane
    BY <1>1 DEF Rest, CheckpointInv, TypeOK, AggregateTypeOK,
                aggregateVars, brokerVars, consumerVars, Positions
  <1>3. CASE Goto(i, "ack")
    <2>1. "ack" \notin WritingCalls /\ run[i].pc # "idle"
      BY DEF WritingCalls, Resolve, At
    <2>2. run' \in [Instances -> Runs] /\ RunsKept /\ \A j \in Instances : AppliesAhead(j)'
      BY ONLY <1>1, <1>3, <2>1, CheckpointInv, i \in Instances, NextCall
    <2>3. \A j \in Instances : HoldsEvents(j)'
      BY <1>2, <2>2, HoldsStep
    <2> QED BY <1>1, <1>2, <2>2, <2>3, Assemble
  <1>4. CASE run' = [run EXCEPT ![i] = Idle]
    BY <1>1, <1>2, <1>4, DropStep
  <1> QED BY <1>3, <1>4 DEF Resolve, Retry

\* Giving up on a record, or retrying it, preserves the invariant.
LEMMA MissingStep ==
  ASSUME CheckpointInv, NEW i \in Instances, Missing(i)
  PROVE  CheckpointInv'
  <1>1. UNCHANGED <<aggregateVars, brokerVars, settled, deliveries, faults, overtaken, lane,
                    checkpoint>>
    BY DEF Missing, Retry, consumerVars
  <1>2. failures' \subseteq Nat
    <2>1. run[i].pos \in Nat
      BY RunType DEF Runs
    <2> QED BY <2>1 DEF Missing, Retry, consumerVars, CheckpointInv, TypeOK
  <1>3. Rest' /\ Positions' = Positions /\ events' = events /\ lane' = lane
    BY <1>1, <1>2 DEF Rest, CheckpointInv, TypeOK, AggregateTypeOK,
                      aggregateVars, brokerVars, Positions
  <1>4. CASE Goto(i, "term")
    <2>1. "term" \notin WritingCalls /\ run[i].pc # "idle"
      BY DEF WritingCalls, Missing, At
    <2>2. run' \in [Instances -> Runs] /\ RunsKept /\ \A j \in Instances : AppliesAhead(j)'
      BY ONLY <1>1, <1>4, <2>1, CheckpointInv, i \in Instances, NextCall
    <2>3. \A j \in Instances : HoldsEvents(j)'
      BY <1>3, <2>2, HoldsStep
    <2> QED BY <1>1, <1>3, <2>2, <2>3, Assemble
  <1>5. CASE run' = [run EXCEPT ![i] = Idle]
    BY <1>1, <1>3, <1>5, DropStep
  <1> QED BY <1>4, <1>5 DEF Missing, Retry

\* The ends of a record: terminated, acknowledged, or lost.
LEMMA EndStep ==
  ASSUME CheckpointInv, NEW i \in Instances, Term(i) \/ Ack(i) \/ Fail(i) \/ Crash(i)
  PROVE  CheckpointInv'
  <1>1. run' = [run EXCEPT ![i] = Idle]
    BY DEF Term, Ack, Fail, Crash
  <1>2. UNCHANGED <<aggregateVars, brokerVars, checkpoint, deliveries>>
    BY DEF Term, Ack, Fail, Crash
  <1>3. run[i].pos \in Nat
    BY RunType DEF Runs
  <1>4. settled' \subseteq Nat /\ failures' \subseteq Nat
    BY <1>3 DEF Term, Ack, Fail, Crash, CheckpointInv, TypeOK
  <1>5. faults' \in Nat
    BY DEF Term, Ack, Fail, Crash, Fault, CheckpointInv, TypeOK
  <1>6. lane' = lane \/ lane' = [lane EXCEPT ![i] = <<>>]
    BY DEF Term, Ack, Fail, Crash
  <1>7. /\ lane' \in [Instances -> Seq([pos : Nat, count : Nat])]
        /\ \A j \in Instances : lane'[j] = lane[j] \/ lane'[j] = <<>>
    <2>1. lane \in [Instances -> Seq([pos : Nat, count : Nat])]
      BY DEF CheckpointInv, TypeOK
    <2>2. <<>> \in Seq([pos : Nat, count : Nat])
      OBVIOUS
    <2>3. CASE lane' = lane
      BY <2>1, <2>3
    <2>4. CASE lane' = [lane EXCEPT ![i] = <<>>]
      BY <2>1, <2>2, <2>4
    <2> QED BY <1>6, <2>3, <2>4
  <1>8. overtaken' = overtaken
    BY DEF Term, Ack, Fail, Crash
  <1>9. Rest' /\ events' = events
    BY <1>2, <1>4, <1>5, <1>7, <1>8 DEF Rest, CheckpointInv, TypeOK, AggregateTypeOK,
                                  aggregateVars, brokerVars
  <1> QED BY <1>1, <1>2, <1>7, <1>9, DropStep

\* A timer of the broker preserves the invariant.
LEMMA FireStep ==
  ASSUME CheckpointInv, NEW m \in scheduled, Fire(m)
  PROVE  CheckpointInv'
  <1>1. m \in [pos : Nat, at : Nat] /\ dispatched \in Seq(Nat)
    BY DEF CheckpointInv, TypeOK
  <1>2. wakeups' \subseteq Nat /\ dispatched' \in Seq(Nat)
    <2>1. wakeups' = wakeups \cup {m.at} \/ wakeups' = wakeups
      BY DEF Fire
    <2>2. dispatched' = Append(dispatched, m.pos) \/ dispatched' = dispatched
      BY DEF Fire
    <2>3. wakeups \subseteq Nat
      BY DEF CheckpointInv, TypeOK
    <2>4. dispatched' \in Seq(Nat)
      BY ONLY <1>1, <2>2, AppendProperties, SMTT(30)
    <2> QED BY <1>1, <2>1, <2>3, <2>4
  <1>3. scheduled' \subseteq [pos : Nat, at : Nat]
    BY DEF Fire, CheckpointInv, TypeOK
  <1>4. Rest' /\ Positions' = Positions /\ UNCHANGED <<lane, run, checkpoint>>
    BY <1>2, <1>3 DEF Fire, Rest, CheckpointInv, TypeOK, AggregateTypeOK,
                      aggregateVars, consumerVars, Positions
  <1> QED BY <1>4, SameRuns, HoldsStep, Assemble

\* Handling a wakeup, its ack lost or not, preserves the invariant.
LEMMA HandleWakeupStep ==
  ASSUME CheckpointInv, NEW at \in wakeups, HandleWakeup(at)
  PROVE  CheckpointInv'
  <1>1. AggregateTypeOK /\ at \in Nat
    BY DEF CheckpointInv, TypeOK
  <1>2. events' \in Seq(Events) /\ state' \in States /\ Positions \subseteq Positions'
    <2>1. CASE RecordOccurrence(at)
      BY <1>1, <2>1, RecordOccurrenceType
    <2>2. CASE UNCHANGED <<events, state>>
      BY <1>1, <2>2 DEF AggregateTypeOK, Positions
    <2> QED BY <2>1, <2>2 DEF HandleWakeup
  <1>3. faults' \in Nat /\ wakeups' \subseteq Nat
    <2>1. /\ faults' = faults \/ faults' = faults + 1
          /\ wakeups' = wakeups \/ wakeups' = wakeups \ {at}
      BY DEF HandleWakeup, Fault
    <2>2. faults \in Nat /\ wakeups \subseteq Nat
      BY DEF CheckpointInv, TypeOK
    <2>3. faults' \in Nat
      BY <2>1, <2>2
    <2>4. wakeups' \subseteq Nat
      BY <2>1, <2>2
    <2> QED BY <2>3, <2>4
  <1>4. Rest' /\ UNCHANGED <<lane, run, checkpoint>>
    BY <1>2, <1>3 DEF HandleWakeup, Rest, CheckpointInv, TypeOK, AggregateTypeOK
  <1> QED BY <1>2, <1>4, SameRuns, HoldsStep, Assemble

\* The end of the duplicate window preserves the invariant.
LEMMA ExpireWindowStep ==
  ASSUME CheckpointInv, ExpireWindow
  PROVE  CheckpointInv'
  <1>1. faults' \in Nat
    BY DEF ExpireWindow, Fault, CheckpointInv, TypeOK
  <1>2. Rest' /\ Positions' = Positions /\ UNCHANGED <<lane, run, checkpoint>>
    BY <1>1 DEF ExpireWindow, Rest, CheckpointInv, TypeOK, AggregateTypeOK,
                aggregateVars, Positions
  <1> QED BY <1>2, SameRuns, HoldsStep, Assemble

\* A step that changes nothing preserves the invariant.
LEMMA StutterStep ==
  ASSUME CheckpointInv, UNCHANGED vars
  PROVE  CheckpointInv'
  <1>1. UNCHANGED <<aggregateVars, brokerVars, consumerVars, lane, run, checkpoint>>
    BY DEF vars
  <1>2. Rest' /\ Positions' = Positions
    BY <1>1 DEF Rest, CheckpointInv, TypeOK, AggregateTypeOK,
                aggregateVars, brokerVars, consumerVars, Positions
  <1> QED BY <1>1, <1>2, SameRuns, HoldsStep, Assemble

-----------------------------------------------------------------------------

\* The invariant holds before the schedule exists.
LEMMA CheckpointInit == Init => CheckpointInv
  <1> SUFFICES ASSUME Init PROVE CheckpointInv OBVIOUS
  <1>1. AggregateTypeOK
    <2>1. events \in Seq(Events)
      BY DEF Init, AggregateInit
    <2>2. state \in States
      <3>1. PICK k \in Kinds : state = [kind |-> k, phase |-> "missing", last |-> 0,
                                       pending |-> 0, completed |-> FALSE]
        BY DEF Init, AggregateInit, None
      <3> QED BY <3>1 DEF States
    <2> QED BY <2>1, <2>2 DEF Init, AggregateInit, AggregateTypeOK
  <1>2. Idle \in Runs /\ Idle.revision = 0 /\ Idle.pc = "idle" /\ Idle.pc \notin WritingCalls
    BY DEF Idle, Runs, WritingCalls, Statuses
  <1>3. lane \in [Instances -> Seq([pos : Nat, count : Nat])]
    BY DEF Init
  <1>4. TypeOK
    BY <1>1, <1>2, <1>3 DEF Init, TypeOK
  <1>5. ASSUME NEW i \in Instances PROVE HoldsEvents(i) /\ AppliesAhead(i)
    <2>1. run[i] = Idle /\ lane[i] = <<>> /\ checkpoint.revision = 0
      BY DEF Init, NoEntry
    <2> QED BY <1>2, <2>1 DEF HoldsEvents, AppliesAhead
  <1> QED BY <1>4, <1>5 DEF CheckpointInv

\* Every step of the processor and of what surrounds it preserves the invariant.
LEMMA CheckpointStep == CheckpointInv /\ [Next]_vars => CheckpointInv'
  <1> SUFFICES ASSUME CheckpointInv, [Next]_vars PROVE CheckpointInv' OBVIOUS
  <1>1. CASE User /\ UNCHANGED <<brokerVars, consumerVars, lane, run, checkpoint>>
    BY <1>1, UserStep
  <1>2. ASSUME NEW i \in Instances, NEW p \in Positions, Deliver(i, p) PROVE CheckpointInv'
    BY <1>2, DeliverStep
  <1>3. ASSUME NEW i \in Instances, Process(i) PROVE CheckpointInv'
    BY <1>3, LoadStep, PurgeStep, PublishStep, DispatchStep, ArmStep, SaveStep,
       ResolveStep, MissingStep, EndStep DEF Process
  <1>4. ASSUME NEW i \in Instances, Fail(i) \/ Crash(i) PROVE CheckpointInv'
    BY <1>4, EndStep
  <1>5. ASSUME NEW m \in scheduled, Fire(m) PROVE CheckpointInv'
    BY <1>5, FireStep
  <1>6. ASSUME NEW at \in wakeups, HandleWakeup(at) PROVE CheckpointInv'
    BY <1>6, HandleWakeupStep
  <1>7. CASE ExpireWindow
    BY <1>7, ExpireWindowStep
  <1>8. CASE UNCHANGED vars
    BY <1>8, StutterStep
  <1> QED BY <1>1, <1>2, <1>3, <1>4, <1>5, <1>6, <1>7, <1>8 DEF Next

\* A record is applied only ahead of the checkpoint it was loaded with, in
\* every state (reconcile's stale check, processor.rs).
THEOREM CheckpointCorrect == Spec => []CheckpointInv
  <1>1. Init => CheckpointInv
    BY CheckpointInit
  <1>2. CheckpointInv /\ [Next]_vars => CheckpointInv'
    BY CheckpointStep
  <1> QED BY <1>1, <1>2, PTL DEF Spec

\* A write is the only step that changes what the checkpoint says.
LEMMA OnlySaves ==
  ASSUME Next
  PROVE  \/ checkpoint' = checkpoint
         \/ \E i \in Instances :
                /\ At(i, "save") /\ Saves(i)
                /\ checkpoint' = PutValue(checkpoint, [status |-> run[i].status,
                                                       applied |-> run[i].pos])
  <1>1. ASSUME NEW i \in Instances, Process(i), ~Save(i) PROVE checkpoint' = checkpoint
    BY <1>1 DEF Process, Load, Purge, Publish, Dispatch, Arm, Resolve, Missing, Term, Ack
  <1>2. ASSUME NEW i \in Instances, Fail(i) \/ Crash(i) PROVE checkpoint' = checkpoint
    BY <1>2 DEF Fail, Crash
  <1> QED BY <1>1, <1>2 DEF Next, Deliver, Fire, HandleWakeup, ExpireWindow, Save

\* Whichever instance writes it, the checkpoint only goes forward
\* (ScheduleCheckpointStore::save).
THEOREM CheckpointForward == Spec => CheckpointNeverRegresses
  <1>1. CheckpointInv /\ [Next]_vars => [Current'.applied > Current.applied]_Current
    <2> SUFFICES ASSUME CheckpointInv, [Next]_vars, Current' # Current
                 PROVE  Current'.applied > Current.applied
      OBVIOUS
    <2>1. checkpoint' # checkpoint
      BY DEF Current
    <2>2. Next
      BY <2>1 DEF vars
    <2>3. PICK i \in Instances :
             /\ At(i, "save") /\ Saves(i)
             /\ checkpoint' = PutValue(checkpoint, [status |-> run[i].status,
                                                    applied |-> run[i].pos])
      BY <2>1, <2>2, OnlySaves
    <2> QED BY <2>3, SaveAdvances
  <1> QED BY <1>1, CheckpointCorrect, PTL DEF Spec, CheckpointNeverRegresses

\* The fold of one event, field by field.
LEMMA EvolveFields ==
  ASSUME NEW s \in States, NEW e \in Events
  PROVE  /\ Evolve(s, e).kind = s.kind
         /\ e.type \in {"Created", "CreatedPaused", "Paused"} =>
               /\ Evolve(s, e).phase = IF e.type = "Created" THEN "enabled" ELSE "disabled"
               /\ Evolve(s, e).last = s.last /\ Evolve(s, e).pending = s.pending
               /\ Evolve(s, e).completed = s.completed
         /\ e.type \in {"Resumed", "Removed"} =>
               /\ Evolve(s, e).phase = IF e.type = "Resumed" THEN "enabled" ELSE "deleted"
               /\ Evolve(s, e).last = s.last /\ Evolve(s, e).pending = None
               /\ Evolve(s, e).completed = s.completed
         /\ e.type \in {"Recorded", "Scheduled", "Completed"} =>
               /\ Evolve(s, e).phase = s.phase
               /\ Evolve(s, e).last = IF e.type = "Recorded" THEN e.at ELSE s.last
               /\ Evolve(s, e).pending = IF e.type = "Scheduled" THEN e.at ELSE None
               /\ e.type = "Completed" => Evolve(s, e).completed
               /\ e.type # "Completed" => Evolve(s, e).completed = s.completed
  <1>1. s = [kind |-> s.kind, phase |-> s.phase, last |-> s.last,
             pending |-> s.pending, completed |-> s.completed]
    BY DEF States
  <1>2. CASE e.type = "Created"
    BY <1>1, <1>2 DEF Evolve
  <1>3. CASE e.type = "CreatedPaused"
    BY <1>1, <1>3 DEF Evolve
  <1>4. CASE e.type = "Paused"
    BY <1>1, <1>4 DEF Evolve
  <1>5. CASE e.type = "Resumed"
    BY <1>1, <1>5 DEF Evolve
  <1>6. CASE e.type = "Removed"
    BY <1>1, <1>6 DEF Evolve
  <1>7. CASE e.type = "Recorded"
    BY <1>1, <1>7 DEF Evolve
  <1>8. CASE e.type = "Scheduled"
    BY <1>1, <1>8 DEF Evolve
  <1>9. CASE e.type = "Completed"
    BY <1>1, <1>9 DEF Evolve
  <1> QED BY <1>2, <1>3, <1>4, <1>5, <1>6, <1>7, <1>8, <1>9 DEF Events, EventTypes

\* An append of one event folds it into the state.
LEMMA Append1Fold ==
  ASSUME AggregateTypeOK, NEW e \in Events, Append1(e)
  PROVE  /\ state \in States /\ state' = Evolve(state, e) /\ state'.kind = state.kind
         /\ Len(events) \in Nat /\ Len(events') = Len(events) + 1 /\ events' # <<>>
  <1>1. Len(events') = Len(events) + 1 /\ Len(events) \in Nat
    BY AppendProperties, LenProperties DEF AggregateTypeOK, Append1
  <1>2. events' # <<>>
    BY AppendProperties DEF AggregateTypeOK, Append1
  <1> QED BY <1>1, <1>2, EvolveFields DEF AggregateTypeOK, Append1

\* What arming may still add to the stream of a recurrence.
Armable == IF state.pending = None /\ ~state.completed /\ state.phase # "deleted" THEN 1 ELSE 0

\* The stream is no longer than the commands and the instants account for, and
\* the state agrees with it: a recurrence is armed once for its creation and once
\* for every resumption, and an instant raises two events or one and an arming.
FoldInv ==
    /\ state.phase = "missing" <=> events = <<>>
    /\ state.phase = "missing" =>
          state.pending = None /\ state.last = None /\ ~state.completed
    /\ commands <= MaxCommands
    /\ state.last <= Occurrences /\ state.pending <= Occurrences
    /\ state.pending # None /\ state.last # None => state.pending = state.last + 1
    /\ Kind = "RRule" => Len(events) + Armable <= 2 + 2 * commands + 2 * state.last
    /\ Kind # "RRule" =>
          /\ state.pending = None /\ state.last = None /\ ~state.completed
          /\ Len(events) <= commands + (IF events = <<>> THEN 0 ELSE 1)

\* The commands of users and the clock keep the fold.
LEMMA FoldUser ==
  ASSUME AggregateTypeOK, FoldInv, User
  PROVE  FoldInv' /\ Kind' = Kind
  <1> USE DEF None
  <1>1. /\ state \in States /\ commands \in Nat /\ Len(events) \in Nat
        /\ MaxCommands \in Nat /\ Occurrences \in Nat
    BY AggregateAssumption, LenProperties DEF AggregateTypeOK
  <1>2. CASE CreateSchedule
    <2>1. PICK type \in {"Created", "CreatedPaused"} : Append1(Event(type, None))
      BY <1>2 DEF CreateSchedule
    <2>2. Event(type, None) \in Events /\ Event(type, None).type = type
      BY EventType DEF EventTypes, Event
    <2>3. /\ state'.kind = state.kind /\ state'.last = state.last
          /\ state'.pending = state.pending /\ state'.completed = state.completed
          /\ state'.phase \in {"enabled", "disabled"}
      BY <2>1, <2>2, Append1Fold, EvolveFields
    <2>4. Len(events') = Len(events) + 1 /\ events' # <<>> /\ events = <<>>
      BY <1>2, <2>1, <2>2, Append1Fold DEF CreateSchedule, FoldInv
    <2>5. commands' = commands /\ Len(events) = 0 /\ state.phase = "missing"
      BY <1>2, <2>4 DEF CreateSchedule
    <2> QED BY <1>1, <2>3, <2>4, <2>5 DEF FoldInv, Armable, Kind
  <1>3. ASSUME NEW phases, NEW type \in {"Paused", "Resumed", "Removed"},
               "missing" \notin phases, Command(phases, Event(type, None))
        PROVE  FoldInv' /\ Kind' = Kind
    <2>1. Event(type, None) \in Events /\ Event(type, None).type = type
      BY EventType DEF EventTypes, Event
    <2>2. Append1(Event(type, None)) /\ commands' = commands + 1 /\ commands < MaxCommands
      BY <1>3 DEF Command
    <2>3. /\ state'.kind = state.kind /\ state'.last = state.last
          /\ state'.pending \in {state.pending, None} /\ state'.completed = state.completed
          /\ state'.phase \in {"disabled", "enabled", "deleted"}
      BY <2>1, <2>2, Append1Fold, EvolveFields
    <2>4. Len(events') = Len(events) + 1 /\ events' # <<>> /\ events # <<>>
      BY <1>3, <2>1, <2>2, Append1Fold DEF Command, FoldInv
    <2>5. state.pending \in Nat /\ state.last \in Nat
      BY <1>1 DEF States
    <2>6. Armable \in 0..1 /\ Armable' \in 0..1
      BY DEF Armable
    <2>7. Kind = "RRule" => Len(events') + Armable' <= 2 + 2 * commands' + 2 * state'.last
      BY <1>1, <2>2, <2>3, <2>4, <2>5, <2>6 DEF FoldInv
    <2> QED BY <1>1, <2>2, <2>3, <2>4, <2>5, <2>7 DEF FoldInv, Kind
  <1>4. CASE PauseSchedule
    BY <1>3, <1>4 DEF PauseSchedule
  <1>5. CASE ResumeSchedule
    BY <1>3, <1>5 DEF ResumeSchedule
  <1>6. CASE RemoveSchedule
    BY <1>3, <1>6 DEF RemoveSchedule
  <1>7. CASE Tick
    BY <1>7 DEF Tick, FoldInv, Armable, Kind
  <1> QED BY <1>2, <1>4, <1>5, <1>6, <1>7 DEF User

\* The plan after an instant, event by event.
LEMMA FollowsFields ==
  ASSUME NEW at \in Nat
  PROVE  /\ Follows(at) \in Events
         /\ at < Occurrences => Follows(at).type = "Scheduled" /\ Follows(at).at = at + 1
         /\ ~(at < Occurrences) => Follows(at).type = "Completed" /\ Follows(at).at = None
  <1>1. Follows(at) \in Events
    BY FollowsType
  <1> QED BY <1>1 DEF Follows, Event

\* Arming a recurrence keeps the fold.
LEMMA FoldArm ==
  ASSUME AggregateTypeOK, FoldInv, Kind = "RRule", Arms, NEW now \in Nat,
         Append1(NextOccurrence(now)), UNCHANGED commands
  PROVE  FoldInv' /\ Kind' = Kind
  <1> DEFINE from == IF state.last = None THEN now ELSE state.last
             e == Follows(from)
  <1> USE DEF None
  <1>1. /\ state \in States /\ commands \in Nat /\ Len(events) \in Nat
        /\ MaxCommands \in Nat /\ Occurrences \in Nat
    BY AggregateAssumption, LenProperties DEF AggregateTypeOK
  <1>2. /\ state.last \in Nat /\ from \in Nat
        /\ state.last # None => from = state.last
    BY <1>1 DEF States
  <1>3. Append1(e)
    BY DEF NextOccurrence
  <1> HIDE DEF from
  <1>4. /\ e \in Events
        /\ from < Occurrences => e.type = "Scheduled" /\ e.at = from + 1
        /\ ~(from < Occurrences) => e.type = "Completed"
    BY <1>2, FollowsFields
  <1> HIDE DEF e
  <1>5. /\ state' = Evolve(state, e) /\ state'.kind = state.kind
        /\ Len(events') = Len(events) + 1 /\ events' # <<>> /\ events # <<>>
    BY <1>3, <1>4, Append1Fold DEF Arms, FoldInv
  <1>6. CASE from < Occurrences
    <2>1. /\ state'.phase = state.phase /\ state'.last = state.last
          /\ state'.pending = from + 1 /\ state'.completed = state.completed
      BY <1>1, <1>4, <1>5, <1>6, EvolveFields
    <2> QED BY <1>1, <1>2, <1>5, <1>6, <2>1 DEF FoldInv, Armable, Kind, Arms
  <1>7. CASE ~(from < Occurrences)
    <2>1. /\ state'.phase = state.phase /\ state'.last = state.last
          /\ state'.pending = None /\ state'.completed
      BY <1>1, <1>4, <1>5, <1>7, EvolveFields
    <2> QED BY <1>1, <1>2, <1>5, <2>1 DEF FoldInv, Armable, Kind, Arms
  <1> QED BY <1>6, <1>7

\* Recording an occurrence keeps the fold; only a recurrence has one to record.
LEMMA FoldRecord ==
  ASSUME AggregateTypeOK, FoldInv, NEW at \in Nat, Records(at),
         RecordOccurrence(at), UNCHANGED commands
  PROVE  FoldInv' /\ Kind' = Kind /\ Kind = "RRule"
  <1> USE DEF None
  <1>1. /\ state \in States /\ commands \in Nat /\ Len(events) \in Nat
        /\ MaxCommands \in Nat /\ Occurrences \in Nat
        /\ state.last \in Nat
    BY AggregateAssumption, LenProperties DEF AggregateTypeOK, States
  <1>2. at > 0 /\ at <= Occurrences /\ state.pending = at /\ state.last < at /\ Kind = "RRule"
    BY <1>1 DEF Records, FoldInv
  <1> DEFINE r == Event("Recorded", at)
             f == Follows(at)
  <1>3. r \in Events /\ r.type = "Recorded" /\ r.at = at
    BY EventType DEF Event, EventTypes
  <1>4. /\ f \in Events
        /\ at < Occurrences => f.type = "Scheduled" /\ f.at = at + 1
        /\ ~(at < Occurrences) => f.type = "Completed"
    BY FollowsFields
  <1>5. \/ Append1(r) /\ state.phase = "disabled"
        \/ Append2(r, f)
    BY DEF RecordOccurrence
  <1>6. state.phase \in {"enabled", "disabled"} /\ events # <<>>
    BY DEF Records, FoldInv
  <1> HIDE DEF r, f
  <1>7. /\ Evolve(state, r) \in States
        /\ Evolve(state, r).kind = state.kind /\ Evolve(state, r).phase = state.phase
        /\ Evolve(state, r).last = at /\ Evolve(state, r).pending = None
        /\ Evolve(state, r).completed = state.completed
    BY <1>1, <1>3, EvolveType, EvolveFields
  <1>8. CASE Append1(r)
    <2>1. Len(events') = Len(events) + 1 /\ events' # <<>>
      BY <1>3, <1>8, Append1Fold
    <2>2. /\ state'.kind = state.kind /\ state'.phase = state.phase
          /\ state'.last = at /\ state'.pending = None /\ state'.completed = state.completed
      BY <1>3, <1>7, <1>8, Append1Fold
    <2>3. Armable = 0 /\ Armable' \in 0..1
      BY <1>2 DEF Armable
    <2>4. Len(events) <= 2 + 2 * commands + 2 * state.last
      BY <1>1, <1>2, <2>3 DEF FoldInv
    <2>5. Len(events') + Armable' <= 2 + 2 * commands' + 2 * state'.last
      BY <1>1, <1>2, <2>1, <2>2, <2>3, <2>4
    <2> QED BY <1>1, <1>2, <1>6, <2>1, <2>2, <2>5 DEF FoldInv, Kind
  <1>9. CASE Append2(r, f)
    <2>1. Len(events') = Len(events) + 2 /\ events' # <<>>
      <3>1. <<r, f>> \in Seq(Events) /\ Len(<<r, f>>) = 2
        BY <1>3, <1>4
      <3>2. events' \in Seq(Events) /\ Len(events') = Len(events) + 2
        BY <1>9, <3>1, ConcatProperties DEF AggregateTypeOK, Append2
      <3> QED BY <1>1, <3>2
    <2>2. state' = Evolve(Evolve(state, r), f)
      BY <1>9 DEF Append2
    <2>3. CASE at < Occurrences
      <3>1. /\ state'.kind = state.kind /\ state'.phase = state.phase
            /\ state'.last = at /\ state'.pending = at + 1 /\ state'.completed = state.completed
        BY <1>4, <1>7, <2>2, <2>3, EvolveFields
      <3> QED BY <1>1, <1>2, <1>6, <2>1, <2>3, <3>1 DEF FoldInv, Armable, Kind
    <2>4. CASE ~(at < Occurrences)
      <3>1. /\ state'.kind = state.kind /\ state'.phase = state.phase
            /\ state'.last = at /\ state'.pending = None /\ state'.completed
        BY <1>4, <1>7, <2>2, <2>4, EvolveFields
      <3> QED BY <1>1, <1>2, <1>6, <2>1, <3>1 DEF FoldInv, Armable, Kind
    <2> QED BY <2>3, <2>4
  <1> QED BY <1>2, <1>5, <1>8, <1>9

\* What an event is reconciled to, type by type, once it is not stale.
LEMMA DecidesByType ==
  ASSUME NEW e, NEW cp, NEW now
  PROVE  /\ e.type = "Created" => Decides(e, cp, now) = DecideEnabled(now)
         /\ e.type = "CreatedPaused" => Decides(e, cp, now) = <<"Only", "Paused">>
         /\ cp.status = "None" /\ e.type \notin {"Created", "CreatedPaused"} =>
               Decides(e, cp, now) = <<"Missing", "None">>
         /\ cp.status # "None" =>
               /\ e.type = "Paused" => Decides(e, cp, now) = <<"Purge", "Paused">>
               /\ e.type = "Removed" => Decides(e, cp, now) = <<"Purge", "Removed">>
               /\ e.type = "Resumed" => Decides(e, cp, now) = DecideEnabled(now)
               /\ e.type \in {"Recorded", "Scheduled", "Completed"} =>
                     Decides(e, cp, now) = DecidesOccurrence(e, cp)
  <1>1. ASSUME e.type = "Created" PROVE Decides(e, cp, now) = DecideEnabled(now)
    BY <1>1, Zenon DEF Decides
  <1>2. ASSUME e.type = "CreatedPaused" PROVE Decides(e, cp, now) = <<"Only", "Paused">>
    BY <1>2, Zenon DEF Decides
  <1>3. ASSUME cp.status = "None", e.type # "Created", e.type # "CreatedPaused"
        PROVE  Decides(e, cp, now) = <<"Missing", "None">>
    BY <1>3, Zenon DEF Decides
  <1>4. ASSUME cp.status # "None", e.type = "Paused"
        PROVE  Decides(e, cp, now) = <<"Purge", "Paused">>
    BY <1>4, Zenon DEF Decides
  <1>5. ASSUME cp.status # "None", e.type = "Removed"
        PROVE  Decides(e, cp, now) = <<"Purge", "Removed">>
    BY <1>5, Zenon DEF Decides
  <1>6. ASSUME cp.status # "None", e.type = "Resumed"
        PROVE  Decides(e, cp, now) = DecideEnabled(now)
    BY <1>6, Zenon DEF Decides
  <1>7. ASSUME cp.status # "None", e.type \in {"Recorded", "Scheduled", "Completed"}
        PROVE  Decides(e, cp, now) = DecidesOccurrence(e, cp)
    BY <1>7, Zenon DEF Decides
  <1> QED BY <1>1, <1>2, <1>3, <1>4, <1>5, <1>6, <1>7

\* An occurrence is dispatched, published or ends the recurrence, by the status
\* of the checkpoint.
LEMMA OccurrenceByType ==
  ASSUME NEW e, NEW cp
  PROVE  /\ e.type = "Recorded" =>
               DecidesOccurrence(e, cp) = IF cp.status \in {"Scheduled", "Paused"}
                                          THEN <<"Dispatch", cp.status>> ELSE <<"Stale", cp.status>>
         /\ e.type = "Scheduled" =>
               DecidesOccurrence(e, cp) = IF cp.status = "Scheduled"
                                          THEN <<"Publish", "Scheduled">> ELSE <<"Stale",
                                              cp.status>>
         /\ e.type = "Completed" =>
               DecidesOccurrence(e, cp) = IF cp.status # "Removed"
                                          THEN <<"Purge", "Expired">> ELSE <<"Stale", cp.status>>
  <1>1. ASSUME e.type = "Recorded", cp.status \in {"Scheduled", "Paused"}
        PROVE  DecidesOccurrence(e, cp) = <<"Dispatch", cp.status>>
    BY <1>1, Zenon DEF DecidesOccurrence
  <1>2. ASSUME e.type = "Recorded", cp.status \notin {"Scheduled", "Paused"}
        PROVE  DecidesOccurrence(e, cp) = <<"Stale", cp.status>>
    BY <1>2, Zenon DEF DecidesOccurrence
  <1>3. ASSUME e.type = "Scheduled", cp.status = "Scheduled"
        PROVE  DecidesOccurrence(e, cp) = <<"Publish", "Scheduled">>
    BY <1>3, Zenon DEF DecidesOccurrence
  <1>4. ASSUME e.type = "Scheduled", cp.status # "Scheduled"
        PROVE  DecidesOccurrence(e, cp) = <<"Stale", cp.status>>
    BY <1>4, Zenon DEF DecidesOccurrence
  <1>5. ASSUME e.type = "Completed", cp.status # "Removed"
        PROVE  DecidesOccurrence(e, cp) = <<"Purge", "Expired">>
    BY <1>5, Zenon DEF DecidesOccurrence
  <1>6. ASSUME e.type = "Completed", cp.status = "Removed"
        PROVE  DecidesOccurrence(e, cp) = <<"Stale", cp.status>>
    BY <1>6, Zenon DEF DecidesOccurrence
  <1> QED BY <1>1, <1>2, <1>3, <1>4, <1>5, <1>6

\* Which call an outcome starts with.
LEMMA FirstCalls ==
  /\ FirstCall("Publish") = "purge" /\ FirstCall("Purge") = "purge"
         /\ FirstCall("Dispatch") = "dispatch" /\ FirstCall("Arm") = "arm"
         /\ FirstCall("Only") = "save" /\ FirstCall("Missing") = "missing"
         /\ FirstCall("Stale") = "ack"
  BY Zenon DEF FirstCall

\* Loading turns the head of the lane into the run of the instance; other runs
\* and lanes stay.
LEMMA LoadFields ==
  ASSUME CheckpointInv, NEW i \in Instances, Load(i)
  PROVE  /\ lane[i] \in Seq([pos : Nat, count : Nat]) /\ lane[i] # <<>> /\ run[i] = Idle
         /\ run'[i].pos = Head(lane[i]).pos /\ run'[i].revision = checkpoint.revision
         /\ run'[i].now = elapsed /\ run'[i].count = Head(lane[i]).count
         /\ run'[i].does = Reconcile(Current, run'[i].pos, elapsed)[1]
         /\ run'[i].status = Reconcile(Current, run'[i].pos, elapsed)[2]
         /\ run'[i].pc = FirstCall(run'[i].does)
         /\ run'[i].pos \in Positions
         /\ lane'[i] = Tail(lane[i])
         /\ \A j \in Instances : j # i => run'[j] = run[j] /\ lane'[j] = lane[j]
  <1>1. lane[i] \in Seq([pos : Nat, count : Nat]) /\ lane[i] # <<>> /\ run[i] = Idle
    BY DEF Load, CheckpointInv, TypeOK
  <1>2. /\ lane'[i] = Tail(lane[i])
        /\ \A j \in Instances : j # i => run'[j] = run[j] /\ lane'[j] = lane[j]
    BY DEF Load, CheckpointInv, TypeOK
  <1> DEFINE head == Head(lane[i])
             outcome == Reconcile(Current, head.pos, elapsed)
  <1>3. run'[i] = [pc |-> FirstCall(outcome[1]), pos |-> head.pos, count |-> head.count,
                   now |-> elapsed, revision |-> checkpoint.revision,
                   does |-> outcome[1], status |-> outcome[2]]
    BY DEF Load, CheckpointInv, TypeOK
  <1>4. head.pos \in Positions
    <2>1. HoldsEvents(i)
      BY DEF CheckpointInv
    <2>2. Head(lane[i]) = lane[i][1] /\ 1 \in 1..Len(lane[i])
      BY <1>1, EmptySeq, LenProperties
    <2> QED BY <2>1, <2>2 DEF HoldsEvents
  <1> HIDE DEF outcome
  <1>5. outcome = Reconcile(Current, head.pos, elapsed)
    BY DEF outcome
  <1>6. /\ run'[i].pos = head.pos /\ run'[i].does = outcome[1] /\ run'[i].status = outcome[2]
        /\ run'[i].pc = FirstCall(outcome[1]) /\ run'[i].revision = checkpoint.revision
        /\ run'[i].now = elapsed /\ run'[i].count = head.count
    BY <1>3
  <1> QED BY <1>1, <1>2, <1>4, <1>5, <1>6

\* The outcomes of a load: the call it starts with, what it does and under which
\* condition.
LEMMA LoadOutcome ==
  ASSUME CheckpointInv, NEW i \in Instances, Load(i)
  PROVE  LET r == run'[i]
             type == events[r.pos].type
         IN  \/ /\ r.pc = "ack" /\ r.does = "Stale"
                /\ r.pos <= Current.applied \/ type \in {"Recorded", "Scheduled", "Completed"}
                /\ r.pos <= Current.applied
                   \/ (type = "Recorded" /\ Current.status \notin {"None", "Scheduled", "Paused"})
                   \/ (type = "Scheduled" /\ Current.status \notin {"None", "Scheduled"})
                   \/ (type = "Completed" /\ Current.status = "Removed")
             \/ /\ Current.applied < r.pos
                /\ \/ /\ r.pc = "missing" /\ type \notin {"Created", "CreatedPaused"}
                      /\ Current.status = "None"
                   \/ /\ r.pc = "save" /\ r.does = "Only" /\ type = "CreatedPaused"
                      /\ r.status = "Paused"
                   \/ /\ r.pc = "purge" /\ r.does = "Purge" /\ Current.status # "None"
                      /\ \/ type = "Paused" /\ r.status = "Paused"
                         \/ type = "Removed" /\ r.status = "Removed"
                         \/ type = "Completed" /\ r.status = "Expired"
                   \/ /\ type = "Created" \/ (type = "Resumed" /\ Current.status # "None")
                      /\ \/ /\ Kind = "RRule" /\ r.pc = "arm" /\ r.does = "Arm"
                            /\ r.status = "Scheduled"
                         \/ /\ Kind = "At" /\ elapsed >= 1 /\ r.pc = "save" /\ r.does = "Only"
                            /\ r.status = "Expired"
                         \/ /\ Kind # "RRule" /\ r.pc = "purge" /\ r.does = "Publish"
                            /\ r.status = "Scheduled"
                   \/ /\ r.pc = "dispatch" /\ r.does = "Dispatch" /\ type = "Recorded"
                      /\ r.status = Current.status /\ r.status \in {"Scheduled", "Paused"}
                   \/ /\ r.pc = "purge" /\ r.does = "Publish" /\ type = "Scheduled"
                      /\ r.status = "Scheduled" /\ Current.status = "Scheduled"
  <1> DEFINE p == run'[i].pos
             e == events[p]
             o == Reconcile(Current, p, elapsed)
  <1>1. /\ run'[i].does = o[1] /\ run'[i].status = o[2] /\ run'[i].pc = FirstCall(o[1])
        /\ p \in Positions
    BY LoadFields
  <1>2. /\ Current.applied \in Nat /\ Current.status \in Statuses /\ p \in Nat
        /\ events \in Seq(Events)
    BY <1>1, CheckpointType DEF CheckpointInv, TypeOK, AggregateTypeOK, Positions
  <1>3. e.type \in EventTypes
    <2>1. e \in Events
      BY <1>1, <1>2, ElementOfSeq DEF Positions
    <2> QED BY <2>1 DEF Events
  <1> DEFINE decided == Decides(e, Current, elapsed)
             enabled == DecideEnabled(elapsed)
             occurrence == DecidesOccurrence(e, Current)
  <1>4. CASE p <= Current.applied
    <2>1. o = <<"Stale", Current.status>>
      BY <1>2, <1>4 DEF Reconcile
    <2> QED BY <1>1, <1>4, <2>1, FirstCalls
  <1>5. CASE Current.applied < p
    <2>1. o = decided
      BY <1>2, <1>5 DEF Reconcile
    <2>2. \/ Kind = "RRule" /\ enabled = <<"Arm", "Scheduled">>
          \/ Kind = "At" /\ elapsed >= 1 /\ enabled = <<"Only", "Expired">>
          \/ Kind # "RRule" /\ enabled = <<"Publish", "Scheduled">>
      BY DEF DecideEnabled
    <2>3. /\ e.type = "Created" => decided = enabled
          /\ e.type = "CreatedPaused" => decided = <<"Only", "Paused">>
          /\ Current.status = "None" /\ e.type \notin {"Created", "CreatedPaused"} =>
                decided = <<"Missing", "None">>
          /\ Current.status # "None" =>
                /\ e.type = "Paused" => decided = <<"Purge", "Paused">>
                /\ e.type = "Removed" => decided = <<"Purge", "Removed">>
                /\ e.type = "Resumed" => decided = enabled
                /\ e.type \in {"Recorded", "Scheduled", "Completed"} => decided = occurrence
      BY DecidesByType
    <2>4. /\ e.type = "Recorded" => occurrence = IF Current.status \in {"Scheduled", "Paused"}
                THEN <<"Dispatch", Current.status>> ELSE <<"Stale", Current.status>>
          /\ e.type = "Scheduled" => occurrence = IF Current.status = "Scheduled"
                THEN <<"Publish", "Scheduled">> ELSE <<"Stale", Current.status>>
          /\ e.type = "Completed" => occurrence = IF Current.status # "Removed"
                THEN <<"Purge", "Expired">> ELSE <<"Stale", Current.status>>
      BY OccurrenceByType
    <2> HIDE DEF p, e, o, decided, enabled, occurrence
    <2>5. CASE Current.status = "None" /\ e.type \notin {"Created", "CreatedPaused"}
      BY <1>1, <1>5, <2>1, <2>3, <2>5, FirstCalls DEF p, e
    <2>6. CASE e.type = "CreatedPaused"
      BY <1>1, <1>5, <2>1, <2>3, <2>6, FirstCalls DEF p, e
    <2>7. CASE e.type = "Created" \/ (e.type = "Resumed" /\ Current.status # "None")
      <3>1. o = enabled
        BY <2>1, <2>3, <2>7
      <3> QED BY <1>1, <1>5, <2>2, <2>7, <3>1, FirstCalls DEF p, e
    <2>8. CASE Current.status # "None" /\ e.type \in {"Paused", "Removed"}
      BY <1>1, <1>5, <2>1, <2>3, <2>8, FirstCalls DEF p, e
    <2>9. CASE Current.status # "None" /\ e.type = "Recorded"
      BY <1>1, <1>5, <2>1, <2>3, <2>4, <2>9, FirstCalls DEF p, e
    <2>10. CASE Current.status # "None" /\ e.type = "Scheduled"
      BY <1>1, <1>5, <2>1, <2>3, <2>4, <2>10, FirstCalls DEF p, e
    <2>11. CASE Current.status # "None" /\ e.type = "Completed"
      BY <1>1, <1>5, <2>1, <2>3, <2>4, <2>11, FirstCalls DEF p, e
    <2> QED BY <1>3, <2>5, <2>6, <2>7, <2>8, <2>9, <2>10, <2>11 DEF EventTypes
  <1> QED BY <1>2, <1>4, <1>5

-----------------------------------------------------------------------------
(* The stream, the deliveries and the runs. *)

\* The events that only the recurrence of a schedule writes.
OccurrenceTypes == {"Recorded", "Scheduled", "Completed"}

\* The stream only grows.
Grows == Positions \subseteq Positions' /\ \A p \in Positions : events'[p] = events[p]

\* An append of one event adds it after the others.
LEMMA Append1Grows ==
  ASSUME AggregateTypeOK, NEW e \in Events, Append1(e)
  PROVE  /\ Grows /\ Len(events) \in Nat /\ Len(events') = Len(events) + 1
         /\ events'[Len(events')] = e
         /\ \A p \in Positions' : p \in Positions \/ p = Len(events')
  <1>1. /\ Len(events') = Len(events) + 1 /\ Len(events) \in Nat
        /\ \A p \in 1..Len(events) : events'[p] = events[p]
        /\ events'[Len(events) + 1] = e
    BY AppendProperties, LenProperties DEF AggregateTypeOK, Append1
  <1> QED BY <1>1 DEF Grows, Positions

\* So does an append of two.
LEMMA Append2Grows ==
  ASSUME AggregateTypeOK, NEW e \in Events, NEW f \in Events, Append2(e, f)
  PROVE  /\ Grows /\ Len(events) \in Nat /\ Len(events') = Len(events) + 2
         /\ events'[Len(events) + 1] = e /\ events'[Len(events')] = f
         /\ \A p \in Positions' : p \in Positions \/ p = Len(events) + 1 \/ p = Len(events')
  <1>1. events \in Seq(Events) /\ <<e, f>> \in Seq(Events) /\ Len(<<e, f>>) = 2
    BY DEF AggregateTypeOK
  <1>2. /\ Len(events') = Len(events) + 2 /\ Len(events) \in Nat
        /\ \A p \in 1..Len(events') :
              events'[p] = IF p <= Len(events) THEN events[p] ELSE <<e, f>>[p - Len(events)]
    BY <1>1, ConcatProperties, LenProperties DEF Append2
  <1>3. /\ events'[Len(events) + 1] = <<e, f>>[1] /\ events'[Len(events) + 2] = <<e, f>>[2]
    BY <1>2
  <1> QED BY <1>2, <1>3 DEF Grows, Positions

\* The events of a step: none, a user's, an arming of a recurrence or the
\* occurrences of a wakeup.
LEMMA StreamStep ==
  ASSUME CheckpointInv, FoldInv, \A i \in Instances : run[i].pc = "arm" => Kind = "RRule",
         [Next]_vars
  PROVE  /\ FoldInv' /\ Kind' = Kind /\ Grows
         /\ \A p \in Positions' : p \notin Positions /\ events'[p].type \in OccurrenceTypes =>
               Kind = "RRule"
  <1> DEFINE Goal == /\ FoldInv' /\ Kind' = Kind /\ Grows
                     /\ \A p \in Positions' :
                           p \notin Positions /\ events'[p].type \in OccurrenceTypes =>
                               Kind = "RRule"
  <1>1. AggregateTypeOK
    BY DEF CheckpointInv, TypeOK
  <1>2. ASSUME UNCHANGED <<events, state, commands>> PROVE Goal
    BY <1>2 DEF FoldInv, Armable, Kind, Grows, Positions
  <1>3. ASSUME User PROVE Goal
    <2>1. FoldInv' /\ Kind' = Kind
      BY <1>1, <1>3, FoldUser
    <2>2. ASSUME NEW type \in {"Created", "CreatedPaused", "Paused", "Resumed", "Removed"},
                 Append1(Event(type, None))
          PROVE  Goal
      <3>1. Event(type, None) \in Events /\ Event(type, None).type = type
        BY EventType DEF EventTypes, Event, None
      <3> QED BY <1>1, <2>1, <2>2, <3>1, Append1Grows DEF OccurrenceTypes
    <2>3. CASE CreateSchedule
      BY <2>2, <2>3 DEF CreateSchedule
    <2>4. CASE PauseSchedule \/ ResumeSchedule \/ RemoveSchedule
      BY <2>2, <2>4 DEF PauseSchedule, ResumeSchedule, RemoveSchedule, Command
    <2>5. CASE Tick
      BY <1>2, <2>5 DEF Tick
    <2> QED BY <1>3, <2>3, <2>4, <2>5 DEF User
  <1>4. ASSUME NEW i \in Instances, Arm(i) PROVE Goal
    <2>1. Kind = "RRule" /\ run[i].now \in Nat /\ UNCHANGED commands
      BY <1>4, RunType DEF Arm, At, Runs
    <2>2. CASE Arms /\ Append1(NextOccurrence(run[i].now))
      <3>1. NextOccurrence(run[i].now) \in Events
        BY <1>1, <2>1, NextOccurrenceType
      <3> QED BY <1>1, <2>1, <2>2, <3>1, FoldArm, Append1Grows
    <2>3. UNCHANGED <<events, state>> \/ (Arms /\ Append1(NextOccurrence(run[i].now)))
      BY <1>4 DEF Arm
    <2> QED BY <1>2, <2>1, <2>2, <2>3
  <1>5. ASSUME NEW at \in wakeups, HandleWakeup(at) PROVE Goal
    <2>1. at \in Nat /\ UNCHANGED commands
      BY <1>5 DEF CheckpointInv, TypeOK, HandleWakeup
    <2>2. CASE Records(at) /\ RecordOccurrence(at)
      <3>1. Kind = "RRule" /\ FoldInv' /\ Kind' = Kind
        BY <1>1, <2>1, <2>2, FoldRecord
      <3>2. Event("Recorded", at) \in Events /\ Follows(at) \in Events
        BY <2>1, EventType, FollowsType DEF EventTypes
      <3>3. Grows
        BY <1>1, <2>2, <3>2, Append1Grows, Append2Grows DEF RecordOccurrence
      <3> QED BY <3>1, <3>3
    <2>3. UNCHANGED <<events, state>> \/ (Records(at) /\ RecordOccurrence(at))
      BY <1>5 DEF HandleWakeup
    <2> QED BY <1>2, <2>1, <2>2, <2>3
  <1>6. \/ User \/ (\E i \in Instances : Arm(i)) \/ (\E at \in wakeups : HandleWakeup(at))
        \/ UNCHANGED aggregateVars
    BY DEF Next, Process, vars, Deliver, Load, Purge, Publish, Dispatch, Save, Resolve, Missing,
           Term, Ack, Fail, Crash, Fire, ExpireWindow
  <1> HIDE DEF Goal
  <1>7. Goal
    <2>1. UNCHANGED aggregateVars => UNCHANGED <<events, state, commands>>
      BY DEF aggregateVars
    <2> QED BY <1>2, <1>3, <1>4, <1>5, <1>6, <2>1
  <1> QED BY <1>7 DEF Goal

\* A run goes on to its next call.
Goes(i) ==
    /\ \/ /\ run[i].pc \in WritingCalls \cup {"resolve"}
          /\ run'[i].pc \in {"publish", "save", "ack", "resolve"}
       \/ run[i].pc = "missing" /\ run'[i].pc = "term"
    /\ run'[i].pos = run[i].pos /\ run'[i].revision = run[i].revision
    /\ run'[i].does = run[i].does /\ run'[i].status = run[i].status

\* A call that moves on keeps what the run was loaded with.
LEMMA GoesOn ==
  ASSUME CheckpointInv, NEW i \in Instances, NEW pc, Goto(i, pc),
         \/ /\ run[i].pc \in WritingCalls \cup {"resolve"}
            /\ pc \in {"publish", "save", "ack", "resolve"}
         \/ run[i].pc = "missing" /\ pc = "term"
  PROVE  /\ Goes(i) /\ run'[i].pc = pc
         /\ \A j \in Instances : j # i => run'[j] = run[j]
  <1>1. run \in [Instances -> Runs] /\ run[i] \in Runs
    BY DEF CheckpointInv, TypeOK
  <1> DEFINE next == [run[i] EXCEPT !.pc = pc]
  <1>2. /\ next.pc = pc /\ next.pos = run[i].pos /\ next.revision = run[i].revision
        /\ next.does = run[i].does /\ next.status = run[i].status
    BY <1>1 DEF Runs
  <1>3. run'[i] = next /\ \A j \in Instances : j # i => run'[j] = run[j]
    BY <1>1 DEF Goto
  <1> HIDE DEF next
  <1> QED BY <1>2, <1>3 DEF Goes

\* A record that leaves an instance, and the other instances.
LEMMA Dropped ==
  ASSUME CheckpointInv, NEW i \in Instances, run' = [run EXCEPT ![i] = Idle]
  PROVE  run'[i] = Idle /\ \A j \in Instances : j # i => run'[j] = run[j]
  BY DEF CheckpointInv, TypeOK

\* What a step may do to the run of an instance.
LEMMA Moves ==
  ASSUME CheckpointInv, [Next]_vars, NEW j \in Instances
  PROVE  run'[j] = run[j] \/ run'[j] = Idle \/ Load(j) \/ Goes(j)
  <1> DEFINE Goal == run'[j] = run[j] \/ run'[j] = Idle \/ Load(j) \/ Goes(j)
  <1>1. ASSUME run' = run PROVE Goal
    BY <1>1
  <1>2. ASSUME NEW i \in Instances, run' = [run EXCEPT ![i] = Idle] PROVE Goal
    BY <1>2, Dropped
  <1>3. ASSUME NEW i \in Instances, NEW pc, Goto(i, pc),
               \/ /\ run[i].pc \in WritingCalls \cup {"resolve"}
                  /\ pc \in {"publish", "save", "ack", "resolve"}
               \/ run[i].pc = "missing" /\ pc = "term"
        PROVE  Goal
    BY <1>3, GoesOn
  <1>4. ASSUME NEW i \in Instances, Load(i) PROVE Goal
    BY <1>4, LoadFields
  <1> HIDE DEF Goal
  <1>5. ASSUME NEW i \in Instances, Process(i) \/ Fail(i) \/ Crash(i) PROVE Goal
    <2> USE DEF At, WritingCalls, Retry
    <2>1. CASE Load(i)
      BY <1>4, <2>1
    <2>2. CASE Purge(i)
      BY <1>3, <2>2 DEF Purge
    <2>3. CASE Publish(i)
      BY <1>3, <2>3 DEF Publish
    <2>4. CASE Dispatch(i)
      BY <1>3, <2>4 DEF Dispatch
    <2>5. CASE Arm(i)
      BY <1>2, <1>3, <2>5 DEF Arm
    <2>6. CASE Save(i)
      BY <1>3, <2>6 DEF Save
    <2>7. CASE Resolve(i)
      BY <1>2, <1>3, <2>7 DEF Resolve
    <2>8. CASE Missing(i)
      BY <1>2, <1>3, <2>8 DEF Missing
    <2>9. CASE Term(i) \/ Ack(i)
      BY <1>2, <2>9 DEF Term, Ack
    <2>10. CASE Fail(i)
      BY <1>2, <2>10 DEF Fail
    <2>11. CASE Crash(i)
      BY <1>2, <2>11 DEF Crash
    <2> QED BY <1>5, <2>1, <2>2, <2>3, <2>4, <2>5, <2>6, <2>7, <2>8, <2>9, <2>10, <2>11 DEF Process
  <1>6. run' = run \/ \E i \in Instances : Process(i) \/ Fail(i) \/ Crash(i)
    BY DEF Next, vars, Deliver, Fire, HandleWakeup, ExpireWindow
  <1>7. Goal
    BY <1>1, <1>5, <1>6
  <1> QED BY <1>7 DEF Goal

\* What a step may do to a lane, to the deliveries, to what is settled and to
\* the checkpoint.
LEMMA DeliveredMoves ==
  ASSUME CheckpointInv, [Next]_vars
  PROVE  /\ deliveries' = deliveries
            \/ \E i \in Instances, p \in Positions : Deliver(i, p)
         /\ \A j \in Instances :
               \/ lane'[j] = lane[j] \/ lane'[j] = <<>>
               \/ Load(j) \/ \E p \in Positions : Deliver(j, p)
         /\ settled' = settled \/ \E i \in Instances : Ack(i) \/ Term(i)
         /\ failures' = failures \/ \E i \in Instances :
               /\ Missing(i) /\ run[i].pc = "missing" /\ run[i].count >= Ceiling
               /\ failures' = failures \cup {run[i].pos}
         /\ checkpoint' = checkpoint \/ \E i \in Instances : Save(i)
  <1> USE DEF vars, consumerVars, Retry
  <1>1. deliveries' = deliveries \/ \E i \in Instances, p \in Positions : Deliver(i, p)
    BY DEF Next, Process, Load, Purge, Publish, Dispatch, Arm, Save, Resolve, Missing, Term, Ack,
           Fail, Crash, Fire, HandleWakeup, ExpireWindow
  <1>2. checkpoint' = checkpoint \/ \E i \in Instances : Save(i)
    BY DEF Next, Process, Load, Deliver, Purge, Publish, Dispatch, Arm, Resolve, Missing, Term, Ack,
           Fail, Crash, Fire, HandleWakeup, ExpireWindow
  <1>3. /\ settled' = settled \/ \E i \in Instances : Ack(i) \/ Term(i)
        /\ failures' = failures \/ \E i \in Instances :
               /\ Missing(i) /\ run[i].pc = "missing" /\ run[i].count >= Ceiling
               /\ failures' = failures \cup {run[i].pos}
    <2>1. settled' = settled \/ \E i \in Instances : Ack(i) \/ Term(i)
      BY DEF Next, Process, Load, Deliver, Purge, Publish, Dispatch, Arm, Save, Resolve, Missing,
             Fail, Crash, Fire, HandleWakeup, ExpireWindow
    <2>2. failures' = failures \/ \E i \in Instances : Missing(i)
      BY DEF Next, Process, Load, Deliver, Purge, Publish, Dispatch, Arm, Save, Resolve, Term, Ack,
             Fail, Crash, Fire, HandleWakeup, ExpireWindow
    <2> QED BY <2>1, <2>2 DEF Missing, At
  <1>4. ASSUME NEW j \in Instances
        PROVE  lane'[j] = lane[j] \/ lane'[j] = <<>> \/ Load(j)
               \/ \E p \in Positions : Deliver(j, p)
    <2>1. lane \in [Instances -> Seq([pos : Nat, count : Nat])]
      BY DEF CheckpointInv, TypeOK
    <2>2. lane' = lane \/ \E i \in Instances :
             Load(i) \/ Crash(i) \/ \E p \in Positions : Deliver(i, p)
      BY DEF Next, Process, Purge, Publish, Dispatch, Arm, Save, Resolve, Missing, Term, Ack, Fail,
             Fire, HandleWakeup, ExpireWindow
    <2>3. ASSUME NEW i \in Instances, Load(i) \/ Crash(i) \/ \E p \in Positions : Deliver(i, p)
          PROVE  /\ i # j => lane'[j] = lane[j]
                 /\ Crash(i) => lane'[i] = <<>>
      BY <2>1, <2>3 DEF Load, Crash, Deliver
    <2> QED BY <2>2, <2>3
  <1> QED BY <1>1, <1>2, <1>3, <1>4

\* A delivery is of a record on the stream, at most one past the others, and
\* goes to the end of the lane.
LEMMA DeliverFields ==
  ASSUME CheckpointInv, NEW i \in Instances, NEW p \in Positions, Deliver(i, p)
  PROVE  /\ Len(deliveries) \in Nat /\ Len(deliveries') \in {Len(deliveries), Len(deliveries) + 1}
         /\ p \in Nat \ {0} /\ p \notin settled
         /\ p <= Len(deliveries')
         /\ Len(deliveries') <= Len(deliveries) \/ Len(deliveries') = p
         /\ lane[i] \in Seq([pos : Nat, count : Nat]) /\ Len(lane[i]) \in Nat
         /\ Len(lane'[i]) = Len(lane[i]) + 1 /\ lane'[i][Len(lane[i]) + 1].pos = p
         /\ \A k \in 1..Len(lane[i]) : lane'[i][k] = lane[i][k]
         /\ \A j \in Instances : j # i => lane'[j] = lane[j]
         /\ UNCHANGED <<events, state, elapsed, commands, scheduled, window, dispatched, wakeups,
                        settled, failures, run, checkpoint>>
  <1> DEFINE count == IF p > Len(deliveries) THEN 1
                      ELSE IF deliveries[p] < Ceiling THEN deliveries[p] + 1 ELSE Ceiling
  <1>1. /\ deliveries \in Seq(Nat) /\ Len(deliveries) \in Nat
        /\ events \in Seq(Events) /\ Len(events) \in Nat
        /\ lane[i] \in Seq([pos : Nat, count : Nat])
        /\ lane \in [Instances -> Seq([pos : Nat, count : Nat])]
    BY LenProperties DEF CheckpointInv, TypeOK, AggregateTypeOK
  <1>2. p \in Nat \ {0} /\ p <= Len(deliveries) + 1 /\ p \notin settled
    BY <1>1 DEF Positions, Deliver
  <1>3. count \in Nat
    <2>1. CASE p <= Len(deliveries)
      <3>1. deliveries[p] \in Nat
        BY <1>1, <1>2, <2>1, ElementOfSeq
      <3> QED BY <2>1, <3>1, ExecutionAssumption, <1>1, <1>2
    <2> QED BY <1>1, <1>2, <2>1
  <1>4. /\ deliveries' = IF p > Len(deliveries) THEN Append(deliveries, count)
                         ELSE [deliveries EXCEPT ![p] = count]
        /\ lane' = [lane EXCEPT ![i] = Append(@, [pos |-> p, count |-> count])]
    BY DEF Deliver
  <1> HIDE DEF count
  <1>5. \/ Len(deliveries') = Len(deliveries) /\ p <= Len(deliveries)
        \/ Len(deliveries') = Len(deliveries) + 1 /\ p = Len(deliveries) + 1
    <2>1. CASE p > Len(deliveries)
      BY <1>1, <1>2, <1>3, <1>4, <2>1, AppendProperties
    <2>2. CASE p <= Len(deliveries)
      BY <1>1, <1>2, <1>3, <1>4, <2>2, ExceptSeq
    <2> QED BY <1>1, <1>2, <2>1, <2>2
  <1>6. /\ lane'[i] = Append(lane[i], [pos |-> p, count |-> count])
        /\ \A j \in Instances : j # i => lane'[j] = lane[j]
    BY <1>1, <1>4
  <1>7. /\ Len(lane[i]) \in Nat /\ Len(lane'[i]) = Len(lane[i]) + 1
        /\ lane'[i][Len(lane[i]) + 1].pos = p
        /\ \A k \in 1..Len(lane[i]) : lane'[i][k] = lane[i][k]
    BY <1>1, <1>6
  <1>8. UNCHANGED <<events, state, elapsed, commands, scheduled, window, dispatched, wakeups,
                    settled, failures, run, checkpoint>>
    BY DEF Deliver, aggregateVars, brokerVars
  <1> QED BY <1>1, <1>2, <1>5, <1>6, <1>7, <1>8

\* Loading takes the first record off the lane.
LEMMA LoadLane ==
  ASSUME CheckpointInv, NEW i \in Instances, Load(i)
  PROVE  /\ Len(lane[i]) \in Nat /\ 1 \in 1..Len(lane[i]) /\ run'[i].pos = lane[i][1].pos
         /\ Len(lane'[i]) = Len(lane[i]) - 1
         /\ \A k \in 1..Len(lane'[i]) : k + 1 \in 1..Len(lane[i]) /\ lane'[i][k] = lane[i][k + 1]
  <1>1. /\ lane[i] \in Seq([pos : Nat, count : Nat]) /\ lane[i] # <<>>
        /\ run'[i].pos = Head(lane[i]).pos /\ lane'[i] = Tail(lane[i])
    BY LoadFields
  <1> QED BY <1>1

\* Only its own steps change the run of an instance.
LEMMA Acts ==
  ASSUME CheckpointInv, [Next]_vars, NEW j \in Instances
  PROVE  run'[j] = run[j] \/ Process(j) \/ Fail(j) \/ Crash(j)
  <1> DEFINE Goal == run'[j] = run[j] \/ Process(j) \/ Fail(j) \/ Crash(j)
  <1>1. run \in [Instances -> Runs]
    BY DEF CheckpointInv, TypeOK
  <1>2. ASSUME NEW i \in Instances, i # j, Process(i) \/ Fail(i) \/ Crash(i)
        PROVE  run'[j] = run[j]
    BY <1>1, <1>2 DEF Process, Load, Purge, Publish, Dispatch, Arm, Save, Resolve, Missing, Term,
                      Ack, Fail, Crash, Goto, Retry
  <1>3. run' = run \/ \E i \in Instances : Process(i) \/ Fail(i) \/ Crash(i)
    BY DEF Next, vars, Deliver, Fire, HandleWakeup, ExpireWindow
  <1> QED BY <1>2, <1>3

\* What the runs and the lanes hold was delivered, and what is settled too.
HeldInv(i) ==
    /\ run[i].pc = "idle" => run[i] = Idle
    /\ run[i].pc # "idle" => run[i].pos \in 1..Len(deliveries)
    /\ \A k \in 1..Len(lane[i]) : lane[i][k].pos \in 1..Len(deliveries)
    /\ run[i].pc = "arm" => Kind = "RRule"
    /\ run[i].pc = "dispatch" => events[run[i].pos].type = "Recorded"
    /\ run[i].pc = "term" => run[i].pos \in failures

\* Deliveries follow the stream, and settlement and the checkpoint follow them.
DeliveredInv ==
    /\ Len(deliveries) <= Len(events)
    /\ settled \subseteq 1..Len(deliveries) /\ failures \subseteq 1..Len(deliveries)
    /\ Current.applied <= Len(deliveries)
    /\ \A i \in Instances : HeldInv(i)

\* Only a recurrence has occurrences.
KindInv == \A p \in Positions : events[p].type \in OccurrenceTypes => Kind = "RRule"

\* The inductive invariant of the flow of the events.
FlowInv == CheckpointInv /\ FoldInv /\ DeliveredInv /\ KindInv

\* A record is terminated after its failure record was written.
LEMMA GivenUp ==
  ASSUME CheckpointInv, [Next]_vars, NEW j \in Instances, run'[j].pc = "term"
  PROVE  \/ run'[j] = run[j]
         \/ run[j].pc = "missing" /\ run'[j].pos = run[j].pos /\ run[j].pos \in failures'
  <1>1. ASSUME run'[j] # run[j] PROVE Goes(j)
    <2>1. ~Load(j)
      BY LoadOutcome DEF WritingCalls
    <2> QED BY <1>1, <2>1, Moves DEF Idle
  <1>2. ASSUME run'[j] # run[j] PROVE Missing(j)
    <2>1. run[j].pc = "missing" /\ run'[j].pc # "idle"
      BY <1>1, <1>2 DEF Goes
    <2>2. ~Fail(j) /\ ~Crash(j)
      BY <2>1, Dropped DEF Fail, Crash, Idle
    <2>3. ~Load(j)
      BY <2>1 DEF Load, Idle
    <2>4. ~Purge(j) /\ ~Publish(j) /\ ~Dispatch(j) /\ ~Arm(j)
      BY <2>1 DEF Purge, Publish, Dispatch, Arm, At
    <2>5. ~Save(j) /\ ~Resolve(j) /\ ~Term(j) /\ ~Ack(j)
      BY <2>1 DEF Save, Resolve, Term, Ack, At
    <2> QED BY <1>2, <2>2, <2>3, <2>4, <2>5, Acts DEF Process
  <1>3. ASSUME Missing(j), run'[j] # run[j] PROVE run[j].pos \in failures'
    <2>1. run'[j].pc # "idle"
      BY <1>1, <1>3 DEF Goes
    <2> QED BY <1>3, <2>1, Dropped DEF Missing, Retry, Idle
  <1> QED BY <1>1, <1>2, <1>3 DEF Goes

\* What an instance holds was delivered to it, and stays so.
LEMMA HeldStep ==
  ASSUME FlowInv, [Next]_vars, NEW j \in Instances
  PROVE  HeldInv(j)'
  <1>1. /\ CheckpointInv /\ HeldInv(j)
        /\ FoldInv /\ \A i \in Instances : run[i].pc = "arm" => Kind = "RRule"
    BY DEF FlowInv, DeliveredInv, HeldInv
  <1>2. Kind' = Kind /\ Grows
    BY <1>1, StreamStep
  <1>3. Len(deliveries) \in Nat /\ Len(deliveries') \in Nat /\ Len(deliveries) <= Len(deliveries')
    <2>1. Len(deliveries) \in Nat
      BY LenProperties, <1>1 DEF CheckpointInv, TypeOK
    <2>2. deliveries' = deliveries \/ \E i \in Instances, p \in Positions : Deliver(i, p)
      BY <1>1, DeliveredMoves
    <2> QED BY <1>1, <2>1, <2>2, DeliverFields
  <1>4. HoldsEvents(j)
    BY <1>1 DEF CheckpointInv
  <1>5. /\ run'[j].pc = "idle" => run'[j] = Idle
        /\ run'[j].pc # "idle" => run'[j].pos \in 1..Len(deliveries')
        /\ run'[j].pc = "arm" => Kind' = "RRule"
        /\ run'[j].pc = "dispatch" => events'[run'[j].pos].type = "Recorded"
        /\ run'[j].pc = "term" => run'[j].pos \in failures'
    <2>0. ASSUME run'[j].pc = "term" PROVE run'[j].pos \in failures'
      <3>1. failures \subseteq failures'
        BY <1>1, DeliveredMoves
      <3> QED BY <1>1, <2>0, <3>1, GivenUp DEF HeldInv
    <2>1. CASE run'[j] = run[j]
      BY <1>1, <1>2, <1>3, <1>4, <2>0, <2>1 DEF HeldInv, HoldsEvents, Grows
    <2>2. CASE run'[j] = Idle
      BY <2>2 DEF Idle
    <2>3. CASE Load(j)
      <3> DEFINE r == run'[j]
                 type == events[r.pos].type
      <3>1. /\ r.pc \in WritingCalls \cup {"missing", "ack"}
            /\ r.pc = "arm" => Kind = "RRule"
            /\ r.pc = "dispatch" => type = "Recorded"
        BY <1>1, <2>3, LoadOutcome DEF WritingCalls
      <3>2. r.pos \in 1..Len(deliveries)
        BY <1>1, <2>3, LoadLane DEF HeldInv
      <3>3. r.pos \in Positions
        BY <1>1, <2>3, LoadFields
      <3>4. events'[r.pos] = events[r.pos]
        BY <1>2, <3>3 DEF Grows
      <3> HIDE DEF r
      <3> QED BY <1>2, <1>3, <2>0, <3>1, <3>2, <3>4 DEF WritingCalls, r
    <2>4. CASE Goes(j)
      BY <1>1, <1>3, <2>0, <2>4 DEF Goes, HeldInv, WritingCalls
    <2> QED BY <1>1, <2>1, <2>2, <2>3, <2>4, Moves
  <1>6. \A k \in 1..Len(lane'[j]) : lane'[j][k].pos \in 1..Len(deliveries')
    <2>1. CASE lane'[j] = lane[j]
      BY <1>1, <1>3, <2>1 DEF HeldInv
    <2>2. CASE lane'[j] = <<>>
      BY <2>2
    <2>3. CASE Load(j)
      <3>1. \A k \in 1..Len(lane'[j]) :
               k + 1 \in 1..Len(lane[j]) /\ lane'[j][k] = lane[j][k + 1]
        BY <1>1, <2>3, LoadLane
      <3>2. \A k \in 1..Len(lane'[j]) : lane'[j][k].pos \in 1..Len(deliveries)
        BY <1>1, <3>1, ZenonT(30) DEF HeldInv
      <3>3. 1..Len(deliveries) \subseteq 1..Len(deliveries')
        BY <1>3
      <3> QED BY <3>2, <3>3
    <2>4. ASSUME NEW p \in Positions, Deliver(j, p), NEW k \in 1..Len(lane'[j])
          PROVE  lane'[j][k].pos \in 1..Len(deliveries')
      <3>1. /\ Len(lane[j]) \in Nat /\ Len(lane'[j]) = Len(lane[j]) + 1
            /\ lane'[j][Len(lane[j]) + 1].pos = p
            /\ \A l \in 1..Len(lane[j]) : lane'[j][l] = lane[j][l]
            /\ p \in 1..Len(deliveries')
        <4>1. p \in Nat \ {0} /\ p <= Len(deliveries')
          BY <1>1, <2>4, DeliverFields
        <4>2. p \in 1..Len(deliveries')
          BY <1>3, <4>1
        <4> QED BY <1>1, <2>4, <4>2, DeliverFields
      <3>2. CASE k = Len(lane[j]) + 1
        BY <3>1, <3>2
      <3>3. CASE k \in 1..Len(lane[j])
        BY <1>1, <1>3, <3>1, <3>3, SMTT(30) DEF HeldInv
      <3> QED BY <2>4, <3>1, <3>2, <3>3
    <2> QED BY <1>1, <2>1, <2>2, <2>3, <2>4, DeliveredMoves
  <1> QED BY <1>5, <1>6 DEF HeldInv

\* A write takes the checkpoint to a record in hand.
LEMMA CurrentMoves ==
  ASSUME CheckpointInv, [Next]_vars
  PROVE  \/ Current' = Current /\ checkpoint' = checkpoint
         \/ \E i \in Instances :
               /\ Save(i) /\ run[i].pc = "save" /\ Current'.applied = run[i].pos
               /\ Current'.status = run[i].status /\ run'[i].pc = "ack"
               /\ Current.applied < run[i].pos /\ Unchanged(checkpoint, run[i].revision)
               /\ checkpoint'.revision = checkpoint.revision + 1
  <1>1. CASE checkpoint' = checkpoint
    BY <1>1 DEF Current
  <1>2. ASSUME NEW i \in Instances, Save(i), checkpoint' # checkpoint
        PROVE  /\ run[i].pc = "save" /\ Current'.applied = run[i].pos
               /\ Current'.status = run[i].status /\ run'[i].pc = "ack"
               /\ Current.applied < run[i].pos /\ Unchanged(checkpoint, run[i].revision)
               /\ checkpoint'.revision = checkpoint.revision + 1
    <2>1. /\ At(i, "save") /\ Saves(i) /\ Goto(i, "ack")
          /\ checkpoint' = PutValue(checkpoint, [status |-> run[i].status, applied |-> run[i].pos])
      BY <1>2 DEF Save
    <2>2. Current' = [status |-> run[i].status, applied |-> run[i].pos]
      BY <2>1 DEF Current, IsPut, PutValue
    <2>3. run'[i].pc = "ack"
      BY <2>1, GoesOn DEF At, WritingCalls
    <2>4. Unchanged(checkpoint, run[i].revision)
      BY <2>1, CheckpointType DEF Saves, Creates, Unchanged, CheckpointInv
    <2> QED BY <2>1, <2>2, <2>3, <2>4, SaveAdvances DEF At
  <1> QED BY <1>1, <1>2, DeliveredMoves

\* Nothing is settled or applied before it was delivered.
LEMMA DeliveredStep ==
  ASSUME FlowInv, [Next]_vars
  PROVE  DeliveredInv'
  <1>1. CheckpointInv /\ DeliveredInv /\ FoldInv /\ \A i \in Instances : HeldInv(i)
    BY DEF FlowInv, DeliveredInv
  <1>2. Grows
    BY <1>1, StreamStep DEF HeldInv
  <1>3. /\ Len(deliveries) \in Nat /\ Len(events) \in Nat /\ Len(events') \in Nat
        /\ Len(events) <= Len(events')
    <2>1. Len(deliveries) \in Nat /\ Len(events) \in Nat
      BY LenProperties, <1>1 DEF CheckpointInv, TypeOK, AggregateTypeOK
    <2>2. CheckpointInv'
      BY <1>1, CheckpointStep
    <2>3. Len(events') \in Nat
      BY LenProperties, <2>2 DEF CheckpointInv, TypeOK, AggregateTypeOK
    <2> QED BY <1>2, <2>1, <2>3 DEF Grows, Positions
  <1>4. Len(deliveries') \in Nat /\ Len(deliveries) <= Len(deliveries')
        /\ Len(deliveries') <= Len(events')
    <2>1. CASE deliveries' = deliveries
      BY <1>1, <1>3, <2>1 DEF DeliveredInv
    <2>2. ASSUME NEW i \in Instances, NEW p \in Positions, Deliver(i, p)
          PROVE  Len(deliveries') \in Nat /\ Len(deliveries) <= Len(deliveries')
                 /\ Len(deliveries') <= Len(events')
      BY <1>1, <1>3, <2>2, DeliverFields DEF DeliveredInv, Positions
    <2> QED BY <1>1, <2>1, <2>2, DeliveredMoves
  <1>5. settled' \subseteq 1..Len(deliveries') /\ failures' \subseteq 1..Len(deliveries')
    <2>1. /\ 1..Len(deliveries) \subseteq 1..Len(deliveries')
          /\ settled \subseteq 1..Len(deliveries) /\ failures \subseteq 1..Len(deliveries)
      BY <1>1, <1>3, <1>4 DEF DeliveredInv
    <2>2. ASSUME NEW i \in Instances, run[i].pc # "idle" PROVE run[i].pos \in 1..Len(deliveries)
      BY <1>1, <2>2 DEF HeldInv
    <2>3. settled' = settled \/ \E i \in Instances :
             run[i].pc # "idle" /\ settled' = settled \cup {run[i].pos}
      BY <1>1, DeliveredMoves DEF Ack, Term, At
    <2>4. failures' = failures \/ \E i \in Instances :
             run[i].pc # "idle" /\ failures' = failures \cup {run[i].pos}
      BY <1>1, DeliveredMoves
    <2> QED BY <2>1, <2>2, <2>3, <2>4
  <1>6. Current'.applied <= Len(deliveries')
    <2>1. Current.applied \in Nat /\ Current.applied <= Len(deliveries)
      BY <1>1, CheckpointType DEF CheckpointInv, DeliveredInv
    <2>2. ASSUME NEW i \in Instances, run[i].pc = "save" PROVE run[i].pos \in 1..Len(deliveries)
      BY <1>1, <2>2 DEF HeldInv
    <2> QED BY <1>1, <1>3, <1>4, <2>1, <2>2, CurrentMoves
  <1> QED BY <1>4, <1>5, <1>6, HeldStep DEF DeliveredInv

\* Every step preserves the invariant of the flow.
LEMMA FlowStep == FlowInv /\ [Next]_vars => FlowInv'
  <1> SUFFICES ASSUME FlowInv, [Next]_vars PROVE FlowInv' OBVIOUS
  <1>1. CheckpointInv' /\ DeliveredInv'
    BY CheckpointStep, DeliveredStep DEF FlowInv
  <1>2. /\ FoldInv' /\ Kind' = Kind /\ Grows
        /\ \A p \in Positions' : p \notin Positions /\ events'[p].type \in OccurrenceTypes =>
               Kind = "RRule"
    BY StreamStep DEF FlowInv, DeliveredInv, HeldInv
  <1>3. KindInv'
    BY <1>2 DEF FlowInv, KindInv, Grows
  <1> QED BY <1>1, <1>2, <1>3 DEF FlowInv

\* The flow begins empty.
LEMMA FlowInit == Init => FlowInv
  <1> SUFFICES ASSUME Init PROVE FlowInv OBVIOUS
  <1>1. CheckpointInv
    BY CheckpointInit
  <1>2. /\ events = <<>> /\ Len(events) = 0 /\ commands = 0
        /\ state.phase = "missing" /\ state.last = None /\ state.pending = None
        /\ ~state.completed
    BY DEF Init, AggregateInit
  <1>3. FoldInv
    BY <1>2, AggregateAssumption DEF FoldInv, Armable, None
  <1>4. /\ deliveries = <<>> /\ Len(deliveries) = 0 /\ settled = {} /\ failures = {}
        /\ checkpoint = NoEntry
        /\ \A i \in Instances : lane[i] = <<>> /\ run[i] = Idle
    BY DEF Init
  <1>5. DeliveredInv
    BY <1>2, <1>4 DEF DeliveredInv, HeldInv, Current, IsPut, NoEntry, Idle
  <1>6. KindInv
    BY <1>2 DEF KindInv, Positions
  <1> QED BY <1>1, <1>3, <1>5, <1>6 DEF FlowInv

\* The records in hand are on the stream and the stream stays within what its
\* commands and instants account for.
LEMMA FlowCorrect == Spec => []FlowInv
  <1>1. Init => FlowInv
    BY FlowInit
  <1>2. FlowInv /\ [Next]_vars => FlowInv'
    BY FlowStep
  <1> QED BY <1>1, <1>2, PTL DEF Spec

\* A delivery carries the number of its deliveries so far, up to the ceiling.
CountInv ==
    /\ \A p \in 1..Len(deliveries) : deliveries[p] <= Ceiling
    /\ \A i \in Instances :
          /\ run[i].pc = "missing" => run[i].count <= deliveries[run[i].pos]
          /\ \A k \in 1..Len(lane[i]) : lane[i][k].count <= deliveries[lane[i][k].pos]
    /\ \A p \in failures : deliveries[p] = Ceiling

\* A delivery counts itself.
LEMMA DeliverCounts ==
  ASSUME CheckpointInv, CountInv, NEW i \in Instances, NEW p \in Positions, Deliver(i, p)
  PROVE  /\ \A q \in 1..Len(deliveries) : q # p => deliveries'[q] = deliveries[q]
         /\ p \in 1..Len(deliveries) => deliveries[p] <= deliveries'[p]
         /\ deliveries'[p] \in Nat /\ deliveries'[p] <= Ceiling
         /\ lane'[i][Len(lane[i]) + 1].count = deliveries'[p]
  <1> DEFINE count == IF p > Len(deliveries) THEN 1
                      ELSE IF deliveries[p] < Ceiling THEN deliveries[p] + 1 ELSE Ceiling
  <1>1. /\ deliveries \in Seq(Nat) /\ Len(deliveries) \in Nat /\ Ceiling \in Nat \ {0}
        /\ lane[i] \in Seq([pos : Nat, count : Nat])
        /\ lane \in [Instances -> Seq([pos : Nat, count : Nat])]
    BY LenProperties, ExecutionAssumption DEF CheckpointInv, TypeOK
  <1>2. p \in Nat \ {0} /\ p <= Len(deliveries) + 1
    BY DEF Positions, Deliver
  <1>3. p \in 1..Len(deliveries) => deliveries[p] \in Nat /\ deliveries[p] <= Ceiling
    BY <1>1, ElementOfSeq DEF CountInv
  <1>4. count \in Nat /\ count <= Ceiling /\ (p \in 1..Len(deliveries) => deliveries[p] <= count)
    BY <1>1, <1>2, <1>3
  <1>5. /\ deliveries' = IF p > Len(deliveries) THEN Append(deliveries, count)
                         ELSE [deliveries EXCEPT ![p] = count]
        /\ lane' = [lane EXCEPT ![i] = Append(@, [pos |-> p, count |-> count])]
    BY DEF Deliver
  <1> HIDE DEF count
  <1>6. /\ deliveries'[p] = count
        /\ \A q \in 1..Len(deliveries) : q # p => deliveries'[q] = deliveries[q]
    <2>1. CASE p > Len(deliveries)
      <3>1. p = Len(deliveries) + 1 /\ deliveries' = Append(deliveries, count)
        BY <1>1, <1>2, <1>5, <2>1
      <3> QED BY <1>1, <1>4, <3>1, AppendProperties
    <2>2. CASE p <= Len(deliveries)
      BY <1>1, <1>2, <1>4, <1>5, <2>2, ExceptSeq
    <2> QED BY <1>1, <1>2, <2>1, <2>2
  <1>7. lane'[i][Len(lane[i]) + 1].count = count
    <2>1. lane'[i] = Append(lane[i], [pos |-> p, count |-> count])
      BY <1>1, <1>5
    <2>2. lane'[i][Len(lane[i]) + 1] = [pos |-> p, count |-> count]
      BY <1>1, <2>1
    <2> QED BY <2>2
  <1> QED BY <1>4, <1>6, <1>7

\* Every step keeps the numbers of deliveries.
LEMMA CountStep ==
  ASSUME FlowInv, CountInv, [Next]_vars
  PROVE  CountInv'
  <1>1. /\ CheckpointInv /\ DeliveredInv /\ \A i \in Instances : HeldInv(i)
        /\ Ceiling \in Nat /\ deliveries \in Seq(Nat) /\ Len(deliveries) \in Nat
    BY LenProperties, ExecutionAssumption DEF FlowInv, DeliveredInv, CheckpointInv, TypeOK
  <1>2. /\ \A p \in 1..Len(deliveries) : /\ deliveries[p] \in Nat /\ deliveries'[p] \in Nat
                                         /\ deliveries[p] <= deliveries'[p]
        /\ \A p \in 1..Len(deliveries') : deliveries'[p] <= Ceiling
    <2>1. \A p \in 1..Len(deliveries) : deliveries[p] \in Nat /\ deliveries[p] <= Ceiling
      BY <1>1, ElementOfSeq DEF CountInv
    <2>2. CASE deliveries' = deliveries
      BY <2>1, <2>2
    <2>3. ASSUME NEW i \in Instances, NEW p \in Positions, Deliver(i, p)
          PROVE  /\ \A q \in 1..Len(deliveries) : /\ deliveries[q] \in Nat /\ deliveries'[q] \in Nat
                                                  /\ deliveries[q] <= deliveries'[q]
                 /\ \A q \in 1..Len(deliveries') : deliveries'[q] <= Ceiling
      <3>1. /\ \A q \in 1..Len(deliveries) : q # p => deliveries'[q] = deliveries[q]
            /\ p \in 1..Len(deliveries) => deliveries[p] <= deliveries'[p]
            /\ deliveries'[p] \in Nat /\ deliveries'[p] <= Ceiling
        BY <1>1, <2>3, DeliverCounts
      <3>2. /\ Len(deliveries') \in {Len(deliveries), Len(deliveries) + 1}
            /\ Len(deliveries') <= Len(deliveries) \/ Len(deliveries') = p
        BY <1>1, <2>3, DeliverFields
      <3>3. \A q \in 1..Len(deliveries') : q = p \/ q \in 1..Len(deliveries)
        BY <1>1, <3>2
      <3> QED BY <2>1, <3>1, <3>3
    <2> QED BY <1>1, <2>2, <2>3, DeliveredMoves
  <1>3. ASSUME NEW i \in Instances, NEW k \in 1..Len(lane'[i])
        PROVE  lane'[i][k].count <= deliveries'[lane'[i][k].pos]
    <2>1. ASSUME NEW l \in 1..Len(lane[i]) PROVE lane[i][l].count <= deliveries'[lane[i][l].pos]
      <3>1. lane[i][l].pos \in 1..Len(deliveries)
        BY <1>1 DEF HeldInv
      <3>2. lane[i][l].count <= deliveries[lane[i][l].pos]
        BY DEF CountInv
      <3>3. lane[i][l].count \in Nat
        <4>1. lane[i] \in Seq([pos : Nat, count : Nat])
          BY <1>1 DEF CheckpointInv, TypeOK
        <4>2. lane[i][l] \in [pos : Nat, count : Nat]
          BY <4>1, ElementOfSeq
        <4> QED BY <4>2
      <3> QED BY <1>2, <3>1, <3>2, <3>3
    <2>2. CASE lane'[i] = lane[i]
      BY <2>1, <2>2
    <2>3. CASE lane'[i] = <<>>
      BY <2>3
    <2>4. CASE Load(i)
      BY <1>1, <2>1, <2>4, LoadLane
    <2>5. ASSUME NEW p \in Positions, Deliver(i, p)
          PROVE  lane'[i][k].count <= deliveries'[lane'[i][k].pos]
      <3>1. /\ Len(lane[i]) \in Nat /\ Len(lane'[i]) = Len(lane[i]) + 1
            /\ lane'[i][Len(lane[i]) + 1].pos = p
            /\ \A l \in 1..Len(lane[i]) : lane'[i][l] = lane[i][l]
        BY <1>1, <2>5, DeliverFields
      <3>2. CASE k = Len(lane[i]) + 1
        BY <1>1, <2>5, <3>1, <3>2, DeliverCounts
      <3>3. CASE k \in 1..Len(lane[i])
        BY <2>1, <3>1, <3>3
      <3> QED BY <3>1, <3>2, <3>3
    <2> QED BY <1>1, <2>2, <2>3, <2>4, <2>5, DeliveredMoves
  <1>4. ASSUME NEW i \in Instances, run'[i].pc = "missing"
        PROVE  run'[i].count <= deliveries'[run'[i].pos]
    <2>1. CASE run'[i] = run[i]
      <3>1. run[i].pos \in 1..Len(deliveries) /\ run[i].count \in Nat
        BY <1>1, <1>4, <2>1, RunType DEF HeldInv, Runs
      <3>2. run[i].count <= deliveries[run[i].pos]
        BY <1>4, <2>1 DEF CountInv
      <3> QED BY <1>2, <2>1, <3>1, <3>2
    <2>2. CASE Load(i)
      <3>1. /\ run'[i].pos = lane[i][1].pos /\ run'[i].count = lane[i][1].count
            /\ 1 \in 1..Len(lane[i])
        <4>1. lane[i] \in Seq([pos : Nat, count : Nat]) /\ lane[i] # <<>>
              /\ run'[i].count = Head(lane[i]).count
          BY <1>1, <2>2, LoadFields
        <4> QED BY <1>1, <2>2, <4>1, LoadLane
      <3>2. lane[i][1].pos \in 1..Len(deliveries) /\ lane[i][1].count <= deliveries[lane[i][1].pos]
        BY <1>1, <3>1 DEF HeldInv, CountInv
      <3>3. lane[i][1].count \in Nat
        <4>1. lane[i] \in Seq([pos : Nat, count : Nat])
          BY <1>1 DEF CheckpointInv, TypeOK
        <4>2. lane[i][1] \in [pos : Nat, count : Nat]
          BY <3>1, <4>1, ElementOfSeq
        <4> QED BY <4>2
      <3> QED BY <1>2, <3>1, <3>2, <3>3
    <2> QED BY <1>1, <1>4, <2>1, <2>2, Moves DEF Goes, Idle
  <1>5. ASSUME NEW p \in failures' PROVE deliveries'[p] = Ceiling
    <2>1. CASE p \in failures
      <3>1. p \in 1..Len(deliveries) /\ deliveries[p] = Ceiling
        BY <1>1, <2>1 DEF DeliveredInv, CountInv
      <3>2. p \in 1..Len(deliveries')
        BY <1>1, <3>1, DeliveredMoves, DeliverFields
      <3> QED BY <1>1, <1>2, <3>1, <3>2
    <2>2. ASSUME NEW i \in Instances, run[i].pc = "missing", run[i].count >= Ceiling, p = run[i].pos
          PROVE  deliveries'[p] = Ceiling
      <3>1. p \in 1..Len(deliveries) /\ run[i].count <= deliveries[p] /\ run[i].count \in Nat
        BY <1>1, <2>2, RunType DEF HeldInv, CountInv, Runs
      <3>2. p \in 1..Len(deliveries')
        BY <1>1, <3>1, DeliveredMoves, DeliverFields
      <3> QED BY <1>1, <1>2, <2>2, <3>1, <3>2
    <2> QED BY <1>1, <1>5, <2>1, <2>2, DeliveredMoves
  <1> QED BY <1>2, <1>3, <1>4, <1>5 DEF CountInv

\* What is in hand was delivered, a record is given up on only at the ceiling, and
\* the state of the schedule is the fold of its events as far as arming it can tell.
THEOREM ScheduleFlow == Spec => []ScheduleInv
  <1>1. FlowInv /\ CountInv => ScheduleInv
    <2> SUFFICES ASSUME FlowInv, CountInv PROVE ScheduleInv OBVIOUS
    <2>1. CheckpointInv /\ DeliveredInv /\ FoldInv
      BY DEF FlowInv
    <2>2. /\ Len(events) \in Nat /\ Len(deliveries) \in Nat /\ commands \in Nat
          /\ state \in States /\ Current.applied \in Nat
      BY <2>1, CheckpointType, LenProperties DEF CheckpointInv, TypeOK, AggregateTypeOK
    <2>3. MaxCommands \in Nat /\ Occurrences \in Nat
      BY AggregateAssumption
    <2>4. Len(events) <= MaxEvents
      <3>1. CASE Kind = "RRule"
        <4>1. "RRule" \in Kinds
          BY <2>2, <3>1 DEF States, Kind
        <4>2. Armable \in 0..1 /\ state.last \in Nat /\ state.last <= Occurrences
              /\ commands <= MaxCommands
              /\ Len(events) + Armable <= 2 + 2 * commands + 2 * state.last
          BY <2>1, <2>2, <3>1 DEF Armable, FoldInv, States
        <4>3. Len(events) <= 2 + 2 * MaxCommands + 2 * Occurrences
          BY <2>2, <2>3, <4>2
        <4> QED BY <2>2, <2>3, <4>1, <4>3 DEF MaxEvents
      <3>2. CASE Kind # "RRule"
        <4>1. Len(events) <= commands + 1 /\ commands <= MaxCommands
          BY <2>1, <2>2, <3>2 DEF FoldInv
        <4> QED BY <2>2, <2>3, <4>1 DEF MaxEvents
      <3> QED BY <3>1, <3>2
    <2>5. \A i \in Instances : run[i] # Idle => run[i].pos \in 1..Len(deliveries)
      BY <2>1 DEF DeliveredInv, HeldInv
    <2>6. \A p \in failures : p <= Len(deliveries) /\ deliveries[p] = Ceiling
      BY <2>1, <2>2 DEF DeliveredInv, CountInv
    <2> QED BY <2>1, <2>2, <2>4, <2>5, <2>6 DEF ScheduleInv, DeliveredInv, FoldInv
  <1>2. Init => CountInv
    <2> SUFFICES ASSUME Init PROVE CountInv OBVIOUS
    <2>1. /\ Len(deliveries) = 0 /\ failures = {}
          /\ \A i \in Instances : run[i] = Idle /\ Len(lane[i]) = 0
      BY DEF Init
    <2> QED BY <2>1 DEF CountInv, Idle
  <1>3. FlowInv /\ CountInv /\ [Next]_vars => CountInv'
    BY CountStep
  <1> QED BY <1>1, <1>2, <1>3, FlowCorrect, PTL DEF Spec

-----------------------------------------------------------------------------
(* What is settled. *)

\* A record is about to be acknowledged because it was found stale, because its
\* checkpoint was written or because another instance's has passed it.
LEMMA AckBy ==
  ASSUME CheckpointInv, [Next]_vars, NEW j \in Instances, run'[j].pc = "ack"
  PROVE  \/ run'[j] = run[j]
         \/ Load(j)
         \/ /\ run[j].pc \in {"save", "resolve"} /\ Goes(j)
            /\ Current'.applied = run[j].pos
               \/ (Current' = Current /\ Current.applied >= run[j].pos)
  <1>1. Idle.pc = "idle"
    BY DEF Idle
  <1>2. ASSUME run'[j] # run[j], run' = [run EXCEPT ![j] = Idle] PROVE FALSE
    BY <1>1, <1>2, Dropped
  <1>3. ASSUME run[j].pc \in WritingCalls,
               Goto(j, "publish") \/ Goto(j, "save") \/ Goto(j, "resolve")
        PROVE  FALSE
    BY <1>3, GoesOn
  <1>4. CASE Load(j)
    BY <1>4
  <1>5. CASE Purge(j) \/ Publish(j) \/ Dispatch(j)
    <2>1. run[j].pc \in WritingCalls
      BY <1>5 DEF Purge, Publish, Dispatch, At, WritingCalls
    <2> QED BY <1>3, <1>5, <2>1 DEF Purge, Publish, Dispatch
  <1>6. CASE Arm(j)
    <2>1. run[j].pc \in WritingCalls /\ (Goto(j, "save") \/ run' = [run EXCEPT ![j] = Idle])
      BY <1>6 DEF Arm, At, WritingCalls, Retry
    <2> QED BY <1>2, <1>3, <2>1
  <1>7. CASE Save(j)
    <2>1. run[j].pc = "save" /\ "save" \in WritingCalls
      BY <1>7 DEF Save, At, WritingCalls
    <2>2. Saves(j) /\ Goto(j, "ack")
      BY <1>3, <1>7, <2>1 DEF Save
    <2>3. checkpoint' = PutValue(checkpoint, [status |-> run[j].status, applied |-> run[j].pos])
      BY <1>7, <2>2 DEF Save
    <2>4. Current'.applied = run[j].pos
      BY <2>3 DEF PutValue, Current, IsPut
    <2> QED BY <2>1, <2>2, <2>4, GoesOn
  <1>8. CASE Resolve(j)
    <2>1. run[j].pc = "resolve" /\ Current' = Current
      BY <1>8 DEF Resolve, At, Current
    <2>2. (Goto(j, "ack") /\ Current.applied >= run[j].pos) \/ run' = [run EXCEPT ![j] = Idle]
      BY <1>8 DEF Resolve, Retry
    <2> QED BY <1>2, <2>1, <2>2, GoesOn
  <1>9. CASE Missing(j)
    <2>1. run[j].pc = "missing" /\ (Goto(j, "term") \/ run' = [run EXCEPT ![j] = Idle])
      BY <1>9 DEF Missing, At, Retry
    <2> QED BY <1>2, <2>1, GoesOn
  <1>10. CASE Term(j) \/ Ack(j) \/ Fail(j) \/ Crash(j)
    <2>1. run' = [run EXCEPT ![j] = Idle]
      BY <1>10 DEF Term, Ack, Fail, Crash
    <2> QED BY <1>2, <2>1
  <1> QED BY <1>4, <1>5, <1>6, <1>7, <1>8, <1>9, <1>10, Acts DEF Process

\* A change of the schedule is settled only once the checkpoint has reached it
\* or its failure was recorded; one that is about to be acknowledged too.
ChangeApplied ==
    /\ \A i \in Instances :
          run[i].pc = "ack" /\ events[run[i].pos].type \notin OccurrenceTypes =>
              run[i].pos <= Current.applied
    /\ \A p \in settled \ failures :
          events[p].type \notin OccurrenceTypes => p <= Current.applied

\* The checkpoint goes forward, as a fact about one step.
LEMMA AppliedStep ==
  ASSUME FlowInv, [Next]_vars
  PROVE  Current.applied \in Nat /\ Current'.applied \in Nat /\ Current.applied <= Current'.applied
  <1>1. CheckpointInv
    BY DEF FlowInv
  <1>2. Current.applied \in Nat
    BY <1>1, CheckpointType DEF CheckpointInv
  <1>3. ASSUME NEW i \in Instances PROVE run[i].pos \in Nat
    BY <1>1, RunType DEF Runs
  <1> QED BY <1>1, <1>2, <1>3, CurrentMoves

\* So is that the stream grows.
LEMMA GrowsStep ==
  ASSUME FlowInv, [Next]_vars
  PROVE  Grows /\ Kind' = Kind
  BY StreamStep DEF FlowInv, DeliveredInv, HeldInv

\* Everything settled was delivered and is on the stream.
LEMMA OnStream ==
  ASSUME FlowInv
  PROVE  /\ 1..Len(deliveries) \subseteq Positions
         /\ Len(deliveries) \in Nat /\ Len(events) \in Nat /\ Len(deliveries) <= Len(events)
         /\ \A p \in settled : p \in Positions /\ p \in Nat
         /\ \A i \in Instances : run[i].pc # "idle" => run[i].pos \in Positions
         /\ \A i \in Instances : run[i].pos \in Nat
  <1>1. CheckpointInv /\ DeliveredInv
    BY DEF FlowInv
  <1>2. /\ Len(deliveries) \in Nat /\ Len(events) \in Nat
        /\ Len(deliveries) <= Len(events) /\ settled \subseteq 1..Len(deliveries)
    BY <1>1, LenProperties DEF CheckpointInv, TypeOK, AggregateTypeOK, DeliveredInv
  <1>3. \A i \in Instances : run[i].pc # "idle" => run[i].pos \in Positions
    BY <1>1 DEF CheckpointInv, HoldsEvents
  <1>4. \A i \in Instances : run[i].pos \in Nat
    BY <1>1, RunType DEF Runs
  <1> QED BY <1>2, <1>3, <1>4 DEF Positions

\* A change of the schedule is settled only once the checkpoint has it.
LEMMA ChangeAppliedStep ==
  ASSUME FlowInv, ChangeApplied, [Next]_vars
  PROVE  ChangeApplied'
  <1>1. CheckpointInv
    BY DEF FlowInv
  <1>2. Grows
    BY GrowsStep
  <1>3. Current.applied \in Nat /\ Current'.applied \in Nat /\ Current.applied <= Current'.applied
    BY AppliedStep
  <1>4. ASSUME NEW j \in Instances, run'[j].pc = "ack",
               events'[run'[j].pos].type \notin OccurrenceTypes
        PROVE  run'[j].pos <= Current'.applied
    <2>1. CASE run'[j] = run[j]
      <3>1. run[j].pos \in Positions /\ run[j].pos \in Nat
        BY <1>4, <2>1, OnStream
      <3>2. run[j].pos <= Current.applied
        BY <1>2, <1>4, <2>1, <3>1 DEF ChangeApplied, Grows
      <3> QED BY <1>3, <2>1, <3>1, <3>2
    <2>2. CASE Load(j)
      <3>1. run'[j].pos \in Positions /\ run'[j].pos \in Nat
        BY <1>1, <2>2, LoadFields DEF Positions
      <3>2. events[run'[j].pos].type \notin {"Recorded", "Scheduled", "Completed"}
        BY <1>2, <1>4, <3>1 DEF Grows, OccurrenceTypes
      <3>3. run'[j].pos <= Current.applied
        BY <1>1, <1>4, <2>2, <3>2, LoadOutcome
      <3> QED BY <1>3, <3>1, <3>3
    <2>3. CASE /\ run[j].pc \in {"save", "resolve"} /\ Goes(j)
               /\ Current'.applied = run[j].pos
                  \/ (Current' = Current /\ Current.applied >= run[j].pos)
      <3>1. run[j].pos \in Nat /\ run'[j].pos = run[j].pos
        BY <2>3, OnStream DEF Goes
      <3> QED BY <1>3, <2>3, <3>1
    <2> QED BY <1>1, <1>4, <2>1, <2>2, <2>3, AckBy
  <1>5. ASSUME NEW p \in settled' \ failures', events'[p].type \notin OccurrenceTypes
        PROVE  p <= Current'.applied
    <2>1. CASE p \in settled \ failures
      <3>1. p \in Positions /\ p \in Nat
        BY <2>1, OnStream
      <3> QED BY <1>2, <1>3, <1>5, <2>1, <3>1 DEF ChangeApplied, Grows
    <2>2. ASSUME NEW i \in Instances, Ack(i), p = run[i].pos
          PROVE  p <= Current'.applied
      <3>1. run[i].pc = "ack"
        BY <2>2 DEF Ack, At
      <3>2. p \in Positions /\ p \in Nat
        BY <2>2, <3>1, OnStream
      <3> QED BY <1>2, <1>3, <1>5, <2>2, <3>1, <3>2 DEF ChangeApplied, Grows
    <2>3. \/ p \in settled \ failures
          \/ \E i \in Instances : Ack(i) /\ p = run[i].pos
      <3>1. /\ failures \subseteq failures'
            /\ settled' = settled \/ \E i \in Instances : Ack(i) \/ Term(i)
        BY <1>1, DeliveredMoves
      <3>2. ASSUME NEW i \in Instances, Term(i) PROVE p \in settled \ failures
        <4>1. settled' = settled \cup {run[i].pos} /\ run[i].pos \in failures
          BY <3>2 DEF Term, At, FlowInv, DeliveredInv, HeldInv
        <4> QED BY <1>5, <3>1, <4>1
      <3>3. ASSUME NEW i \in Instances, Ack(i)
            PROVE  p \in settled \ failures \/ (Ack(i) /\ p = run[i].pos)
        BY <1>5, <3>1, <3>3 DEF Ack
      <3> QED BY <1>5, <3>1, <3>2, <3>3
    <2> QED BY <2>1, <2>2, <2>3
  <1> QED BY <1>4, <1>5 DEF ChangeApplied

\* Whatever is settled is covered by the checkpoint or was given up on.
LEMMA ChangeAppliedCorrect == Spec => []ChangeApplied
  <1>1. Init => ChangeApplied
    BY DEF Init, Idle, ChangeApplied
  <1>2. FlowInv /\ ChangeApplied /\ [Next]_vars => ChangeApplied'
    BY ChangeAppliedStep
  <1> QED BY <1>1, <1>2, FlowCorrect, PTL DEF Spec

\* A pause, resumption or removal is never settled past the checkpoint without a
\* failure record, whichever instance applies, acknowledges or terminates it.
THEOREM ChangesApplied == Spec => []ChangesAccounted
  <1>1. ChangeApplied => ChangesAccounted
    BY DEF ChangeApplied, ChangesAccounted, OccurrenceTypes
  <1> QED BY <1>1, ChangeAppliedCorrect, PTL

-----------------------------------------------------------------------------
(* The user's messages. *)

\* A scheduled message is of an event and remembered; an event whose message
\* reached the user has none and is remembered as well.
DispatchInv ==
    /\ \A s \in scheduled :
          s.pos \in Positions /\ s.at = events[s.pos].at /\ <<"execution", s.pos>> \in window
    /\ \A m \in 1..Len(dispatched) :
          \/ Kind = "RRule" /\ <<"delivery", dispatched[m]>> \in window
          \/ /\ Kind = "At" /\ <<"execution", dispatched[m]>> \in window
             /\ \A s \in scheduled : s.pos # dispatched[m]

\* A new message keeps the others apart.
LEMMA AppendDispatched ==
  ASSUME CheckpointInv, DispatchedOnce, NEW p \in Nat, dispatched' = Append(dispatched, p),
         \A m \in 1..Len(dispatched) : dispatched[m] # p
  PROVE  /\ DispatchedOnce' /\ Len(dispatched) \in Nat /\ Len(dispatched') = Len(dispatched) + 1
         /\ \A m \in 1..Len(dispatched') :
               \/ m \in 1..Len(dispatched) /\ dispatched'[m] = dispatched[m]
               \/ m = Len(dispatched) + 1 /\ dispatched'[m] = p
  <1>1. dispatched \in Seq(Nat) /\ Len(dispatched) \in Nat
    BY LenProperties DEF CheckpointInv, TypeOK
  <1>2. /\ Len(dispatched') = Len(dispatched) + 1
        /\ \A m \in 1..Len(dispatched) : dispatched'[m] = dispatched[m]
        /\ dispatched'[Len(dispatched) + 1] = p
    BY <1>1, AppendProperties
  <1>3. ASSUME NEW m \in 1..Len(dispatched')
        PROVE  \/ m \in 1..Len(dispatched) /\ dispatched'[m] = dispatched[m]
               \/ m = Len(dispatched) + 1 /\ dispatched'[m] = p
    <2>1. m \in 1..Len(dispatched) \/ m = Len(dispatched) + 1
      BY <1>1, <1>2
    <2> QED BY <1>2, <2>1
  <1>4. DispatchedOnce'
    <2> SUFFICES ASSUME NEW m \in 1..Len(dispatched'), NEW n \in 1..Len(dispatched'),
                        dispatched'[m] = dispatched'[n]
                 PROVE  m = n
      BY DEF DispatchedOnce
    <2>1. CASE m \in 1..Len(dispatched) /\ n \in 1..Len(dispatched)
      <3>1. dispatched[m] = dispatched[n]
        BY <1>2, <2>1
      <3> QED BY <2>1, <3>1 DEF DispatchedOnce
    <2>2. CASE m = Len(dispatched) + 1 \/ n = Len(dispatched) + 1
      BY <1>1, <1>2, <1>3, <2>2
    <2> QED BY <1>3, <2>1, <2>2
  <1> QED BY <1>1, <1>2, <1>3, <1>4

\* With a window that never expires, a position is dispatched at most once.
LEMMA DispatchStepOnce ==
  ASSUME "window" \notin FaultKinds, FlowInv, DispatchInv, DispatchedOnce, [Next]_vars
  PROVE  DispatchInv' /\ DispatchedOnce'
  <1> DEFINE Goal == DispatchInv' /\ DispatchedOnce'
  <1>1. CheckpointInv /\ KindInv /\ Kind \in Kinds
    BY DEF FlowInv, CheckpointInv, TypeOK, AggregateTypeOK, States, Kind
  <1>2. Grows /\ Kind' = Kind
    BY GrowsStep
  <1>3. ASSUME scheduled' \subseteq scheduled, window \subseteq window', dispatched' = dispatched
        PROVE  Goal
    <2>1. \A s \in scheduled' : s.pos \in Positions' /\ s.at = events'[s.pos].at
                                /\ <<"execution", s.pos>> \in window'
      BY <1>2, <1>3 DEF DispatchInv, Grows
    <2> QED BY <1>2, <1>3, <2>1 DEF DispatchInv, DispatchedOnce
  <1>4. ASSUME NEW i \in Instances, Purge(i) PROVE Goal
    BY <1>3, <1>4 DEF Purge
  <1>5. ASSUME NEW i \in Instances, Publish(i) PROVE Goal
    <2> DEFINE s == [pos |-> run[i].pos, at |-> events[run[i].pos].at]
    <2>1. /\ window' = window \cup {<<"execution", run[i].pos>>}
          /\ dispatched' = dispatched
          /\ scheduled' = scheduled
             \/ (scheduled' = scheduled \cup {s} /\ <<"execution", run[i].pos>> \notin window)
      BY <1>5 DEF Publish, Remember, Publishes
    <2>2. run[i].pos \in Positions /\ s.pos = run[i].pos /\ s.at = events[run[i].pos].at
      BY <1>5, OnStream DEF Publish, At
    <2> HIDE DEF s
    <2>3. CASE scheduled' = scheduled
      BY <1>3, <2>1, <2>3
    <2>4. CASE scheduled' = scheduled \cup {s} /\ <<"execution", run[i].pos>> \notin window
      <3>1. \A t \in scheduled' : t.pos \in Positions' /\ t.at = events'[t.pos].at
                                  /\ <<"execution", t.pos>> \in window'
        BY <1>2, <2>1, <2>2, <2>4 DEF DispatchInv, Grows
      <3>2. \A m \in 1..Len(dispatched) :
              \/ Kind = "RRule" /\ <<"delivery", dispatched[m]>> \in window'
              \/ /\ Kind = "At" /\ <<"execution", dispatched[m]>> \in window'
                 /\ \A t \in scheduled' : t.pos # dispatched[m]
        BY <2>1, <2>2, <2>4 DEF DispatchInv
      <3> QED BY <1>2, <2>1, <3>1, <3>2 DEF DispatchInv, DispatchedOnce
    <2> QED BY <2>1, <2>3, <2>4
  <1>6. ASSUME NEW i \in Instances, Dispatch(i) PROVE Goal
    <2>1. /\ window' = window \cup {<<"delivery", run[i].pos>>} /\ scheduled' = scheduled
          /\ dispatched' = dispatched
             \/ (dispatched' = Append(dispatched, run[i].pos)
                 /\ <<"delivery", run[i].pos>> \notin window)
      BY <1>6 DEF Dispatch, Remember, Publishes
    <2>2. run[i].pos \in Positions /\ run[i].pos \in Nat /\ run[i].pc = "dispatch"
      BY <1>6, OnStream DEF Dispatch, At
    <2>3. Kind = "RRule"
      BY <1>1, <2>2 DEF FlowInv, DeliveredInv, HeldInv, KindInv, OccurrenceTypes
    <2>4. CASE dispatched' = dispatched
      BY <1>3, <2>1, <2>4
    <2>5. CASE /\ dispatched' = Append(dispatched, run[i].pos)
               /\ <<"delivery", run[i].pos>> \notin window
      <3>1. \A m \in 1..Len(dispatched) : <<"delivery", dispatched[m]>> \in window
        BY <2>3 DEF DispatchInv
      <3>2. \A m \in 1..Len(dispatched) : dispatched[m] # run[i].pos
        BY <2>5, <3>1
      <3>3. /\ DispatchedOnce'
            /\ \A m \in 1..Len(dispatched') : <<"delivery", dispatched'[m]>> \in window'
        BY <1>1, <2>1, <2>2, <2>5, <3>1, <3>2, AppendDispatched
      <3>4. \A t \in scheduled' : t.pos \in Positions' /\ t.at = events'[t.pos].at
                                  /\ <<"execution", t.pos>> \in window'
        BY <1>2, <2>1 DEF DispatchInv, Grows
      <3> QED BY <1>2, <2>3, <3>3, <3>4 DEF DispatchInv
    <2> QED BY <2>1, <2>4, <2>5
  <1>7. ASSUME NEW m \in scheduled, Fire(m) PROVE Goal
    <2>1. /\ scheduled' = scheduled \ {m} /\ window' = window /\ Kind # "Every"
          /\ Kind = "RRule" => dispatched' = dispatched
          /\ Kind # "RRule" => dispatched' = Append(dispatched, m.pos)
      BY <1>7 DEF Fire
    <2>2. CASE Kind = "RRule"
      BY <1>3, <2>1, <2>2
    <2>3. CASE Kind = "At"
      <3>1. /\ m.pos \in Nat /\ <<"execution", m.pos>> \in window
            /\ \A k \in 1..Len(dispatched) : dispatched[k] # m.pos
        BY <1>1, <1>7, <2>3 DEF DispatchInv, CheckpointInv, TypeOK
      <3>2. \A s \in scheduled' : s.pos # m.pos
        <4> SUFFICES ASSUME NEW s \in scheduled, s # m, s.pos = m.pos PROVE FALSE
          BY <2>1
        <4>1. s.at = m.at
          BY <1>7 DEF DispatchInv
        <4>2. s = [pos |-> s.pos, at |-> s.at] /\ m = [pos |-> m.pos, at |-> m.at]
          BY <1>1, <1>7 DEF CheckpointInv, TypeOK
        <4> QED BY <4>1, <4>2
      <3>3. /\ DispatchedOnce'
            /\ \A k \in 1..Len(dispatched') :
                  (k \in 1..Len(dispatched) /\ dispatched'[k] = dispatched[k])
                  \/ dispatched'[k] = m.pos
        BY <1>1, <2>1, <2>3, <3>1, AppendDispatched
      <3>4. \A k \in 1..Len(dispatched') : <<"execution", dispatched'[k]>> \in window'
               /\ \A s \in scheduled' : s.pos # dispatched'[k]
        BY <2>1, <2>3, <3>1, <3>2, <3>3 DEF DispatchInv
      <3>5. \A t \in scheduled' : t.pos \in Positions' /\ t.at = events'[t.pos].at
                                  /\ <<"execution", t.pos>> \in window'
        BY <1>2, <2>1 DEF DispatchInv, Grows
      <3> QED BY <1>2, <2>3, <3>3, <3>4, <3>5 DEF DispatchInv
    <2>4. Kind \in {"At", "Every", "RRule"}
      BY <1>1, AggregateAssumption
    <2> QED BY <2>1, <2>2, <2>3, <2>4
  <1>8. \/ UNCHANGED <<scheduled, dispatched>> /\ window \subseteq window'
        \/ (\E i \in Instances : Purge(i) \/ Publish(i) \/ Dispatch(i))
        \/ (\E m \in scheduled : Fire(m))
    <2>1. ASSUME NEW i \in Instances, Arm(i)
          PROVE  UNCHANGED <<scheduled, dispatched>> /\ window \subseteq window'
      <3>1. window' = window \/ Remember("command", i)
        BY <2>1 DEF Arm
      <3> QED BY <2>1, <3>1 DEF Arm, Remember
    <2>2. UNCHANGED brokerVars => UNCHANGED <<scheduled, dispatched>> /\ window \subseteq window'
      BY DEF brokerVars
    <2>3. UNCHANGED brokerVars
          \/ (\E i \in Instances : Arm(i) \/ Purge(i) \/ Publish(i) \/ Dispatch(i))
          \/ (\E m \in scheduled : Fire(m)) \/ (\E at \in wakeups : HandleWakeup(at))
      BY DEF Next, Process, vars, brokerVars, Deliver, Load, Save, Resolve, Missing, Term, Ack,
             Fail, Crash, ExpireWindow, Fault
    <2>4. \A at \in wakeups : HandleWakeup(at) => UNCHANGED <<scheduled, dispatched, window>>
      BY DEF HandleWakeup
    <2> QED BY <2>1, <2>2, <2>3, <2>4
  <1> HIDE DEF Goal
  <1>9. Goal
    BY <1>3, <1>4, <1>5, <1>6, <1>7, <1>8
  <1> QED BY <1>9 DEF Goal

\* No message reaches the user twice, however many instances dispatch it, as long
\* as an outage does not outlast the duplicate windows.
THEOREM NeverTwice ==
  ASSUME "window" \notin FaultKinds
  PROVE  Spec => []DispatchedOnce
  <1>1. Init => DispatchInv /\ DispatchedOnce
    BY DEF Init, DispatchInv, DispatchedOnce
  <1>2. FlowInv /\ DispatchInv /\ DispatchedOnce /\ [Next]_vars => DispatchInv' /\ DispatchedOnce'
    BY DispatchStepOnce
  <1> QED BY <1>1, <1>2, FlowCorrect, PTL DEF Spec

-----------------------------------------------------------------------------
(* One instance. *)

\* An instance that is alone is never refused a checkpoint.
Alone == \A i \in Instances :
    /\ run[i].pc \in WritingCalls => run[i].revision = checkpoint.revision
    /\ run[i].pc # "resolve"

\* What it applies, the checkpoint has not reached.
LEMMA AheadAlone ==
  ASSUME CheckpointInv, Alone, NEW i \in Instances, run[i].pc \in WritingCalls
  PROVE  Current.applied < run[i].pos
  BY DEF CheckpointInv, AppliesAhead, Alone, Unchanged

\* Its checkpoint is written.
LEMMA SaveAlone ==
  ASSUME CheckpointInv, Alone, NEW i \in Instances, Save(i)
  PROVE  /\ run[i].pc = "save" /\ Saves(i) /\ Goes(i) /\ run'[i].pc = "ack"
         /\ Current'.applied = run[i].pos /\ Current'.status = run[i].status
         /\ UNCHANGED <<events, state, elapsed, commands, scheduled, window, dispatched, wakeups,
                        duplicates, settled, deliveries, failures, faults, overtaken, lane>>
  <1>1. run[i].pc = "save" /\ run[i].revision = checkpoint.revision
    BY DEF Save, At, Alone, WritingCalls
  <1>2. Saves(i)
    <2>1. ~IsPut(checkpoint) => checkpoint.revision = 0
      BY CheckpointType DEF CheckpointInv
    <2>2. IsPut(checkpoint) => checkpoint.revision > 0
      BY CheckpointType DEF CheckpointInv
    <2> QED BY <1>1, <2>1, <2>2 DEF Saves, Creates, Unchanged
  <1>3. /\ checkpoint' = PutValue(checkpoint, [status |-> run[i].status, applied |-> run[i].pos])
        /\ Goto(i, "ack") /\ UNCHANGED <<aggregateVars, brokerVars, consumerVars, lane>>
    BY <1>2 DEF Save
  <1>4. Current' = [status |-> run[i].status, applied |-> run[i].pos]
    BY <1>3 DEF Current, IsPut, PutValue
  <1>5. Goes(i) /\ run'[i].pc = "ack"
    BY <1>1, <1>3, GoesOn DEF WritingCalls
  <1>6. UNCHANGED <<events, state, elapsed, commands, scheduled, window, dispatched, wakeups,
                    duplicates, settled, deliveries, failures, faults, overtaken, lane>>
    BY <1>3 DEF aggregateVars, brokerVars, consumerVars
  <1> QED BY <1>1, <1>2, <1>4, <1>5, <1>6

\* A lone instance writes at the revision it loaded, in every step.
LEMMA AloneStep ==
  ASSUME NEW i, Instances = {i}, CheckpointInv, Alone, [Next]_vars
  PROVE  Alone'
  <1>1. i \in Instances /\ \A j \in Instances : j = i
    OBVIOUS
  <1>2. checkpoint' = checkpoint \/ Save(i)
    BY <1>1, DeliveredMoves
  <1>3. CASE Save(i)
    BY <1>1, <1>3, SaveAlone DEF Alone, WritingCalls
  <1>4. CASE checkpoint' = checkpoint
    <2>1. CASE run'[i] = run[i]
      BY <1>1, <1>4, <2>1 DEF Alone
    <2>2. CASE run'[i] = Idle
      BY <1>1, <2>2 DEF Alone, Idle, WritingCalls
    <2>3. CASE Load(i)
      <3>1. run'[i].revision = checkpoint.revision
        BY <1>1, <2>3, LoadFields
      <3>2. run'[i].pc # "resolve"
        BY <1>1, <2>3, LoadOutcome
      <3> QED BY <1>1, <1>4, <3>1, <3>2 DEF Alone
    <2>4. CASE run'[i].pc = "term"
      BY <1>1, <2>4 DEF Alone, WritingCalls
    <2>5. CASE Goes(i) /\ ~Save(i) /\ run'[i].pc # "term"
      <3>1. run[i].pc \in WritingCalls /\ run'[i].revision = run[i].revision
        BY <1>1, <2>5 DEF Goes, Alone
      <3>2. run[i].revision = checkpoint.revision
        BY <1>1, <3>1 DEF Alone
      <3>3. run'[i].pc # "resolve"
        <4>1. Idle.pc # "resolve"
          BY DEF Idle
        <4>2. ASSUME NEW pc \in {"publish", "save", "ack"}, Goto(i, pc) PROVE run'[i].pc # "resolve"
          BY <1>1, <3>1, <4>2, GoesOn
        <4>3. ASSUME run' = [run EXCEPT ![i] = Idle] PROVE run'[i].pc # "resolve"
          BY <1>1, <4>1, <4>3, Dropped
        <4>4. ASSUME run'[i] = run[i] PROVE run'[i].pc # "resolve"
          BY <1>1, <4>4 DEF Alone
        <4>5. \/ run'[i] = run[i] \/ Load(i) \/ run' = [run EXCEPT ![i] = Idle]
              \/ \E pc \in {"publish", "save", "ack"} : Goto(i, pc)
          <5>1. ~Missing(i)
            BY <3>1 DEF Missing, At, WritingCalls
          <5> QED BY <1>1, <2>5, <5>1, Acts DEF Process, Purge, Publish, Dispatch, Arm, Resolve,
                                                Term, Ack, Fail, Crash, Retry
        <4>6. ASSUME Load(i) PROVE run'[i].pc # "resolve"
          BY <1>1, <4>6, LoadOutcome
        <4> QED BY <4>2, <4>3, <4>4, <4>5, <4>6
      <3> QED BY <1>1, <1>4, <3>1, <3>2, <3>3 DEF Alone
    <2> QED BY <1>1, <1>3, <2>1, <2>2, <2>3, <2>4, <2>5, Moves
  <1> QED BY <1>2, <1>3, <1>4

\* Time does not run backwards.
LEMMA ElapsedStep ==
  ASSUME CheckpointInv, [Next]_vars
  PROVE  elapsed \in Nat /\ elapsed' \in Nat /\ elapsed <= elapsed'
  <1>1. elapsed \in Nat
    BY DEF CheckpointInv, TypeOK, AggregateTypeOK
  <1>2. elapsed' = elapsed \/ elapsed' = elapsed + 1
    BY DEF Next, Process, vars, aggregateVars, User, CreateSchedule, PauseSchedule, ResumeSchedule,
           RemoveSchedule, Command, Tick, Deliver, Load, Purge, Publish, Dispatch, Arm, Save,
           Resolve, Missing, Term, Ack, Fail, Crash, Fire, HandleWakeup, ExpireWindow
  <1> QED BY <1>1, <1>2

-----------------------------------------------------------------------------
(* A native schedule: no recurrence. *)

\* The events of a native schedule are its creation and what its users command.
LEMMA NativeEvents ==
  ASSUME Kind # "RRule", FlowInv, [Next]_vars
  PROVE  /\ Kind \in {"At", "Every"}
         /\ \A p \in Positions : events[p].type \in EventTypes \ OccurrenceTypes
         /\ UNCHANGED <<events, state>> \/ User
  <1>1. CheckpointInv /\ Kind \in Kinds /\ FoldInv /\ AggregateTypeOK
    BY DEF FlowInv, CheckpointInv, TypeOK, AggregateTypeOK, States, Kind
  <1>2. Kind # "RRule" /\ Kind \in {"At", "Every"}
    BY <1>1, AggregateAssumption
  <1>3. ASSUME NEW p \in Positions PROVE events[p].type \in EventTypes \ OccurrenceTypes
    <2>1. events[p] \in Events
      BY <1>1, ElementOfSeq DEF AggregateTypeOK, Positions
    <2> QED BY <1>2, <2>1 DEF FlowInv, KindInv, Events
  <1>4. \A i \in Instances : ~Arm(i)
    BY <1>2 DEF FlowInv, DeliveredInv, HeldInv, Arm, At
  <1>5. ASSUME NEW at \in wakeups, HandleWakeup(at) PROVE UNCHANGED <<events, state>>
    <2>1. at \in Nat /\ UNCHANGED commands
      BY <1>1, <1>5 DEF CheckpointInv, TypeOK, HandleWakeup
    <2>2. ~(Records(at) /\ RecordOccurrence(at))
      BY <1>1, <1>2, <2>1, FoldRecord
    <2> QED BY <1>5, <2>2 DEF HandleWakeup
  <1>6. UNCHANGED <<events, state>> \/ User
    BY <1>4, <1>5 DEF Next, Process, vars, aggregateVars, Deliver, Load, Purge, Publish, Dispatch,
           Save, Resolve, Missing, Term, Ack, Fail, Crash, Fire, ExpireWindow
  <1> QED BY <1>2, <1>3, <1>6

\* Its creation comes first, and the phase is the one of its last event.
NativeStream ==
    /\ \A p \in Positions :
          events[p].at = None /\ (events[p].type \in {"Created", "CreatedPaused"} => p = 1)
    /\ events # <<>> =>
          /\ events[1].type \in {"Created", "CreatedPaused"}
          /\ state.phase = "enabled" => events[Len(events)].type \in {"Created", "Resumed"}
          /\ events[Len(events)].type \in {"Created", "Resumed"} => state.phase = "enabled"

\* The stream of a native schedule is written by its user alone.
LEMMA NativeStreamStep ==
  ASSUME Kind # "RRule", FlowInv, NativeStream, [Next]_vars
  PROVE  /\ NativeStream'
         /\ UNCHANGED <<events, state>>
            \/ (User /\ Len(events) \in Nat /\ Len(events') = Len(events) + 1 /\ events' # <<>>)
  <1>1. CheckpointInv /\ FoldInv /\ AggregateTypeOK /\ state \in States
    BY DEF FlowInv, CheckpointInv, TypeOK, AggregateTypeOK
  <1> DEFINE Goal == /\ NativeStream'
                     /\ UNCHANGED <<events, state>>
                        \/ (User /\ Len(events) \in Nat /\ Len(events') = Len(events) + 1
                            /\ events' # <<>>)
  <1>2. CASE UNCHANGED <<events, state>>
    BY <1>2 DEF NativeStream, Positions
  <1>3. ASSUME NEW type \in {"Created", "CreatedPaused", "Paused", "Resumed", "Removed"},
               Append1(Event(type, None)), User,
               type \in {"Created", "CreatedPaused"} => events = <<>>,
               type \notin {"Created", "CreatedPaused"} => events # <<>>
        PROVE  Goal
    <2> DEFINE e == Event(type, None)
    <2>1. e \in Events /\ e.type = type /\ e.at = None
      BY EventType DEF EventTypes, Event, None
    <2> HIDE DEF e
    <2>2. Append1(e)
      BY <1>3 DEF e
    <2>3. /\ Grows /\ Len(events) \in Nat /\ Len(events') = Len(events) + 1 /\ events' # <<>>
          /\ events'[Len(events')] = e
          /\ \A p \in Positions' : p \in Positions \/ p = Len(events')
      BY <1>1, <2>1, <2>2, Append1Grows, Append1Fold
    <2>4. /\ type \in {"Created", "Resumed"} => state'.phase = "enabled"
          /\ type \notin {"Created", "Resumed"} => state'.phase # "enabled"
      BY <1>1, <2>1, <2>2, Append1Fold, EvolveFields
    <2>5. events = <<>> => Len(events) = 0 /\ Len(events') = 1
      BY <2>3
    <2>6. events # <<>> => 1 \in Positions
      BY <1>1, EmptySeq, <2>3 DEF Positions, AggregateTypeOK
    <2>7. events'[1].type \in {"Created", "CreatedPaused"}
      <3>1. CASE events = <<>>
        BY <1>3, <2>1, <2>3, <2>5, <3>1
      <3>2. CASE events # <<>>
        BY <2>3, <2>6, <3>2 DEF NativeStream, Grows
      <3> QED BY <3>1, <3>2
    <2>8. ASSUME NEW p \in Positions'
          PROVE  events'[p].at = None /\ (events'[p].type \in {"Created", "CreatedPaused"} => p = 1)
      <3>1. CASE p \in Positions
        BY <2>3, <3>1 DEF NativeStream, Grows
      <3>2. CASE p = Len(events')
        BY <1>3, <2>1, <2>3, <2>5, <3>2
      <3> QED BY <2>3, <3>1, <3>2
    <2> QED BY <1>3, <2>1, <2>3, <2>4, <2>7, <2>8 DEF NativeStream
  <1>4. CASE User
    <2>1. CASE CreateSchedule
      BY <1>3, <1>4, <2>1, <1>1 DEF CreateSchedule, FoldInv
    <2>2. CASE PauseSchedule \/ ResumeSchedule \/ RemoveSchedule
      <3>1. events # <<>>
        BY <1>1, <2>2 DEF PauseSchedule, ResumeSchedule, RemoveSchedule, Command, FoldInv
      <3> QED BY <1>3, <1>4, <2>2, <3>1 DEF PauseSchedule, ResumeSchedule, RemoveSchedule, Command
    <2>3. CASE Tick
      BY <1>2, <2>3 DEF Tick
    <2> QED BY <1>2, <1>4, <2>1, <2>2, <2>3 DEF User
  <1> HIDE DEF Goal
  <1>5. Goal
    <2>1. CASE UNCHANGED <<events, state>>
      BY <1>2, <2>1 DEF Goal
    <2> QED BY <1>4, <2>1, NativeEvents DEF Goal
  <1> QED BY <1>5 DEF Goal

\* The message of a native schedule.
Message(p) == [pos |-> p, at |-> None]

\* What the application of the event at p leaves of the scheduled messages.
Effect(p, status) ==
    /\ events[p].type \in {"Paused", "Removed", "CreatedPaused"} => scheduled = {}
    /\ events[p].type \in {"Created", "Resumed"} =>
          \/ scheduled = {Message(p)}
          \/ scheduled = {} /\ p \in duplicates
          \/ Kind = "At" /\ Delivered(p)
          \/ Kind = "At" /\ status = "Expired" /\ elapsed >= 1

\* Where instance i is with the event it applies.
NativeRun(i) ==
    LET r == run[i]
        type == events[r.pos].type
    IN  r.pc \in WritingCalls =>
          /\ r.pc \in {"purge", "publish", "save"} /\ r.does \in {"Publish", "Purge", "Only"}
          /\ r.status # "None"
          /\ type = "Resumed" => Current.applied > 0
          /\ r.does = "Publish" => type \in {"Created", "Resumed"}
          /\ r.does = "Purge" => type \in {"Paused", "Removed"}
          /\ r.does = "Only" => r.pc = "save"
          /\ r.pc = "publish" =>
                r.does = "Publish" /\ scheduled = {}
          /\ r.pc = "save" => Effect(r.pos, r.status)

\* The scheduled messages are the ones the last applied event left.
NativeInv ==
    /\ Alone /\ NativeStream
    /\ Current.status = "None" => Current.applied = 0
    /\ Current.applied = 0 => Current.status = "None"
    /\ events = <<>> => scheduled = {}
    /\ Current.applied = 0 /\ events # <<>> /\ events[1].type = "CreatedPaused" => scheduled = {}
    /\ events # <<>> /\ Current.applied = Len(events) => Effect(Len(events), Current.status)
    /\ \A i \in Instances : NativeRun(i)

\* A step that takes no message away keeps the effect.
LEMMA EffectKept ==
  ASSUME FlowInv, [Next]_vars, NEW p \in Positions, NEW status, Effect(p, status),
         UNCHANGED <<scheduled, dispatched, duplicates>>
  PROVE  Effect(p, status)'
  <1>1. events'[p] = events[p] /\ Kind' = Kind
    BY GrowsStep DEF Grows
  <1>2. elapsed \in Nat /\ elapsed' \in Nat /\ elapsed <= elapsed'
    BY ElapsedStep DEF FlowInv
  <1>3. Delivered(p)' = Delivered(p)
    BY DEF Delivered
  <1> QED BY <1>1, <1>2, <1>3 DEF Effect

\* A one-shot that fires was the only message.
LEMMA EffectFired ==
  ASSUME FlowInv, NEW m \in scheduled, Fire(m), Kind = "At",
         NEW p \in Positions, NEW status, Effect(p, status)
  PROVE  Effect(p, status)'
  <1>1. /\ UNCHANGED <<events, state, elapsed>> /\ scheduled' = scheduled \ {m}
        /\ dispatched' = Append(dispatched, m.pos) /\ Kind' = Kind /\ UNCHANGED duplicates
    BY DEF Fire, aggregateVars, Kind
  <1>2. dispatched \in Seq(Nat) /\ Len(dispatched) \in Nat /\ m.pos \in Nat
    BY LenProperties DEF FlowInv, CheckpointInv, TypeOK
  <1>3. /\ Len(dispatched') = Len(dispatched) + 1
        /\ \A k \in 1..Len(dispatched) : dispatched'[k] = dispatched[k]
        /\ dispatched'[Len(dispatched) + 1] = m.pos
    BY <1>1, <1>2, AppendProperties
  <1>4. Delivered(p) => Delivered(p)'
    <2> SUFFICES ASSUME NEW k \in 1..Len(dispatched), dispatched[k] = p PROVE Delivered(p)'
      BY DEF Delivered
    <2>1. k \in 1..Len(dispatched') /\ dispatched'[k] = p
      BY <1>2, <1>3
    <2> QED BY <2>1 DEF Delivered
  <1>5. m.pos = p => Delivered(p)'
    <2>1. Len(dispatched) + 1 \in 1..Len(dispatched')
      BY <1>2, <1>3
    <2> QED BY <1>3, <2>1 DEF Delivered
  <1>6. scheduled = {Message(p)} => m.pos = p
    BY DEF Message
  <1> QED BY <1>1, <1>4, <1>5, <1>6 DEF Effect

\* What a step that changes neither the run nor the checkpoint has to keep.
LEMMA NativeFrame ==
  ASSUME FlowInv, NativeInv, [Next]_vars, Kind # "RRule",
         UNCHANGED <<run, checkpoint>>, scheduled' \subseteq scheduled,
         \A p \in Positions, status \in Statuses : Effect(p, status) => Effect(p, status)'
  PROVE  NativeInv'
  <1>1. CheckpointInv /\ DeliveredInv
    BY DEF FlowInv
  <1>2. NativeStream' /\ Grows /\ Current' = Current
    BY NativeStreamStep, GrowsStep DEF NativeInv, Current
  <1>3. Alone'
    BY DEF NativeInv, Alone
  <1>4. /\ Current.applied \in Nat /\ Current.applied <= Len(deliveries)
        /\ Current.status \in Statuses
        /\ Len(events) \in Nat /\ Len(deliveries) \in Nat /\ Len(deliveries) <= Len(events)
    BY <1>1, CheckpointType, OnStream DEF CheckpointInv, DeliveredInv
  <1>5. UNCHANGED events \/ (Len(events') = Len(events) + 1 /\ events' # <<>>)
    BY NativeStreamStep DEF NativeInv
  <1>6. events' = <<>> => scheduled' = {}
    BY <1>5 DEF NativeInv
  <1>7. Current.applied = 0 /\ events' # <<>> /\ events'[1].type = "CreatedPaused" =>
            scheduled' = {}
    <2>1. CASE events = <<>>
      BY <2>1 DEF NativeInv
    <2>2. CASE events # <<>>
      <3>1. events \in Seq(Events)
        BY <1>1 DEF CheckpointInv, TypeOK, AggregateTypeOK
      <3>2. 1 \in Positions
        BY <1>4, <2>2, <3>1, EmptySeq DEF Positions
      <3> QED BY <1>2, <2>2, <3>2 DEF NativeInv, Grows
    <2> QED BY <2>1, <2>2
  <1>8. events' # <<>> /\ Current'.applied = Len(events') =>
            Effect(Len(events), Current.status)'
    <2>1. CASE UNCHANGED events
      <3> SUFFICES ASSUME events # <<>>, Current.applied = Len(events)
                   PROVE  Effect(Len(events), Current.status)'
        BY <1>2, <2>1
      <3>1. PICK p, s : p = Len(events) /\ s = Current.status
        OBVIOUS
      <3>2. p \in Positions /\ s \in Statuses
        BY <1>4, <3>1, EmptySeq, <1>1 DEF Positions, CheckpointInv, TypeOK, AggregateTypeOK
      <3>3. Effect(p, s)
        BY <3>1 DEF NativeInv
      <3>4. Effect(p, s)'
        BY <3>2, <3>3
      <3> QED BY <1>2, <2>1, <3>1, <3>4 DEF Effect, Delivered, Message
    <2>2. CASE Len(events') = Len(events) + 1
      BY <1>2, <1>4, <2>2
    <2> QED BY <1>5, <2>1, <2>2
  <1>9. ASSUME NEW i \in Instances PROVE NativeRun(i)'
    <2> SUFFICES ASSUME run[i].pc \in WritingCalls PROVE NativeRun(i)'
      BY DEF NativeRun
    <2>1. run[i].pos \in Positions /\ run[i].status \in Statuses
      BY <1>1, RunType, OnStream DEF WritingCalls, Runs
    <2>2. PICK p, s : p = run[i].pos /\ s = run[i].status
      OBVIOUS
    <2>3. events'[p] = events[p] /\ p \in Positions /\ s \in Statuses
      BY <1>2, <2>1, <2>2 DEF Grows
    <2>4. run[i].pc = "save" => Effect(p, s)'
      BY <2>2, <2>3 DEF NativeInv, NativeRun
    <2>5. NativeRun(i)
      BY DEF NativeInv
    <2>6. run[i].pc = "save" => Effect(run[i].pos, run[i].status)'
      BY <2>2, <2>4 DEF Effect, Delivered, Message
    <2> QED BY <1>2, <2>2, <2>3, <2>5, <2>6 DEF NativeRun
  <1> QED BY <1>2, <1>3, <1>6, <1>7, <1>8, <1>9 DEF NativeInv

\* What a step of the run that does not write the checkpoint has to keep.
LEMMA NativeCall ==
  ASSUME NEW i, Instances = {i}, Kind # "RRule", FlowInv, NativeInv, [Next]_vars,
         UNCHANGED <<events, state, checkpoint>>, NativeRun(i)',
         events = <<>> => scheduled' = {},
         Current.applied = 0 /\ events # <<>> /\ events[1].type = "CreatedPaused" =>
             scheduled' = {},
         events # <<>> /\ Current.applied = Len(events) => Effect(Len(events), Current.status)'
  PROVE  NativeInv'
  <1>1. Alone' /\ NativeStream'
    BY AloneStep, NativeStreamStep DEF NativeInv, FlowInv
  <1>2. Current' = Current
    BY DEF Current
  <1> QED BY <1>1, <1>2 DEF NativeInv

\* Loading a record, or dropping it, leaves the broker alone.
LEMMA NativeQuietCall ==
  ASSUME NEW i, Instances = {i}, Kind # "RRule", FlowInv, NativeInv, [Next]_vars,
         UNCHANGED <<events, state, elapsed, scheduled, dispatched, duplicates, checkpoint>>,
         NativeRun(i)'
  PROVE  NativeInv'
  <1>1. Current' = Current
    BY DEF Current
  <1>2. Effect(Len(events), Current.status) => Effect(Len(events), Current.status)'
    BY <1>1 DEF Effect, Delivered, Message, Kind
  <1> QED BY <1>2, NativeCall DEF NativeInv

\* Loading: the decision is taken on the event after the last one applied.
LEMMA NativeLoad ==
  ASSUME NEW i, Instances = {i}, Kind # "RRule", FlowInv, NativeInv, [Next]_vars, Load(i)
  PROVE  NativeInv'
  <1> DEFINE r == run'[i]
             type == events[r.pos].type
  <1>1. CheckpointInv /\ i \in Instances
    BY DEF FlowInv
  <1>2. UNCHANGED <<events, state, elapsed, scheduled, dispatched, duplicates, checkpoint>>
    BY DEF Load, aggregateVars, brokerVars
  <1>3. r.pos \in Positions /\ type \in EventTypes \ OccurrenceTypes /\ Kind # "RRule"
    BY <1>1, LoadFields, NativeEvents
  <1>4. Current.applied \in Nat /\ r.pos \in Nat /\ Current.status \in Statuses
    BY <1>1, <1>3, CheckpointType DEF CheckpointInv, Positions
  <1>5. r.pc \in WritingCalls =>
          /\ r.pc \in {"purge", "save"} /\ r.does \in {"Publish", "Purge", "Only"}
          /\ r.status # "None"
          /\ type = "Resumed" => Current.status # "None"
          /\ r.does = "Publish" => type \in {"Created", "Resumed"}
          /\ r.does = "Purge" => type \in {"Paused", "Removed"}
          /\ r.does = "Only" => r.pc = "save"
          /\ r.pc = "save" => /\ r.does = "Only" /\ Current.applied < r.pos
                              /\ \/ type = "CreatedPaused"
                                 \/ /\ type \in {"Created", "Resumed"}
                                    /\ Kind = "At" /\ elapsed >= 1 /\ r.status = "Expired"
    BY <1>1, <1>3, LoadOutcome DEF WritingCalls, OccurrenceTypes
  <1>6. type = "Resumed" /\ r.pc \in WritingCalls => Current'.applied > 0
    <2>1. Current' = Current
      BY <1>2 DEF Current
    <2> QED BY <1>4, <1>5, <2>1 DEF NativeInv
  <1>7. r.pc \in WritingCalls /\ r.pc = "save" => Effect(run[i].pos, run[i].status)'
    <2> SUFFICES ASSUME r.pc \in WritingCalls, r.pc = "save"
                 PROVE  Effect(run[i].pos, run[i].status)'
      OBVIOUS
    <2>1. CASE type = "CreatedPaused"
      <3>1. r.pos = 1 /\ events # <<>>
        <4>1. r.pos = 1
          BY <1>3, <2>1 DEF NativeInv, NativeStream
        <4>2. Len(events) # 0
          BY <1>3, <4>1 DEF Positions
        <4> QED BY <4>1, <4>2
      <3>2. Current.applied = 0
        BY <1>4, <1>5, <3>1
      <3>3. scheduled = {}
        BY <2>1, <3>1, <3>2 DEF NativeInv
      <3> QED BY <1>2, <2>1, <3>3 DEF Effect
    <2>2. CASE /\ type \in {"Created", "Resumed"}
               /\ Kind = "At" /\ elapsed >= 1 /\ r.status = "Expired"
      <3>1. Kind' = Kind
        BY <1>2 DEF Kind
      <3> QED BY <1>2, <2>2, <3>1 DEF Effect
    <2> QED BY <1>5, <2>1, <2>2
  <1>8. NativeRun(i)'
    <2>1. events'[r.pos].type = type
      BY <1>2
    <2>2. r.pc \in WritingCalls => r.pc # "publish"
      BY <1>5
    <2> HIDE DEF r
    <2> QED BY <1>5, <1>6, <1>7, <2>1, <2>2 DEF NativeRun, r
  <1> QED BY <1>2, <1>8, NativeQuietCall

\* A run that ends without a write leaves the scheduled messages as they are.
LEMMA NativeDrop ==
  ASSUME NEW i, Instances = {i}, Kind # "RRule", FlowInv, NativeInv, [Next]_vars,
         run'[i] = Idle,
         UNCHANGED <<events, state, elapsed, scheduled, dispatched, duplicates, checkpoint>>
  PROVE  NativeInv'
  <1>1. NativeRun(i)'
    BY DEF NativeRun, Idle, WritingCalls
  <1> QED BY <1>1, NativeQuietCall

\* A purge empties the subject of the message.
LEMMA NativePurge ==
  ASSUME NEW i, Instances = {i}, Kind # "RRule", FlowInv, NativeInv, [Next]_vars, Purge(i)
  PROVE  NativeInv'
  <1> DEFINE type == events[run[i].pos].type
  <1>1. CheckpointInv /\ i \in Instances /\ run[i].pc = "purge"
    BY DEF FlowInv, Purge, At
  <1>2. UNCHANGED <<events, state, elapsed, dispatched, checkpoint>> /\ scheduled' = {}
    BY <1>1 DEF Purge, aggregateVars
  <1>4. /\ Goes(i) /\ run[i].pc \in WritingCalls
        /\ run'[i].pc = IF run[i].does = "Publish" THEN "publish" ELSE "save"
    <2>1. Goto(i, IF run[i].does = "Publish" THEN "publish" ELSE "save")
      BY DEF Purge
    <2> QED BY <1>1, <2>1, GoesOn DEF WritingCalls
  <1>5. NativeRun(i)
    BY DEF NativeInv
  <1>6. Current' = Current
    BY <1>2 DEF Current
  <1>7. run'[i].pc = "save" => Effect(run[i].pos, run[i].status)'
    <2> SUFFICES ASSUME run'[i].pc = "save" PROVE Effect(run[i].pos, run[i].status)'
      OBVIOUS
    <2>1. run[i].does = "Purge"
      BY <1>1, <1>4, <1>5 DEF NativeRun
    <2>2. type \in {"Paused", "Removed"}
      BY <1>4, <1>5, <2>1 DEF NativeRun
    <2> QED BY <1>2, <1>4, <2>2 DEF Effect, Goes
  <1>8. NativeRun(i)'
    BY <1>1, <1>2, <1>4, <1>5, <1>6, <1>7 DEF NativeRun, Goes
  <1>9. Current.applied < Len(events)
    <2>1. Current.applied < run[i].pos
      BY <1>1, <1>4, AheadAlone DEF NativeInv
    <2>2. run[i].pos \in Positions /\ Current.applied \in Nat /\ Len(events) \in Nat
      BY <1>1, CheckpointType, OnStream DEF CheckpointInv
    <2> QED BY <2>1, <2>2 DEF Positions
  <1> QED BY <1>2, <1>8, <1>9, NativeCall, CheckpointType DEF FlowInv, CheckpointInv

\* A publish replaces the message, or finds it stored already.
LEMMA NativePublish ==
  ASSUME NEW i, Instances = {i}, Kind # "RRule", FlowInv, NativeInv, [Next]_vars, Publish(i)
  PROVE  NativeInv'
  <1> DEFINE type == events[run[i].pos].type
  <1>1. CheckpointInv /\ i \in Instances /\ run[i].pc = "publish"
    BY DEF FlowInv, Publish, At
  <1>2. UNCHANGED <<events, state, elapsed, dispatched, checkpoint>>
    BY <1>1 DEF Publish, aggregateVars
  <1>3. Goes(i) /\ run[i].pc \in WritingCalls /\ run'[i].pc = "save"
    <2>1. Goto(i, "save")
      BY DEF Publish
    <2> QED BY <1>1, <2>1, GoesOn DEF WritingCalls
  <1>4. NativeRun(i) /\ Current' = Current
    BY <1>2 DEF NativeInv, Current
  <1>5. /\ type \in {"Created", "Resumed"} /\ scheduled = {}
        /\ run[i].pos \in Positions /\ events[run[i].pos].at = None
    BY <1>1, <1>3, <1>4, OnStream DEF NativeRun, NativeInv, NativeStream
  <1>6. \/ scheduled' = {Message(run[i].pos)}
        \/ scheduled' = {} /\ run[i].pos \in duplicates'
    BY <1>5 DEF Publish, Message
  <1>7. Effect(run[i].pos, run[i].status)'
    BY <1>2, <1>3, <1>5, <1>6 DEF Effect, Goes, Message
  <1>8. NativeRun(i)'
    BY <1>2, <1>3, <1>4, <1>7 DEF NativeRun, Goes
  <1>9. Current.applied < Len(events) /\ Len(events) \in Nat /\ Current.applied \in Nat
        /\ run[i].pos \in Nat
    <2>1. Current.applied < run[i].pos
      BY <1>1, <1>3, AheadAlone DEF NativeInv
    <2>2. run[i].pos \in Positions /\ Current.applied \in Nat /\ Len(events) \in Nat
      BY <1>1, <1>5, CheckpointType, OnStream DEF CheckpointInv
    <2> QED BY <2>1, <2>2 DEF Positions
  <1>10. events # <<>>
    <2>1. Len(events) # 0
      BY <1>9
    <2> QED BY <2>1
  <1>11. ~(Current.applied = 0 /\ events[1].type = "CreatedPaused")
    <2>1. type = "Created" => run[i].pos = 1
      BY <1>5 DEF NativeInv, NativeStream
    <2>2. type = "Resumed" => Current.applied > 0
      BY <1>3, <1>4 DEF NativeRun
    <2> QED BY <1>5, <1>9, <2>1, <2>2
  <1> QED BY <1>2, <1>8, <1>9, <1>10, <1>11, NativeCall

\* The write makes the effect of the record that of the checkpoint.
LEMMA NativeSave ==
  ASSUME NEW i, Instances = {i}, Kind # "RRule", FlowInv, NativeInv, [Next]_vars, Save(i)
  PROVE  NativeInv'
  <1>1. CheckpointInv /\ i \in Instances /\ Alone /\ NativeRun(i)
    BY DEF FlowInv, NativeInv
  <1>2. /\ run[i].pc = "save" /\ run'[i].pc = "ack"
        /\ Current'.applied = run[i].pos /\ Current'.status = run[i].status
        /\ UNCHANGED <<events, state, elapsed, scheduled, dispatched, duplicates>>
    BY <1>1, SaveAlone
  <1>3. run[i].pos \in Positions /\ run[i].pos > 0 /\ run[i].status # "None"
        /\ Effect(run[i].pos, run[i].status)
    BY <1>1, <1>2, OnStream DEF NativeRun, WritingCalls, Positions
  <1>4. Alone' /\ NativeStream'
    BY <1>1, AloneStep, NativeStreamStep DEF NativeInv
  <1>5. NativeRun(i)'
    BY <1>2 DEF NativeRun, WritingCalls
  <1>6. Current'.applied = Len(events') => Effect(Len(events), Current.status)'
    <2> SUFFICES ASSUME Current'.applied = Len(events')
                 PROVE  Effect(Len(events), Current.status)'
      OBVIOUS
    <2>1. run[i].pos = Len(events') /\ Kind' = Kind
      BY <1>2 DEF Kind
    <2> QED BY <1>2, <1>3, <2>1 DEF Effect, Delivered, Message
  <1>7. events # <<>> /\ Current'.applied # 0
    <2>1. Len(events) # 0
      BY <1>3 DEF Positions
    <2> QED BY <1>2, <1>3, <2>1
  <1> QED BY <1>2, <1>3, <1>4, <1>5, <1>6, <1>7 DEF NativeInv

\* Every step preserves the invariant of a native schedule.
LEMMA NativeStep ==
  ASSUME NEW i, Instances = {i}, Kind # "RRule", FlowInv, NativeInv, [Next]_vars
  PROVE  NativeInv'
  <1>1. CheckpointInv /\ i \in Instances /\ Alone /\ NativeRun(i) /\ \A j \in Instances : j = i
    BY DEF FlowInv, NativeInv
  <1>2. Kind # "RRule" /\ Kind \in {"At", "Every"}
    BY NativeEvents
  <1>3. ASSUME UNCHANGED <<run, checkpoint, scheduled, dispatched, duplicates>>
        PROVE  NativeInv'
    <2>1. \A p \in Positions, status \in Statuses : Effect(p, status) => Effect(p, status)'
      BY <1>3, EffectKept
    <2> QED BY <1>3, <2>1, NativeFrame
  <1>4. ASSUME NEW m \in scheduled, Fire(m) PROVE NativeInv'
    <2>1. Kind = "At" /\ scheduled' \subseteq scheduled /\ UNCHANGED <<run, checkpoint, window>>
      BY <1>2, <1>4 DEF Fire
    <2>2. \A p \in Positions, status \in Statuses : Effect(p, status) => Effect(p, status)'
      BY <1>4, <2>1, EffectFired
    <2> QED BY <2>1, <2>2, NativeFrame
  <1>5. ASSUME run' = [run EXCEPT ![i] = Idle],
               UNCHANGED <<events, state, elapsed, scheduled, dispatched, duplicates, checkpoint>>
        PROVE  NativeInv'
    <2>1. run'[i] = Idle
      BY <1>1, <1>5, Dropped
    <2> QED BY <1>5, <2>1, NativeDrop
  <1>6. CASE Process(i)
    <2>1. ~Dispatch(i) /\ ~Arm(i) /\ ~Resolve(i)
      BY <1>1 DEF Dispatch, Arm, Resolve, At, Alone, NativeRun, WritingCalls
    <2>2. CASE Term(i) \/ Ack(i)
      BY <1>5, <2>2 DEF Term, Ack, aggregateVars, brokerVars
    <2>3. CASE Missing(i)
      <3>1. UNCHANGED <<events, state, elapsed, scheduled, dispatched, duplicates, checkpoint>>
        BY <2>3 DEF Missing, aggregateVars, brokerVars
      <3>2. CASE run' = [run EXCEPT ![i] = Idle]
        BY <1>5, <3>1, <3>2
      <3>3. CASE Goto(i, "term")
        <4>1. run'[i].pc = "term"
          BY <1>1, <2>3, <3>3, GoesOn DEF Missing, At
        <4>2. NativeRun(i)'
          BY <4>1 DEF NativeRun, WritingCalls
        <4> QED BY <3>1, <4>2, NativeQuietCall
      <3> QED BY <2>3, <3>2, <3>3 DEF Missing, Retry
    <2> QED BY <1>6, <2>1, <2>2, <2>3, NativeLoad, NativePurge, NativePublish, NativeSave
        DEF Process
  <1>7. CASE Fail(i) \/ Crash(i)
    BY <1>5, <1>7 DEF Fail, Crash, aggregateVars, brokerVars
  <1>8. CASE User /\ UNCHANGED <<brokerVars, consumerVars, lane, run, checkpoint>>
    BY <1>3, <1>8 DEF brokerVars
  <1>9. CASE \E p \in Positions : Deliver(i, p)
    BY <1>3, <1>9 DEF Deliver, brokerVars
  <1>10. CASE (\E at \in wakeups : HandleWakeup(at)) \/ ExpireWindow \/ UNCHANGED vars
    BY <1>3, <1>10 DEF HandleWakeup, ExpireWindow, vars, brokerVars
  <1> QED BY <1>1, <1>4, <1>6, <1>7, <1>8, <1>9, <1>10 DEF Next

\* A native schedule begins without a message.
LEMMA NativeInit ==
  ASSUME Init
  PROVE  NativeInv
  <1>1. /\ events = <<>> /\ Len(events) = 0 /\ checkpoint = NoEntry /\ scheduled = {}
        /\ \A i \in Instances : run[i] = Idle
    BY DEF Init, AggregateInit
  <1>2. Current.status = "None" /\ Current.applied = 0
    BY <1>1 DEF Current, NoEntry, IsPut
  <1>3. \A i \in Instances : run[i].pc = "idle"
    BY <1>1 DEF Idle
  <1> QED BY <1>1, <1>2, <1>3 DEF NativeInv, Alone, NativeStream, NativeRun, WritingCalls, Positions

\* The scheduled messages of a native schedule that one instance serves are the
\* ones its last applied event left.
LEMMA NativeCorrect ==
  ASSUME NEW i, Instances = {i}
  PROVE  Spec => [](Kind # "RRule" => NativeInv)
  <1> DEFINE Native == Kind # "RRule" => NativeInv
  <1>1. Init => Native
    BY NativeInit
  <1>2. FlowInv /\ Native /\ [Next]_vars => Native'
    <2> SUFFICES ASSUME FlowInv, Native, [Next]_vars, Kind' # "RRule" PROVE NativeInv'
      OBVIOUS
    <2>1. Kind # "RRule"
      BY GrowsStep
    <2> QED BY <2>1, NativeStep
  <1> HIDE DEF Native
  <1>3. Spec => []Native
    BY <1>1, <1>2, FlowCorrect, PTL DEF Spec
  <1> QED BY <1>3 DEF Native

\* When everything is settled, the last event is the one that was applied last.
LEMMA QuietApplied ==
  ASSUME Kind # "RRule", FlowInv, ChangeApplied, NativeInv, Quiet, failures = {},
         events # <<>>
  PROVE  /\ Len(events) \in Positions /\ Effect(Len(events), Current.status)
         /\ events[Len(events)].type \in EventTypes \ OccurrenceTypes
         /\ Kind \in {"At", "Every"}
  <1>1. CheckpointInv /\ DeliveredInv /\ Kind \in Kinds
    BY DEF FlowInv, CheckpointInv, TypeOK, AggregateTypeOK, States, Kind
  <1>2. events \in Seq(Events) /\ Len(events) \in Nat /\ Len(deliveries) \in Nat
        /\ Len(deliveries) <= Len(events) /\ Current.applied <= Len(deliveries)
        /\ Current.applied \in Nat
    BY <1>1, LenProperties, CheckpointType DEF DeliveredInv, CheckpointInv, TypeOK, AggregateTypeOK
  <1>3. Len(events) \in Positions
    BY <1>2, EmptySeq DEF Positions
  <1>4. Kind # "RRule" /\ Kind \in {"At", "Every"}
    BY <1>1, AggregateAssumption
  <1>5. events[Len(events)].type \in EventTypes \ OccurrenceTypes
    <2>1. events[Len(events)] \in Events
      BY <1>2, <1>3, ElementOfSeq DEF Positions
    <2> QED BY <1>3, <1>4, <2>1 DEF FlowInv, KindInv, Events
  <1>6. Len(events) <= Current.applied
    BY <1>3, <1>5 DEF Quiet, ChangeApplied
  <1>7. Current.applied = Len(events)
    BY <1>2, <1>6
  <1> QED BY <1>3, <1>4, <1>5, <1>7 DEF NativeInv

\* With one instance, a paused or removed native schedule whose events are applied
\* has no scheduled message left, whatever failed, crashed or was redelivered.
THEOREM SilentNative ==
  ASSUME NEW i, Instances = {i}
  PROVE  Spec => [](Kind # "RRule" => SilentWhenNotEnabled)
  <1>1. FlowInv /\ ChangeApplied /\ (Kind # "RRule" => NativeInv) =>
            (Kind # "RRule" => SilentWhenNotEnabled)
    <2> SUFFICES ASSUME FlowInv, ChangeApplied, NativeInv, Kind # "RRule", Quiet, failures = {},
                        state.phase # "enabled"
                 PROVE  scheduled = {}
      BY DEF SilentWhenNotEnabled
    <2>1. CASE events = <<>>
      BY <2>1 DEF NativeInv
    <2>2. CASE events # <<>>
      <3>1. events[Len(events)].type \notin {"Created", "Resumed"}
        BY <2>2 DEF NativeInv, NativeStream
      <3>2. events[Len(events)].type \in {"Paused", "Removed", "CreatedPaused"}
        BY <2>2, <3>1, QuietApplied DEF EventTypes, OccurrenceTypes
      <3> QED BY <2>2, <3>2, QuietApplied DEF Effect
    <2> QED BY <2>1, <2>2
  <1> QED BY <1>1, FlowCorrect, ChangeAppliedCorrect, NativeCorrect, PTL

\* With one instance, an enabled repeating schedule whose events are applied has
\* the message of the event that enabled it and no other, unless the broker took
\* a repeated publish of that message for a duplicate: then it has none.
THEOREM OneMessageNative ==
  ASSUME NEW i, Instances = {i}
  PROVE  Spec => []OneMessageUnlessDuplicate
  <1>1. FlowInv /\ ChangeApplied /\ (Kind # "RRule" => NativeInv) => OneMessageUnlessDuplicate
    <2> SUFFICES ASSUME FlowInv, ChangeApplied, NativeInv, Quiet, failures = {},
                        Kind = "Every", state.phase = "enabled"
                 PROVE  \/ scheduled = {TheMessage}
                        \/ scheduled = {} /\ Len(events) \in duplicates
      BY DEF OneMessageUnlessDuplicate
    <2>1. events # <<>>
      BY DEF FlowInv, FoldInv
    <2>2. events[Len(events)].type \in {"Created", "Resumed"}
      BY <2>1 DEF NativeInv, NativeStream
    <2> QED BY <2>1, <2>2, QuietApplied DEF Effect, Message, TheMessage
  <1> QED BY <1>1, FlowCorrect, ChangeAppliedCorrect, NativeCorrect, PTL

\* With one instance, an enabled one-shot whose events are applied has its
\* message, or the message reached the user, or the schedule was past its grace
\* when it was applied, or a repeated publish was taken for a duplicate.
THEOREM OneShotNative ==
  ASSUME NEW i, Instances = {i}
  PROVE  Spec => []OneShotUnlessDuplicate
  <1>1. FlowInv /\ ChangeApplied /\ (Kind # "RRule" => NativeInv) => OneShotUnlessDuplicate
    <2> SUFFICES ASSUME FlowInv, ChangeApplied, NativeInv, Quiet, failures = {},
                        Kind = "At", state.phase = "enabled"
                 PROVE  \/ scheduled = {TheMessage}
                        \/ Delivered(Len(events))
                        \/ Current.status = "Expired" /\ elapsed >= 1
                        \/ Len(events) \in duplicates
      BY DEF OneShotUnlessDuplicate
    <2>1. events # <<>>
      BY DEF FlowInv, FoldInv
    <2>2. events[Len(events)].type \in {"Created", "Resumed"}
      BY <2>1 DEF NativeInv, NativeStream
    <2> QED BY <2>1, <2>2, QuietApplied DEF Effect, Message, TheMessage, Delivered
  <1> QED BY <1>1, FlowCorrect, ChangeAppliedCorrect, NativeCorrect, PTL

-----------------------------------------------------------------------------
(* A recurrence. *)

\* An event of the user is appended in a phase that allows it.
UserEvent(e) ==
    \/ e.type \in {"Created", "CreatedPaused"} /\ state.phase = "missing"
    \/ e.type = "Paused" /\ state.phase = "enabled"
    \/ e.type = "Resumed" /\ state.phase = "disabled" /\ ~state.completed
    \/ e.type = "Removed" /\ state.phase \in {"enabled", "disabled"}

\* The events a step appends, and when: the creation, a user's change, the plan
\* that arms a recurrence, or what a wakeup records.
LEMMA AppendCases ==
  ASSUME FlowInv, [Next]_vars
  PROVE  \/ UNCHANGED <<events, state>>
         \/ \E e \in Events :
               Append1(e) /\ UserEvent(e) /\ UNCHANGED <<brokerVars, run, checkpoint>>
         \/ \E i \in Instances :
               Arm(i) /\ Arms /\ Append1(NextOccurrence(run[i].now)) /\ Publishes("command", i)
         \/ \E at \in wakeups : HandleWakeup(at) /\ Records(at) /\ RecordOccurrence(at)
  <1> DEFINE User1 == \E e \in Events :
                Append1(e) /\ UserEvent(e) /\ UNCHANGED <<brokerVars, run, checkpoint>>
  <1>1. CASE User /\ UNCHANGED <<brokerVars, consumerVars, lane, run, checkpoint>>
    <2>1. ASSUME NEW type \in EventTypes, Append1(Event(type, None)),
                 \/ type \in {"Created", "CreatedPaused"} /\ state.phase = "missing"
                 \/ type = "Paused" /\ state.phase = "enabled"
                 \/ type = "Resumed" /\ state.phase = "disabled" /\ ~state.completed
                 \/ type = "Removed" /\ state.phase \in {"enabled", "disabled"}
          PROVE  User1
      <3>1. Event(type, None) \in Events /\ Event(type, None).type = type
        BY EventType DEF Event, None
      <3>2. UserEvent(Event(type, None))
        BY <2>1, <3>1 DEF UserEvent
      <3> QED BY <1>1, <2>1, <3>1, <3>2
    <2>2. UNCHANGED <<events, state>> \/ User1
      <3> HIDE DEF User1
      <3> USE DEF EventTypes
      <3>1. CASE CreateSchedule
        BY <2>1, <3>1 DEF CreateSchedule
      <3>2. CASE PauseSchedule
        BY <2>1, <3>2 DEF PauseSchedule, Command
      <3>3. CASE ResumeSchedule
        BY <2>1, <3>3 DEF ResumeSchedule, Command
      <3>4. CASE RemoveSchedule
        BY <2>1, <3>4 DEF RemoveSchedule, Command
      <3>5. CASE Tick
        BY <3>5 DEF Tick
      <3> QED BY <1>1, <3>1, <3>2, <3>3, <3>4, <3>5 DEF User
    <2> QED BY <2>2
  <1>2. ASSUME NEW i \in Instances, Arm(i)
        PROVE  UNCHANGED <<events, state>> \/
               (Arms /\ Append1(NextOccurrence(run[i].now)) /\ Publishes("command", i))
    BY <1>2 DEF Arm
  <1>3. ASSUME NEW at \in wakeups, HandleWakeup(at)
        PROVE  UNCHANGED <<events, state>> \/ (Records(at) /\ RecordOccurrence(at))
    BY <1>3 DEF HandleWakeup
  <1>4. \/ User /\ UNCHANGED <<brokerVars, consumerVars, lane, run, checkpoint>>
        \/ (\E i \in Instances : Arm(i)) \/ (\E at \in wakeups : HandleWakeup(at))
        \/ UNCHANGED <<events, state>>
    BY DEF Next, Process, vars, aggregateVars, Deliver, Load, Purge, Publish, Dispatch, Save,
           Resolve, Missing, Term, Ack, Fail, Crash, Fire, ExpireWindow
  <1> QED BY <1>1, <1>2, <1>3, <1>4

\* A removal ends the stream and a completion the occurrences, and the state
\* knows of both.
RecurrenceStream ==
    /\ \A p \in Positions : events[p].type = "Removed" => p = Len(events)
    /\ \A p, q \in Positions :
          events[p].type = "Completed" /\ events[q].type = "Recorded" => q < p
    /\ (\E p \in Positions : events[p].type = "Removed") => state.phase = "deleted"
    /\ (\E p \in Positions : events[p].type = "Completed") => state.completed
    /\ state.completed => state.pending = None

\* Every step keeps the stream of a recurrence well-formed.
LEMMA RecurrenceStreamStep ==
  ASSUME FlowInv, RecurrenceStream, [Next]_vars
  PROVE  RecurrenceStream'
  <1> USE DEF None
  <1>1. CheckpointInv /\ AggregateTypeOK /\ state \in States /\ FoldInv
    BY DEF FlowInv, CheckpointInv, TypeOK, AggregateTypeOK
  <1>2. ASSUME UNCHANGED <<events, state>> PROVE RecurrenceStream'
    BY <1>2 DEF RecurrenceStream, Positions
  <1>3. ASSUME NEW e \in Events, Append1(e), state.phase # "deleted",
               e.type \in {"Recorded", "Scheduled"} => ~state.completed
        PROVE  RecurrenceStream'
    <2>1. /\ Grows /\ Len(events) \in Nat /\ Len(events') = Len(events) + 1
          /\ events'[Len(events')] = e
          /\ \A p \in Positions' : p \in Positions \/ p = Len(events')
      BY <1>1, <1>3, Append1Grows
    <2>2. /\ e.type # "Removed" => state'.phase # "deleted"
          /\ e.type = "Removed" => state'.phase = "deleted"
          /\ state.completed => state'.completed
          /\ e.type = "Completed" => state'.completed
          /\ state'.completed => state'.pending = None
      BY <1>1, <1>3, Append1Fold, EvolveFields DEF RecurrenceStream, Events, EventTypes
    <2>3. \A p \in Positions : events[p].type # "Removed"
      BY <1>3 DEF RecurrenceStream
    <2>4. \A p \in Positions : p < Len(events')
      BY <2>1 DEF Positions
    <2>5. e.type = "Recorded" => \A p \in Positions : events[p].type # "Completed"
      BY <1>3 DEF RecurrenceStream
    <2> QED BY <2>1, <2>2, <2>3, <2>4, <2>5 DEF RecurrenceStream, Grows
  <1>4. ASSUME NEW at \in wakeups, at \in Nat, Records(at),
               Append2(Event("Recorded", at), Follows(at))
        PROVE  RecurrenceStream'
    <2> DEFINE r == Event("Recorded", at)
               f == Follows(at)
    <2>1. /\ r \in Events /\ r.type = "Recorded" /\ r.at = at
          /\ f \in Events /\ f.type \in {"Scheduled", "Completed"}
      BY <1>4, EventType, FollowsFields DEF Event, EventTypes
    <2> HIDE DEF r, f
    <2>2. Append2(r, f)
      BY <1>4 DEF r, f
    <2>3. /\ Grows /\ Len(events) \in Nat /\ Len(events') = Len(events) + 2
          /\ events'[Len(events) + 1] = r /\ events'[Len(events')] = f
          /\ \A p \in Positions' : p \in Positions \/ p = Len(events) + 1 \/ p = Len(events')
      BY <1>1, <2>1, <2>2, Append2Grows
    <2>4. state.phase # "deleted" /\ state.pending # None
      BY <1>1, <1>4 DEF Records, States
    <2>5. /\ \A p \in Positions : events[p].type \notin {"Removed", "Completed"}
          /\ ~state.completed
      BY <2>4 DEF RecurrenceStream
    <2>6. /\ Evolve(state, r) \in States /\ ~Evolve(state, r).completed
      BY <1>1, <2>1, <2>5, EvolveType, EvolveFields
    <2>7. /\ f.type = "Completed" => state'.completed
          /\ state'.completed => state'.pending = None
      BY <2>1, <2>2, <2>6, EvolveFields DEF Append2
    <2>8. \A p \in Positions : p < Len(events) + 1 /\ p < Len(events')
      BY <2>3 DEF Positions
    <2> QED BY <2>1, <2>3, <2>5, <2>7, <2>8 DEF RecurrenceStream, Grows
  <1>5. ASSUME NEW e \in Events, Append1(e), UserEvent(e) PROVE RecurrenceStream'
    BY <1>3, <1>5 DEF UserEvent
  <1>6. ASSUME NEW i \in Instances, Arms, Append1(NextOccurrence(run[i].now))
        PROVE  RecurrenceStream'
    <2>1. NextOccurrence(run[i].now) \in Events
      BY <1>1, RunType, NextOccurrenceType DEF Runs
    <2> QED BY <1>3, <1>6, <2>1 DEF Arms
  <1>7. ASSUME NEW at \in wakeups, Records(at), RecordOccurrence(at) PROVE RecurrenceStream'
    <2>1. at \in Nat
      BY <1>1, <1>7 DEF CheckpointInv, TypeOK
    <2>2. CASE Append1(Event("Recorded", at))
      <3>1. Event("Recorded", at) \in Events
        BY <2>1, EventType DEF EventTypes
      <3>2. state.phase # "deleted" /\ state.pending # None
        BY <1>1, <1>7, <2>1 DEF Records, States
      <3>3. ~state.completed
        BY <3>2 DEF RecurrenceStream
      <3> QED BY <1>3, <2>2, <3>1, <3>2, <3>3
    <2> QED BY <1>4, <1>7, <2>1, <2>2 DEF RecordOccurrence
  <1> QED BY <1>2, <1>5, <1>6, <1>7, AppendCases

\* The status an instance is about to write says what was removed or completed,
\* and nothing of a recurrence is published before its creation was applied.
StatusRun(i) ==
    LET r == run[i]
        type == events[r.pos].type
    IN  r.pc \in WritingCalls =>
          /\ r.status # "None"
          /\ r.status = "Removed" => type = "Removed"
          /\ r.status = "Expired" => type = "Completed" \/ Kind # "RRule"
          /\ r.pc \in {"purge", "publish"} /\ r.does = "Publish" /\ Kind = "RRule" =>
                Current.applied > 0
          /\ r.pc = "publish" => r.does = "Publish"

\* A checkpoint has a status, which is of a removal or a completion only where
\* one was applied; a recurrence that was not applied has done nothing yet.
StatusInv ==
    /\ Current.status = "None" => Current.applied = 0
    /\ Current.applied = 0 => Current.status = "None"
    /\ Current.applied > 0 =>
          /\ Current.status = "Removed" => events[Current.applied].type = "Removed"
          /\ Current.status = "Expired" =>
                events[Current.applied].type = "Completed" \/ Kind # "RRule"
    /\ Kind = "RRule" /\ Current.applied = 0 =>
          /\ scheduled = {} /\ wakeups = {}
          /\ \A p \in Positions : events[p].type # "Recorded"
    /\ \A i \in Instances : StatusRun(i)

\* What is about to be written.
LEMMA StatusRunStep ==
  ASSUME FlowInv, StatusInv, [Next]_vars, NEW j \in Instances
  PROVE  StatusRun(j)'
  <1>1. CheckpointInv /\ Idle.pc = "idle"
    BY DEF FlowInv, Idle
  <1>2. Grows /\ Kind' = Kind
    BY GrowsStep
  <1>3. Current.applied \in Nat /\ Current'.applied \in Nat /\ Current.applied <= Current'.applied
    BY AppliedStep
  <1>4. CASE run'[j] = run[j]
    <2>1. run[j].pc \in WritingCalls => events'[run[j].pos] = events[run[j].pos]
      BY <1>2, OnStream DEF Grows, WritingCalls
    <2> QED BY <1>2, <1>3, <1>4, <2>1 DEF StatusInv, StatusRun
  <1>5. CASE run'[j] = Idle
    BY <1>5 DEF StatusRun, Idle, WritingCalls
  <1>6. CASE Load(j)
    <2> DEFINE r == run'[j]
               type == events[r.pos].type
    <2>1. r.pos \in Positions /\ events'[r.pos] = events[r.pos]
      BY <1>1, <1>2, <1>6, LoadFields DEF Grows
    <2>2. r.pc \in WritingCalls =>
            /\ r.status # "None"
            /\ r.status = "Removed" => type = "Removed"
            /\ r.status = "Expired" => type = "Completed" \/ Kind # "RRule"
            /\ r.does = "Publish" /\ Kind = "RRule" => Current.status = "Scheduled"
            /\ r.pc # "publish"
      BY <1>1, <1>6, LoadOutcome DEF WritingCalls
    <2>3. Current.status = "Scheduled" => Current.applied > 0
      BY <1>3 DEF StatusInv
    <2> HIDE DEF r
    <2> QED BY <1>2, <1>3, <2>1, <2>2, <2>3 DEF StatusRun, r
  <1>7. CASE Goes(j) /\ run[j].pc \in WritingCalls
    <2>1. events'[run[j].pos] = events[run[j].pos]
      BY <1>2, <1>7, OnStream DEF Grows, WritingCalls
    <2>2. StatusRun(j)
      BY DEF StatusInv
    <2>3. run'[j].pc = "publish" /\ run'[j] # run[j] =>
             run[j].does = "Publish" /\ run[j].pc = "purge"
      <3>1. ASSUME NEW pc \in {"save", "ack", "resolve"}, Goto(j, pc), run'[j].pc = "publish"
            PROVE  FALSE
        BY <1>1, <1>7, <3>1, GoesOn
      <3>2. ASSUME run' = [run EXCEPT ![j] = Idle], run'[j].pc = "publish" PROVE FALSE
        BY <1>1, <3>2, Dropped
      <3>3. \/ run'[j] = run[j] \/ Load(j) \/ run' = [run EXCEPT ![j] = Idle]
            \/ Purge(j) \/ \E pc \in {"save", "ack", "resolve"} : Goto(j, pc)
        <4>1. ~Missing(j)
          BY <1>7 DEF Missing, At, WritingCalls
        <4> QED BY <1>1, <4>1, Acts DEF Process, Publish, Dispatch, Arm, Save, Resolve, Term, Ack,
                                        Fail, Crash, Retry
      <3>4. ~Load(j)
        BY <1>7 DEF Load, Idle, WritingCalls
      <3>5. Purge(j) /\ run[j].does # "Publish" => Goto(j, "save")
        BY DEF Purge
      <3> QED BY <3>1, <3>2, <3>3, <3>4, <3>5 DEF Purge, At
    <2>4. run'[j].pc = "publish" => run[j].pc \in {"purge", "publish"} /\ run[j].does = "Publish"
      BY <1>7, <2>2, <2>3 DEF StatusRun
    <2>5. run'[j].pc # "purge"
      BY <1>7 DEF Goes
    <2> QED BY <1>2, <1>3, <1>7, <2>1, <2>2, <2>4, <2>5 DEF StatusRun, Goes
  <1>8. CASE Goes(j) /\ run[j].pc = "resolve"
    <2>1. run'[j].pc \notin WritingCalls
      <3>1. ASSUME Goto(j, "ack") PROVE run'[j].pc = "ack"
        BY <1>1, <1>8, <3>1, GoesOn
      <3>2. ASSUME run' = [run EXCEPT ![j] = Idle] PROVE run'[j].pc = "idle"
        BY <1>1, <3>2, Dropped
      <3>3. run'[j] = run[j] \/ Goto(j, "ack") \/ run' = [run EXCEPT ![j] = Idle]
        <4>1. ~Load(j) /\ ~Missing(j)
          BY <1>8 DEF Load, Idle, Missing, At
        <4>2. ~Purge(j) /\ ~Publish(j) /\ ~Dispatch(j) /\ ~Arm(j) /\ ~Save(j)
          BY <1>8 DEF Purge, Publish, Dispatch, Arm, Save, At
        <4> QED BY <1>1, <4>1, <4>2, Acts DEF Process, Resolve, Term, Ack, Fail, Crash, Retry
      <3> QED BY <1>8, <3>1, <3>2, <3>3 DEF WritingCalls
    <2> QED BY <2>1 DEF StatusRun
  <1>9. CASE run'[j].pc = "term"
    BY <1>9 DEF StatusRun, WritingCalls
  <1> QED BY <1>1, <1>4, <1>5, <1>6, <1>7, <1>8, <1>9, Moves DEF Goes

\* Every step keeps the status of a checkpoint that of an event applied.
LEMMA StatusStep ==
  ASSUME FlowInv, StatusInv, [Next]_vars
  PROVE  StatusInv'
  <1>1. CheckpointInv
    BY DEF FlowInv
  <1>2. Grows /\ Kind' = Kind
    BY GrowsStep
  <1>3. Current.applied \in Nat /\ Current'.applied \in Nat /\ Current.applied <= Current'.applied
        /\ (Current.applied > 0 => Current.applied \in Positions)
    <2>1. Current.applied <= Len(deliveries)
      BY DEF FlowInv, DeliveredInv
    <2> QED BY <2>1, AppliedStep, OnStream DEF Positions
  <1> DEFINE Says == /\ Current'.status = "None" => Current'.applied = 0
                     /\ Current'.applied = 0 => Current'.status = "None"
                     /\ Current'.applied > 0 =>
                           /\ Current'.status = "Removed" =>
                                 events'[Current'.applied].type = "Removed"
                           /\ Current'.status = "Expired" =>
                                 events'[Current'.applied].type = "Completed" \/ Kind' # "RRule"
  <1>4. Says
    <2>1. CASE Current' = Current
      BY <1>2, <1>3, <2>1 DEF StatusInv, Grows
    <2>2. ASSUME NEW i \in Instances, run[i].pc = "save", Current'.applied = run[i].pos,
                 Current'.status = run[i].status
          PROVE  Says
      <3>1. run[i].pos \in Positions /\ run[i].pos # 0 /\ events'[run[i].pos] = events[run[i].pos]
        BY <1>2, <2>2, OnStream DEF Grows, Positions
      <3>2. run[i].pc \in WritingCalls /\ StatusRun(i)
        BY <2>2 DEF WritingCalls, StatusInv
      <3> QED BY <1>2, <2>2, <3>1, <3>2 DEF StatusRun
    <2> HIDE DEF Says
    <2> QED BY <1>1, <2>1, <2>2, CurrentMoves
  <1>5. ASSUME Kind' = "RRule", Current'.applied = 0
        PROVE  /\ scheduled' = {} /\ wakeups' = {}
               /\ \A p \in Positions' : events'[p].type # "Recorded"
    <2>1. /\ Kind = "RRule" /\ Current.applied = 0 /\ scheduled = {} /\ wakeups = {}
          /\ \A p \in Positions : events[p].type # "Recorded"
      BY <1>2, <1>3, <1>5 DEF StatusInv
    <2>2. \A m \in scheduled : ~Fire(m)
      BY <2>1
    <2>3. ASSUME NEW i \in Instances PROVE ~Publish(i)
      <3>1. run[i].pc = "publish" => Current.applied > 0
        BY <2>1 DEF StatusInv, StatusRun, WritingCalls
      <3> QED BY <2>1, <3>1 DEF Publish, At
    <2>4. scheduled' = {} /\ wakeups' = {}
      <3>1. \/ UNCHANGED <<scheduled, wakeups>> \/ (\E i \in Instances : Purge(i) \/ Publish(i))
            \/ (\E m \in scheduled : Fire(m)) \/ (\E at \in wakeups : HandleWakeup(at))
        BY DEF Next, Process, vars, brokerVars, Deliver, Load, Dispatch, Arm, Save, Resolve,
               Missing, Term, Ack, Fail, Crash, ExpireWindow
      <3>2. \A i \in Instances : Purge(i) => scheduled' = {} /\ wakeups' = wakeups
        BY DEF Purge
      <3> QED BY <2>1, <2>2, <2>3, <3>1, <3>2
    <2>5. CASE UNCHANGED <<events, state>>
      BY <2>1, <2>4, <2>5 DEF Positions
    <2>6. ASSUME NEW e \in Events, Append1(e), e.type # "Recorded"
          PROVE  \A p \in Positions' : events'[p].type # "Recorded"
      BY <1>1, <2>1, <2>6, Append1Grows DEF CheckpointInv, TypeOK, Grows
    <2>7. ASSUME NEW i \in Instances, Append1(NextOccurrence(run[i].now))
          PROVE  \A p \in Positions' : events'[p].type # "Recorded"
      <3> DEFINE from == IF state.last = None THEN run[i].now ELSE state.last
      <3>1. from \in Nat
        BY <1>1, RunType DEF Runs, CheckpointInv, TypeOK, AggregateTypeOK, States
      <3>2. Follows(from) \in Events /\ Follows(from).type # "Recorded"
        BY <3>1, FollowsFields
      <3>3. Append1(Follows(from))
        BY <2>7 DEF NextOccurrence
      <3> QED BY <2>6, <3>2, <3>3
    <2>8. ASSUME NEW e \in Events, Append1(e), UserEvent(e)
          PROVE  \A p \in Positions' : events'[p].type # "Recorded"
      BY <2>6, <2>8 DEF UserEvent
    <2> QED BY <2>1, <2>4, <2>5, <2>7, <2>8, AppendCases
  <1> HIDE DEF Says
  <1>6. \A j \in Instances : StatusRun(j)'
    BY StatusRunStep
  <1> QED BY <1>4, <1>5, <1>6 DEF StatusInv, Says

-----------------------------------------------------------------------------
(* The occurrences of a recurrence, under every fault. *)

\* What reached the user stays there.
LEMMA DeliveredKept ==
  ASSUME CheckpointInv, [Next]_vars, NEW p
  PROVE  Delivered(p) => Delivered(p)'
  <1>1. dispatched \in Seq(Nat) /\ Len(dispatched) \in Nat
    BY LenProperties DEF CheckpointInv, TypeOK
  <1>2. \/ dispatched' = dispatched
        \/ \E q \in Nat : dispatched' = Append(dispatched, q)
    <2>1. ASSUME NEW m \in scheduled, Fire(m)
          PROVE  dispatched' = dispatched \/ \E q \in Nat : dispatched' = Append(dispatched, q)
      BY <2>1 DEF Fire, CheckpointInv, TypeOK
    <2>2. ASSUME NEW i \in Instances, Dispatch(i)
          PROVE  dispatched' = dispatched \/ \E q \in Nat : dispatched' = Append(dispatched, q)
      BY <2>2, RunType DEF Dispatch, Runs
    <2>3. \/ dispatched' = dispatched \/ (\E i \in Instances : Dispatch(i))
          \/ (\E m \in scheduled : Fire(m))
      BY DEF Next, Process, vars, brokerVars, Deliver, Load, Purge, Publish, Arm, Save, Resolve,
             Missing, Term, Ack, Fail, Crash, HandleWakeup, ExpireWindow
    <2> QED BY <2>1, <2>2, <2>3
  <1>3. ASSUME NEW q \in Nat, dispatched' = Append(dispatched, q), Delivered(p) PROVE Delivered(p)'
    <2>1. PICK m \in 1..Len(dispatched) : dispatched[m] = p
      BY <1>3 DEF Delivered
    <2>2. m \in 1..Len(dispatched') /\ dispatched'[m] = p
      BY <1>1, <1>3, <2>1, AppendProperties
    <2> QED BY <2>2 DEF Delivered
  <1> QED BY <1>2, <1>3 DEF Delivered

\* The message ids the delivery stream remembers.
LEMMA DeliveryWindowStep ==
  ASSUME CheckpointInv, [Next]_vars, \A p \in Nat : <<"delivery", p>> \in window => Delivered(p)
  PROVE  \A p \in Nat : <<"delivery", p>> \in window' => Delivered(p)'
  <1> SUFFICES ASSUME NEW p \in Nat, <<"delivery", p>> \in window' PROVE Delivered(p)'
    OBVIOUS
  <1>1. CASE <<"delivery", p>> \in window
    BY <1>1, DeliveredKept
  <1>2. ASSUME <<"delivery", p>> \notin window, NEW i \in Instances, Dispatch(i)
        PROVE  Delivered(p)'
    <2>1. run[i].pos = p
      BY <1>2 DEF Dispatch, Remember
    <2>2. dispatched' = Append(dispatched, p)
      BY <1>2, <2>1 DEF Dispatch, Publishes
    <2>3. dispatched \in Seq(Nat) /\ Len(dispatched) \in Nat
      BY LenProperties DEF CheckpointInv, TypeOK
    <2>4. /\ Len(dispatched) + 1 \in 1..Len(dispatched')
          /\ dispatched'[Len(dispatched) + 1] = p
      BY <2>2, <2>3, AppendProperties
    <2> QED BY <2>4 DEF Delivered
  <1>3. <<"delivery", p>> \in window \/ \E i \in Instances : Dispatch(i)
    <2>1. ASSUME NEW i \in Instances, Purge(i) PROVE <<"delivery", p>> \in window
      BY <2>1 DEF Purge
    <2>2. ASSUME NEW i \in Instances, Publish(i) PROVE <<"delivery", p>> \in window
      BY <2>2 DEF Publish, Remember
    <2>3. ASSUME NEW i \in Instances, Arm(i) PROVE <<"delivery", p>> \in window
      <3>1. window' = window \/ Remember("command", i)
        BY <2>3 DEF Arm
      <3> QED BY <3>1 DEF Remember
    <2>4. window' = window \/ ExpireWindow
          \/ (\E i \in Instances : Purge(i) \/ Publish(i) \/ Dispatch(i) \/ Arm(i))
      BY DEF Next, Process, vars, brokerVars, Deliver, Load, Save, Resolve, Missing, Term, Ack,
             Fail, Crash, Fire, HandleWakeup
    <2>5. ~ExpireWindow
      BY DEF ExpireWindow
    <2> QED BY <2>1, <2>2, <2>3, <2>4, <2>5
  <1> QED BY <1>1, <1>2, <1>3

\* A recorded occurrence that is loaded is dispatched: the checkpoint has not
\* reached it, and neither a removal nor a completion comes before it.
LEMMA LoadRecorded ==
  ASSUME FlowInv, RecurrenceStream, StatusInv, NEW i \in Instances, Load(i),
         events[run'[i].pos].type = "Recorded", Current.applied < run'[i].pos
  PROVE  run'[i].pc = "dispatch"
  <1>1. CheckpointInv
    BY DEF FlowInv
  <1>2. run'[i].pos \in Positions /\ Kind = "RRule"
    BY <1>1, LoadFields DEF FlowInv, KindInv, OccurrenceTypes
  <1>3. Current.applied \in Nat /\ run'[i].pos \in Nat
        /\ Current.status \in {"None", "Scheduled", "Paused", "Removed", "Expired"}
    BY <1>1, <1>2, CheckpointType DEF CheckpointInv, Positions, Statuses
  <1>4. Current.applied > 0
    BY <1>2, <1>3 DEF StatusInv
  <1>5. Current.applied \in Positions
    <2>1. Len(events) \in Nat
      BY OnStream
    <2> QED BY <1>2, <1>3, <1>4, <2>1 DEF Positions
  <1>6. Current.status # "Removed"
    <2> SUFFICES ASSUME Current.status = "Removed" PROVE FALSE OBVIOUS
    <2>1. Current.applied = Len(events)
      BY <1>4, <1>5 DEF StatusInv, RecurrenceStream
    <2> QED BY <1>2, <1>3, <2>1 DEF Positions
  <1>7. Current.status # "Expired"
    <2> SUFFICES ASSUME Current.status = "Expired" PROVE FALSE OBVIOUS
    <2>1. events[Current.applied].type = "Completed"
      BY <1>2, <1>4 DEF StatusInv
    <2>2. run'[i].pos < Current.applied
      BY <1>2, <1>5, <2>1 DEF RecurrenceStream
    <2> QED BY <1>3, <2>2
  <1>8. Current.status # "None"
    BY <1>3, <1>4 DEF StatusInv
  <1> QED BY <1>1, <1>3, <1>6, <1>7, <1>8, LoadOutcome

\* The call a run goes on to.
LEMMA NextCallIs ==
  ASSUME CheckpointInv, [Next]_vars, NEW j \in Instances, Goes(j), run'[j] # run[j],
         run'[j].pc \in WritingCalls
  PROVE  \/ /\ Purge(j) /\ run[j].pc = "purge"
            /\ run'[j].pc = IF run[j].does = "Publish" THEN "publish" ELSE "save"
         \/ Publish(j) /\ run[j].pc = "publish" /\ run'[j].pc = "save"
         \/ Dispatch(j) /\ run[j].pc = "dispatch" /\ run'[j].pc = "save"
         \/ Arm(j) /\ run[j].pc = "arm" /\ run'[j].pc = "save"
  <1>1. run' # [run EXCEPT ![j] = Idle] /\ ~Load(j)
    <2>1. run'[j].pc # "idle" /\ run[j].pc # "idle" /\ Idle.pc = "idle"
      BY DEF WritingCalls, Goes, Idle
    <2> QED BY <2>1, Dropped DEF Load
  <1>2. ~Term(j) /\ ~Ack(j) /\ ~Fail(j) /\ ~Crash(j)
    BY <1>1 DEF Term, Ack, Fail, Crash
  <1>3. ASSUME NEW pc \in {"ack", "resolve", "term"}, Goto(j, pc),
               run[j].pc \in {"save", "resolve", "missing"},
               pc = "term" <=> run[j].pc = "missing"
        PROVE  FALSE
    BY <1>3, GoesOn DEF WritingCalls
  <1>4. ~Save(j) /\ ~Resolve(j) /\ ~Missing(j)
    BY <1>1, <1>3 DEF Save, Resolve, Missing, Retry, At
  <1>5. CASE Purge(j)
    <2>1. run[j].pc = "purge"
      BY <1>5 DEF Purge, At
    <2>2. Goto(j, IF run[j].does = "Publish" THEN "publish" ELSE "save")
      BY <1>5 DEF Purge
    <2> QED BY <1>5, <2>1, <2>2, GoesOn DEF WritingCalls
  <1>6. CASE Publish(j) \/ Dispatch(j) \/ Arm(j)
    <2>1. \/ Publish(j) /\ run[j].pc = "publish"
          \/ Dispatch(j) /\ run[j].pc = "dispatch"
          \/ Arm(j) /\ run[j].pc = "arm"
      BY <1>6 DEF Publish, Dispatch, Arm, At
    <2>2. Goto(j, "save")
      BY <1>1, <1>6 DEF Publish, Dispatch, Arm, Retry
    <2> QED BY <2>1, <2>2, GoesOn DEF WritingCalls
  <1> QED BY <1>1, <1>2, <1>4, <1>5, <1>6, Acts DEF Process

\* What was overtaken, and what was dropped as a duplicate, is not forgotten.
LEMMA HistoryGrows ==
  ASSUME CheckpointInv, [Next]_vars
  PROVE  /\ settled \subseteq settled' /\ failures \subseteq failures'
         /\ overtaken \subseteq overtaken' /\ duplicates \subseteq duplicates'
  <1>1. settled \subseteq settled'
    BY DeliveredMoves DEF Ack, Term
  <1>2. failures \subseteq failures'
    BY DeliveredMoves
  <1>3. overtaken \subseteq overtaken'
    <2>1. overtaken' = overtaken \/ \E i \in Instances : Load(i)
      BY DEF Next, Process, vars, consumerVars, Deliver, Purge, Publish, Dispatch, Arm, Save,
             Resolve, Missing, Term, Ack, Retry, Fail, Crash, Fire, HandleWakeup, ExpireWindow
    <2> QED BY <2>1 DEF Load
  <1>4. duplicates \subseteq duplicates'
    <2>1. duplicates' = duplicates \/ \E i \in Instances : Publish(i)
      BY DEF Next, Process, vars, brokerVars, Deliver, Load, Purge, Dispatch, Arm, Save, Resolve,
             Missing, Term, Ack, Fail, Crash, Fire, HandleWakeup, ExpireWindow
    <2> QED BY <2>1 DEF Publish
  <1> QED BY <1>1, <1>2, <1>3, <1>4

\* Whatever comes before the record an instance applies, and after the checkpoint
\* that it will replace, was settled or overtaken when the record was loaded. An
\* occurrence is dispatched before it is recorded in the checkpoint, and only
\* acknowledged when the checkpoint has reached it.
OccurrenceRun(i) ==
    LET r == run[i]
        recorded == events[r.pos].type = "Recorded"
    IN  /\ r.pc \in WritingCalls /\ Unchanged(checkpoint, r.revision) =>
              \A q \in Positions :
                  Current.applied < q /\ q < r.pos => q \in overtaken \cup settled
        /\ r.pc \in WritingCalls /\ recorded =>
              r.pc = "dispatch" \/ (r.pc = "save" /\ Delivered(r.pos))
        /\ r.pc = "ack" /\ recorded => r.pos <= Current.applied

\* What the delivery stream remembers reached the user, and so did each occurrence
\* that the checkpoint has reached or that is settled, unless it was overtaken or
\* given up on.
OccurrenceInv ==
    /\ \A p \in Nat : <<"delivery", p>> \in window => Delivered(p)
    /\ \A p \in Positions \ (failures \cup overtaken) :
          events[p].type = "Recorded" /\ (p <= Current.applied \/ p \in settled) => Delivered(p)
    /\ \A i \in Instances : OccurrenceRun(i)

\* What is being applied, by any instance.
LEMMA OccurrenceRunStep ==
  ASSUME FlowInv, RecurrenceStream, StatusInv, OccurrenceInv, [Next]_vars, NEW j \in Instances
  PROVE  OccurrenceRun(j)'
  <1>1. CheckpointInv /\ CheckpointInv' /\ OccurrenceRun(j) /\ Grows
    BY CheckpointStep, GrowsStep DEF FlowInv, OccurrenceInv
  <1>2. /\ Current.applied \in Nat /\ Current'.applied \in Nat
        /\ Current.applied <= Current'.applied
        /\ run[j].pos \in Nat /\ Len(events) \in Nat
        /\ run[j].pc # "idle" => run[j].pos \in Positions
    BY AppliedStep, OnStream
  <1>3. settled \subseteq settled' /\ overtaken \subseteq overtaken'
    BY <1>1, HistoryGrows
  <1>4. CASE run'[j] = Idle
    BY <1>4 DEF OccurrenceRun, Idle, WritingCalls
  <1>5. CASE Load(j)
    <2> DEFINE r == run'[j]
    <2>1. /\ r.pos \in Positions /\ events'[r.pos] = events[r.pos] /\ Current' = Current
          /\ UNCHANGED <<events, settled, checkpoint>>
      <3>1. UNCHANGED <<events, settled, checkpoint>>
        BY <1>5 DEF Load, aggregateVars
      <3> QED BY <1>1, <1>5, <3>1, LoadFields DEF Current
    <2>2. Open(r.pos) \subseteq overtaken'
      <3>1. r.pos = Head(lane[j]).pos
        BY <1>1, <1>5, LoadFields
      <3>2. overtaken' = overtaken \cup Open(Head(lane[j]).pos)
        BY <1>5 DEF Load
      <3> QED BY <3>1, <3>2
    <2>3. ASSUME NEW q \in Positions', Current'.applied < q, q < r.pos
          PROVE  q \in overtaken' \cup settled'
      BY <2>1, <2>2, <2>3 DEF Open, Positions
    <2>4. r.pos \in Nat
      BY <2>1 DEF Positions
    <2>5. ASSUME events[r.pos].type = "Recorded", r.pc \in WritingCalls PROVE r.pc = "dispatch"
      <3>1. Current.applied < r.pos
        BY <1>1, <1>5, <2>5, LoadOutcome DEF WritingCalls
      <3> QED BY <1>5, <2>5, <3>1, LoadRecorded
    <2>6. ASSUME events[r.pos].type = "Recorded", r.pc = "ack" PROVE r.pos <= Current'.applied
      <3>1. ~(Current.applied < r.pos)
        BY <1>5, <2>6, LoadRecorded
      <3> QED BY <1>2, <2>1, <2>4, <3>1
    <2> HIDE DEF r
    <2> QED BY <2>1, <2>3, <2>5, <2>6 DEF OccurrenceRun, r
  <1>6. ASSUME run[j].pc \in WritingCalls, run'[j].pos = run[j].pos,
               run'[j].revision = run[j].revision, Unchanged(checkpoint', run'[j].revision),
               NEW q \in Positions', Current'.applied < q, q < run'[j].pos
        PROVE  q \in overtaken' \cup settled'
    <2>1. run[j].revision <= checkpoint.revision
      BY <1>1 DEF CheckpointInv, AppliesAhead
    <2>2. checkpoint.revision \in Nat /\ run[j].revision \in Nat
      BY <1>1, CheckpointType, RunType DEF CheckpointInv, Runs
    <2>3. checkpoint' = checkpoint
      BY <1>1, <1>6, <2>1, <2>2, CurrentMoves DEF Unchanged
    <2>4. Current' = Current
      BY <2>3 DEF Current
    <2>5. q \in Positions /\ run[j].pos \in Positions
      BY <1>2, <1>6 DEF WritingCalls, Positions
    <2> QED BY <1>1, <1>3, <1>6, <2>3, <2>4, <2>5 DEF OccurrenceRun
  <1>7. CASE run'[j] = run[j]
    <2>1. run[j].pc # "idle" => events'[run[j].pos] = events[run[j].pos]
      BY <1>1, <1>2 DEF Grows
    <2>2. Delivered(run[j].pos) => Delivered(run[j].pos)'
      <3>1. ASSUME NEW p, p = run[j].pos PROVE Delivered(p) => Delivered(p)'
        BY <1>1, DeliveredKept
      <3> QED BY <1>7, <3>1 DEF Delivered
    <2>3. run[j].pc = "ack" /\ events[run[j].pos].type = "Recorded" =>
              run[j].pos <= Current'.applied
      BY <1>1, <1>2 DEF OccurrenceRun
    <2>4. run[j].pc \in WritingCalls /\ events[run[j].pos].type = "Recorded" =>
             run[j].pc = "dispatch" \/ (run[j].pc = "save" /\ Delivered(run[j].pos))
      BY <1>1 DEF OccurrenceRun
    <2> QED BY <1>6, <1>7, <2>1, <2>2, <2>3, <2>4 DEF OccurrenceRun, WritingCalls
  <1>8. CASE Goes(j) /\ run'[j] # run[j]
    <2>1. run'[j].pos = run[j].pos /\ run'[j].revision = run[j].revision /\ run[j].pc # "idle"
          /\ events'[run[j].pos] = events[run[j].pos]
      BY <1>1, <1>2, <1>8 DEF Goes, Grows, WritingCalls
    <2>2. ASSUME run'[j].pc \in WritingCalls PROVE run[j].pc \in WritingCalls
      BY <1>1, <1>8, <2>2, NextCallIs DEF WritingCalls
    <2>3. ASSUME run'[j].pc \in WritingCalls, events[run[j].pos].type = "Recorded"
          PROVE  run'[j].pc = "save" /\ Delivered(run[j].pos)'
      <3>1. run[j].pc = "dispatch" \/ run[j].pc = "save"
        BY <1>1, <2>2, <2>3 DEF OccurrenceRun
      <3>2. Dispatch(j) /\ run'[j].pc = "save"
        BY <1>1, <1>8, <2>3, <3>1, NextCallIs
      <3>3. <<"delivery", run[j].pos>> \in window'
        BY <3>2 DEF Dispatch, Remember
      <3>4. \A p \in Nat : <<"delivery", p>> \in window' => Delivered(p)'
        BY <1>1, DeliveryWindowStep DEF OccurrenceInv
      <3>5. ASSUME NEW p \in Nat, p = run[j].pos PROVE Delivered(p)'
        BY <3>3, <3>4, <3>5
      <3> QED BY <1>2, <2>1, <3>2, <3>5 DEF Delivered
    <2>4. ASSUME run'[j].pc = "ack" PROVE run[j].pos <= Current'.applied
      <3>1. Current'.applied = run[j].pos \/ (Current' = Current /\ Current.applied >= run[j].pos)
        <4>1. ~Load(j)
          BY <2>1 DEF Load, Idle
        <4> QED BY <1>1, <1>8, <2>4, <4>1, AckBy
      <3> QED BY <1>2, <3>1
    <2> QED BY <1>6, <2>1, <2>2, <2>3, <2>4 DEF OccurrenceRun, Delivered, WritingCalls
  <1> QED BY <1>1, <1>4, <1>5, <1>7, <1>8, Moves

\* Every step keeps the occurrences accounted for.
LEMMA OccurrenceStep ==
  ASSUME FlowInv, RecurrenceStream, StatusInv, OccurrenceInv, [Next]_vars
  PROVE  OccurrenceInv'
  <1>1. CheckpointInv /\ DeliveredInv /\ Grows
    BY GrowsStep DEF FlowInv
  <1>2. \A p \in Nat : <<"delivery", p>> \in window' => Delivered(p)'
    BY <1>1, DeliveryWindowStep DEF OccurrenceInv
  <1>3. settled \subseteq settled' /\ failures \subseteq failures' /\ overtaken \subseteq overtaken'
    BY <1>1, HistoryGrows
  <1>4. Current.applied \in Nat /\ Current'.applied \in Nat
    BY AppliedStep
  <1>5. ASSUME NEW p \in Positions' \ (failures' \cup overtaken'), events'[p].type = "Recorded",
               p <= Current'.applied \/ p \in settled'
        PROVE  Delivered(p)'
    <2>1. p \notin failures /\ p \notin overtaken /\ p \in Nat
      BY <1>3, <1>5 DEF Positions
    <2>2. ASSUME NEW q \in Positions, q = p, q <= Current.applied \/ q \in settled
          PROVE  Delivered(p)'
      <3>1. Delivered(q)
        BY <1>1, <1>5, <2>1, <2>2 DEF OccurrenceInv, Grows
      <3> QED BY <1>1, <2>2, <3>1, DeliveredKept
    <2>3. ASSUME NEW i \in Instances, run[i].pc = "save", Current'.applied = run[i].pos,
                 Unchanged(checkpoint, run[i].revision), p <= Current'.applied
          PROVE  Delivered(p)'
      <3>1. run[i].pos \in Positions /\ run[i].pos \in Nat /\ OccurrenceRun(i)
            /\ Len(events) \in Nat
        BY <2>3, OnStream DEF OccurrenceInv
      <3>2. p \in Positions /\ events[p].type = "Recorded"
        <4>1. p \in Positions
          BY <1>5, <2>1, <2>3, <3>1 DEF Positions
        <4> QED BY <1>1, <1>5, <4>1 DEF Grows
      <3>3. CASE p = run[i].pos
        <4>1. Delivered(p)
          BY <2>3, <3>1, <3>2, <3>3 DEF OccurrenceRun, WritingCalls
        <4> QED BY <1>1, <4>1, DeliveredKept
      <3>4. CASE p < run[i].pos /\ Current.applied < p
        <4>1. p \in settled
          BY <2>1, <2>3, <3>1, <3>2, <3>4 DEF OccurrenceRun, WritingCalls
        <4> QED BY <2>2, <3>2, <4>1
      <3>5. CASE p <= Current.applied
        BY <2>2, <3>2, <3>5
      <3> QED BY <1>4, <2>1, <2>3, <3>1, <3>3, <3>4, <3>5
    <2>4. ASSUME NEW i \in Instances, Ack(i), settled' = settled \cup {run[i].pos}, p = run[i].pos
          PROVE  Delivered(p)'
      <3>1. run[i].pc = "ack"
        BY <2>4 DEF Ack, At
      <3>2. p \in Positions /\ events[p].type = "Recorded"
        BY <1>1, <1>5, <2>4, <3>1, OnStream DEF Grows
      <3>3. p <= Current.applied
        BY <2>4, <3>1, <3>2 DEF OccurrenceInv, OccurrenceRun
      <3> QED BY <2>2, <3>2, <3>3
    <2>5. ASSUME p \in settled' PROVE p \in settled \/ \E i \in Instances : Ack(i) /\ p = run[i].pos
                                                   /\ settled' = settled \cup {run[i].pos}
      <3>1. ASSUME NEW i \in Instances, Term(i) PROVE p \in settled
        <4>1. settled' = settled \cup {run[i].pos} /\ run[i].pos \in failures
          BY <1>1, <3>1 DEF Term, At, DeliveredInv, HeldInv
        <4> QED BY <2>1, <2>5, <4>1
      <3>2. ASSUME NEW i \in Instances, Ack(i), p \notin settled
            PROVE  p = run[i].pos /\ settled' = settled \cup {run[i].pos}
        BY <2>5, <3>2 DEF Ack
      <3> QED BY <1>1, <2>5, <3>1, <3>2, DeliveredMoves
    <2>6. CASE p \in settled'
      <3>1. ASSUME p \in settled PROVE Delivered(p)'
        BY <2>2, <3>1, OnStream
      <3> QED BY <2>4, <2>5, <2>6, <3>1
    <2>7. CASE p <= Current'.applied
      <3>1. CASE Current' = Current
        <4>1. Current.applied <= Len(deliveries) /\ Len(deliveries) <= Len(events)
              /\ Len(events) \in Nat /\ Len(deliveries) \in Nat
          BY <1>1, OnStream DEF DeliveredInv
        <4>2. p \in Positions
          BY <1>4, <1>5, <2>1, <2>7, <3>1, <4>1 DEF Positions
        <4> QED BY <2>2, <2>7, <3>1, <4>2
      <3> QED BY <1>1, <2>3, <2>7, <3>1, CurrentMoves
    <2> QED BY <1>5, <2>6, <2>7
  <1>6. \A j \in Instances : OccurrenceRun(j)'
    BY OccurrenceRunStep
  <1> QED BY <1>2, <1>5, <1>6 DEF OccurrenceInv

\* The streams and statuses of the schedules, together.
LEMMA StatusCorrect == Spec => [](RecurrenceStream /\ StatusInv)
  <1>1. Init => RecurrenceStream /\ StatusInv
    <2> SUFFICES ASSUME Init PROVE RecurrenceStream /\ StatusInv OBVIOUS
    <2>1. /\ events = <<>> /\ Len(events) = 0 /\ ~state.completed
          /\ scheduled = {} /\ wakeups = {} /\ checkpoint = NoEntry
          /\ \A j \in Instances : run[j] = Idle
      BY DEF Init, AggregateInit
    <2>2. Current.status = "None" /\ Current.applied = 0
      BY <2>1 DEF Current, NoEntry, IsPut
    <2>3. \A j \in Instances : run[j].pc = "idle"
      BY <2>1 DEF Idle
    <2>4. RecurrenceStream
      BY <2>1 DEF RecurrenceStream, Positions
    <2>5. StatusInv
      BY <2>1, <2>2, <2>3 DEF StatusInv, StatusRun, Positions, WritingCalls
    <2> QED BY <2>4, <2>5
  <1>2. FlowInv /\ RecurrenceStream /\ StatusInv /\ [Next]_vars => RecurrenceStream' /\ StatusInv'
    BY RecurrenceStreamStep, StatusStep
  <1> QED BY <1>1, <1>2, FlowCorrect, PTL DEF Spec

\* Whatever fails, crashes, is lost or is delivered again, and however many
\* instances apply the events: a recorded occurrence that is settled reached the
\* user, unless it was given up on or a later record was reconciled while it was
\* still open.
THEOREM OccurrencesReach == Spec => []LostOnlyWhenOvertaken
  <1>1. Init => OccurrenceInv
    <2> SUFFICES ASSUME Init PROVE OccurrenceInv OBVIOUS
    <2>1. /\ events = <<>> /\ Len(events) = 0 /\ window = {}
          /\ \A j \in Instances : run[j] = Idle
      BY DEF Init, AggregateInit
    <2>2. \A j \in Instances : run[j].pc = "idle"
      BY <2>1 DEF Idle
    <2> QED BY <2>1, <2>2 DEF OccurrenceInv, OccurrenceRun, Positions, WritingCalls
  <1>2. FlowInv /\ RecurrenceStream /\ StatusInv /\ OccurrenceInv /\ [Next]_vars => OccurrenceInv'
    BY OccurrenceStep
  <1>3. FlowInv /\ OccurrenceInv => LostOnlyWhenOvertaken
    BY OnStream DEF OccurrenceInv, LostOnlyWhenOvertaken
  <1> QED BY <1>1, <1>2, <1>3, FlowCorrect, StatusCorrect, PTL DEF Spec

-----------------------------------------------------------------------------
(* A recurrence that nothing was lost of goes on. *)

\* What the last event of the stream was.
Last == events[Len(events)]

\* An occurrence is planned when the recurrence is armed, or with the record of the
\* one before it, and recorded while it is the last plan or right after a pause.
Follow(p) ==
    /\ events[p].type = "Scheduled" =>
          /\ p > 1
          /\ \/ events[p - 1].type \in {"Created", "Resumed"}
             \/ p > 2 /\ events[p - 1].type = "Recorded" /\ events[p - 2].type = "Scheduled"
    /\ events[p].type = "Recorded" => p > 1 /\ events[p - 1].type \in {"Scheduled", "Paused"}

\* The stream of a recurrence, and what its last event says of the fold.
PlanStream ==
    /\ events # <<>> => events[1].type \in {"Created", "CreatedPaused"}
    /\ \A p \in Positions : Follow(p)
    /\ events # <<>> =>
          /\ state.pending # None => Last.type \in {"Scheduled", "Paused"}
          /\ state.phase = "enabled" /\ state.pending # None => Last.type = "Scheduled"
          /\ Last.type = "Scheduled" =>
                state.pending # None /\ state.pending = Last.at /\ state.phase = "enabled"
          /\ Arms => Last.type \in {"Created", "Resumed"}

\* What an event follows does not change.
LEMMA FollowKept ==
  ASSUME Grows, Len(events) \in Nat, NEW p \in Positions, Follow(p)
  PROVE  Follow(p)'
  <1>1. p \in Nat /\ p > 0 /\ events'[p] = events[p]
    BY DEF Grows, Positions
  <1>2. p > 1 => p - 1 \in Positions /\ events'[p - 1] = events[p - 1]
    <2> SUFFICES ASSUME p > 1 PROVE p - 1 \in Positions
      BY DEF Grows
    <2> QED BY <1>1 DEF Positions
  <1>3. p > 2 => p - 2 \in Positions /\ events'[p - 2] = events[p - 2]
    <2> SUFFICES ASSUME p > 2 PROVE p - 2 \in Positions
      BY DEF Grows
    <2> QED BY <1>1 DEF Positions
  <1> QED BY <1>1, <1>2, <1>3 DEF Follow

\* An event appended to a stream of this form.
LEMMA PlanAppend1 ==
  ASSUME AggregateTypeOK, FoldInv, PlanStream, NEW e \in Events, Append1(e),
         events = <<>> => e.type \in {"Created", "CreatedPaused"},
         events # <<>> => e.type \notin {"Created", "CreatedPaused"},
         e.type = "Paused" => state.phase = "enabled",
         e.type = "Scheduled" => Arms /\ e.at # None,
         e.type = "Recorded" => state.phase = "disabled" /\ state.pending # None
  PROVE  PlanStream'
  <1> USE DEF None
  <1>1. /\ Grows /\ Len(events) \in Nat /\ Len(events') = Len(events) + 1
        /\ events'[Len(events')] = e
        /\ \A p \in Positions' : p \in Positions \/ p = Len(events')
    BY Append1Grows
  <1>2. /\ state \in States /\ state' = Evolve(state, e) /\ events' # <<>>
        /\ events = <<>> <=> state.phase = "missing"
        /\ events = <<>> <=> Len(events) = 0
    BY Append1Fold, EmptySeq DEF FoldInv, AggregateTypeOK
  <1>3. e.type \in EventTypes /\ e.at \in Nat
    BY DEF Events
  <1>4. events # <<>> => Len(events) \in Positions /\ 1 \in Positions
    BY <1>1, <1>2 DEF Positions
  <1>5. events'[1].type \in {"Created", "CreatedPaused"}
    BY <1>1, <1>2, <1>4 DEF PlanStream, Grows
  <1>6. ASSUME NEW n, n = Len(events') PROVE Follow(n)'
    <2>1. events # <<>> => n > 1 /\ n - 1 = Len(events)
                           /\ events'[Len(events)] = Last
      BY <1>1, <1>2, <1>4, <1>6 DEF Grows, Last
    <2>2. events'[n].type = e.type
      BY <1>1, <1>6
    <2>3. CASE e.type = "Scheduled"
      <3>1. events # <<>> /\ Last.type \in {"Created", "Resumed"}
        BY <1>2, <2>3 DEF PlanStream, Arms
      <3>2. n > 1 /\ events'[n - 1].type \in {"Created", "Resumed"}
        BY <2>1, <3>1
      <3> QED BY <2>2, <2>3, <3>2 DEF Follow
    <2>4. CASE e.type = "Recorded"
      <3>1. events # <<>> /\ Last.type \in {"Scheduled", "Paused"}
        BY <1>2, <2>4 DEF PlanStream
      <3>2. n > 1 /\ events'[n - 1].type \in {"Scheduled", "Paused"}
        BY <2>1, <3>1
      <3> QED BY <2>2, <2>4, <3>2 DEF Follow
    <2> QED BY <2>2, <2>3, <2>4 DEF Follow
  <1>7. \A p \in Positions' : Follow(p)'
    BY <1>1, <1>6, FollowKept DEF PlanStream
  <1>8. Last' = e
    BY <1>1 DEF Last
  <1>9. /\ state'.pending # None => e.type \in {"Scheduled", "Paused"}
        /\ state'.phase = "enabled" /\ state'.pending # None => e.type = "Scheduled"
        /\ e.type = "Scheduled" =>
              state'.pending # None /\ state'.pending = e.at /\ state'.phase = "enabled"
        /\ Arms' => e.type \in {"Created", "Resumed"}
    <2> USE DEF EventTypes
    <2>1. CASE e.type \in {"Created", "CreatedPaused"}
      BY <1>2, <2>1, EvolveFields DEF FoldInv, Arms
    <2>2. CASE e.type = "Paused"
      BY <1>2, <2>2, EvolveFields DEF Arms
    <2>3. CASE e.type \in {"Resumed", "Removed"}
      BY <1>2, <2>3, EvolveFields DEF Arms
    <2>4. CASE e.type \in {"Recorded", "Scheduled", "Completed"}
      BY <1>2, <1>3, <2>4, EvolveFields DEF Arms
    <2> QED BY <1>3, <2>1, <2>2, <2>3, <2>4
  <1> QED BY <1>5, <1>7, <1>8, <1>9 DEF PlanStream

\* A recorded occurrence and the plan after it, appended together.
LEMMA PlanAppend2 ==
  ASSUME AggregateTypeOK, FoldInv, PlanStream, NEW e \in Events, NEW f \in Events, Append2(e, f),
         e.type = "Recorded", f.type \in {"Scheduled", "Completed"},
         state.phase # "missing", state.pending # None,
         f.type = "Scheduled" => state.phase = "enabled" /\ f.at # None
  PROVE  PlanStream'
  <1> USE DEF None
  <1>1. /\ Grows /\ Len(events) \in Nat /\ Len(events') = Len(events) + 2
        /\ events'[Len(events) + 1] = e /\ events'[Len(events')] = f
        /\ \A p \in Positions' : p \in Positions \/ p = Len(events) + 1 \/ p = Len(events')
    BY Append2Grows
  <1>2. /\ state \in States /\ state' = Evolve(Evolve(state, e), f) /\ events # <<>>
        /\ Len(events) # 0
    BY EmptySeq DEF FoldInv, AggregateTypeOK, Append2
  <1>3. Len(events) \in Positions /\ 1 \in Positions /\ events'[Len(events)] = Last
        /\ Last.type \in {"Scheduled", "Paused"}
        /\ (f.type = "Scheduled" => Last.type = "Scheduled")
    <2>1. Len(events) \in Positions /\ 1 \in Positions
      BY <1>1, <1>2 DEF Positions
    <2> QED BY <1>1, <1>2, <2>1 DEF Grows, PlanStream, Last
  <1>4. events' # <<>> /\ events'[1].type \in {"Created", "CreatedPaused"}
    BY <1>1, <1>2, <1>3 DEF PlanStream, Grows
  <1>5. ASSUME NEW n, n = Len(events) + 1 PROVE Follow(n)'
    <2>1. n > 1 /\ events'[n - 1].type \in {"Scheduled", "Paused"} /\ events'[n] = e
      BY <1>1, <1>2, <1>3, <1>5
    <2> QED BY <2>1 DEF Follow
  <1>6. ASSUME NEW n, n = Len(events') PROVE Follow(n)'
    <2>1. n > 2 /\ n > 1 /\ n - 1 = Len(events) + 1 /\ n - 2 = Len(events) /\ events'[n] = f
      BY <1>1, <1>2, <1>6
    <2>2. f.type = "Scheduled" =>
             events'[n - 1].type = "Recorded" /\ events'[n - 2].type = "Scheduled"
      BY <1>1, <1>3, <2>1
    <2> QED BY <2>1, <2>2 DEF Follow
  <1>7. \A p \in Positions' : Follow(p)'
    BY <1>1, <1>5, <1>6, FollowKept DEF PlanStream
  <1>8. Last' = f
    BY <1>1 DEF Last
  <1>9. /\ state'.pending = IF f.type = "Scheduled" THEN f.at ELSE None
        /\ state'.phase = state.phase /\ (f.type = "Completed" => state'.completed)
    <2>1. Evolve(state, e) \in States /\ Evolve(state, e).phase = state.phase
      BY <1>2, EvolveType, EvolveFields
    <2> QED BY <1>2, <2>1, EvolveFields
  <1>10. /\ state'.pending # None => f.type \in {"Scheduled", "Paused"}
         /\ state'.phase = "enabled" /\ state'.pending # None => f.type = "Scheduled"
         /\ f.type = "Scheduled" =>
               state'.pending # None /\ state'.pending = f.at /\ state'.phase = "enabled"
         /\ Arms' => f.type \in {"Created", "Resumed"}
    BY <1>9 DEF Arms
  <1> QED BY <1>4, <1>7, <1>8, <1>10 DEF PlanStream

\* Every step of a recurrence keeps its stream of this form.
LEMMA PlanStep ==
  ASSUME FlowInv, PlanStream, [Next]_vars
  PROVE  PlanStream'
  <1> USE DEF None
  <1>1. CheckpointInv /\ AggregateTypeOK /\ FoldInv /\ state \in States
    BY DEF FlowInv, CheckpointInv, TypeOK, AggregateTypeOK
  <1>2. events = <<>> <=> state.phase = "missing"
    BY <1>1 DEF FoldInv
  <1>3. CASE UNCHANGED <<events, state>>
    BY <1>3 DEF PlanStream, Follow, Last, Arms, Positions
  <1>4. ASSUME NEW e \in Events, Append1(e), UserEvent(e) PROVE PlanStream'
    BY <1>1, <1>2, <1>4, PlanAppend1 DEF UserEvent
  <1>5. ASSUME NEW i \in Instances, Arms, Append1(NextOccurrence(run[i].now)) PROVE PlanStream'
    <2> DEFINE from == IF state.last = None THEN run[i].now ELSE state.last
    <2>1. from \in Nat /\ NextOccurrence(run[i].now) = Follows(from)
      BY <1>1, RunType DEF Runs, States, NextOccurrence
    <2> HIDE DEF from
    <2>2. Follows(from) \in Events /\ Follows(from).type \in {"Scheduled", "Completed"}
          /\ (Follows(from).type = "Scheduled" => Follows(from).at # None)
      BY <2>1, FollowsFields
    <2>3. events # <<>> /\ Append1(Follows(from))
      BY <1>2, <1>5, <2>1 DEF Arms
    <2> QED BY <1>1, <1>5, <2>2, <2>3, PlanAppend1
  <1>6. ASSUME NEW at \in wakeups, Records(at), RecordOccurrence(at) PROVE PlanStream'
    <2>1. at \in Nat /\ Event("Recorded", at) \in Events /\ Event("Recorded", at).type = "Recorded"
      BY <1>1, EventType DEF CheckpointInv, TypeOK, Event, EventTypes
    <2>2. /\ state.phase \in {"enabled", "disabled"} /\ state.pending # None /\ events # <<>>
      BY <1>1, <1>2, <1>6, <2>1 DEF Records, States
    <2>3. Follows(at) \in Events /\ Follows(at).type \in {"Scheduled", "Completed"}
          /\ (Follows(at).type = "Scheduled" => Follows(at).at # None)
      BY <2>1, FollowsFields
    <2>4. CASE state.phase = "disabled" /\ Follows(at).type = "Scheduled"
      <3>1. Append1(Event("Recorded", at))
        BY <1>6, <2>4 DEF RecordOccurrence
      <3> QED BY <1>1, <2>1, <2>2, <2>4, <3>1, PlanAppend1
    <2>5. CASE ~(state.phase = "disabled" /\ Follows(at).type = "Scheduled")
      <3>1. Append2(Event("Recorded", at), Follows(at))
        BY <1>6, <2>5 DEF RecordOccurrence
      <3> QED BY <1>1, <2>1, <2>2, <2>3, <2>5, <3>1, PlanAppend2
    <2> QED BY <2>4, <2>5
  <1> QED BY <1>3, <1>4, <1>5, <1>6, AppendCases

\* Arming an enabled recurrence appends what it plans.
LEMMA ArmAppends ==
  ASSUME CheckpointInv, NEW i \in Instances, Append1(NextOccurrence(run[i].now))
  PROVE  Len(events) \in Nat /\ Len(events') = Len(events) + 1
  <1> DEFINE from == IF state.last = None THEN run[i].now ELSE state.last
  <1>1. AggregateTypeOK /\ from \in Nat /\ NextOccurrence(run[i].now) = Follows(from)
    BY RunType DEF States, Runs, AggregateTypeOK, NextOccurrence, CheckpointInv, TypeOK
  <1> HIDE DEF from
  <1>2. Follows(from) \in Events
    BY <1>1, FollowsFields
  <1> QED BY <1>1, <1>2, Append1Grows

\* The stream only grows, and the state changes with it.
LEMMA LenGrows ==
  ASSUME FlowInv, [Next]_vars
  PROVE  /\ Len(events) \in Nat /\ Len(events') \in Nat /\ Len(events) <= Len(events')
         /\ UNCHANGED <<events, state>> \/ Len(events) < Len(events')
  <1>1. CheckpointInv /\ AggregateTypeOK /\ Len(events) \in Nat
    BY OnStream DEF FlowInv, CheckpointInv, TypeOK
  <1>2. ASSUME NEW e \in Events, Append1(e) PROVE Len(events') = Len(events) + 1
    BY <1>1, <1>2, Append1Grows
  <1>3. ASSUME NEW e \in Events, NEW f \in Events, Append2(e, f)
        PROVE  Len(events') = Len(events) + 2
    BY <1>1, <1>3, Append2Grows
  <1>4. ASSUME NEW i \in Instances, Append1(NextOccurrence(run[i].now))
        PROVE  Len(events') = Len(events) + 1
    BY <1>1, <1>4, ArmAppends
  <1>5. ASSUME NEW at \in wakeups, RecordOccurrence(at)
        PROVE  Len(events') = Len(events) + 1 \/ Len(events') = Len(events) + 2
    <2>1. at \in Nat
      BY <1>1 DEF CheckpointInv, TypeOK
    <2>2. Event("Recorded", at) \in Events /\ Follows(at) \in Events
      BY <2>1, EventType, FollowsFields DEF EventTypes
    <2> QED BY <1>2, <1>3, <1>5, <2>2 DEF RecordOccurrence
  <1>6. UNCHANGED <<events, state>> \/ Len(events') = Len(events) + 1
        \/ Len(events') = Len(events) + 2
    BY <1>2, <1>4, <1>5, AppendCases
  <1> QED BY <1>1, <1>6

\* What the broker comes to remember is the call that is made.
LEMMA WindowMoves ==
  ASSUME CheckpointInv, [Next]_vars, NEW w \in window', w \notin window
  PROVE  \E j \in Instances :
            /\ run[j].pos = w[2]
            /\ \/ w[1] = "execution" /\ Publish(j)
               \/ w[1] = "delivery" /\ Dispatch(j)
               \/ w[1] = "command" /\ Arm(j) /\ Arms
  <1>1. ASSUME NEW j \in Instances, Purge(j) PROVE w \in window
    BY <1>1 DEF Purge
  <1>2. ~ExpireWindow
    BY DEF ExpireWindow
  <1>3. \E j \in Instances : Publish(j) \/ Dispatch(j) \/ Arm(j)
    <2>1. window' = window \/ ExpireWindow
          \/ (\E j \in Instances : Purge(j) \/ Publish(j) \/ Dispatch(j) \/ Arm(j))
      BY DEF Next, Process, vars, brokerVars, Deliver, Load, Save, Resolve, Missing, Term, Ack,
             Fail, Crash, Fire, HandleWakeup
    <2> QED BY <1>1, <1>2, <2>1
  <1>4. ASSUME NEW j \in Instances, Arm(j)
        PROVE  w = <<"command", run[j].pos>> /\ Arms
    <2>1. window' = window \/ (Arms /\ Remember("command", j))
      BY <1>4 DEF Arm
    <2> QED BY <2>1 DEF Remember
  <1>5. ASSUME NEW j \in Instances, Publish(j) PROVE w = <<"execution", run[j].pos>>
    BY <1>5 DEF Publish, Remember
  <1>6. ASSUME NEW j \in Instances, Dispatch(j) PROVE w = <<"delivery", run[j].pos>>
    BY <1>6 DEF Dispatch, Remember
  <1> QED BY <1>3, <1>4, <1>5, <1>6

\* A recurrence that is to go on: enabled, not completed, and no record since it
\* was enabled was overtaken, given up on or dropped as a duplicate.
Going ==
    /\ Kind = "RRule" /\ state.phase = "enabled" /\ ~state.completed
    /\ \A p \in overtaken \cup failures \cup duplicates : ~SinceEnabled(p)

\* No change but the one that enabled it is left in its stream, no command that
\* the stream remembers is the last event's, and the calls of an instance are the
\* ones its event asks for.
GoingInv ==
    /\ state.phase = "enabled" =>
          \A p \in Positions :
              SinceEnabled(p) => events[p].type \notin {"CreatedPaused", "Paused", "Removed"}
    /\ \A w \in window : w[1] = "command" => w[2] < Len(events)
    /\ \A i \in Instances : Kind = "RRule" /\ run[i].pc \in WritingCalls =>
          /\ events[run[i].pos].type = "Scheduled" =>
                run[i].does = "Publish" /\ run[i].pc \in {"purge", "publish", "save"}
          /\ events[run[i].pos].type \in {"Created", "Resumed"} => run[i].pc \in {"arm", "save"}

\* What a record since then is settled with, and what its checkpoint says.
InOrder(i) ==
    /\ \A p \in settled : SinceEnabled(p) => p <= Current.applied
    /\ Current.applied > 0 /\ SinceEnabled(Current.applied) => Current.status = "Scheduled"
    /\ run[i].pc \in WritingCalls /\ SinceEnabled(run[i].pos) => run[i].status = "Scheduled"
    /\ run[i].pc = "ack" /\ SinceEnabled(run[i].pos) => run[i].pos <= Current.applied

\* The event at p is applied, but for its checkpoint.
Done(i, p) == p <= Current.applied \/ (run[i].pc = "save" /\ run[i].pos = p)

\* The instants that come back as a wakeup, or already did.
Awaited == wakeups \cup {m.at : m \in scheduled}

\* Once the last event is done the pending occurrence is on its way.
OnTheWay(i) ==
    events # <<>> /\ Done(i, Len(events)) =>
        ~Arms /\ (Last.type = "Scheduled" => state.pending \in Awaited)

\* A step settles, applies and processes what was on the stream before it.
LEMMA OldPositions ==
  ASSUME FlowInv, [Next]_vars
  PROVE  /\ settled' \subseteq Positions
         /\ Current'.applied \in Nat /\ Current'.applied <= Len(events)
         /\ \A i \in Instances : run'[i].pc # "idle" => run'[i].pos \in Positions
  <1>1. CheckpointInv /\ DeliveredInv
    BY DEF FlowInv
  <1>2. /\ Len(events) \in Nat /\ Len(deliveries) \in Nat /\ Len(deliveries) <= Len(events)
        /\ settled \subseteq Positions /\ Current.applied <= Len(deliveries)
        /\ \A i \in Instances : run[i].pc # "idle" => run[i].pos \in Positions
        /\ Current.applied \in Nat /\ Current'.applied \in Nat
    BY <1>1, OnStream, AppliedStep DEF DeliveredInv
  <1>3. settled' \subseteq Positions
    <2>1. ASSUME NEW i \in Instances, Ack(i) \/ Term(i) PROVE settled' \subseteq Positions
      <3>1. run[i].pc # "idle" /\ settled' = settled \cup {run[i].pos}
        BY <2>1 DEF Ack, Term, At
      <3> QED BY <1>2, <3>1
    <2> QED BY <1>1, <1>2, <2>1, DeliveredMoves
  <1>4. Current'.applied <= Len(events)
    <2>1. ASSUME NEW i \in Instances, run[i].pc = "save", Current'.applied = run[i].pos
          PROVE  Current'.applied <= Len(events)
      BY <1>2, <2>1 DEF Positions
    <2>2. Current.applied <= Len(events)
      BY <1>2
    <2> QED BY <1>1, <2>1, <2>2, CurrentMoves
  <1>5. ASSUME NEW i \in Instances, run'[i].pc # "idle" PROVE run'[i].pos \in Positions
    <2>1. CASE run'[i] = run[i]
      BY <1>2, <1>5, <2>1
    <2>2. CASE Load(i)
      BY <1>1, <2>2, LoadFields
    <2>3. CASE Goes(i)
      BY <1>2, <2>3 DEF Goes, WritingCalls
    <2>4. run'[i] # Idle
      BY <1>5 DEF Idle
    <2> QED BY <1>1, <2>1, <2>2, <2>3, <2>4, Moves
  <1> QED BY <1>2, <1>3, <1>4, <1>5

\* The events a step appends either leave the last enabling where it is, or are
\* an enabling themselves.
LEMMA EnablingStep ==
  ASSUME FlowInv, RecurrenceStream, [Next]_vars, state'.phase = "enabled"
  PROVE  \/ /\ state.phase = "enabled"
            /\ state.completed => state'.completed
            /\ \A p \in Nat : SinceEnabled(p)' <=> SinceEnabled(p)
            /\ \A p \in Positions' : p \in Positions
                  \/ events'[p].type \in {"Recorded", "Scheduled", "Completed"}
         \/ /\ Len(events) < Len(events')
            /\ \A p \in Positions' : p \in Positions \/ events'[p].type \in {"Created", "Resumed"}
            /\ \A p \in Nat : p <= Len(events) => ~SinceEnabled(p)'
  <1> USE DEF None
  <1> DEFINE Steady == /\ state.phase = "enabled"
                       /\ state.completed => state'.completed
                       /\ \A p \in Nat : SinceEnabled(p)' <=> SinceEnabled(p)
                       /\ \A p \in Positions' : p \in Positions
                             \/ events'[p].type \in {"Recorded", "Scheduled", "Completed"}
             Enabling == /\ Len(events) < Len(events')
                         /\ \A p \in Positions' :
                               p \in Positions \/ events'[p].type \in {"Created", "Resumed"}
                         /\ \A p \in Nat : p <= Len(events) => ~SinceEnabled(p)'
  <1>1. CheckpointInv /\ AggregateTypeOK /\ state \in States /\ FoldInv /\ Len(events) \in Nat
    BY OnStream DEF FlowInv, CheckpointInv, TypeOK, AggregateTypeOK
  <1>2. CASE UNCHANGED <<events, state>>
    BY <1>2 DEF SinceEnabled, Positions
  <1>3. ASSUME state.phase = "enabled", state.completed => state'.completed, Grows,
               \A p \in Positions' : p \in Positions
                  \/ events'[p].type \in {"Recorded", "Scheduled", "Completed"}
        PROVE  Steady
    BY <1>3 DEF SinceEnabled, Grows
  <1>4. ASSUME NEW e \in Events, Append1(e), e.type \in {"Recorded", "Scheduled", "Completed"},
               state.phase = "enabled"
        PROVE  Steady
    <2>1. Grows /\ \A p \in Positions' : p \in Positions \/ events'[p] = e
      BY <1>1, <1>4, Append1Grows
    <2>2. state.completed => state'.completed
      BY <1>1, <1>4, Append1Fold, EvolveFields DEF Events
    <2> QED BY <1>3, <1>4, <2>1, <2>2
  <1>5. ASSUME NEW e \in Events, Append1(e), UserEvent(e) PROVE Enabling
    <2>1. /\ Grows /\ Len(events') = Len(events) + 1 /\ events'[Len(events')] = e
          /\ \A p \in Positions' : p \in Positions \/ p = Len(events')
      BY <1>1, <1>5, Append1Grows
    <2>2. e.type \in {"Created", "Resumed"}
      <3>1. state' = Evolve(state, e) /\ e.type \in EventTypes
        BY <1>1, <1>5, Append1Fold DEF Events
      <3>2. e.type \in {"CreatedPaused", "Paused", "Removed"} => state'.phase # "enabled"
        BY <1>1, <3>1, EvolveFields
      <3> QED BY <1>5, <3>1, <3>2 DEF UserEvent, EventTypes
    <2>3. ASSUME NEW p \in Nat, p <= Len(events) PROVE ~SinceEnabled(p)'
      <3>1. Len(events') \in Positions' /\ p < Len(events')
        BY <1>1, <2>1, <2>3 DEF Positions
      <3> QED BY <2>1, <2>2, <3>1 DEF SinceEnabled
    <2> QED BY <1>1, <2>1, <2>2, <2>3
  <1>6. ASSUME NEW i \in Instances, Arms, Append1(NextOccurrence(run[i].now)) PROVE Steady
    <2> DEFINE from == IF state.last = None THEN run[i].now ELSE state.last
    <2>1. from \in Nat /\ NextOccurrence(run[i].now) = Follows(from)
      BY <1>1, RunType DEF Runs, States, NextOccurrence
    <2> HIDE DEF from
    <2>2. Follows(from) \in Events /\ Follows(from).type \in {"Scheduled", "Completed"}
      BY <2>1, FollowsFields
    <2> QED BY <1>4, <1>6, <2>1, <2>2 DEF Arms
  <1>7. ASSUME NEW at \in wakeups, Records(at), RecordOccurrence(at) PROVE Steady
    <2> DEFINE r == Event("Recorded", at)
               f == Follows(at)
    <2>1. /\ at \in Nat /\ r \in Events /\ r.type = "Recorded"
          /\ f \in Events /\ f.type \in {"Scheduled", "Completed"}
      <3>1. at \in Nat
        BY <1>1, <1>7 DEF CheckpointInv, TypeOK
      <3> QED BY <3>1, EventType, FollowsFields DEF Event, EventTypes
    <2>2. Append1(r) \/ Append2(r, f)
      BY <1>7 DEF RecordOccurrence
    <2> HIDE DEF r, f
    <2>3. CASE Append1(r)
      <3>1. state.phase = "enabled"
        BY <1>1, <2>1, <2>3, Append1Fold, EvolveFields
      <3> QED BY <1>4, <2>1, <2>3, <3>1
    <2>4. CASE Append2(r, f)
      <3>1. /\ Grows /\ events'[Len(events) + 1] = r /\ events'[Len(events')] = f
            /\ \A p \in Positions' : p \in Positions \/ p = Len(events) + 1 \/ p = Len(events')
        BY <1>1, <2>1, <2>4, Append2Grows
      <3>2. /\ Evolve(state, r) \in States /\ Evolve(state, r).phase = state.phase
            /\ (state.completed => Evolve(state, r).completed)
        BY <1>1, <2>1, EvolveType, EvolveFields
      <3>3. /\ state' = Evolve(Evolve(state, r), f) /\ state'.phase = Evolve(state, r).phase
            /\ (Evolve(state, r).completed => state'.completed)
        BY <2>1, <2>4, <3>2, EvolveFields DEF Append2
      <3> QED BY <1>3, <2>1, <3>1, <3>2, <3>3
    <2> QED BY <2>2, <2>3, <2>4
  <1>8. Steady \/ Enabling
    <2>1. Steady \/ UNCHANGED <<events, state>> \/ Enabling
      BY <1>5, <1>6, <1>7, AppendCases
    <2> QED BY <1>2, <2>1
  <1> QED BY <1>8

\* A recurrence that is to go on was so before, or was just enabled.
LEMMA GoingStep ==
  ASSUME FlowInv, RecurrenceStream, [Next]_vars, Going'
  PROVE  \/ Going /\ \A p \in Nat : SinceEnabled(p)' <=> SinceEnabled(p)
         \/ Len(events) < Len(events') /\ \A p \in Nat : p <= Len(events) => ~SinceEnabled(p)'
  <1>1. CheckpointInv /\ Kind' = Kind
    BY GrowsStep DEF FlowInv
  <1>2. failures \subseteq failures' /\ overtaken \subseteq overtaken'
        /\ duplicates \subseteq duplicates'
    BY <1>1, HistoryGrows
  <1>3. overtaken \subseteq Nat /\ failures \subseteq Nat /\ duplicates \subseteq Nat
    BY <1>1 DEF CheckpointInv, TypeOK
  <1>4. ASSUME state.phase = "enabled", state.completed => state'.completed,
               \A p \in Nat : SinceEnabled(p)' <=> SinceEnabled(p)
        PROVE  Going
    BY <1>1, <1>2, <1>3, <1>4 DEF Going
  <1>5. state'.phase = "enabled"
    BY DEF Going
  <1> QED BY <1>4, <1>5, EnablingStep


\* What is appended while enabled is an occurrence, what the streams remember comes
\* before it, and each call is followed by the next one of its event.
LEMMA GoingInvStep ==
  ASSUME FlowInv, RecurrenceStream, GoingInv, [Next]_vars
  PROVE  GoingInv'
  <1>1. CheckpointInv /\ Grows /\ Kind' = Kind
    BY GrowsStep DEF FlowInv
  <1>2. /\ Len(events) \in Nat /\ Len(events') \in Nat /\ Len(events) <= Len(events')
    BY LenGrows
  <1>3. ASSUME state'.phase = "enabled", NEW p \in Positions', SinceEnabled(p)'
        PROVE  events'[p].type \notin {"CreatedPaused", "Paused", "Removed"}
    <2>1. p \in Nat
      BY <1>2, <1>3 DEF Positions
    <2>2. CASE p \in Positions
      <3>1. p <= Len(events)
        BY <1>2, <2>2 DEF Positions
      <3>2. state.phase = "enabled" /\ SinceEnabled(p)
        BY <1>3, <2>1, <3>1, EnablingStep
      <3> QED BY <1>1, <2>2, <3>2 DEF GoingInv, Grows
    <2>3. CASE p \notin Positions
      BY <1>3, <2>3, EnablingStep
    <2> QED BY <2>2, <2>3
  <1>4. ASSUME NEW w \in window', w[1] = "command" PROVE w[2] < Len(events')
    <2>1. CASE w \in window
      <3>1. w[2] < Len(events) /\ w[2] \in Nat
        BY <1>1, <1>4, <2>1 DEF GoingInv, CheckpointInv, TypeOK
      <3> QED BY <1>2, <3>1
    <2>2. CASE w \notin window
      <3>1. PICK j \in Instances : Arm(j) /\ run[j].pos = w[2] /\ Arms
        BY <1>1, <1>4, <2>2, WindowMoves
      <3>2. run[j].pc = "arm"
        BY <3>1 DEF Arm, At
      <3>3. w[2] \in Positions
        BY <3>1, <3>2, OnStream
      <3>4. w = <<"command", run[j].pos>>
        <4>1. window' = window \/ Remember("command", j)
          BY <3>1 DEF Arm
        <4> QED BY <2>2, <4>1 DEF Remember
      <3>5. Append1(NextOccurrence(run[j].now))
        BY <2>2, <3>1, <3>4, <1>2, <3>3, Zenon DEF Arm, Publishes, Arms
      <3>6. Len(events') = Len(events) + 1
        BY <1>1, <3>5, ArmAppends
      <3>7. Len(events) < Len(events')
        BY <1>2, <3>6
      <3> QED BY <1>2, <3>3, <3>7 DEF Positions
    <2> QED BY <2>1, <2>2
  <1>5. ASSUME NEW j \in Instances, Kind' = "RRule", run'[j].pc \in WritingCalls
        PROVE  /\ events'[run'[j].pos].type = "Scheduled" =>
                     run'[j].does = "Publish" /\ run'[j].pc \in {"purge", "publish", "save"}
               /\ events'[run'[j].pos].type \in {"Created", "Resumed"} =>
                     run'[j].pc \in {"arm", "save"}
    <2>1. run'[j].pos \in Positions /\ Kind = "RRule"
      BY <1>1, <1>5, OldPositions DEF WritingCalls
    <2>2. events'[run'[j].pos] = events[run'[j].pos]
      BY <1>1, <2>1 DEF Grows
    <2>3. CASE run'[j] = run[j]
      BY <1>5, <2>1, <2>2, <2>3 DEF GoingInv
    <2>4. CASE Load(j)
      BY <1>1, <1>5, <2>1, <2>2, <2>4, LoadOutcome DEF WritingCalls
    <2>5. CASE Goes(j) /\ run'[j] # run[j]
      <3>1. run'[j].pos = run[j].pos /\ run'[j].does = run[j].does
        BY <2>5 DEF Goes
      <3>2. \/ run[j].pc = "purge" /\ run'[j].pc = IF run[j].does = "Publish" THEN "publish"
                                                     ELSE "save"
            \/ run[j].pc \in {"publish", "dispatch", "arm"} /\ run'[j].pc = "save"
        BY <1>1, <1>5, <2>5, NextCallIs
      <3> QED BY <2>1, <2>2, <3>1, <3>2 DEF GoingInv, WritingCalls
    <2>6. run'[j] # Idle
      BY <1>5 DEF Idle, WritingCalls
    <2> QED BY <1>1, <2>3, <2>4, <2>5, <2>6, Moves
  <1> QED BY <1>3, <1>4, <1>5 DEF GoingInv

\* A record since the enabling that the checkpoint has not reached is applied, with
\* a schedule that is on, or given up on: nothing before it is left open.
LEMMA LoadGoing ==
  ASSUME FlowInv, RecurrenceStream, PlanStream, GoingInv, NEW i \in Instances, InOrder(i),
         Going, [Next]_vars, Going', Load(i), NEW p, p = run'[i].pos, SinceEnabled(p),
         Current.applied < p
  PROVE  \/ run'[i].pc \in WritingCalls /\ run'[i].status = "Scheduled"
         \/ run'[i].pc = "missing"
  <1>1. /\ CheckpointInv /\ p \in Positions /\ p \in Nat /\ Len(events) \in Nat
        /\ Current.applied \in Nat
    BY LoadFields, OnStream, CheckpointType DEF FlowInv, CheckpointInv, Positions
  <1>2. /\ Kind = "RRule" /\ state.phase = "enabled" /\ ~state.completed
    BY DEF Going
  <1>3. events[p].type \in {"Created", "Resumed", "Recorded", "Scheduled"}
    <2>1. events[p].type \in EventTypes
      <3>1. events \in Seq(Events)
        BY <1>1 DEF CheckpointInv, TypeOK, AggregateTypeOK
      <3>2. events[p] \in Events
        BY <1>1, <3>1, ElementOfSeq DEF Positions
      <3> QED BY <3>2 DEF Events
    <2>2. events[p].type \notin {"CreatedPaused", "Paused", "Removed"}
      BY <1>1, <1>2 DEF GoingInv
    <2>3. events[p].type # "Completed"
      BY <1>1, <1>2 DEF RecurrenceStream
    <2> QED BY <2>1, <2>2, <2>3 DEF EventTypes
  <1>4. ASSUME events[p].type \in {"Recorded", "Scheduled"} PROVE Current.status = "Scheduled"
    <2>1. p > 1
      BY <1>1, <1>4 DEF PlanStream, Follow
    <2>2. PICK q \in Nat : q = p - 1
      BY <1>1, <2>1
    <2>3. q \in Positions /\ q < p /\ q > 0
      BY <1>1, <2>1, <2>2 DEF Positions
    <2>4. SinceEnabled(q)
      <3> SUFFICES ASSUME NEW r \in Positions, q < r
                   PROVE  events[r].type \notin {"Created", "Resumed"}
        BY DEF SinceEnabled
      <3>1. r \in Nat
        BY <1>1 DEF Positions
      <3>2. r = p \/ p < r
        BY <1>1, <2>2, <3>1
      <3> QED BY <1>4, <3>2 DEF SinceEnabled
    <2>5. q \in settled => q <= Current.applied
      BY <2>4 DEF InOrder
    <2>6. q \notin overtaken'
      <3>1. UNCHANGED <<events, state>>
        BY DEF Load, aggregateVars
      <3> QED BY <2>4, <3>1 DEF Going, SinceEnabled, Positions
    <2>7. q \notin Open(p)
      <3>1. Head(lane[i]).pos = p
        BY <1>1, LoadFields
      <3>2. Open(p) \subseteq overtaken'
        BY <3>1 DEF Load
      <3> QED BY <2>6, <3>2
    <2>8. q <= Current.applied
      BY <1>1, <2>3, <2>5, <2>7 DEF Open
    <2>9. q = Current.applied
      BY <1>1, <2>2, <2>8
    <2> QED BY <2>3, <2>4, <2>9 DEF InOrder
  <1> QED BY <1>1, <1>2, <1>3, <1>4, LoadOutcome DEF WritingCalls


\* Every step keeps the records of a recurrence that is to go on in order.
LEMMA InOrderStep ==
  ASSUME NEW i, Instances = {i}, FlowInv, Alone, RecurrenceStream, PlanStream, GoingInv,
         Going => InOrder(i), [Next]_vars, Going'
  PROVE  InOrder(i)'
  <1>1. CheckpointInv /\ DeliveredInv /\ i \in Instances /\ \A j \in Instances : j = i
    BY DEF FlowInv
  <1>2. /\ settled' \subseteq Positions /\ Current'.applied \in Nat
        /\ Current'.applied <= Len(events) /\ Len(events) \in Nat
        /\ run'[i].pc # "idle" => run'[i].pos \in Positions
        /\ run[i].pc # "idle" => run[i].pos \in Positions
        /\ Current.applied \in Nat /\ Current.applied <= Current'.applied
        /\ \A p \in settled : p \in Nat
    BY <1>1, OldPositions, OnStream, AppliedStep
  <1>3. \A p \in Positions : p \in Nat /\ p <= Len(events)
    BY <1>2 DEF Positions
  <1> DEFINE Ordered ==
        /\ \A p \in settled' : SinceEnabled(p)' => p <= Current'.applied
        /\ \A p \in Nat : p = Current'.applied /\ p > 0 /\ SinceEnabled(p)' =>
              Current'.status = "Scheduled"
        /\ \A p \in Nat : p = run'[i].pos /\ SinceEnabled(p)' =>
              /\ run'[i].pc \in WritingCalls => run'[i].status = "Scheduled"
              /\ run'[i].pc = "ack" => p <= Current'.applied
  <1>4. ASSUME \A p \in Nat : p <= Len(events) => ~SinceEnabled(p)' PROVE Ordered
    <2>1. ASSUME NEW p \in settled' PROVE ~SinceEnabled(p)'
      BY <1>2, <1>3, <1>4, <2>1
    <2>2. ASSUME NEW p \in Nat, p = Current'.applied PROVE ~SinceEnabled(p)'
      BY <1>2, <1>4, <2>2
    <2>3. ASSUME NEW p \in Nat, p = run'[i].pos, run'[i].pc # "idle" PROVE ~SinceEnabled(p)'
      BY <1>2, <1>3, <1>4, <2>3
    <2> QED BY <2>1, <2>2, <2>3 DEF WritingCalls
  <1>5. ASSUME Going, \A p \in Nat : SinceEnabled(p)' <=> SinceEnabled(p) PROVE Ordered
    <2>1. InOrder(i)
      BY <1>5
    <2>2. ASSUME NEW p \in settled', SinceEnabled(p)' PROVE p <= Current'.applied
      <3>1. p \in Nat /\ SinceEnabled(p)
        BY <1>2, <1>3, <1>5, <2>2
      <3>2. CASE p \in settled
        <4>1. p <= Current.applied
          BY <2>1, <3>1, <3>2 DEF InOrder
        <4> QED BY <1>2, <3>1, <4>1
      <3>3. CASE p \notin settled
        <4>1. /\ run[i].pos = p
              /\ run[i].pc = "ack" \/ run[i].pc = "term"
          <5>1. Ack(i) \/ Term(i)
            BY <1>1, <3>3, <2>2, DeliveredMoves
          <5> QED BY <2>2, <3>3, <5>1 DEF Ack, Term, At
        <4>2. run[i].pc # "term"
          <5>1. run[i].pc = "term" => p \in failures
            BY <1>1, <4>1 DEF DeliveredInv, HeldInv
          <5> QED BY <1>5, <3>1, <5>1 DEF Going
        <4>3. p <= Current.applied
          BY <2>1, <3>1, <4>1, <4>2 DEF InOrder
        <4> QED BY <1>2, <3>1, <4>3
      <3> QED BY <3>2, <3>3
    <2>3. ASSUME NEW p \in Nat, p = Current'.applied, p > 0, SinceEnabled(p)'
          PROVE  Current'.status = "Scheduled"
      <3>1. SinceEnabled(p)
        BY <1>5, <2>3
      <3>2. CASE Current' = Current
        BY <2>1, <2>3, <3>1, <3>2 DEF InOrder
      <3>3. CASE run[i].pc = "save" /\ Current'.applied = run[i].pos
                 /\ Current'.status = run[i].status
        <4>1. run[i].pos = p /\ run[i].pc \in WritingCalls
          BY <2>3, <3>3 DEF WritingCalls
        <4> QED BY <2>1, <3>1, <3>3, <4>1 DEF InOrder
      <3> QED BY <1>1, <3>2, <3>3, CurrentMoves
    <2>4. ASSUME Load(i), NEW p \in Nat, p = run'[i].pos, SinceEnabled(p), Current.applied < p
          PROVE  \/ run'[i].pc \in WritingCalls /\ run'[i].status = "Scheduled"
                 \/ run'[i].pc = "missing"
      BY <1>1, <1>5, <2>1, <2>4, LoadGoing
    <2>5. ASSUME NEW p \in Nat, p = run'[i].pos, SinceEnabled(p)', run'[i].pc \in WritingCalls
          PROVE  run'[i].status = "Scheduled"
      <3>1. SinceEnabled(p)
        BY <1>5, <2>5
      <3>2. CASE run'[i] = run[i]
        BY <2>1, <2>5, <3>1, <3>2 DEF InOrder
      <3>3. CASE Load(i)
        <4>1. Current.applied < p
          BY <1>1, <2>5, <3>3, LoadOutcome DEF WritingCalls
        <4> QED BY <2>4, <2>5, <3>1, <3>3, <4>1 DEF WritingCalls
      <3>4. CASE Goes(i)
        <4>1. run[i].pc \in WritingCalls /\ run[i].pos = p /\ run'[i].status = run[i].status
          BY <1>1, <2>5, <3>4 DEF Goes, Alone, WritingCalls
        <4> QED BY <2>1, <3>1, <4>1 DEF InOrder
      <3>5. run'[i] # Idle
        BY <2>5 DEF Idle, WritingCalls
      <3> QED BY <1>1, <3>2, <3>3, <3>4, <3>5, Moves
    <2>6. ASSUME NEW p \in Nat, p = run'[i].pos, SinceEnabled(p)', run'[i].pc = "ack"
          PROVE  p <= Current'.applied
      <3>1. SinceEnabled(p)
        BY <1>5, <2>6
      <3>2. CASE run'[i] = run[i]
        <4>1. p <= Current.applied
          BY <2>1, <2>6, <3>1, <3>2 DEF InOrder
        <4> QED BY <1>2, <4>1
      <3>3. CASE Load(i)
        <4>1. ~(Current.applied < p)
          BY <2>4, <2>6, <3>1, <3>3 DEF WritingCalls
        <4> QED BY <1>2, <4>1
      <3>4. CASE Goes(i) /\ (Current'.applied = run[i].pos \/ Current.applied >= run[i].pos)
        <4>1. run[i].pos = p
          BY <2>6, <3>4 DEF Goes
        <4> QED BY <1>2, <3>4, <4>1
      <3> QED BY <1>1, <2>6, <3>2, <3>3, <3>4, AckBy
    <2> QED BY <2>2, <2>3, <2>5, <2>6
  <1>6. Ordered
    <2> HIDE DEF Ordered
    <2> QED BY <1>4, <1>5, GoingStep
  <1>7. run'[i].pc \in WritingCalls \cup {"ack"} => run'[i].pos \in Nat
    BY <1>2, <1>3 DEF WritingCalls
  <1> QED BY <1>2, <1>6, <1>7 DEF InOrder, SinceEnabled

\* The pending occurrence stays on its way until it is recorded: nothing purges its
\* message once the last event is done.
LEMMA AwaitedKept ==
  ASSUME NEW i, Instances = {i}, Kind = "RRule", FlowInv, Alone, PlanStream,
         NEW n, n = Len(events), Done(i, n), Last.type = "Scheduled", events # <<>>,
         [Next]_vars, UNCHANGED <<events, state>>, state.pending \in Awaited
  PROVE  state.pending \in Awaited'
  <1> USE DEF None
  <1>1. /\ CheckpointInv /\ FoldInv /\ i \in Instances /\ \A j \in Instances : j = i
        /\ state \in States /\ Len(events) \in Nat
    BY OnStream DEF FlowInv, CheckpointInv, TypeOK, AggregateTypeOK
  <1>2. CASE state.pending \in wakeups
    <2> SUFFICES ASSUME state.pending \notin wakeups' PROVE FALSE
      BY DEF Awaited
    <2>1. PICK at \in wakeups : HandleWakeup(at) /\ wakeups' = wakeups \ {at}
      BY <1>2 DEF Next, Process, vars, brokerVars, Deliver, Load, Save, Resolve, Missing, Term, Ack,
         Fail, Crash, Fire, HandleWakeup, Purge, Publish, Dispatch, Arm, ExpireWindow
    <2>2. at = state.pending
      BY <1>2, <2>1
    <2>3. Records(at)
      <3>1. state.phase = "enabled" /\ state.pending # 0
        BY DEF PlanStream
      <3>2. state.last # 0 => state.pending = state.last + 1
        BY <1>1, <3>1 DEF FoldInv
      <3> QED BY <1>1, <2>2, <3>1, <3>2 DEF Records, States
    <2>4. at \in Nat /\ RecordOccurrence(at)
      BY <1>1, <2>1, <2>3 DEF HandleWakeup, CheckpointInv, TypeOK
    <2>5. Event("Recorded", at) \in Events /\ Follows(at) \in Events
      BY <2>4, EventType, FollowsFields DEF EventTypes
    <2>6. AggregateTypeOK
      BY <1>1 DEF CheckpointInv, TypeOK
    <2>7. Len(events') = Len(events) + 1 \/ Len(events') = Len(events) + 2
      BY <2>4, <2>5, <2>6, Append1Grows, Append2Grows DEF RecordOccurrence
    <2> QED BY <1>1, <2>7
  <1>3. ASSUME NEW m \in scheduled, state.pending = m.at PROVE state.pending \in Awaited'
    <2> SUFFICES ASSUME m \notin scheduled', m.at \notin wakeups' PROVE FALSE
      BY <1>3 DEF Awaited
    <2>1. \A q \in scheduled : Fire(q) => scheduled' = scheduled \ {q} /\ q.at \in wakeups'
      BY DEF Fire
    <2>2. Purge(i)
      <3>1. scheduled' = scheduled \/ (\E q \in scheduled : Fire(q))
            \/ (\E j \in Instances : Purge(j) \/ Publish(j))
        BY DEF Next, Process, vars, brokerVars, Deliver, Load, Save, Resolve, Missing, Term, Ack,
           Fail, Crash, HandleWakeup, Dispatch, Arm, ExpireWindow
      <3>2. \A j \in Instances : Publish(j) => scheduled \subseteq scheduled'
        BY DEF Publish
      <3> QED BY <1>1, <2>1, <3>1, <3>2
    <2>3. run[i].pc = "purge" /\ run[i].pc \in WritingCalls
      BY <2>2 DEF Purge, At, WritingCalls
    <2>4. Current.applied < run[i].pos /\ run[i].pos \in Positions
      BY <1>1, <2>3, OnStream, AheadAlone
    <2>5. n <= Current.applied
      BY <2>3 DEF Done
    <2>6. Current.applied \in Nat /\ run[i].pos \in Nat /\ run[i].pos <= n
      BY <1>1, <2>4, CheckpointType DEF CheckpointInv, Positions
    <2> QED BY <1>1, <2>4, <2>5, <2>6
  <1> QED BY <1>2, <1>3 DEF Awaited

\* The last event, when it becomes done, leaves the pending occurrence on its way.
LEMMA ComesOnTheWay ==
  ASSUME NEW i, Instances = {i}, FlowInv, Alone, PlanStream, GoingInv, Going, Going',
         [Next]_vars, UNCHANGED <<events, state>>, events # <<>>,
         NEW n \in Nat \ {0}, n = Len(events), ~Done(i, n), Done(i, n)'
  PROVE  ~Arms /\ (Last.type = "Scheduled" => state.pending \in Awaited')
  <1>1. /\ CheckpointInv /\ i \in Instances /\ Last = events[n] /\ n \in Positions
        /\ \A j \in Instances : j = i
    BY DEF FlowInv, Last, Positions
  <1>2. SinceEnabled(n) /\ SinceEnabled(n)'
    BY DEF SinceEnabled, Positions
  <1>3. Last.type \in {"Created", "Resumed", "Scheduled"}
    <2>1. Arms => Last.type \in {"Created", "Resumed"}
      BY DEF PlanStream
    <2>2. ~Arms => Last.type = "Scheduled"
      BY DEF PlanStream, Arms, Going
    <2> QED BY <2>1, <2>2
  <1>4. /\ Current.applied \in Nat /\ Current'.applied \in Nat
        /\ run[i].pc # "idle" => run[i].pos \in Positions
    BY <1>1, AppliedStep, OnStream
  <1>5. run'[i].pc = "save" /\ run'[i].pos = n /\ run'[i] # run[i]
    <2>1. CASE Current' = Current
      BY <2>1 DEF Done
    <2>2. CASE run[i].pc = "save" /\ Current'.applied = run[i].pos /\ run'[i].pc = "ack"
      <3>1. n <= run[i].pos /\ run[i].pos # n
        BY <2>2 DEF Done
      <3>2. run[i].pos \in Nat /\ run[i].pos <= n
        BY <1>4, <2>2 DEF Positions
      <3> QED BY <3>1, <3>2
    <2> QED BY <1>1, <2>1, <2>2, CurrentMoves
  <1>6. ~Load(i)
    <2> SUFFICES ASSUME Load(i) PROVE FALSE OBVIOUS
    <2>1. events[n].type = "CreatedPaused"
      BY <1>1, <1>5, LoadOutcome DEF Going
    <2> QED BY <1>1, <1>3, <2>1
  <1>7. Goes(i)
    BY <1>1, <1>5, <1>6, Moves DEF Idle
  <1>8. /\ run[i].pos = n
        /\ \/ Purge(i) /\ run[i].pc = "purge" /\ run[i].does # "Publish"
           \/ Publish(i) /\ run[i].pc = "publish"
           \/ Dispatch(i) /\ run[i].pc = "dispatch"
           \/ Arm(i) /\ run[i].pc = "arm"
    <2>1. run[i].pos = n /\ run'[i].pc \in WritingCalls
      BY <1>5, <1>7 DEF Goes, WritingCalls
    <2> QED BY <1>1, <1>5, <1>7, <2>1, NextCallIs
  <1>9. /\ Last.type = "Scheduled" =>
              run[i].does = "Publish" /\ run[i].pc \in {"purge", "publish", "save"}
        /\ Last.type \in {"Created", "Resumed"} => run[i].pc \in {"arm", "save"}
    BY <1>1, <1>8 DEF GoingInv, Going, WritingCalls
  <1>10. CASE Publish(i) /\ run[i].pc = "publish"
    <2>1. Last.type = "Scheduled"
      BY <1>3, <1>9, <1>10
    <2>2. state.pending = events[n].at /\ state.pending # None
      BY <1>1, <2>1 DEF PlanStream
    <2>3. n \notin duplicates'
      BY <1>2 DEF Going
    <2>4. [pos |-> n, at |-> events[n].at] \in scheduled'
      BY <1>8, <1>10, <2>3 DEF Publish
    <2> QED BY <2>2, <2>4 DEF Awaited, Arms
  <1>11. CASE Arm(i) /\ run[i].pc = "arm"
    <2>1. Last.type # "Scheduled"
      BY <1>9, <1>11
    <2>2. ~Arms
      <3> SUFFICES ASSUME Arms PROVE FALSE OBVIOUS
      <3>1. <<"command", n>> \notin window
        BY DEF GoingInv
      <3>2. Append1(NextOccurrence(run[i].now))
        BY <1>8, <1>11, <3>1 DEF Arm, Publishes, Arms
      <3>3. Len(events') = Len(events) + 1
        BY <1>1, <3>2, ArmAppends
      <3> QED BY <3>3
    <2> QED BY <2>1, <2>2
  <1>12. CASE run[i].pc = "dispatch" \/ (run[i].pc = "purge" /\ run[i].does # "Publish")
    BY <1>3, <1>9, <1>12
  <1> QED BY <1>8, <1>10, <1>11, <1>12

\* Every step keeps the pending occurrence on its way.
LEMMA OnTheWayStep ==
  ASSUME NEW i, Instances = {i}, FlowInv, Alone, RecurrenceStream, PlanStream, GoingInv,
         Going => OnTheWay(i), [Next]_vars, Going'
  PROVE  OnTheWay(i)'
  <1>1. CheckpointInv /\ i \in Instances
    BY DEF FlowInv
  <1>2. /\ Len(events) \in Nat /\ Len(events') \in Nat /\ Len(events) <= Len(events')
        /\ UNCHANGED <<events, state>> \/ Len(events) < Len(events')
    BY LenGrows
  <1>3. ASSUME events' # <<>>, NEW n, n = Len(events'), Done(i, n)'
        PROVE  (~Arms)' /\ (Last'.type = "Scheduled" => state'.pending \in Awaited')
    <2>1. n \in Nat \ {0}
      <3>1. events' \in Seq(Events)
        BY <1>1, CheckpointStep DEF CheckpointInv, TypeOK, AggregateTypeOK
      <3> QED BY <1>2, <1>3, <3>1, EmptySeq
    <2>2. n <= Len(events)
      <3>1. Current'.applied \in Nat /\ Current'.applied <= Len(events)
        BY OldPositions
      <3>2. run'[i].pc = "save" => run'[i].pos \in Positions
        BY <1>1, OldPositions
      <3>3. CASE n <= Current'.applied
        BY <1>2, <2>1, <3>1, <3>3
      <3>4. CASE run'[i].pc = "save" /\ run'[i].pos = n
        BY <1>2, <3>2, <3>4 DEF Positions
      <3> QED BY <1>3, <3>3, <3>4 DEF Done
    <2>3. UNCHANGED <<events, state>> /\ n = Len(events) /\ events # <<>>
      BY <1>2, <1>3, <2>1, <2>2
    <2>4. Going
      <3>1. ~(Len(events) < Len(events'))
        BY <1>2, <2>3
      <3> QED BY <3>1, GoingStep
    <2>5. ~Arms /\ (Last.type = "Scheduled" => state.pending \in Awaited')
      <3>1. CASE Done(i, n)
        <4>1. ~Arms /\ (Last.type = "Scheduled" => state.pending \in Awaited)
          BY <2>3, <2>4, <3>1 DEF OnTheWay
        <4>2. Kind = "RRule"
          BY <2>4 DEF Going
        <4> QED BY <2>3, <3>1, <4>1, <4>2, AwaitedKept
      <3>2. CASE ~Done(i, n)
        BY <1>3, <2>1, <2>3, <2>4, <3>2, ComesOnTheWay
      <3> QED BY <3>1, <3>2
    <2> QED BY <2>3, <2>5 DEF Arms, Last
  <1>4. events' # <<>> /\ Done(i, Len(events))' =>
           (~Arms)' /\ (Last'.type = "Scheduled" => state'.pending \in Awaited')
    BY <1>3 DEF Done
  <1> QED BY <1>4 DEF OnTheWay

\* An enabled recurrence that is not completed goes on, whatever fails, crashes, is lost
\* or is delivered again: with one instance, its pending occurrence is in a scheduled
\* message or a wakeup once its events are applied, unless a record since it was last
\* enabled was overtaken, given up on or dropped as a duplicate (reconcile.rs).
THEOREM RecurrenceGoesOn ==
  ASSUME NEW i, Instances = {i}
  PROVE  Spec => []RecurrenceAlive
  <1> DEFINE Inv == /\ Alone /\ PlanStream /\ GoingInv
                    /\ Going => InOrder(i) /\ OnTheWay(i)
  <1>1. Init => Inv
    <2> SUFFICES ASSUME Init PROVE Inv OBVIOUS
    <2>1. /\ events = <<>> /\ Len(events) = 0 /\ window = {} /\ state.phase = "missing"
          /\ \A j \in Instances : run[j] = Idle
      BY DEF Init, AggregateInit
    <2>2. \A j \in Instances : run[j].pc = "idle"
      BY <2>1 DEF Idle
    <2>3. Alone
      BY <2>2 DEF Alone, WritingCalls
    <2>4. PlanStream
      BY <2>1 DEF PlanStream, Positions
    <2>5. GoingInv
      BY <2>1, <2>2 DEF GoingInv, WritingCalls
    <2>6. ~Going
      BY <2>1 DEF Going
    <2> QED BY <2>3, <2>4, <2>5, <2>6
  <1>2. FlowInv /\ RecurrenceStream /\ Inv /\ [Next]_vars => Inv'
    <2> SUFFICES ASSUME FlowInv, RecurrenceStream, Inv, [Next]_vars PROVE Inv' OBVIOUS
    <2>1. Alone' /\ PlanStream' /\ GoingInv'
      BY AloneStep, PlanStep, GoingInvStep DEF FlowInv
    <2>2. Going' => InOrder(i)' /\ OnTheWay(i)'
      BY InOrderStep, OnTheWayStep
    <2> QED BY <2>1, <2>2
  <1>3. FlowInv /\ Inv => RecurrenceAlive
    <2> SUFFICES ASSUME FlowInv, Inv, Quiet, Going
                 PROVE  state.pending # None /\ state.pending \in Awaited
      BY DEF RecurrenceAlive, Awaited, Going
    <2>1. events # <<>> /\ Len(events) \in Nat /\ Len(events) # 0
      BY OnStream, EmptySeq
         DEF Going, FlowInv, FoldInv, CheckpointInv, TypeOK, AggregateTypeOK
    <2>2. Len(events) \in settled /\ SinceEnabled(Len(events))
      BY <2>1 DEF Quiet, Positions, SinceEnabled
    <2>3. Done(i, Len(events))
      BY <2>2 DEF InOrder, Done
    <2>4. ~Arms /\ (Last.type = "Scheduled" => state.pending \in Awaited)
      BY <2>1, <2>3 DEF OnTheWay
    <2>5. state.pending # None
      BY <2>4 DEF Arms, Going
    <2> QED BY <2>1, <2>4, <2>5 DEF PlanStream, Going
  <1> QED BY <1>1, <1>2, <1>3, FlowCorrect, StatusCorrect, PTL DEF Spec

=============================================================================
