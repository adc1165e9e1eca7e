----------------------- MODULE CommandExecutionProofs -----------------------
(***************************************************************************)
(* What holds of command execution for every number of executors and every *)
(* configuration: type correctness; idempotent redelivery; permits; exact  *)
(* replay limits and preconditions; recovery from a stream that lost its   *)
(* tail; and, when every command is guarded, that decisions are made on    *)
(* exactly the history they are appended to, that snapshots cover the      *)
(* history they claim, and that the whole implements SerialStream.         *)
(***************************************************************************)
EXTENDS SerialRefinement, RestoredStream, EventLogProofs

-----------------------------------------------------------------------------
(* Type correctness. *)

\* An executor between two executions is well typed.
LEMMA IdleType == Idle \in Execution
BY DEF Idle, Execution, NoPosition, NoGuard

\* An execution that starts an attempt is well typed.
LEMMA AttemptType ==
    ASSUME NEW e \in Executors, NEW revision \in Nat, NEW retries \in Nat
    PROVE  Attempt(e, revision, retries) \in Execution
BY DEF Attempt, Idle, Execution, NoPosition, NoGuard

\* An execution that ends leaves its executor well typed.
LEMMA FinishType ==
    ASSUME TypeOK, NEW e \in Executors, NEW result \in Results, Finish(e, result)
    PROVE  /\ run' \in [Executors -> Execution]
           /\ permits' \in Nat
           /\ outcome' \in [Executors -> Results]
BY IdleType DEF Finish, TypeOK

\* A conflict, retried or reported, leaves its executor well typed.
LEMMA ConflictType ==
    ASSUME TypeOK, NEW e \in Executors, Conflict(e)
    PROVE  /\ run' \in [Executors -> Execution]
           /\ permits' \in Nat
           /\ outcome' \in [Executors -> Results]
<1>1. CASE run[e].retries > 0
  <2>1. run[e].revision \in Nat /\ run[e].retries - 1 \in Nat
    BY <1>1 DEF TypeOK, Execution
  <2>2. Attempt(e, run[e].revision, run[e].retries - 1) \in Execution
    BY <2>1, AttemptType
  <2> QED BY <1>1, <2>2 DEF Conflict, TypeOK
<1>2. CASE ~ (run[e].retries > 0)
  <2>1. Finish(e, "conflict")
    BY <1>2 DEF Conflict
  <2> QED BY <2>1, FinishType DEF Results
<1> QED BY <1>1, <1>2

\* What a read returns, and what is kept of it, is a finite set of positions.
LEMMA ReadType ==
    ASSUME NEW E, NEW stream \in Seq(E), NEW position, NEW bound, NEW tail \in Nat,
           NEW chunk, chunk = ReadAfter(stream, position, bound),
           NEW kept, kept = UpTo(chunk, tail)
    PROVE  /\ \A x \in kept : x \in 1..Len(stream)
           /\ Cardinality(kept) \in Nat
           /\ kept # {} => Max(kept) \in Nat
<1>1. Len(stream) \in Nat /\ \A x \in OnSubject(stream) : x \in 1..Len(stream)
  BY LenProperties, CurrentPositionIsLast
<1>2. \A x \in chunk : x \in 1..Len(stream)
  BY <1>1 DEF ReadAfter, FirstOf, After
<1>3. \A x \in kept : x \in 1..Len(stream) /\ x \in 0..Len(stream)
  BY <1>1, <1>2 DEF UpTo
<1>4. Cardinality(kept) \in Nat
  BY <1>1, <1>3, UpToFinite
<1>5. kept # {} => Max(kept) \in Nat
  BY <1>1, <1>3, MaxIsGreatest
<1> QED BY <1>3, <1>4, <1>5

\* Folding a chunk of events leaves its executor well typed.
LEMMA ReplayType ==
    ASSUME TypeOK, NEW e \in Executors, NEW position, NEW bound, NEW tail \in Nat,
           Replay(e, ReadAfter(log, position, bound), tail)
    PROVE  /\ run' \in [Executors -> Execution]
           /\ permits' \in Nat
           /\ outcome' \in [Executors -> Results]
<1> DEFINE chunk == ReadAfter(log, position, bound)
           kept  == UpTo(chunk, tail)
           count == run[e].replayed + Cardinality(kept)
           last  == IF kept = {} THEN run[e].last ELSE Max(kept)
           pc    == IF chunk # {} /\ ReadsOn(last, tail) THEN "walk" ELSE "decide"
           state == run[e].state \cup (kept \cap Decodable(log))
           next  == [run[e] EXCEPT !.pc = pc, !.tail = tail, !.last = last,
                                   !.replayed = count, !.state = state]
<1>1. /\ \A x \in kept : x \in 1..Len(log)
      /\ Cardinality(kept) \in Nat
      /\ kept # {} => Max(kept) \in Nat
  BY ReadType DEF TypeOK
<1>2. count \in Nat /\ last \in Nat /\ state \in SUBSET Nat /\ pc \in {"walk", "decide"}
  <2>1. run[e] \in Execution
    BY DEF TypeOK
  <2>2. count \in Nat /\ last \in Nat
    BY <1>1, <2>1, SMTT(30) DEF Execution
  <2>3. state \in SUBSET Nat
    BY <1>1, <2>1 DEF Execution
  <2> QED BY <2>2, <2>3
<1>3. next \in Execution
  <2> HIDE DEF count, last, state, pc
  <2> QED BY <1>2, ZenonT(60) DEF TypeOK, Execution
<1>4. CASE ~WithinLimit(count)
  <2>1. Finish(e, "limit")
    BY <1>4 DEF Replay, TruncateToTail
  <2> QED BY <2>1, FinishType DEF Results
<1>5. CASE WithinLimit(count)
  <2>1. run' = [run EXCEPT ![e] = next] /\ UNCHANGED <<permits, outcome>>
    BY <1>5 DEF Replay, TruncateToTail, TypeOK
  <2> HIDE DEF next
  <2> QED BY <1>3, <2>1 DEF TypeOK
<1> QED BY <1>4, <1>5

\* The batch an execution publishes, appended to the log.
LEMMA CommitGrowsLog ==
    ASSUME TypeOK, NEW e \in Executors, Commit(e)
    PROVE  /\ log' \in Seq(Entry)
           /\ Len(log') = Len(log) + run[e].batch
           /\ Extends(log', log)
           /\ \A i \in 1..run[e].batch :
                 log'[Len(log) + i] = Event(EventIds(e)[i], i, run[e].state, run[e].guard)
           /\ Decodable(log') =
                 Decodable(log) \cup (Len(log) + 1)..(Len(log) + run[e].batch)
<1> DEFINE I == Executors \X Nat \X Nat
<1>1. /\ log \in Seq(Entry) /\ run[e].batch \in Nat /\ run[e].state \in SUBSET Nat
      /\ run[e].guard \in Nat \cup {NoGuard}
      /\ delivery[e] \in Nat
  BY ConfigAssumption DEF TypeOK, Execution
<1>2. EventIds(e) \in Seq(I) /\ Len(EventIds(e)) = run[e].batch
  <2>1. EventIds(e) \in [1..run[e].batch -> I]
    BY <1>1 DEF EventIds
  <2> QED BY <1>1, <2>1
<1>3. \A i \in 1..run[e].batch : Event(EventIds(e)[i], i, run[e].state, run[e].guard) \in Entry
  <2> SUFFICES ASSUME NEW i \in 1..run[e].batch
               PROVE  Event(EventIds(e)[i], i, run[e].state, run[e].guard) \in Entry
    OBVIOUS
  <2>1. EventIds(e)[i] \in I /\ i \in Nat \ {0}
    BY <1>1, <1>2 DEF EventIds
  <2> QED BY <1>1, <2>1 DEF Entry, Event
<1> DEFINE batch == Batch(EventIds(e), run[e].state, run[e].guard)
<1>4. batch \in Seq(Entry) /\ Len(batch) = run[e].batch
      /\ \A i \in 1..run[e].batch :
            batch[i] = Event(EventIds(e)[i], i, run[e].state, run[e].guard)
  <2>1. batch = [i \in 1..run[e].batch |-> Event(EventIds(e)[i], i, run[e].state, run[e].guard)]
    BY <1>2 DEF Batch
  <2>2. batch \in [1..run[e].batch -> Entry]
    BY <1>3, <2>1
  <2> HIDE DEF batch
  <2> QED BY <1>1, <2>1, <2>2, SMTT(30)
<1>5. \A i \in 1..Len(batch) : batch[i].kind = "event"
  <2> SUFFICES ASSUME NEW i \in 1..Len(batch) PROVE batch[i].kind = "event"
    OBVIOUS
  <2>1. batch[i] = Event(EventIds(e)[i], i, run[e].state, run[e].guard)
    BY <1>4
  <2> HIDE DEF batch
  <2> QED BY <2>1 DEF Event
<1>6. log' = log \o batch
  BY DEF Commit
<1> HIDE DEF batch
<1>7. log \in Seq(Entry) /\ batch \in Seq(Entry)
  BY <1>1, <1>4
<1>8. log' \in Seq(Entry) /\ Extends(log', log)
  BY ONLY <1>5, <1>6, <1>7, AppendBatch
<1>9. Len(log') = Len(log) + Len(batch)
  BY ONLY <1>5, <1>6, <1>7, AppendBatch
<1>10. \A i \in 1..Len(batch) : log'[Len(log) + i] = batch[i]
  BY ONLY <1>5, <1>6, <1>7, AppendBatch
<1>11. \A x : x \in Decodable(log')
              <=> x \in Decodable(log) \/ x \in (Len(log) + 1)..(Len(log) + Len(batch))
  BY ONLY <1>5, <1>6, <1>7, AppendBatch
<1>12. Decodable(log') = Decodable(log) \cup (Len(log) + 1)..(Len(log) + Len(batch))
  BY <1>11
<1> QED BY <1>4, <1>8, <1>9, <1>10, <1>12

\* Writers outside the runtime only lengthen the log.
LEMMA OtherGrowsLog ==
    ASSUME TypeOK, NEW kind \in {"alien", "foreign"}, AppendOther(kind)
    PROVE  /\ log' \in Seq(Entry)
           /\ Len(log') = Len(log) + 1
           /\ Extends(log', log)
           /\ Decodable(log') = Decodable(log)
<1>1. Other(kind) \in Entry
  BY DEF Other, Entry, NoGuard
<1>2. log \in Seq(Entry) /\ log' = Append(log, Other(kind))
  BY DEF TypeOK, AppendOther
<1> QED BY <1>1, <1>2, AppendOtherEntry

\* What a snapshot task is to write is a position and a state.
LEMMA SnapshotTaskType ==
    ASSUME TypeOK, NEW e \in Executors
    PROVE  SnapshotTask(e) \in [position : Nat, state : SUBSET Nat]
<1>1. /\ run[e].batch \in Nat /\ run[e].state \in SUBSET Nat /\ run[e].discarded \in BOOLEAN
      /\ Len(log) \in Nat
  BY LenProperties DEF TypeOK, Execution
<1>2. (Len(log) + 1)..(Len(log) + run[e].batch) \subseteq Nat
  BY <1>1
<1> QED BY <1>1, <1>2 DEF SnapshotTask

\* The guards an append may be sent with are sequences, or none.
LEMMA GuardsType ==
    ASSUME TypeOK, NEW e \in Executors
    PROVE  Guards(e) \subseteq Nat \cup {NoGuard}
BY DEF Guards, WriteGuards, TypeOK, Execution

\* Every step preserves the types.
LEMMA TypeStep == TypeOK /\ [Next]_vars => TypeOK'
<1> SUFFICES ASSUME TypeOK, [Next]_vars PROVE TypeOK'
  OBVIOUS
<1> USE DEF TypeOK
<1>0. MaxDeliveries \in Nat /\ Revisions \subseteq Nat /\ RetryLimit \in Nat
  BY ConfigAssumption
<1>1. ASSUME NEW e \in Executors, Admit(e) PROVE TypeOK'
  <2>1. PICK revision \in Revisions :
          run' = [run EXCEPT ![e] = Attempt(e, revision, RetryBudget(e, revision))]
    BY <1>1 DEF Admit
  <2>2. Attempt(e, revision, RetryBudget(e, revision)) \in Execution
    BY <1>0, AttemptType DEF RetryBudget
  <2>3. delivery' \in [Executors -> 0..MaxDeliveries]
    BY <1>0, <1>1 DEF Admit, Deliver
  <2>4. permits' \in Nat /\ outcome' \in [Executors -> Results]
    BY <1>1 DEF Admit, Results
  <2> QED BY <1>1, <2>1, <2>2, <2>3, <2>4 DEF Admit, Deliver
<1>2. ASSUME NEW e \in Executors, Refuse(e) PROVE TypeOK'
  <2>1. delivery' \in [Executors -> 0..MaxDeliveries]
    BY <1>0, <1>2 DEF Refuse, Deliver
  <2> QED BY <1>2, <2>1 DEF Refuse, Deliver, Results
<1>3. ASSUME NEW e \in Executors, Fault(e) PROVE TypeOK'
  BY <1>3, FinishType DEF Fault, Results
<1>4. ASSUME NEW e \in Executors, ReadSnapshot(e) PROVE TypeOK'
  <2> DEFINE next == [run[e] EXCEPT !.pc = "load", !.base = snapshot.position,
                                    !.state = snapshot.state]
  <2>1. next \in Execution
    BY ZenonT(60) DEF Execution
  <2>2. run' = [run EXCEPT ![e] = next]
    BY <1>4 DEF ReadSnapshot
  <2>3. UNCHANGED <<log, snapshot, tasks, permits, delivery, outcome>>
    BY <1>4 DEF ReadSnapshot
  <2> HIDE DEF next
  <2> QED BY <2>1, <2>2, <2>3
<1>5. ASSUME NEW e \in Executors, DiscardUnreadable(e) PROVE TypeOK'
  <2> DEFINE next == [run[e] EXCEPT !.pc = "load", !.discarded = TRUE]
  <2>1. next \in Execution
    BY ZenonT(60) DEF Execution
  <2>2. run' = [run EXCEPT ![e] = next]
    BY <1>5 DEF DiscardUnreadable
  <2> HIDE DEF next
  <2> QED BY <1>5, <2>1, <2>2, ZenonT(60) DEF DiscardUnreadable
<1>6. ASSUME NEW e \in Executors, DiscardAhead(e) PROVE TypeOK'
  <2>1. CASE FailurePolicy = "Discard"
    <3> DEFINE next == [run[e] EXCEPT !.base = NoPosition, !.state = {}, !.discarded = TRUE]
    <3>1. next \in Execution
      BY ZenonT(60) DEF Execution, NoPosition
    <3>2. run' = [run EXCEPT ![e] = next]
      BY <1>6, <2>1 DEF DiscardAhead
    <3> HIDE DEF next
    <3> QED BY <1>6, <2>1, <3>1, <3>2 DEF DiscardAhead
  <2>2. CASE FailurePolicy # "Discard"
    BY <1>6, <2>2, FinishType DEF DiscardAhead, Results
  <2> QED BY <2>1, <2>2
<1>7. ASSUME NEW e \in Executors, Load(e) PROVE TypeOK'
  <2>1. CurrentPosition(log) \in Nat
    BY CurrentPositionIsLast, LenProperties
  <2> QED BY <1>7, <2>1, ReplayType DEF Load
<1>8. ASSUME NEW e \in Executors, Walk(e) PROVE TypeOK'
  <2>1. run[e].tail \in Nat
    BY DEF Execution
  <2> QED BY <1>8, <2>1, ReplayType DEF Walk
<1>9. ASSUME NEW e \in Executors, Decide(e) PROVE TypeOK'
  <2>1. CASE Guards(e) = {} /\ Finish(e, "precondition")
    BY <1>9, <2>1, FinishType DEF Decide, Results
  <2>2. CASE Guards(e) # {} /\ Finish(e, "rejected")
    BY <1>9, <2>2, FinishType DEF Decide, Results
  <2>3. CASE Conflict(e)
    BY <1>9, <2>3, ConflictType DEF Decide
  <2>4. CASE /\ \E guard \in Guards(e), n \in 1..MaxBatch :
                  run' = [run EXCEPT ![e].pc = "publish", ![e].guard = guard, ![e].batch = n]
             /\ UNCHANGED <<permits, outcome>>
    <3>1. PICK guard \in Guards(e), n \in 1..MaxBatch :
            run' = [run EXCEPT ![e].pc = "publish", ![e].guard = guard, ![e].batch = n]
      BY <2>4
    <3>2. guard \in Nat \cup {NoGuard} /\ n \in Nat
      BY GuardsType, ConfigAssumption
    <3> DEFINE next == [run[e] EXCEPT !.pc = "publish", !.guard = guard, !.batch = n]
    <3>3. next \in Execution
      BY <3>2, ZenonT(60) DEF Execution
    <3>4. run' = [run EXCEPT ![e] = next]
      BY <3>1
    <3> HIDE DEF next
    <3> QED BY <1>9, <2>4, <3>3, <3>4 DEF Decide
  <2> QED BY <1>9, <2>1, <2>2, <2>3, <2>4 DEF Decide
<1>10. ASSUME NEW e \in Executors, PublishDuplicate(e) PROVE TypeOK'
  BY <1>10, FinishType DEF PublishDuplicate, Results
<1>11. ASSUME NEW e \in Executors, PublishConflict(e) PROVE TypeOK'
  BY <1>11, ConflictType DEF PublishConflict
<1>12. ASSUME NEW e \in Executors, Publish(e) PROVE TypeOK'
  <2>1. log' \in Seq(Entry)
    BY <1>12, CommitGrowsLog DEF Publish
  <2>2. tasks' \subseteq [position : Nat, state : SUBSET Nat]
    BY <1>12, SnapshotTaskType DEF Publish
  <2> QED BY <1>12, <2>1, <2>2, FinishType DEF Publish, Results
<1>13. ASSUME NEW e \in Executors, PublishUnacknowledged(e) PROVE TypeOK'
  <2>1. log' \in Seq(Entry)
    BY <1>13, CommitGrowsLog DEF PublishUnacknowledged
  <2> QED BY <1>13, <2>1, FinishType DEF PublishUnacknowledged, Results
<1>14. ASSUME NEW task \in tasks, WriteSnapshot(task) PROVE TypeOK'
  BY <1>14 DEF WriteSnapshot
<1>15. ASSUME NEW task \in tasks, LoseSnapshot(task) PROVE TypeOK'
  BY <1>15 DEF LoseSnapshot
<1>16. ASSUME NEW kind \in {"alien", "foreign"}, AppendOther(kind) PROVE TypeOK'
  BY <1>16, OtherGrowsLog DEF AppendOther
<1>17. CASE UNCHANGED vars
  BY <1>17 DEF vars
<1> QED
  BY <1>1, <1>2, <1>3, <1>4, <1>5, <1>6, <1>7, <1>8, <1>9, <1>10, <1>11, <1>12,
     <1>13, <1>14, <1>15, <1>16, <1>17 DEF Next, Step

\* Every execution starts well typed.
LEMMA InitType == Init => TypeOK
<1> SUFFICES ASSUME Init PROVE TypeOK
  OBVIOUS
<1>1. log \in Seq(Entry)
  BY DEF Init
<1>2. run \in [Executors -> Execution]
  BY IdleType DEF Init
<1> QED
  BY <1>1, <1>2, ConfigAssumption DEF Init, TypeOK, NoPosition, Results

\* The variables of every execution have their types in every configuration.
THEOREM TypeCorrect == Spec => []TypeOK
BY InitType, TypeStep, PTL DEF Spec

-----------------------------------------------------------------------------
(* Redelivery. *)

\* A batch is stored by an execution that found its ids new and its guard true.
Stores(e) ==
    /\ run[e].pc = "publish" /\ ~Duplicate(e) /\ GuardHolds(e)
    /\ Commit(e)
    /\ UNCHANGED <<snapshot, delivery>>

\* The log changes only where a batch is stored or another writer appends.
LEMMA LogStep ==
    ASSUME [Next]_vars
    PROVE  \/ UNCHANGED log
           \/ \E e \in Executors : Stores(e)
           \/ \E kind \in {"alien", "foreign"} : AppendOther(kind)
<1>1. CASE UNCHANGED vars
  BY <1>1 DEF vars
<1>2. ASSUME NEW e \in Executors, Admit(e) \/ Refuse(e) \/ Fault(e) PROVE UNCHANGED log
  BY <1>2 DEF Admit, Refuse, Fault, Deliver
<1>3. ASSUME NEW e \in Executors,
             \/ ReadSnapshot(e) \/ DiscardUnreadable(e) \/ DiscardAhead(e)
             \/ Load(e) \/ Walk(e) \/ Decide(e)
             \/ PublishDuplicate(e) \/ PublishConflict(e)
      PROVE  UNCHANGED log
  <2>1. CASE ReadSnapshot(e) \/ DiscardUnreadable(e) \/ DiscardAhead(e)
    BY <2>1 DEF ReadSnapshot, DiscardUnreadable, DiscardAhead
  <2>2. CASE Load(e) \/ Walk(e)
    BY <2>2 DEF Load, Walk
  <2>3. CASE Decide(e)
    BY <2>3 DEF Decide
  <2>4. CASE PublishDuplicate(e) \/ PublishConflict(e)
    BY <2>4 DEF PublishDuplicate, PublishConflict
  <2> QED BY <1>3, <2>1, <2>2, <2>3, <2>4
<1>4. ASSUME NEW e \in Executors, Publish(e) \/ PublishUnacknowledged(e) PROVE Stores(e)
  BY <1>4 DEF Publish, PublishUnacknowledged, Stores
<1>5. ASSUME NEW task \in tasks, WriteSnapshot(task) \/ LoseSnapshot(task)
      PROVE  UNCHANGED log
  BY <1>5 DEF WriteSnapshot, LoseSnapshot
<1> QED BY <1>1, <1>2, <1>3, <1>4, <1>5 DEF Next, Step

\* The key of the ids an execution publishes under.
Key(e) == IF e \in Identified THEN 0 ELSE delivery[e]

\* The ids of the log, without what is known of deliveries.
LogIdentity ==
    /\ \A p, q \in Decodable(log) : log[p].id = log[q].id => p = q
    /\ \A p \in Decodable(log) :
          /\ log[p].id[1] \in Identified => log[p].id[2] = 0
          /\ BatchStart(p) \in Decodable(log)
          /\ log[BatchStart(p)].id = <<log[p].id[1], log[p].id[2], 1>>

\* What the new positions of a stored batch hold.
LEMMA StoredBatch ==
    ASSUME TypeOK, NEW e \in Executors, Commit(e), NEW p \in Decodable(log'),
           p \notin Decodable(log)
    PROVE  /\ p - Len(log) \in 1..run[e].batch
           /\ Len(log) \in Nat /\ p \in Nat
           /\ log'[p].id = EventIds(e)[p - Len(log)]
           /\ log'[p].index = p - Len(log)
           /\ log'[p].seen = run[e].state
           /\ log'[p].guard = run[e].guard
           /\ EventIds(e)[p - Len(log)] = <<e, Key(e), p - Len(log)>>
           /\ Len(log) + 1 \in Decodable(log')
           /\ BatchStart(p)' = Len(log) + 1
<1>1. Len(log) \in Nat /\ run[e].batch \in Nat
  BY LenProperties DEF TypeOK, Execution
<1>2. /\ \A i \in 1..run[e].batch :
            log'[Len(log) + i] = Event(EventIds(e)[i], i, run[e].state, run[e].guard)
      /\ Decodable(log') = Decodable(log) \cup (Len(log) + 1)..(Len(log) + run[e].batch)
  BY CommitGrowsLog
<1>3. p \in (Len(log) + 1)..(Len(log) + run[e].batch)
  BY <1>2
<1> DEFINE i == p - Len(log)
<1>4. i \in 1..run[e].batch /\ p = Len(log) + i /\ p \in Nat
  BY <1>1, <1>3
<1>5. log'[p] = Event(EventIds(e)[i], i, run[e].state, run[e].guard)
  BY <1>2, <1>4
<1>6. EventIds(e)[i] = <<e, Key(e), i>>
  BY <1>4 DEF EventIds, Key
<1>7. Len(log) + 1 \in Decodable(log')
  BY <1>1, <1>2, <1>4
<1>8. /\ log'[p].id = EventIds(e)[i] /\ log'[p].index = i
      /\ log'[p].seen = run[e].state /\ log'[p].guard = run[e].guard
  BY <1>5 DEF Event
<1>9. BatchStart(p)' = Len(log) + 1
  BY <1>1, <1>4, <1>8 DEF BatchStart
<1> QED BY <1>1, <1>4, <1>6, <1>7, <1>8, <1>9

\* Entries that were in the log keep their place in their batch.
LEMMA OldEntry ==
    ASSUME TypeOK, log' \in Seq(Entry), Extends(log', log), NEW p \in Decodable(log)
    PROVE  /\ p \in 1..Len(log) /\ Len(log) \in Nat
           /\ log'[p] = log[p] /\ p \in Decodable(log')
           /\ BatchStart(p)' = BatchStart(p)
<1>1. log \in Seq(Entry) /\ p \in 1..Len(log) /\ Len(log) \in Nat
  BY LenProperties DEF TypeOK, Decodable, Positions
<1>2. log'[p] = log[p]
  BY <1>1 DEF Extends, Positions
<1>3. p \in Decodable(log')
  BY <1>1, ExtensionKeepsHistory
<1> QED BY <1>1, <1>2, <1>3 DEF BatchStart

\* Storing a batch keeps ids unique and batches whole.
LEMMA StoresKeepsIdentity ==
    ASSUME TypeOK, LogIdentity, NEW e \in Executors, Stores(e)
    PROVE  LogIdentity'
<1>1. /\ log' \in Seq(Entry) /\ Extends(log', log) /\ Commit(e) /\ ~Duplicate(e)
      /\ run[e].batch \in Nat
  BY CommitGrowsLog DEF Stores, TypeOK, Execution
<1>2. ASSUME NEW p \in Decodable(log'), p \notin Decodable(log)
      PROVE  /\ p - Len(log) \in 1..run[e].batch
             /\ log'[p].id = <<e, Key(e), p - Len(log)>>
             /\ Len(log) \in Nat /\ p \in Nat
             /\ BatchStart(p)' = Len(log) + 1
             /\ Len(log) + 1 \in Decodable(log')
  BY <1>1, <1>2, StoredBatch
<1>3. ASSUME NEW p \in Decodable(log), NEW q \in Decodable(log'), q \notin Decodable(log)
      PROVE  log[p].id # log'[q].id
  <2>1. log'[q].id = EventIds(e)[q - Len(log)] /\ q - Len(log) \in 1..run[e].batch
    BY <1>1, <1>3, StoredBatch
  <2>2. log[p].id \in Ids(log)
    BY DEF Ids
  <2> QED BY <1>1, <2>1, <2>2 DEF Duplicate
<1>4. ASSUME NEW p \in Decodable(log'), NEW q \in Decodable(log'), log'[p].id = log'[q].id
      PROVE  p = q
  <2>1. CASE p \in Decodable(log) /\ q \in Decodable(log)
    BY <1>1, <1>4, <2>1, OldEntry DEF LogIdentity
  <2>2. CASE p \in Decodable(log) /\ q \notin Decodable(log)
    BY <1>1, <1>3, <1>4, <2>2, OldEntry
  <2>3. CASE p \notin Decodable(log) /\ q \in Decodable(log)
    BY <1>1, <1>3, <1>4, <2>3, OldEntry
  <2>4. CASE p \notin Decodable(log) /\ q \notin Decodable(log)
    <3>1. p - Len(log) = q - Len(log)
      BY <1>2, <1>4, <2>4
    <3> QED BY <1>2, <2>4, <3>1
  <2> QED BY <2>1, <2>2, <2>3, <2>4
<1>5. ASSUME NEW p \in Decodable(log')
      PROVE  /\ log'[p].id[1] \in Identified => log'[p].id[2] = 0
             /\ BatchStart(p)' \in Decodable(log')
             /\ log'[BatchStart(p)'].id = <<log'[p].id[1], log'[p].id[2], 1>>
  <2>1. CASE p \in Decodable(log)
    <3>1. log'[p] = log[p] /\ BatchStart(p)' = BatchStart(p) /\ BatchStart(p) \in Decodable(log)
      BY <1>1, <2>1, OldEntry DEF LogIdentity
    <3>2. log'[BatchStart(p)] = log[BatchStart(p)] /\ BatchStart(p) \in Decodable(log')
      BY <1>1, <3>1, OldEntry
    <3> QED BY <2>1, <3>1, <3>2 DEF LogIdentity
  <2>2. CASE p \notin Decodable(log)
    <3>1. /\ log'[p].id = <<e, Key(e), p - Len(log)>>
          /\ BatchStart(p)' = Len(log) + 1 /\ Len(log) + 1 \in Decodable(log')
          /\ Len(log) \in Nat
      BY <1>2, <2>2
    <3>2. Len(log) + 1 \notin Decodable(log)
      BY <3>1 DEF Decodable, Positions
    <3>3. log'[Len(log) + 1].id = <<e, Key(e), (Len(log) + 1) - Len(log)>>
      BY <1>2, <3>1, <3>2
    <3>4. log'[Len(log) + 1].id = <<e, Key(e), 1>>
      BY <3>1, <3>3
    <3> QED BY <3>1, <3>4 DEF Key
  <2> QED BY <2>1, <2>2
<1> QED BY <1>4, <1>5 DEF LogIdentity

\* Every step keeps ids unique and batches whole.
LEMMA LogIdentityStep == TypeOK /\ LogIdentity /\ [Next]_vars => LogIdentity'
<1> SUFFICES ASSUME TypeOK, LogIdentity, [Next]_vars PROVE LogIdentity'
  OBVIOUS
<1>1. CASE UNCHANGED log
  BY <1>1 DEF LogIdentity, BatchStart
<1>2. ASSUME NEW e \in Executors, Stores(e) PROVE LogIdentity'
  BY <1>2, StoresKeepsIdentity
<1>3. ASSUME NEW kind \in {"alien", "foreign"}, AppendOther(kind) PROVE LogIdentity'
  <2>1. log' \in Seq(Entry) /\ Extends(log', log) /\ Decodable(log') = Decodable(log)
    BY <1>3, OtherGrowsLog
  <2>2. \A p \in Decodable(log) : log'[p] = log[p] /\ BatchStart(p)' = BatchStart(p)
    BY <2>1, OldEntry
  <2> QED BY <2>1, <2>2 DEF LogIdentity
<1> QED BY <1>1, <1>2, <1>3, LogStep

\* Only one execution moves.
OthersWait(d) == \A e \in Executors : e # d => run'[e] = run[e]

\* Ending, or retrying after a conflict, moves one execution.
LEMMA EndingMovesOne ==
    ASSUME TypeOK, NEW d \in Executors
    PROVE  /\ \A result : Finish(d, result) => OthersWait(d)
           /\ Conflict(d) => OthersWait(d)
           /\ \A chunk, tail : Replay(d, chunk, tail) => OthersWait(d)
<1>1. run \in [Executors -> Execution]
  BY DEF TypeOK
<1>2. ASSUME NEW result, Finish(d, result) PROVE OthersWait(d)
  BY <1>1, <1>2 DEF Finish, OthersWait
<1>3. ASSUME Conflict(d) PROVE OthersWait(d)
  <2>1. CASE Finish(d, "conflict")
    BY <1>2, <2>1
  <2>2. CASE run' = [run EXCEPT ![d] = Attempt(d, run[d].revision, run[d].retries - 1)]
    BY <1>1, <2>2 DEF OthersWait
  <2> QED BY <1>3, <2>1, <2>2 DEF Conflict
<1>4. ASSUME NEW chunk, NEW tail, Replay(d, chunk, tail) PROVE OthersWait(d)
  <2>1. CASE Finish(d, "limit")
    BY <1>2, <2>1
  <2> DEFINE kept  == TruncateToTail(chunk, tail)
             count == run[d].replayed + Cardinality(kept)
             last  == IF kept = {} THEN run[d].last ELSE Max(kept)
             pc    == IF chunk # {} /\ ReadsOn(last, tail) THEN "walk" ELSE "decide"
             next  == [run[d] EXCEPT !.pc = pc, !.tail = tail, !.last = last, !.replayed = count,
                                     !.state = run[d].state \cup (kept \cap Decodable(log))]
  <2>2. CASE run' = [run EXCEPT ![d] = next]
    <3> HIDE DEF next
    <3> QED BY <1>1, <2>2 DEF OthersWait
  <2> QED BY <1>1, <1>4, <2>1, <2>2 DEF Replay
<1> QED BY <1>2, <1>3, <1>4

\* The steps of one execution move no other. It is started by a delivery of its
\* command, or was running.
LEMMA ActionMovesOne ==
    ASSUME TypeOK, NEW d \in Executors, Admit(d) \/ Refuse(d) \/ Fault(d) \/ Step(d)
    PROVE  OthersWait(d) /\ (Deliver(d) \/ (Active(d) /\ UNCHANGED delivery))
<1>1. run \in [Executors -> Execution]
  BY DEF TypeOK
<1>2. CASE Admit(d) \/ Refuse(d)
  <2>1. Deliver(d)
    BY <1>2 DEF Admit, Refuse
  <2>2. CASE Refuse(d)
    BY <2>2 DEF Refuse, OthersWait
  <2>3. ASSUME NEW next, run' = [run EXCEPT ![d] = next] PROVE OthersWait(d)
    BY <1>1, <2>3 DEF OthersWait
  <2>4. CASE Admit(d)
    BY <2>3, <2>4 DEF Admit
  <2> QED BY <1>2, <2>1, <2>2, <2>4
<1>3. CASE Fault(d)
  BY <1>3, EndingMovesOne DEF Fault
<1>4. CASE ReadSnapshot(d) \/ DiscardUnreadable(d)
  BY <1>1, <1>4 DEF ReadSnapshot, DiscardUnreadable, OthersWait, Active
<1>5. CASE DiscardAhead(d)
  <2>1. CASE Finish(d, "failed")
    BY <1>5, <2>1, EndingMovesOne DEF DiscardAhead, Active
  <2>2. CASE run' = [run EXCEPT ![d].base = NoPosition, ![d].state = {}, ![d].discarded = TRUE]
    BY <1>1, <1>5, <2>2 DEF DiscardAhead, Active, OthersWait
  <2> QED BY <1>5, <2>1, <2>2 DEF DiscardAhead
<1>6. CASE Load(d) \/ Walk(d)
  BY <1>6, EndingMovesOne DEF Load, Walk, Active
<1>7. CASE Decide(d)
  <2>1. Active(d) /\ UNCHANGED delivery
    BY <1>7 DEF Decide, Active
  <2>2. ASSUME NEW guard, NEW n,
               run' = [run EXCEPT ![d].pc = "publish", ![d].guard = guard, ![d].batch = n]
        PROVE  OthersWait(d)
    BY <1>1, <2>2 DEF OthersWait
  <2> QED BY <1>7, <2>1, <2>2, EndingMovesOne DEF Decide
<1>8. CASE \/ PublishDuplicate(d) \/ PublishConflict(d)
           \/ Publish(d) \/ PublishUnacknowledged(d)
  BY <1>8, EndingMovesOne
     DEF PublishDuplicate, PublishConflict, Publish, PublishUnacknowledged, Active
<1> QED
  BY <1>2, <1>3, <1>4, <1>5, <1>6, <1>7, <1>8 DEF Step

\* The steps that are of no execution leave them all alone.
LEMMA OtherSteps ==
    ASSUME [Next]_vars, ~ \E d \in Executors : Admit(d) \/ Refuse(d) \/ Fault(d) \/ Step(d)
    PROVE  UNCHANGED <<run, delivery>>
<1>1. CASE UNCHANGED vars
  BY <1>1 DEF vars
<1>2. ASSUME NEW task \in tasks, WriteSnapshot(task) \/ LoseSnapshot(task)
      PROVE  UNCHANGED <<run, delivery>>
  BY <1>2 DEF WriteSnapshot, LoseSnapshot
<1>3. ASSUME NEW kind \in {"alien", "foreign"}, AppendOther(kind)
      PROVE  UNCHANGED <<run, delivery>>
  BY <1>3 DEF AppendOther
<1> QED BY <1>1, <1>2, <1>3 DEF Next

\* An execution in progress is one of a delivery.
Delivered == \A e \in Executors : Active(e) => delivery[e] # 0

\* No step starts an execution but the delivery of its command.
LEMMA DeliveredStep == TypeOK /\ Delivered /\ [Next]_vars => Delivered'
<1> SUFFICES ASSUME TypeOK, Delivered, [Next]_vars PROVE Delivered'
  OBVIOUS
<1>1. delivery \in [Executors -> 0..MaxDeliveries] /\ MaxDeliveries \in Nat
  BY ConfigAssumption DEF TypeOK
<1>2. CASE UNCHANGED <<run, delivery>>
  BY <1>2 DEF Delivered, Active
<1>3. ASSUME NEW d \in Executors, OthersWait(d), Deliver(d) PROVE Delivered'
  <2>1. \A e \in Executors : e # d => delivery'[e] = delivery[e]
    BY <1>1, <1>3 DEF Deliver
  <2>2. delivery'[d] # 0
    BY <1>1, <1>3 DEF Deliver
  <2> QED BY <1>3, <2>1, <2>2 DEF Delivered, Active, OthersWait
<1>4. ASSUME NEW d \in Executors, OthersWait(d), Active(d), UNCHANGED delivery PROVE Delivered'
  BY <1>4 DEF Delivered, Active, OthersWait
<1> QED BY <1>2, <1>3, <1>4, ActionMovesOne, OtherSteps

\* IdentityInv holds of every configuration, guarded or not.
LEMMA IdentityInvHolds == Spec => [](TypeOK /\ IdentityInv)
<1>1. IdentityInv <=> Delivered /\ LogIdentity
  BY DEF IdentityInv, Delivered, LogIdentity
<1>2. Init => TypeOK /\ Delivered /\ LogIdentity
  <2>1. Init => Delivered /\ Decodable(log) = {}
    BY DEF Init, Delivered, Active, Idle, Decodable, Positions
  <2> QED BY <2>1, InitType DEF LogIdentity
<1>3. Spec => [](TypeOK /\ Delivered /\ LogIdentity)
  BY <1>2, TypeStep, DeliveredStep, LogIdentityStep, PTL DEF Spec
<1> QED BY <1>1, <1>3, PTL

\* IdentifiedOnce (command_id.rs): however often an identified command is
\* delivered, retried or answered with a lost acknowledgement, its events are
\* stored at most once.
THEOREM StoredOnce == Spec => []IdentifiedOnce
<1>1. IdentityInv => IdentifiedOnce
  <2> SUFFICES ASSUME IdentityInv, NEW p \in Decodable(log), NEW q \in Decodable(log),
                      log[p].id[1] = log[q].id[1], log[p].id[1] \in Identified
               PROVE  BatchStart(p) = BatchStart(q)
    BY DEF IdentifiedOnce
  <2>1. log[p].id[2] = 0 /\ log[q].id[2] = 0
    BY DEF IdentityInv
  <2>2. /\ BatchStart(p) \in Decodable(log) /\ BatchStart(q) \in Decodable(log)
        /\ log[BatchStart(p)].id = log[BatchStart(q)].id
    BY <2>1 DEF IdentityInv
  <2> QED BY <2>2 DEF IdentityInv
<1> QED BY <1>1, IdentityInvHolds, PTL

-----------------------------------------------------------------------------
(* Admission. *)

\* The executions that hold a permit.
Admitted == {e \in Executors : Active(e)}

\* A permit is taken, given back, or neither, as an execution begins, ends or
\* goes on.
Exchanged(d) ==
    \/ ~Active(d) /\ Active(d)' /\ permits' = permits - 1
    \/ Active(d) /\ ~Active(d)' /\ permits' = permits + 1
    \/ (Active(d)' <=> Active(d)) /\ UNCHANGED permits

\* Ending gives the permit back; a conflict does that or goes on.
LEMMA EndingExchanges ==
    ASSUME TypeOK, NEW d \in Executors, Active(d)
    PROVE  /\ \A result : Finish(d, result) => Exchanged(d)
           /\ Conflict(d) => Exchanged(d)
           /\ \A chunk, tail : Replay(d, chunk, tail) => Exchanged(d)
<1>1. run \in [Executors -> Execution] /\ run[d] \in Execution
  BY DEF TypeOK
<1>2. ASSUME NEW result, Finish(d, result) PROVE Exchanged(d)
  BY <1>1, <1>2 DEF Finish, Exchanged, Active, Idle
<1>3. ASSUME Conflict(d) PROVE Exchanged(d)
  <2>1. CASE Finish(d, "conflict")
    BY <1>2, <2>1
  <2>2. CASE /\ run' = [run EXCEPT ![d] = Attempt(d, run[d].revision, run[d].retries - 1)]
             /\ UNCHANGED permits
    <3>1. Attempt(d, run[d].revision, run[d].retries - 1).pc # "idle"
      BY DEF Attempt, Idle
    <3> QED BY <1>1, <2>2, <3>1 DEF Exchanged, Active
  <2> QED BY <1>3, <2>1, <2>2 DEF Conflict
<1>4. ASSUME NEW chunk, NEW tail, Replay(d, chunk, tail) PROVE Exchanged(d)
  <2>1. CASE Finish(d, "limit")
    BY <1>2, <2>1
  <2>2. CASE ~Finish(d, "limit")
    <3> DEFINE kept  == TruncateToTail(chunk, tail)
               count == run[d].replayed + Cardinality(kept)
               last  == IF kept = {} THEN run[d].last ELSE Max(kept)
               pc    == IF chunk # {} /\ ReadsOn(last, tail) THEN "walk" ELSE "decide"
               state == run[d].state \cup (kept \cap Decodable(log))
               next  == [run[d] EXCEPT !.pc = pc, !.tail = tail, !.last = last,
                                       !.replayed = count, !.state = state]
    <3>1. run' = [run EXCEPT ![d] = next] /\ UNCHANGED permits
      BY <1>1, <1>4, <2>2 DEF Replay
    <3>2. next.pc = pc /\ pc \in {"walk", "decide"}
      BY <1>1 DEF Execution
    <3>3. run'[d].pc \in {"walk", "decide"} /\ UNCHANGED permits
      <4> HIDE DEF next
      <4> QED BY <1>1, <3>1, <3>2
    <3> QED BY <3>3 DEF Exchanged, Active
  <2> QED BY <2>1, <2>2
<1> QED BY <1>2, <1>3, <1>4

\* Every step of an execution is such an exchange.
LEMMA ActionExchanges ==
    ASSUME TypeOK, NEW d \in Executors, Admit(d) \/ Refuse(d) \/ Fault(d) \/ Step(d)
    PROVE  Exchanged(d)
<1>1. run \in [Executors -> Execution] /\ run[d] \in Execution
  BY DEF TypeOK
<1>2. CASE Admit(d)
  <2>1. PICK revision \in Revisions :
          run' = [run EXCEPT ![d] = Attempt(d, revision, RetryBudget(d, revision))]
    BY <1>2 DEF Admit
  <2>2. Attempt(d, revision, RetryBudget(d, revision)).pc # "idle"
    BY DEF Attempt, Idle
  <2>3. ~Active(d) /\ permits' = permits - 1
    BY <1>2 DEF Admit, Deliver
  <2> QED BY <1>1, <2>1, <2>2, <2>3 DEF Exchanged, Active
<1>3. CASE Refuse(d)
  BY <1>3 DEF Refuse, Exchanged, Active
<1>4. CASE Fault(d)
  BY <1>4, EndingExchanges DEF Fault
<1>5. CASE ReadSnapshot(d) \/ DiscardUnreadable(d)
  BY <1>1, <1>5 DEF ReadSnapshot, DiscardUnreadable, Exchanged, Active, Execution
<1>6. CASE DiscardAhead(d)
  <2>1. Active(d)
    BY <1>6 DEF DiscardAhead, Active
  <2>2. CASE Finish(d, "failed")
    BY <2>1, <2>2, EndingExchanges
  <2>3. CASE ~Finish(d, "failed")
    <3>1. run'[d].pc = run[d].pc /\ UNCHANGED permits
      BY <1>1, <1>6, <2>3 DEF DiscardAhead, Execution
    <3> QED BY <3>1 DEF Exchanged, Active
  <2> QED BY <2>2, <2>3
<1>7. CASE Load(d) \/ Walk(d)
  BY <1>7, EndingExchanges DEF Load, Walk, Active
<1>8. CASE Decide(d)
  <2>1. Active(d)
    BY <1>8 DEF Decide, Active
  <2>2. CASE /\ \E guard \in Guards(d), n \in 1..MaxBatch :
                  run' = [run EXCEPT ![d].pc = "publish", ![d].guard = guard, ![d].batch = n]
             /\ UNCHANGED permits
    <3>1. run'[d].pc = "publish" /\ UNCHANGED permits
      BY <1>1, <2>2 DEF Execution
    <3> QED BY <2>1, <3>1 DEF Exchanged, Active
  <2> QED BY <1>8, <2>1, <2>2, EndingExchanges DEF Decide
<1>9. CASE \/ PublishDuplicate(d) \/ PublishConflict(d)
           \/ Publish(d) \/ PublishUnacknowledged(d)
  BY <1>9, EndingExchanges
     DEF PublishDuplicate, PublishConflict, Publish, PublishUnacknowledged, Active
<1> QED
  BY <1>2, <1>3, <1>4, <1>5, <1>6, <1>7, <1>8, <1>9 DEF Step

\* The other steps touch no permit.
LEMMA OthersTakeNoPermit ==
    ASSUME [Next]_vars, ~ \E d \in Executors : Admit(d) \/ Refuse(d) \/ Fault(d) \/ Step(d)
    PROVE  UNCHANGED permits
<1>1. CASE UNCHANGED vars
  BY <1>1 DEF vars
<1>2. ASSUME NEW task \in tasks, WriteSnapshot(task) \/ LoseSnapshot(task)
      PROVE  UNCHANGED permits
  BY <1>2 DEF WriteSnapshot, LoseSnapshot
<1>3. ASSUME NEW kind \in {"alien", "foreign"}, AppendOther(kind) PROVE UNCHANGED permits
  BY <1>3 DEF AppendOther
<1> QED BY <1>1, <1>2, <1>3 DEF Next

\* PermitsConserved with the finiteness that gives the count its meaning.
PermitsInv == IsFiniteSet(Admitted) /\ PermitsConserved

\* Every step conserves the permits.
LEMMA PermitsStep == TypeOK /\ PermitsInv /\ [Next]_vars => PermitsInv'
<1> SUFFICES ASSUME TypeOK, PermitsInv, [Next]_vars PROVE PermitsInv'
  OBVIOUS
<1>1. permits \in Nat /\ AdmissionLimit \in Nat
  BY ConfigAssumption DEF TypeOK
<1>2. /\ IsFiniteSet(Admitted) /\ Cardinality(Admitted) \in Nat
      /\ permits + Cardinality(Admitted) = AdmissionLimit
  BY FS_CardinalityType DEF PermitsInv, PermitsConserved, Admitted
<1>3. SUFFICES IsFiniteSet(Admitted') /\ permits' + Cardinality(Admitted') = AdmissionLimit
  BY DEF PermitsInv, PermitsConserved, Admitted
<1>4. CASE ~ \E d \in Executors : Admit(d) \/ Refuse(d) \/ Fault(d) \/ Step(d)
  <2>1. UNCHANGED run /\ UNCHANGED permits
    BY <1>4, OtherSteps, OthersTakeNoPermit
  <2>2. Admitted' = Admitted
    BY <2>1 DEF Admitted, Active
  <2> QED BY <1>2, <2>1, <2>2
<1>5. ASSUME NEW d \in Executors, OthersWait(d), Exchanged(d)
      PROVE  IsFiniteSet(Admitted') /\ permits' + Cardinality(Admitted') = AdmissionLimit
  <2>1. CASE ~Active(d) /\ Active(d)' /\ permits' = permits - 1
    <3>1. Admitted' = Admitted \cup {d} /\ d \notin Admitted
      BY <1>5, <2>1 DEF Admitted, Active, OthersWait
    <3>2. IsFiniteSet(Admitted') /\ Cardinality(Admitted') = Cardinality(Admitted) + 1
      BY <1>2, <3>1, FS_AddElement
    <3> QED BY <1>1, <1>2, <2>1, <3>2
  <2>2. CASE Active(d) /\ ~Active(d)' /\ permits' = permits + 1
    <3>1. Admitted' = Admitted \ {d} /\ d \in Admitted
      BY <1>5, <2>2 DEF Admitted, Active, OthersWait
    <3>2. IsFiniteSet(Admitted') /\ Cardinality(Admitted') = Cardinality(Admitted) - 1
      BY <1>2, <3>1, FS_RemoveElement
    <3> QED BY <1>1, <1>2, <2>2, <3>2
  <2>3. CASE (Active(d)' <=> Active(d)) /\ UNCHANGED permits
    <3>1. Admitted' = Admitted
      BY <1>5, <2>3 DEF Admitted, Active, OthersWait
    <3> QED BY <1>2, <2>3, <3>1
  <2> QED BY <1>5, <2>1, <2>2, <2>3 DEF Exchanged
<1> QED BY <1>4, <1>5, ActionMovesOne, ActionExchanges

\* Before the first admission every permit is available.
LEMMA PermitsInit == Init => PermitsInv
<1> SUFFICES ASSUME Init PROVE PermitsInv
  OBVIOUS
<1>1. Admitted = {}
  BY DEF Init, Admitted, Active, Idle
<1>2. IsFiniteSet(Admitted) /\ Cardinality(Admitted) = 0
  BY <1>1, FS_EmptySet
<1> QED BY <1>2, ConfigAssumption DEF Init, PermitsInv, PermitsConserved, Admitted

\* PermitsConserved (admission.rs): through conflicts, retries, errors and dropped
\* futures a permit is available or held by an admitted execution.
THEOREM PermitsKept == Spec => []PermitsConserved
<1>1. PermitsInv => PermitsConserved
  BY DEF PermitsInv
<1>2. TypeOK /\ PermitsInv /\ [Next]_vars => (TypeOK /\ PermitsInv)'
  BY TypeStep, PermitsStep
<1> QED BY <1>1, <1>2, PermitsInit, InitType, PTL DEF Spec

-----------------------------------------------------------------------------
(* Exact history, when every command is guarded. *)

\* The log only grows.
LEMMA LogGrows ==
    ASSUME TypeOK, [Next]_vars
    PROVE  log' \in Seq(Entry) /\ Extends(log', log)
<1>1. CASE UNCHANGED log
  BY <1>1, LenProperties DEF TypeOK, Extends
<1>2. ASSUME NEW e \in Executors, Stores(e) PROVE log' \in Seq(Entry) /\ Extends(log', log)
  BY <1>2, CommitGrowsLog DEF Stores
<1>3. ASSUME NEW kind \in {"alien", "foreign"}, AppendOther(kind)
      PROVE  log' \in Seq(Entry) /\ Extends(log', log)
  BY <1>3, OtherGrowsLog
<1> QED BY <1>1, <1>2, <1>3, LogStep

\* Nothing has been folded before the first position.
LEMMA NoHistory ==
    ASSUME NEW E, NEW stream \in Seq(E)
    PROVE  History(stream, NoPosition) = {}
BY LenProperties DEF History, UpTo, Decodable, Positions, NoPosition

\* An execution that waits knows what it knew: the log keeps its history.
LEMMA WaitingKeepsInv ==
    ASSUME TypeOK, [Next]_vars, NEW e \in Executors, ExecutionInv(e), run'[e] = run[e]
    PROVE  ExecutionInv(e)'
<1> DEFINE x == run[e]
<1>1. /\ log \in Seq(Entry) /\ log' \in Seq(Entry) /\ Extends(log', log)
      /\ Len(log) \in Nat /\ Len(log') \in Nat /\ Len(log) <= Len(log')
  BY LogGrows, LenProperties DEF TypeOK, Extends
<1>2. x \in Execution
  BY DEF TypeOK
<1>3. \A p \in 0..Len(log) : History(log', p) = History(log, p)
  BY <1>1, ExtensionKeepsHistory
<1>4. x.base \in 0..Len(log) /\ x.base <= Len(log')
  BY <1>1, <1>2 DEF ExecutionInv, Execution
<1>5. x.tail \in 0..Len(log)
  BY <1>1, CurrentPositionIsLast DEF ExecutionInv, NoPosition
<1>6. x.tail \in {NoPosition} \cup OnSubject(log')
  BY <1>1, ExtensionKeepsHistory DEF ExecutionInv
<1>7. x.pc = "walk" => x.last \in 0..Len(log)
  BY <1>1, <1>2, <1>5 DEF ExecutionInv, Execution
<1>8. /\ History(log', x.base) = History(log, x.base)
      /\ History(log', x.tail) = History(log, x.tail)
      /\ x.pc = "walk" => History(log', x.last) = History(log, x.last)
  BY <1>3, <1>4, <1>5, <1>7
<1> QED BY <1>4, <1>6, <1>8 DEF ExecutionInv

\* Before its first read an execution has folded nothing.
LEMMA FreshInv ==
    ASSUME TypeOK, [Next]_vars, NEW e \in Executors,
           \/ run'[e] = Idle
           \/ \E revision, retries : run'[e] = Attempt(e, revision, retries)
    PROVE  ExecutionInv(e)'
<1>1. log' \in Seq(Entry)
  BY LogGrows
<1>2. Len(log') \in Nat /\ History(log', NoPosition) = {}
  BY <1>1, NoHistory, LenProperties
<1>3. /\ run'[e].pc \in {"idle", "snapshot", "decide"}
      /\ run'[e].base = NoPosition /\ run'[e].tail = NoPosition
      /\ run'[e].last = NoPosition /\ run'[e].state = {}
  <2>1. CASE run'[e] = Idle
    BY <2>1 DEF Idle
  <2>2. ASSUME NEW revision, NEW retries, run'[e] = Attempt(e, revision, retries)
        PROVE  /\ run'[e].pc \in {"idle", "snapshot", "decide"}
               /\ run'[e].base = NoPosition /\ run'[e].tail = NoPosition
               /\ run'[e].last = NoPosition /\ run'[e].state = {}
    BY <2>2 DEF Attempt, Idle
  <2> QED BY <2>1, <2>2
<1> QED BY <1>2, <1>3 DEF ExecutionInv, NoPosition

\* Ending an execution, or retrying it, leaves nothing to know.
LEMMA EndingInv ==
    ASSUME TypeOK, [Next]_vars, NEW e \in Executors,
           (\E result : Finish(e, result)) \/ Conflict(e)
    PROVE  ExecutionInv(e)'
<1>1. run \in [Executors -> Execution]
  BY DEF TypeOK
<1>2. CASE run' = [run EXCEPT ![e] = Idle]
  BY <1>1, <1>2, FreshInv
<1>3. CASE run' = [run EXCEPT ![e] = Attempt(e, run[e].revision, run[e].retries - 1)]
  BY <1>1, <1>3, FreshInv
<1> QED BY <1>2, <1>3 DEF Finish, Conflict

\* One turn of the replay loop, from a position to which the state is exact.
\* What is folded is exact to the last event folded, and when the loop ends, to
\* the pinned tail.
LEMMA ReplayInv ==
    ASSUME TypeOK, [Next]_vars, UNCHANGED log, NEW e \in Executors, ExecutionInv(e),
           NEW position \in Nat, NEW bound \in Nat, NEW tail \in Nat,
           position <= tail, tail \in {NoPosition} \cup OnSubject(log),
           run[e].state = History(log, position),
           run[e].last \in {NoPosition, position},
           Replay(e, ReadAfter(log, position, bound), tail),
           ChunkSize = Unset /\ WithinLimit(run[e].replayed
                 + Cardinality(UpTo(ReadAfter(log, position, bound), tail)))
             => ReadAfter(log, position, bound) = After(OnSubject(log), position)
    PROVE  ExecutionInv(e)'
<1> DEFINE chunk == ReadAfter(log, position, bound)
           kept  == UpTo(chunk, tail)
           count == run[e].replayed + Cardinality(kept)
           last  == IF kept = {} THEN run[e].last ELSE Max(kept)
           pc    == IF chunk # {} /\ ReadsOn(last, tail) THEN "walk" ELSE "decide"
           state == run[e].state \cup (kept \cap Decodable(log))
           next  == [run[e] EXCEPT !.pc = pc, !.tail = tail, !.last = last,
                                   !.replayed = count, !.state = state]
<1>1. CASE ~WithinLimit(count)
  <2>1. Finish(e, "limit")
    BY <1>1 DEF Replay, TruncateToTail
  <2> QED BY <2>1, EndingInv
<1>2. CASE WithinLimit(count)
  <2>1. run \in [Executors -> Execution] /\ log \in Seq(Entry)
    BY DEF TypeOK
  <2>2. run' = [run EXCEPT ![e] = next]
    BY <1>2, <2>1 DEF Replay, TruncateToTail
  <2>3. /\ kept # {} => /\ Max(kept) \in 1..Len(log)
                        /\ Max(kept) <= tail
                        /\ state = History(log, Max(kept))
        /\ \/ chunk = {}
           \/ kept = {}
           \/ Max(kept) >= tail
           \/ chunk = After(OnSubject(log), position)
           => state = History(log, tail)
    <3>1. kept = Kept(log, position, bound, tail) /\ state = Folded(log, position, bound, tail)
      BY DEF Kept, Folded
    <3>2. /\ log \in Seq(Entry) /\ position \in Nat /\ bound \in Nat /\ tail \in Nat
          /\ position <= tail
      BY <2>1
    <3> HIDE DEF kept, state
    <3> QED BY ONLY <3>1, <3>2, FoldChunk
  <2>4. kept = {} => state = run[e].state
    OBVIOUS
  <2>5. pc = "walk" => /\ ChunkSize # Unset
                       /\ last <= tail
                       /\ state = History(log, last)
    <3> SUFFICES ASSUME pc = "walk" PROVE ChunkSize # Unset /\ last <= tail /\ state = History(log, last)
      OBVIOUS
    <3>1. ChunkSize # Unset /\ last # NoPosition
      BY DEF ReadsOn
    <3>2. CASE kept = {}
      <4>1. last = position /\ state = run[e].state
        BY <3>1, <3>2, <2>4
      <4> QED BY <3>1, <4>1
    <3>3. CASE kept # {}
      <4>1. last = Max(kept)
        BY <3>3
      <4> HIDE DEF kept, state, last
      <4> QED BY <2>3, <3>1, <3>3, <4>1
    <3> QED BY <3>2, <3>3
  <2>6. pc = "decide" => state = History(log, tail)
    <3> SUFFICES ASSUME pc = "decide", kept # {}, chunk # {} PROVE state = History(log, tail)
      BY <2>3
    <3>1. last = Max(kept) /\ ~ReadsOn(last, tail)
      OBVIOUS
    <3>2. Max(kept) \in 1..Len(log) /\ Len(log) \in Nat
      BY <2>1, <2>3, LenProperties
    <3>3. ChunkSize = Unset \/ Max(kept) >= tail
      <4> HIDE DEF last, kept
      <4> QED BY <3>1, <3>2 DEF ReadsOn, NoPosition
    <3>4. ChunkSize = Unset => chunk = After(OnSubject(log), position)
      BY <1>2
    <3> HIDE DEF kept, chunk, state
    <3> QED BY <2>3, <3>3, <3>4
  <2>7. /\ run'[e].pc = pc /\ run'[e].tail = tail /\ run'[e].last = last
        /\ run'[e].state = state /\ run'[e].base = run[e].base
    <3>1. run'[e] = next
      BY <2>1, <2>2
    <3>2. run[e] \in Execution
      BY <2>1
    <3> HIDE DEF pc, last, state, count
    <3> QED BY <3>1, <3>2 DEF Execution
  <2>8. pc \in {"walk", "decide"}
    OBVIOUS
  <2> HIDE DEF pc, last, state, next
  <2> QED BY <2>5, <2>6, <2>7, <2>8 DEF ExecutionInv
<1> QED BY <1>1, <1>2

\* A first read that is not chunked and does not exceed the limit is complete.
LEMMA FirstReadIsComplete ==
    ASSUME TypeOK, NEW e \in Executors, ChunkSize = Unset,
           NEW chunk,
           chunk = ReadAfter(log, run[e].base, ReadBound(ReplayLimit, ChunkSize, 0)),
           WithinLimit(run[e].replayed + Cardinality(UpTo(chunk, CurrentPosition(log))))
    PROVE  chunk = After(OnSubject(log), run[e].base)
<1>1. /\ log \in Seq(Entry) /\ run[e].base \in Nat /\ run[e].replayed \in Nat
      /\ ReplayLimit \in Nat
  BY ConfigAssumption DEF TypeOK, Execution
<1>2. \A x \in OnSubject(log) : x \in 1..Len(log) /\ x <= CurrentPosition(log)
  BY <1>1, CurrentPositionIsLast
<1>3. CurrentPosition(log) \in Nat
  BY <1>1, CurrentPositionIsLast, LenProperties
<1>4. chunk \subseteq OnSubject(log)
  BY DEF ReadAfter, FirstOf, After
<1>5. UpTo(chunk, CurrentPosition(log)) = chunk
  BY <1>2, <1>4 DEF UpTo
<1>6. Cardinality(chunk) \in Nat
  BY <1>1, <1>3, <1>5, ReadType
<1>7. ReplayLimit = Unset \/ Cardinality(chunk) <= ReplayLimit
  BY <1>1, <1>5, <1>6 DEF WithinLimit
<1> QED BY <1>1, <1>7, UnchunkedReadIsComplete

\* What a guarded command's append may be guarded on is not past what it read.
LEMMA GuardsWithin ==
    ASSUME TypeOK, OnlyGuarded, NEW e \in Executors
    PROVE  Guards(e) \subseteq 0..run[e].tail
<1>1. run[e].tail \in Nat /\ run[e].revision \in Nat
  BY DEF TypeOK, Execution
<1>2. Precondition[e] \in {"StreamUnchanged", "NoStream"}
  BY DEF OnlyGuarded
<1> QED BY <1>1, <1>2 DEF Guards, WriteGuards, NoPosition

\* What every execution knows of the log, step by step.
LEMMA ExecutionStep ==
    ASSUME TypeOK, GuardedInv, OnlyGuarded, [Next]_vars, NEW e \in Executors
    PROVE  ExecutionInv(e)'
<1>1. run \in [Executors -> Execution] /\ log \in Seq(Entry) /\ Len(log) \in Nat
  BY LenProperties DEF TypeOK
<1>2. ExecutionInv(e) /\ \A s \in tasks \cup {snapshot} : s.position <= Len(log)
  BY DEF GuardedInv
<1>3. SUFFICES ASSUME run'[e] # run[e] PROVE ExecutionInv(e)'
  BY <1>2, WaitingKeepsInv
<1>4. Admit(e) \/ Refuse(e) \/ Fault(e) \/ Step(e)
  <2>1. PICK d \in Executors : Admit(d) \/ Refuse(d) \/ Fault(d) \/ Step(d)
    BY <1>3, OtherSteps
  <2>2. d = e
    BY <1>3, <2>1, ActionMovesOne DEF OthersWait
  <2> QED BY <2>1, <2>2
<1>5. CASE Admit(e)
  BY <1>1, <1>5, FreshInv DEF Admit
<1>6. CASE Refuse(e)
  BY <1>3, <1>6 DEF Refuse
<1>7. CASE Fault(e) \/ PublishDuplicate(e) \/ Publish(e) \/ PublishUnacknowledged(e)
  BY <1>7, EndingInv DEF Fault, PublishDuplicate, Publish, PublishUnacknowledged
<1>8. CASE PublishConflict(e)
  BY <1>8, EndingInv DEF PublishConflict
<1>9. CASE ReadSnapshot(e)
  <2> DEFINE next == [run[e] EXCEPT !.pc = "load", !.base = snapshot.position,
                                    !.state = snapshot.state]
  <2>1. run'[e] = next /\ run[e] \in Execution /\ UNCHANGED log /\ run[e].pc = "snapshot"
    BY <1>1, <1>9 DEF ReadSnapshot
  <2>2. /\ next.pc = "load" /\ next.base = snapshot.position /\ next.state = snapshot.state
        /\ next.tail = run[e].tail /\ next.last = run[e].last
    BY <2>1 DEF Execution
  <2>3. snapshot.state = History(log, snapshot.position) /\ snapshot.position <= Len(log)
    BY DEF GuardedInv, SnapshotCoversHistory
  <2> HIDE DEF next
  <2> QED BY <1>2, <2>1, <2>2, <2>3 DEF ExecutionInv
<1>10. CASE DiscardUnreadable(e)
  <2> DEFINE next == [run[e] EXCEPT !.pc = "load", !.discarded = TRUE]
  <2>1. run'[e] = next /\ run[e] \in Execution /\ UNCHANGED log /\ run[e].pc = "snapshot"
    BY <1>1, <1>10 DEF DiscardUnreadable
  <2>2. /\ next.pc = "load" /\ next.base = run[e].base /\ next.state = run[e].state
        /\ next.tail = run[e].tail /\ next.last = run[e].last
    BY <2>1 DEF Execution
  <2> HIDE DEF next
  <2> QED BY <1>2, <2>1, <2>2 DEF ExecutionInv
<1>11. CASE DiscardAhead(e)
  <2>1. CASE Finish(e, "failed")
    BY <2>1, EndingInv
  <2>2. CASE run' = [run EXCEPT ![e].base = NoPosition, ![e].state = {}, ![e].discarded = TRUE]
    <3> DEFINE next == [run[e] EXCEPT !.base = NoPosition, !.state = {}, !.discarded = TRUE]
    <3>1. run'[e] = next /\ run[e] \in Execution /\ UNCHANGED log /\ run[e].pc = "load"
      BY <1>1, <1>11, <2>2 DEF DiscardAhead
    <3>2. /\ next.pc = "load" /\ next.base = NoPosition /\ next.state = {}
          /\ next.tail = run[e].tail /\ next.last = run[e].last
      BY <3>1 DEF Execution
    <3>3. History(log, NoPosition) = {}
      BY <1>1, NoHistory
    <3> HIDE DEF next
    <3> QED BY <1>1, <1>2, <3>1, <3>2, <3>3 DEF ExecutionInv, NoPosition
  <2> QED BY <1>11, <2>1, <2>2 DEF DiscardAhead
<1>12. CASE Load(e)
  <2> DEFINE position == run[e].base
             bound    == ReadBound(ReplayLimit, ChunkSize, 0)
             tail     == CurrentPosition(log)
             chunk    == ReadAfter(log, position, bound)
  <2>1. /\ run[e] \in Execution /\ UNCHANGED log /\ run[e].pc = "load"
        /\ ~SnapshotAhead(e) /\ Replay(e, chunk, tail)
    BY <1>1, <1>12 DEF Load
  <2>2. /\ position \in Nat /\ tail \in Nat /\ tail \in {NoPosition} \cup OnSubject(log)
        /\ run[e].replayed \in Nat
        /\ \A x \in OnSubject(log) : x \in 1..Len(log) /\ x <= tail
    BY <1>1, <2>1, CurrentPositionIsLast DEF Execution
  <2>3. bound \in Nat /\ ReplayLimit \in Nat
    BY ConfigAssumption, ReadBoundType
  <2>4. position <= tail
    BY <2>1, <2>2 DEF SnapshotAhead
  <2>5. run[e].state = History(log, position) /\ run[e].last = NoPosition
    BY <1>2, <2>1 DEF ExecutionInv
  <2>6. ASSUME ChunkSize = Unset, WithinLimit(run[e].replayed + Cardinality(UpTo(chunk, tail)))
        PROVE  chunk = After(OnSubject(log), position)
    BY <2>6, FirstReadIsComplete
  <2> HIDE DEF position, bound, tail
  <2> QED BY <1>2, <2>1, <2>2, <2>3, <2>4, <2>5, <2>6, ReplayInv
<1>13. CASE Walk(e)
  <2> DEFINE position == run[e].last
             bound    == ReadBound(ReplayLimit, ChunkSize, run[e].replayed)
             tail     == run[e].tail
             chunk    == ReadAfter(log, position, bound)
  <2>1. /\ run[e] \in Execution /\ UNCHANGED log /\ run[e].pc = "walk"
        /\ Replay(e, chunk, tail)
    BY <1>1, <1>13 DEF Walk
  <2>2. position \in Nat /\ tail \in Nat /\ run[e].replayed \in Nat
    BY <2>1 DEF Execution
  <2>3. bound \in Nat
    BY <2>2, ConfigAssumption, ReadBoundType
  <2>4. /\ position <= tail /\ tail \in {NoPosition} \cup OnSubject(log)
        /\ run[e].state = History(log, position) /\ ChunkSize # Unset
    BY <1>2, <2>1 DEF ExecutionInv
  <2>5. run[e].last \in {NoPosition, position}
    OBVIOUS
  <2> HIDE DEF position, bound, tail
  <2> QED BY <1>2, <2>1, <2>2, <2>3, <2>4, <2>5, ReplayInv
<1>14. CASE Decide(e)
  <2>1. CASE Finish(e, "precondition") \/ Finish(e, "rejected") \/ Conflict(e)
    BY <2>1, EndingInv
  <2>2. ASSUME NEW guard \in Guards(e), NEW n \in 1..MaxBatch,
               run' = [run EXCEPT ![e].pc = "publish", ![e].guard = guard, ![e].batch = n]
        PROVE  ExecutionInv(e)'
    <3> DEFINE next == [run[e] EXCEPT !.pc = "publish", !.guard = guard, !.batch = n]
    <3>1. run'[e] = next /\ run[e] \in Execution /\ UNCHANGED log /\ run[e].pc = "decide"
      BY <1>1, <1>14, <2>2 DEF Decide
    <3>2. /\ next.pc = "publish" /\ next.guard = guard /\ next.batch = n
          /\ next.base = run[e].base /\ next.state = run[e].state
          /\ next.tail = run[e].tail /\ next.last = run[e].last
      BY <3>1 DEF Execution
    <3>3. guard \in 0..run[e].tail
      BY GuardsWithin
    <3> HIDE DEF next
    <3> QED BY <1>2, <3>1, <3>2, <3>3 DEF ExecutionInv
  <2> QED BY <1>14, <2>1, <2>2 DEF Decide
<1> QED
  BY <1>4, <1>5, <1>6, <1>7, <1>8, <1>9, <1>10, <1>11, <1>12, <1>13, <1>14 DEF Step

\* A batch stored under its guard was decided on all there was.
LEMMA StoredOnAll ==
    ASSUME TypeOK, GuardedInv, NEW e \in Executors, Stores(e)
    PROVE  /\ run[e].state = Decodable(log)
           /\ run[e].guard = CurrentPosition(log)
           /\ run[e].batch \in 1..MaxBatch
<1>1. /\ log \in Seq(Entry) /\ Len(log) \in Nat /\ run[e] \in Execution
      /\ run[e].tail \in Nat
  BY LenProperties DEF TypeOK, Execution
<1>2. /\ run[e].pc = "publish" /\ run[e].guard \in {NoGuard, CurrentPosition(log)}
  BY DEF Stores, GuardHolds
<1>3. /\ run[e].tail \in {NoPosition} \cup OnSubject(log)
      /\ run[e].state = History(log, run[e].tail)
      /\ run[e].guard \in 0..run[e].tail /\ run[e].batch \in 1..MaxBatch
  BY <1>2 DEF GuardedInv, ExecutionInv
<1>4. /\ CurrentPosition(log) \in Nat
      /\ \A x \in OnSubject(log) : x <= CurrentPosition(log)
      /\ Decodable(log) \subseteq OnSubject(log)
      /\ \A x \in OnSubject(log) : x \in 1..Len(log)
  BY <1>1, CurrentPositionIsLast
<1>5. run[e].guard = CurrentPosition(log) /\ run[e].tail = CurrentPosition(log)
  BY <1>1, <1>2, <1>3, <1>4 DEF NoGuard, NoPosition
<1>6. History(log, CurrentPosition(log)) = Decodable(log)
  BY <1>4 DEF History, UpTo
<1> QED BY <1>3, <1>5, <1>6

\* What is known of the snapshot and of the tasks that will write it.
SnapshotInv ==
    \A s \in tasks \cup {snapshot} : s.state = History(log, s.position) /\ s.position <= Len(log)

\* What a growing log leaves of a snapshot, or of a task that is to write one.
LEMMA SnapshotKept ==
    ASSUME TypeOK, [Next]_vars, SnapshotInv, NEW s \in tasks \cup {snapshot}
    PROVE  s.state = History(log', s.position) /\ s.position <= Len(log')
<1>1. /\ log \in Seq(Entry) /\ log' \in Seq(Entry) /\ Extends(log', log)
      /\ Len(log) \in Nat /\ Len(log') \in Nat /\ Len(log) <= Len(log')
  BY LogGrows, LenProperties DEF TypeOK, Extends
<1>2. s.position \in 0..Len(log) /\ s.position <= Len(log')
  BY <1>1 DEF TypeOK, SnapshotInv
<1>3. History(log', s.position) = History(log, s.position)
  BY <1>1, <1>2, ExtensionKeepsHistory
<1> QED BY <1>2, <1>3 DEF SnapshotInv

\* The task an execution schedules covers the log as its batch leaves it.
LEMMA TaskCovers ==
    ASSUME TypeOK, GuardedInv, NEW e \in Executors, Stores(e)
    PROVE  /\ SnapshotTask(e).state = History(log', SnapshotTask(e).position)
           /\ SnapshotTask(e).position <= Len(log')
<1>1. /\ Len(log) \in Nat /\ run[e].batch \in Nat
      /\ Len(log') = Len(log) + run[e].batch
      /\ Decodable(log') = Decodable(log) \cup (Len(log) + 1)..(Len(log) + run[e].batch)
      /\ log' \in Seq(Entry)
  BY CommitGrowsLog, LenProperties DEF Stores, TypeOK, Execution
<1>2. \A x \in Decodable(log') : x \in 1..Len(log')
  BY DEF Decodable, Positions
<1>3. History(log', Len(log')) = Decodable(log')
  BY <1>1, <1>2 DEF History, UpTo
<1>4. SnapshotTask(e).state = Decodable(log') /\ SnapshotTask(e).position = Len(log')
  BY <1>1, StoredOnAll DEF SnapshotTask
<1> QED BY <1>1, <1>3, <1>4

\* A snapshot and its tasks cover their history step by step.
LEMMA SnapshotStep ==
    ASSUME TypeOK, GuardedInv, [Next]_vars
    PROVE  SnapshotInv'
<1>1. SnapshotInv
  BY DEF GuardedInv, SnapshotCoversHistory, SnapshotInv
<1>2. SUFFICES ASSUME NEW s \in tasks' \cup {snapshot'}, s \notin tasks \cup {snapshot}
               PROVE  s.state = History(log', s.position) /\ s.position <= Len(log')
  BY <1>1, SnapshotKept DEF SnapshotInv
<1>3. ASSUME NEW e \in Executors, Publish(e)
      PROVE  s.state = History(log', s.position) /\ s.position <= Len(log')
  <2>1. s = SnapshotTask(e) /\ Stores(e)
    BY <1>2, <1>3 DEF Publish, Stores
  <2> QED BY <2>1, TaskCovers
<1>4. ASSUME NEW task \in tasks, WriteSnapshot(task) \/ LoseSnapshot(task) PROVE FALSE
  <2>1. task = [position |-> task.position, state |-> task.state]
    BY DEF TypeOK
  <2>2. tasks' \subseteq tasks /\ snapshot' \in {snapshot, task}
    BY <1>4, <2>1 DEF WriteSnapshot, LoseSnapshot
  <2> QED BY <1>2, <2>2
<1>5. ASSUME NEW e \in Executors, Admit(e) \/ Refuse(e) \/ Fault(e) \/ Step(e), ~Publish(e)
      PROVE  UNCHANGED <<snapshot, tasks>>
  <2>1. CASE Admit(e) \/ Refuse(e) \/ Fault(e)
    BY <2>1 DEF Admit, Refuse, Fault, Deliver
  <2>2. CASE ReadSnapshot(e) \/ DiscardUnreadable(e) \/ DiscardAhead(e)
    BY <2>2 DEF ReadSnapshot, DiscardUnreadable, DiscardAhead
  <2>3. CASE Load(e) \/ Walk(e)
    BY <2>3 DEF Load, Walk
  <2>4. CASE Decide(e)
    BY <2>4 DEF Decide
  <2>5. CASE PublishDuplicate(e) \/ PublishConflict(e) \/ PublishUnacknowledged(e)
    BY <2>5 DEF PublishDuplicate, PublishConflict, PublishUnacknowledged
  <2> QED BY <1>5, <2>1, <2>2, <2>3, <2>4, <2>5 DEF Step
<1>6. ASSUME NEW kind \in {"alien", "foreign"}, AppendOther(kind)
      PROVE  UNCHANGED <<snapshot, tasks>>
  BY <1>6 DEF AppendOther
<1> QED BY <1>2, <1>3, <1>4, <1>5, <1>6 DEF Next, vars, Step

\* The history before an old batch does not change.
LEMMA BeforeKept ==
    ASSUME TypeOK, log' \in Seq(Entry), Extends(log', log), NEW p \in Decodable(log)
    PROVE  Before(Decodable(log'), BatchStart(p)) = Before(Decodable(log), BatchStart(p))
<1>1. /\ log \in Seq(Entry) /\ p \in 1..Len(log) /\ Len(log) \in Nat /\ Len(log') \in Nat
  BY OldEntry, LenProperties DEF TypeOK
<1>2. log[p] \in Entry
  BY <1>1
<1>3. BatchStart(p) \in Int /\ BatchStart(p) <= Len(log)
  BY <1>1, <1>2 DEF BatchStart, Entry
<1>4. \A x \in Decodable(log') : x \in 1..Len(log')
  BY DEF Decodable, Positions
<1>5. \A x \in 1..Len(log) : x \in Decodable(log') <=> x \in Decodable(log)
  BY <1>1, ExtensionKeepsHistory
<1>6. Decodable(log) \subseteq Decodable(log')
  BY <1>1, ExtensionKeepsHistory
<1>7. ASSUME NEW x \in Decodable(log'), x < BatchStart(p) PROVE x \in Decodable(log)
  <2>1. x \in 1..Len(log)
    BY <1>1, <1>3, <1>4, <1>7
  <2> QED BY <1>5, <2>1
<1> QED BY <1>6, <1>7 DEF Before

\* Decisions stay exact step by step.
LEMMA DecidedStep ==
    ASSUME TypeOK, GuardedInv, [Next]_vars
    PROVE  DecidedOnExactHistory'
<1>1. log' \in Seq(Entry) /\ Extends(log', log)
  BY LogGrows
<1>2. SUFFICES ASSUME NEW p \in Decodable(log'), log'[p].guard # NoGuard
               PROVE  log'[p].seen = Before(Decodable(log'), BatchStart(p)')
  BY DEF DecidedOnExactHistory
<1>3. CASE p \in Decodable(log)
  <2>1. log'[p] = log[p] /\ BatchStart(p)' = BatchStart(p)
    BY <1>1, <1>3, OldEntry
  <2>2. log[p].seen = Before(Decodable(log), BatchStart(p))
    BY <1>2, <1>3, <2>1 DEF GuardedInv, DecidedOnExactHistory
  <2> QED BY <1>1, <1>3, <2>1, <2>2, BeforeKept
<1>4. ASSUME NEW e \in Executors, Stores(e), p \notin Decodable(log)
      PROVE  log'[p].seen = Before(Decodable(log'), BatchStart(p)')
  <2>1. /\ log'[p].seen = run[e].state /\ BatchStart(p)' = Len(log) + 1 /\ Len(log) \in Nat
    BY <1>4, StoredBatch DEF Stores
  <2>2. run[e].state = Decodable(log) /\ run[e].batch \in Nat
    BY <1>4, StoredOnAll DEF TypeOK, Execution
  <2>3. Decodable(log') = Decodable(log) \cup (Len(log) + 1)..(Len(log) + run[e].batch)
    BY <1>4, CommitGrowsLog DEF Stores
  <2>4. \A x \in Decodable(log) : x \in 1..Len(log)
    BY DEF Decodable, Positions
  <2>5. Before(Decodable(log'), Len(log) + 1) = Decodable(log)
    BY <2>1, <2>2, <2>3, <2>4 DEF Before
  <2> QED BY <2>1, <2>2, <2>5
<1>5. ASSUME NEW kind \in {"alien", "foreign"}, AppendOther(kind) PROVE p \in Decodable(log)
  BY <1>2, <1>5, OtherGrowsLog
<1> QED BY <1>2, <1>3, <1>4, <1>5, LogStep

\* GuardedInv is inductive where every command is guarded.
LEMMA GuardedStep == OnlyGuarded /\ TypeOK /\ GuardedInv /\ [Next]_vars => GuardedInv'
<1> SUFFICES ASSUME OnlyGuarded, TypeOK, GuardedInv, [Next]_vars PROVE GuardedInv'
  OBVIOUS
<1>1. \A e \in Executors : ExecutionInv(e)'
  BY ExecutionStep
<1> QED BY <1>1, SnapshotStep, DecidedStep DEF GuardedInv, SnapshotInv, SnapshotCoversHistory

\* It holds before the first delivery.
LEMMA GuardedInit == Init => GuardedInv
<1> SUFFICES ASSUME Init PROVE GuardedInv
  OBVIOUS
<1>1. Decodable(log) = {} /\ Len(log) = 0
  BY DEF Init, Decodable, Positions
<1>2. \A e \in Executors : ExecutionInv(e)
  BY <1>1 DEF Init, Idle, ExecutionInv, NoPosition
<1>3. \A s \in tasks \cup {snapshot} : s.position = NoPosition /\ s.state = {}
  BY DEF Init
<1> QED
  BY <1>1, <1>2, <1>3 DEF GuardedInv, SnapshotCoversHistory, DecidedOnExactHistory,
                          History, UpTo, NoPosition

\* GuardedInv holds of every configuration of guarded commands.
LEMMA GuardedInvHolds == OnlyGuarded => (Spec => [](TypeOK /\ GuardedInv))
<1> SUFFICES ASSUME OnlyGuarded PROVE Spec => [](TypeOK /\ GuardedInv)
  OBVIOUS
<1>1. TypeOK /\ GuardedInv /\ [Next]_vars => (TypeOK /\ GuardedInv)'
  BY TypeStep, GuardedStep
<1> QED BY <1>1, InitType, GuardedInit, PTL DEF Spec

\* DecidedOnExactHistory (execution.rs): a guarded command is decided on exactly
\* the history its batch is appended to, for any number of executions, chunks,
\* retries, discarded snapshots and other writers.
THEOREM HistoryExact == OnlyGuarded => (Spec => []DecidedOnExactHistory)
<1>1. GuardedInv => DecidedOnExactHistory
  BY DEF GuardedInv
<1> QED BY <1>1, GuardedInvHolds, PTL

\* SnapshotCoversHistory (execution.rs): a snapshot never omits an event at or
\* below its position, so replay may resume after it.
THEOREM SnapshotsCover == OnlyGuarded => (Spec => []SnapshotCoversHistory)
<1>1. GuardedInv => SnapshotCoversHistory
  BY DEF GuardedInv
<1> QED BY <1>1, GuardedInvHolds, PTL

-----------------------------------------------------------------------------
(* The refinement of SerialStream. *)

\* SerialStream reads the log with the same operators of EventLog.
LEMMA SameOperators ==
    ASSUME NEW stream
    PROVE  /\ Serial!Decodable(stream) = Decodable(stream)
           /\ Serial!CurrentPosition(stream) = CurrentPosition(stream)
           /\ \A ids, seen, guard : Serial!Batch(ids, seen, guard) = Batch(ids, seen, guard)
           /\ \A kind : Serial!Other(kind) = Other(kind)
<1>1. Serial!Positions(stream) = Positions(stream)
  BY DEF Serial!Positions, Positions
<1>2. Serial!Decodable(stream) = Decodable(stream)
  BY <1>1 DEF Serial!Decodable, Decodable
<1>3. Serial!OnSubject(stream) = OnSubject(stream)
  BY <1>1 DEF Serial!OnSubject, OnSubject
<1>4. ASSUME NEW S PROVE Serial!LastOf(S) = LastOf(S)
  BY DEF Serial!LastOf, LastOf, Serial!Max, Max, Serial!NoPosition, NoPosition
<1>5. Serial!CurrentPosition(stream) = CurrentPosition(stream)
  BY <1>3, <1>4 DEF Serial!CurrentPosition, CurrentPosition
<1>6. ASSUME NEW ids, NEW seen, NEW guard PROVE Serial!Batch(ids, seen, guard) = Batch(ids, seen, guard)
  BY DEF Serial!Batch, Batch, Serial!Event, Event
<1>7. ASSUME NEW kind PROVE Serial!Other(kind) = Other(kind)
  BY DEF Serial!Other, Other, Serial!NoGuard, NoGuard
<1> QED BY <1>2, <1>5, <1>6, <1>7

\* A command whose first event id is not in the log has not taken effect.
LEMMA NotApplied ==
    ASSUME TypeOK, LogIdentity, NEW e \in Executors, ~Duplicate(e),
           run[e].batch \in Nat \ {0}
    PROVE  ~Serial!Applied(e, Key(e))
<1> SUFFICES ASSUME NEW p \in Decodable(log), log[p].id[1] = e, log[p].id[2] = Key(e)
             PROVE  FALSE
  BY SameOperators DEF Serial!Applied
<1>1. 1 \in 1..run[e].batch
  OBVIOUS
<1>2. EventIds(e)[1] = <<e, Key(e), 1>>
  BY <1>1 DEF EventIds, Key
<1>3. log[BatchStart(p)].id = <<e, Key(e), 1>> /\ BatchStart(p) \in Decodable(log)
  BY DEF LogIdentity
<1>4. EventIds(e)[1] \in Ids(log)
  BY <1>2, <1>3 DEF Ids
<1> QED BY <1>1, <1>4 DEF Duplicate

\* Storing a batch is the command taking effect.
LEMMA StoresIsExecute ==
    ASSUME TypeOK, GuardedInv, Delivered, LogIdentity, NEW e \in Executors, Stores(e),
           NEW result \in {"succeeded", "failed"},
           outcome' = [outcome EXCEPT ![e] = result]
    PROVE  Serial!Execute(e)
<1>1. /\ run[e].state = Decodable(log) /\ run[e].guard = CurrentPosition(log)
      /\ run[e].batch \in 1..MaxBatch
  BY StoredOnAll
<1>2. ~Serial!Applied(e, Key(e))
  BY <1>1, NotApplied, ConfigAssumption DEF Stores
<1>3. Key(e) \in Serial!Keys(e)
  <2>1. delivery[e] # 0 /\ delivery[e] \in 0..MaxDeliveries /\ MaxDeliveries \in Nat
    BY ConfigAssumption DEF Delivered, Active, Stores, TypeOK
  <2> QED BY <2>1 DEF Key, Serial!Keys
<1>4. log' = log \o Batch([i \in 1..run[e].batch |-> <<e, Key(e), i>>],
                          Decodable(log), CurrentPosition(log))
  BY <1>1 DEF Stores, Commit, EventIds, Key
<1>5. log' = log \o Serial!Batch([i \in 1..run[e].batch |-> <<e, Key(e), i>>],
                                 Serial!Decodable(log), Serial!CurrentPosition(log))
  BY <1>4, SameOperators
<1> QED BY <1>1, <1>2, <1>3, <1>5 DEF Serial!Execute

\* The answers of a delivery that had no effect.
LEMMA AnswerIsReject ==
    ASSUME NEW e \in Executors, UNCHANGED log,
           NEW result \in {"none", "overloaded", "denied", "precondition",
                           "rejected", "limit", "conflict", "failed"},
           outcome' = [outcome EXCEPT ![e] = result]
    PROVE  Serial!Reject(e)
BY DEF Serial!Reject

\* A conflict is retried, which is not visible, or reported.
LEMMA ConflictIsReject ==
    ASSUME NEW e \in Executors, UNCHANGED log, Conflict(e)
    PROVE  UNCHANGED outcome \/ Serial!Reject(e)
<1>1. CASE Finish(e, "conflict")
  BY <1>1, AnswerIsReject DEF Finish
<1> QED BY <1>1 DEF Conflict

\* A turn of the replay loop is not visible, unless it ends the execution.
LEMMA ReplayIsReject ==
    ASSUME NEW e \in Executors, NEW chunk, NEW tail, UNCHANGED log, Replay(e, chunk, tail)
    PROVE  UNCHANGED outcome \/ Serial!Reject(e)
<1>1. CASE Finish(e, "limit")
  BY <1>1, AnswerIsReject DEF Finish
<1> QED BY <1>1 DEF Replay

\* What the caller of one execution sees of its steps.
LEMMA ExecutionRefines ==
    ASSUME TypeOK, GuardedInv, Delivered, LogIdentity, NEW e \in Executors,
           Admit(e) \/ Refuse(e) \/ Fault(e) \/ Step(e)
    PROVE  UNCHANGED <<log, outcome>> \/ Serial!Execute(e) \/ Serial!Reject(e)
<1>1. CASE Admit(e)
  BY <1>1, AnswerIsReject DEF Admit, Deliver
<1>2. CASE Refuse(e)
  <2>1. UNCHANGED log
    BY <1>2 DEF Refuse, Deliver
  <2>2. \/ outcome' = [outcome EXCEPT ![e] = "overloaded"]
        \/ outcome' = [outcome EXCEPT ![e] = "denied"]
    BY <1>2 DEF Refuse
  <2> QED BY <2>1, <2>2, AnswerIsReject
<1>3. CASE Fault(e)
  BY <1>3, AnswerIsReject DEF Fault, Finish
<1>4. CASE ReadSnapshot(e) \/ DiscardUnreadable(e)
  BY <1>4 DEF ReadSnapshot, DiscardUnreadable
<1>5. CASE DiscardAhead(e)
  <2>1. CASE Finish(e, "failed")
    BY <1>5, <2>1, AnswerIsReject DEF DiscardAhead, Finish
  <2> QED BY <1>5, <2>1 DEF DiscardAhead
<1>6. CASE Load(e)
  BY <1>6, ReplayIsReject DEF Load
<1>7. CASE Walk(e)
  BY <1>7, ReplayIsReject DEF Walk
<1>8. CASE Decide(e)
  <2>1. UNCHANGED log
    BY <1>8 DEF Decide
  <2>2. CASE Finish(e, "precondition") \/ Finish(e, "rejected")
    BY <2>1, <2>2, AnswerIsReject DEF Finish
  <2>3. CASE Conflict(e)
    BY <2>1, <2>3, ConflictIsReject
  <2> QED BY <1>8, <2>1, <2>2, <2>3 DEF Decide
<1>9. CASE PublishDuplicate(e)
  BY <1>9, AnswerIsReject DEF PublishDuplicate, Finish
<1>10. CASE PublishConflict(e)
  BY <1>10, ConflictIsReject DEF PublishConflict
<1>11. CASE Publish(e)
  BY <1>11, StoresIsExecute DEF Publish, Stores, Finish
<1>12. CASE PublishUnacknowledged(e)
  BY <1>12, StoresIsExecute DEF PublishUnacknowledged, Stores, Finish
<1> QED
  BY <1>1, <1>2, <1>3, <1>4, <1>5, <1>6, <1>7, <1>8, <1>9, <1>10, <1>11, <1>12 DEF Step

\* Every step of the implementation is a step of SerialStream or invisible.
LEMMA RefinementStep ==
    ASSUME TypeOK, GuardedInv, Delivered, LogIdentity, [Next]_vars
    PROVE  [Serial!Next]_<<log, outcome>>
<1>1. CASE UNCHANGED vars
  BY <1>1 DEF vars
<1>2. ASSUME NEW e \in Executors, Admit(e) \/ Refuse(e) \/ Fault(e) \/ Step(e)
      PROVE  [Serial!Next]_<<log, outcome>>
  BY <1>2, ExecutionRefines DEF Serial!Next
<1>3. ASSUME NEW task \in tasks, WriteSnapshot(task) \/ LoseSnapshot(task)
      PROVE  UNCHANGED <<log, outcome>>
  BY <1>3 DEF WriteSnapshot, LoseSnapshot
<1>4. ASSUME NEW kind \in {"alien", "foreign"}, AppendOther(kind)
      PROVE  Serial!Next
  BY <1>4, SameOperators DEF AppendOther, Serial!Next, Serial!AppendOther
<1> QED BY <1>1, <1>2, <1>3, <1>4 DEF Next

\* ImplementsSerialStream: concurrent, chunked, retried and snapshotted execution
\* of guarded commands is, seen from outside, the serial stream. Each delivery
\* takes effect in one step on the whole history or not at all, an identified
\* command at most once, and success is only ever answered to one that did.
THEOREM ExecutionIsSerial == OnlyGuarded => (Spec => ImplementsSerialStream)
<1> SUFFICES ASSUME OnlyGuarded PROVE Spec => Serial!Spec
  BY DEF ImplementsSerialStream
<1>1. Init => Serial!Init
  BY DEF Init, Serial!Init
<1>2. TypeOK /\ GuardedInv /\ IdentityInv /\ [Next]_vars => [Serial!Next]_<<log, outcome>>
  BY RefinementStep DEF IdentityInv, Delivered, LogIdentity
<1>3. Spec => [](TypeOK /\ GuardedInv)
  BY GuardedInvHolds
<1> QED BY <1>1, <1>2, <1>3, IdentityInvHolds, PTL DEF Spec, Serial!Spec

-----------------------------------------------------------------------------
(* What every execution has counted and folded, guarded or not. *)

\* An execution counts exactly the events between its snapshot and the last it
\* folded, within the tail it is pinned to.
CountInv(e) ==
    LET x == run[e]
    IN  /\ outcome[e] = "none"
        /\ x.tail \in {NoPosition} \cup OnSubject(log)
        /\ x.pc = "snapshot" => x.base = NoPosition /\ x.state = {} /\ ~x.discarded
        /\ x.pc \in {"snapshot", "load"} => x.last = NoPosition /\ x.replayed = 0
        /\ x.pc \in {"walk", "decide", "publish"} =>
              /\ x.base <= x.tail /\ x.last <= x.tail
              /\ x.replayed = Cardinality(Between(log, x.base, x.last))
        /\ x.pc = "walk" => ChunkSize # Unset /\ x.last # NoPosition /\ x.base <= x.last
        /\ x.pc = "publish" =>
              /\ x.guard \in Guards(e)
              /\ (Precondition[e] = "StreamExists" /\ x.revision = NoPosition
                    => OnSubject(log) # {})

\* An execution that discarded a snapshot has replayed from the beginning.
CleanInv(e) ==
    run[e].discarded =>
        /\ run[e].base = NoPosition
        /\ run[e].pc # "publish" => ExecutionInv(e)
        /\ run[e].pc = "publish" => run[e].state = History(log, run[e].tail)

AttemptInv == \A e \in Executors : Active(e) => CountInv(e) /\ CleanInv(e)

\* Only one execution is answered.
OthersUnanswered(d) == \A e \in Executors : e # d => outcome'[e] = outcome[e]

\* Ending, or retrying after a conflict, answers at most one delivery.
LEMMA EndingAnswersOne ==
    ASSUME TypeOK, NEW d \in Executors
    PROVE  /\ \A result : Finish(d, result) => OthersUnanswered(d)
           /\ Conflict(d) => OthersUnanswered(d)
           /\ \A chunk, tail : Replay(d, chunk, tail) => OthersUnanswered(d)
<1>1. outcome \in [Executors -> Results]
  BY DEF TypeOK
<1>2. ASSUME NEW result, Finish(d, result) PROVE OthersUnanswered(d)
  BY <1>1, <1>2 DEF Finish, OthersUnanswered
<1>3. UNCHANGED outcome => OthersUnanswered(d)
  BY DEF OthersUnanswered
<1>4. ASSUME Conflict(d) PROVE OthersUnanswered(d)
  BY <1>2, <1>3, <1>4 DEF Conflict
<1>5. ASSUME NEW chunk, NEW tail, Replay(d, chunk, tail) PROVE OthersUnanswered(d)
  BY <1>2, <1>3, <1>5 DEF Replay
<1> QED BY <1>2, <1>4, <1>5

\* So do the steps of an execution.
LEMMA ActionAnswersOne ==
    ASSUME TypeOK, NEW d \in Executors, Admit(d) \/ Refuse(d) \/ Fault(d) \/ Step(d)
    PROVE  OthersUnanswered(d)
<1>1. outcome \in [Executors -> Results]
  BY DEF TypeOK
<1>2. UNCHANGED outcome => OthersUnanswered(d)
  BY DEF OthersUnanswered
<1>3. CASE Admit(d) \/ Refuse(d)
  BY <1>1, <1>3 DEF Admit, Refuse, OthersUnanswered
<1>4. CASE Fault(d)
  BY <1>4, EndingAnswersOne DEF Fault
<1>5. CASE ReadSnapshot(d) \/ DiscardUnreadable(d)
  BY <1>2, <1>5 DEF ReadSnapshot, DiscardUnreadable
<1>6. CASE DiscardAhead(d)
  <2>1. Finish(d, "failed") => OthersUnanswered(d)
    BY EndingAnswersOne
  <2> QED BY <1>2, <1>6, <2>1 DEF DiscardAhead
<1>7. CASE Load(d) \/ Walk(d)
  BY <1>7, EndingAnswersOne DEF Load, Walk
<1>8. CASE Decide(d)
  <2>1. /\ Finish(d, "precondition") => OthersUnanswered(d)
        /\ Finish(d, "rejected") => OthersUnanswered(d)
        /\ Conflict(d) => OthersUnanswered(d)
    BY EndingAnswersOne
  <2> QED BY <1>2, <1>8, <2>1 DEF Decide
<1>9. CASE \/ PublishDuplicate(d) \/ PublishConflict(d)
           \/ Publish(d) \/ PublishUnacknowledged(d)
  BY <1>9, EndingAnswersOne
     DEF PublishDuplicate, PublishConflict, Publish, PublishUnacknowledged
<1> QED
  BY <1>3, <1>4, <1>5, <1>6, <1>7, <1>8, <1>9 DEF Step

\* A step is one of this execution, or leaves it and its answer alone.
LEMMA MovesOrWaits ==
    ASSUME TypeOK, [Next]_vars, NEW e \in Executors,
           ~(Admit(e) \/ Refuse(e) \/ Fault(e) \/ Step(e))
    PROVE  run'[e] = run[e] /\ outcome'[e] = outcome[e]
<1>1. ASSUME NEW d \in Executors, Admit(d) \/ Refuse(d) \/ Fault(d) \/ Step(d)
      PROVE  run'[e] = run[e] /\ outcome'[e] = outcome[e]
  <2>1. d # e
    BY <1>1
  <2>2. OthersWait(d) /\ OthersUnanswered(d)
    BY <1>1, ActionMovesOne, ActionAnswersOne
  <2> QED BY <2>1, <2>2 DEF OthersWait, OthersUnanswered
<1>2. CASE UNCHANGED vars
  BY <1>2 DEF vars
<1>3. ASSUME NEW task \in tasks, WriteSnapshot(task) \/ LoseSnapshot(task)
      PROVE  UNCHANGED <<run, outcome>>
  BY <1>3 DEF WriteSnapshot, LoseSnapshot
<1>4. ASSUME NEW kind \in {"alien", "foreign"}, AppendOther(kind)
      PROVE  UNCHANGED <<run, outcome>>
  BY <1>4 DEF AppendOther
<1> QED BY <1>1, <1>2, <1>3, <1>4 DEF Next

\* An execution that waits has counted what it had counted.
LEMMA WaitingKeepsCount ==
    ASSUME TypeOK, [Next]_vars, NEW e \in Executors, CountInv(e),
           run'[e] = run[e], outcome'[e] = outcome[e]
    PROVE  CountInv(e)'
<1> DEFINE x == run[e]
<1>1. /\ log \in Seq(Entry) /\ log' \in Seq(Entry) /\ Extends(log', log) /\ Len(log) \in Nat
  BY LogGrows, LenProperties DEF TypeOK
<1>2. x.base \in Nat /\ x.last \in Nat /\ x.tail \in Nat
  BY DEF TypeOK, Execution
<1>3. OnSubject(log) \subseteq OnSubject(log')
  BY <1>1, ExtensionKeepsHistory
<1>4. x.tail \in 0..Len(log)
  BY <1>1, CurrentPositionIsLast DEF CountInv, NoPosition
<1>5. ASSUME x.pc \in {"walk", "decide", "publish"}
      PROVE  Between(log', x.base, x.last) = Between(log, x.base, x.last)
  <2>1. x.last \in 0..Len(log)
    BY <1>1, <1>2, <1>4, <1>5 DEF CountInv
  <2> QED BY <1>1, <1>2, <2>1, BetweenKept
<1>6. Guards(e)' = Guards(e)
  BY DEF Guards
<1> HIDE DEF x
<1>7. run'[e] = x /\ run[e] = x
  BY DEF x
<1> QED BY <1>3, <1>5, <1>6, <1>7 DEF CountInv

\* An execution that waits after a discard has folded what it had folded.
LEMMA WaitingKeepsClean ==
    ASSUME TypeOK, [Next]_vars, NEW e \in Executors, CountInv(e), CleanInv(e), run'[e] = run[e]
    PROVE  CleanInv(e)'
<1>1. /\ log \in Seq(Entry) /\ log' \in Seq(Entry) /\ Extends(log', log) /\ Len(log) \in Nat
  BY LogGrows, LenProperties DEF TypeOK
<1>2. run[e].tail \in 0..Len(log)
  BY <1>1, CurrentPositionIsLast DEF CountInv, NoPosition
<1>3. History(log', run[e].tail) = History(log, run[e].tail)
  BY <1>1, <1>2, ExtensionKeepsHistory
<1>4. ExecutionInv(e) => ExecutionInv(e)'
  BY WaitingKeepsInv
<1> QED BY <1>3, <1>4 DEF CleanInv

\* There is nothing on the subject from a position to itself or to an earlier one.
LEMMA BetweenNothing ==
    ASSUME NEW E, NEW stream \in Seq(E), NEW low \in Nat, NEW high \in 0..low
    PROVE  Between(stream, low, high) = {} /\ Cardinality(Between(stream, low, high)) = 0
<1>1. \A x \in OnSubject(stream) : x \in 1..Len(stream)
  BY CurrentPositionIsLast
<1>2. Len(stream) \in Nat
  BY LenProperties
<1>3. Between(stream, low, high) = {}
  BY <1>1, <1>2 DEF Between
<1> QED BY <1>3, FS_EmptySet

\* An attempt, the first or one after a conflict, starts from nothing.
LEMMA AttemptBegins ==
    ASSUME TypeOK, [Next]_vars, NEW e \in Executors, NEW revision, NEW retries,
           run'[e] = Attempt(e, revision, retries), outcome'[e] = "none"
    PROVE  CountInv(e)' /\ CleanInv(e)'
<1>1. /\ run'[e].pc \in {"snapshot", "decide"} /\ run'[e].discarded = FALSE
      /\ run'[e].base = NoPosition /\ run'[e].tail = NoPosition /\ run'[e].last = NoPosition
      /\ run'[e].state = {} /\ run'[e].replayed = 0
  BY DEF Attempt, Idle
<1>2. Cardinality(Between(log', 0, 0)) = 0
  BY LogGrows, BetweenNothing
<1> QED BY <1>1, <1>2 DEF CountInv, CleanInv, NoPosition

\* One turn of the replay loop ends at the limit, or counts what it folds. It
\* goes on to decide only when it has counted everything up to the tail.
CountsTo(e, tail) ==
    \/ /\ Finish(e, "limit")
       /\ Cardinality(Between(log, run[e].base, tail)) > ReplayLimit
    \/ /\ UNCHANGED outcome
       /\ run'[e].pc \in {"walk", "decide"}
       /\ run'[e].base = run[e].base /\ run'[e].tail = tail
       /\ run'[e].discarded = run[e].discarded
       /\ run'[e].last <= tail
       /\ run'[e].replayed = Cardinality(Between(log, run[e].base, run'[e].last))
       /\ run'[e].pc = "walk" => /\ ChunkSize # Unset /\ run'[e].last # NoPosition
                                 /\ run[e].base <= run'[e].last
       /\ run'[e].pc = "decide" =>
             WithinLimit(Cardinality(Between(log, run[e].base, tail)))

\* Every turn of the replay loop counts.
LEMMA ReplayCounts ==
    ASSUME TypeOK, NEW e \in Executors, NEW position \in Nat, NEW bound \in Nat, NEW tail \in Nat,
           run[e].base <= position, position <= tail,
           run[e].replayed = Cardinality(Between(log, run[e].base, position)),
           run[e].last = position \/ (run[e].last = NoPosition /\ position = run[e].base),
           Replay(e, ReadAfter(log, position, bound), tail),
           ChunkSize = Unset /\ WithinLimit(run[e].replayed
                 + Cardinality(UpTo(ReadAfter(log, position, bound), tail)))
             => ReadAfter(log, position, bound) = After(OnSubject(log), position)
    PROVE  CountsTo(e, tail)
<1> DEFINE chunk == ReadAfter(log, position, bound)
           kept  == UpTo(chunk, tail)
           count == run[e].replayed + Cardinality(kept)
           last  == IF kept = {} THEN run[e].last ELSE Max(kept)
           pc    == IF chunk # {} /\ ReadsOn(last, tail) THEN "walk" ELSE "decide"
           next  == [run[e] EXCEPT !.pc = pc, !.tail = tail, !.last = last,
                                   !.replayed = count,
                                   !.state = run[e].state \cup (kept \cap Decodable(log))]
           base  == run[e].base
<1>1. /\ run \in [Executors -> Execution] /\ run[e] \in Execution /\ log \in Seq(Entry)
      /\ base \in Nat /\ run[e].last \in Nat /\ run[e].replayed \in Nat /\ ReplayLimit \in Nat
  BY ConfigAssumption DEF TypeOK, Execution
<1>2. /\ kept \subseteq Between(log, position, tail)
      /\ kept # {} => /\ Max(kept) \in 1..Len(log) /\ position < Max(kept) /\ Max(kept) <= tail
                      /\ kept = Between(log, position, Max(kept))
      /\ \/ chunk = {}
         \/ kept = {}
         \/ Max(kept) >= tail
         \/ chunk = After(OnSubject(log), position)
         => kept = Between(log, position, tail)
  <2>1. kept = Kept(log, position, bound, tail)
    BY DEF Kept
  <2> HIDE DEF kept
  <2> QED BY <1>1, <2>1, KeptChunk
<1>3. ASSUME NEW reach \in Nat, position <= reach
      PROVE  /\ Cardinality(Between(log, base, reach)) \in Nat
             /\ Cardinality(Between(log, position, reach)) \in Nat
             /\ IsFiniteSet(Between(log, position, reach))
             /\ Cardinality(Between(log, base, reach))
                   = run[e].replayed + Cardinality(Between(log, position, reach))
  <2>0. log \in Seq(Entry) /\ base \in Nat /\ base <= position /\ position <= reach
    BY <1>1, <1>3
  <2>1. /\ Cardinality(Between(log, base, reach))
              = Cardinality(Between(log, base, position)) + Cardinality(Between(log, position, reach))
        /\ Cardinality(Between(log, base, reach)) \in Nat
        /\ Cardinality(Between(log, position, reach)) \in Nat
    <3> HIDE DEF base
    <3> QED BY ONLY <2>0, position \in Nat, reach \in Nat, BetweenAdds, ZenonT(60)
  <2>2. IsFiniteSet(Between(log, position, reach))
    BY <2>0, BetweenAdds
  <2> QED BY <2>1, <2>2
<1>4. CASE ~WithinLimit(count)
  <2>1. Finish(e, "limit")
    BY <1>4 DEF Replay, TruncateToTail
  <2>2. Cardinality(kept) \in Nat /\ Cardinality(kept) <= Cardinality(Between(log, position, tail))
    <3> HIDE DEF kept
    <3> QED BY <1>2, <1>3, FS_Subset, FS_CardinalityType
  <2>3. count > ReplayLimit
    <3> HIDE DEF kept
    <3> QED BY <1>1, <1>4, <2>2 DEF WithinLimit
  <2>4. Cardinality(Between(log, base, tail)) > ReplayLimit
    <3> HIDE DEF kept
    <3> QED BY <1>1, <1>3, <2>2, <2>3
  <2> QED BY <2>1, <2>4 DEF CountsTo
<1>5. CASE WithinLimit(count)
  <2>1. run' = [run EXCEPT ![e] = next] /\ UNCHANGED outcome
    BY <1>1, <1>5 DEF Replay, TruncateToTail
  <2>2. /\ run'[e].pc = pc /\ run'[e].tail = tail /\ run'[e].last = last
        /\ run'[e].replayed = count /\ run'[e].base = base
        /\ run'[e].discarded = run[e].discarded
    <3>1. run'[e] = next
      BY <1>1, <2>1
    <3> HIDE DEF pc, last, kept, count
    <3> QED BY <1>1, <3>1 DEF Execution
  <2>3. pc \in {"walk", "decide"}
    OBVIOUS
  <2>4. CASE kept = {}
    <3>1. last = run[e].last /\ count = run[e].replayed
      BY <1>1, <2>4, FS_EmptySet
    <3>2. last <= tail /\ count = Cardinality(Between(log, base, last))
      <4>1. CASE run[e].last = position
        BY <3>1, <4>1
      <4>2. CASE run[e].last = NoPosition /\ position = base
        <5>1. Cardinality(Between(log, base, 0)) = 0 /\ Cardinality(Between(log, base, base)) = 0
          BY <1>1, BetweenNothing
        <5> QED BY <3>1, <4>2, <5>1 DEF NoPosition
      <4> QED BY <4>1, <4>2
    <3>3. pc = "walk" => ChunkSize # Unset /\ last # NoPosition /\ base <= last
      <4>1. pc = "walk" => ChunkSize # Unset /\ last # NoPosition
        BY DEF ReadsOn
      <4> QED BY <3>1, <4>1
    <3>4. WithinLimit(Cardinality(Between(log, base, tail)))
      <4>1. Cardinality(Between(log, base, tail)) = run[e].replayed + Cardinality(kept)
        BY <1>2, <1>3, <2>4
      <4> QED BY <1>5, <4>1
    <3> HIDE DEF pc, last, kept, count, base
    <3> QED BY <2>1, <2>2, <2>3, <3>2, <3>3, <3>4 DEF base, CountsTo
  <2>5. CASE kept # {}
    <3>1. last = Max(kept) /\ last \in Nat /\ position < last /\ last <= tail
          /\ kept = Between(log, position, last)
      BY <1>2, <2>5
    <3>2. count = Cardinality(Between(log, base, last)) /\ base <= last
      <4>1. Cardinality(Between(log, base, last))
              = run[e].replayed + Cardinality(Between(log, position, last))
        BY <1>3, <3>1
      <4>2. base <= last
        <5> HIDE DEF last
        <5> QED BY <1>1, <3>1
      <4> QED BY <3>1, <4>1, <4>2
    <3>3. pc = "walk" => ChunkSize # Unset /\ last # NoPosition
      BY DEF ReadsOn
    <3>4. ASSUME pc = "decide" PROVE WithinLimit(Cardinality(Between(log, base, tail)))
      <4>1. chunk = {} \/ ~ReadsOn(last, tail)
        BY <3>4
      <4>2. ChunkSize = Unset => chunk = After(OnSubject(log), position)
        BY <1>5
      <4>3. chunk = {} \/ Max(kept) >= tail \/ chunk = After(OnSubject(log), position)
        <5> HIDE DEF chunk, kept, last
        <5> QED BY <3>1, <4>1, <4>2 DEF ReadsOn, NoPosition
      <4>4. kept = Between(log, position, tail)
        BY <1>2, <4>3
      <4>5. Cardinality(Between(log, base, tail)) = count
        <5> HIDE DEF kept
        <5> QED BY <1>3, <4>4
      <4> QED BY <1>5, <4>5
    <3> HIDE DEF pc, last, kept, count, base
    <3> QED BY <2>1, <2>2, <2>3, <3>1, <3>2, <3>3, <3>4 DEF base, CountsTo
  <2> QED BY <2>4, <2>5
<1> QED BY <1>4, <1>5

\* The first read counts up to the position it reports.
LEMMA LoadCounts ==
    ASSUME TypeOK, NEW e \in Executors, CountInv(e), Load(e)
    PROVE  CountsTo(e, CurrentPosition(log)) /\ run[e].base <= CurrentPosition(log)
<1> DEFINE position == run[e].base
           bound    == ReadBound(ReplayLimit, ChunkSize, 0)
           tail     == CurrentPosition(log)
           chunk    == ReadAfter(log, position, bound)
<1>1. /\ log \in Seq(Entry) /\ position \in Nat /\ tail \in Nat /\ bound \in Nat
  <2>1. log \in Seq(Entry) /\ position \in Nat
    BY DEF TypeOK, Execution
  <2>2. CurrentPosition(log) \in 0..Len(log) /\ Len(log) \in Nat
    BY <2>1, CurrentPositionIsLast, LenProperties
  <2>3. bound \in Nat
    BY ConfigAssumption, ReadBoundType
  <2> QED BY <2>1, <2>2, <2>3
<1>2. position <= tail /\ Replay(e, chunk, tail)
  BY <1>1 DEF Load, SnapshotAhead
<1>3. run[e].replayed = 0 /\ run[e].last = NoPosition
  BY DEF Load, CountInv
<1>4. Cardinality(Between(log, position, position)) = 0
  <2> HIDE DEF position
  <2> QED BY <1>1, BetweenNothing
<1>5. ASSUME ChunkSize = Unset, WithinLimit(run[e].replayed + Cardinality(UpTo(chunk, tail)))
      PROVE  chunk = After(OnSubject(log), position)
  BY <1>5, FirstReadIsComplete
<1> HIDE DEF bound, tail
<1> QED BY <1>1, <1>2, <1>3, <1>4, <1>5, ReplayCounts DEF tail

\* A further chunk counts up to the same position.
LEMMA WalkCounts ==
    ASSUME TypeOK, NEW e \in Executors, CountInv(e), Walk(e)
    PROVE  CountsTo(e, run[e].tail)
<1> DEFINE position == run[e].last
           bound    == ReadBound(ReplayLimit, ChunkSize, run[e].replayed)
           tail     == run[e].tail
           chunk    == ReadAfter(log, position, bound)
<1>1. position \in Nat /\ tail \in Nat /\ bound \in Nat
  BY ConfigAssumption, ReadBoundType DEF TypeOK, Execution
<1>2. Replay(e, chunk, tail) /\ run[e].pc = "walk"
  BY DEF Walk
<1>3. /\ run[e].base <= position /\ position <= tail /\ ChunkSize # Unset
      /\ run[e].replayed = Cardinality(Between(log, run[e].base, position))
  BY <1>2 DEF CountInv
<1> HIDE DEF bound
<1> QED BY <1>1, <1>2, <1>3, ReplayCounts

\* A turn of the replay loop that goes on keeps the count exact.
LEMMA CountedOn ==
    ASSUME TypeOK, NEW e \in Executors, CountInv(e), UNCHANGED log, Active(e)',
           NEW tail \in {NoPosition} \cup OnSubject(log), CountsTo(e, tail),
           run[e].base <= tail
    PROVE  CountInv(e)'
<1>1. CASE Finish(e, "limit")
  BY <1>1 DEF Finish, TypeOK, Active, Idle
<1>2. CASE ~Finish(e, "limit")
  <2>1. outcome'[e] = "none"
    BY <1>2 DEF CountsTo, CountInv
  <2>2. /\ run'[e].pc \in {"walk", "decide"}
        /\ run'[e].base = run[e].base /\ run'[e].tail = tail
        /\ run'[e].last <= tail
        /\ run'[e].replayed = Cardinality(Between(log', run'[e].base, run'[e].last))
        /\ run'[e].pc = "walk" => /\ ChunkSize # Unset /\ run'[e].last # NoPosition
                                  /\ run'[e].base <= run'[e].last
    BY <1>2 DEF CountsTo
  <2> QED BY <2>1, <2>2 DEF CountInv
<1> QED BY <1>1, <1>2

\* What an execution has counted, step by step.
LEMMA CountStep ==
    ASSUME TypeOK, [Next]_vars, NEW e \in Executors, Active(e) => CountInv(e), Active(e)'
    PROVE  CountInv(e)'
<1>1. /\ run \in [Executors -> Execution] /\ run[e] \in Execution /\ log \in Seq(Entry)
      /\ outcome \in [Executors -> Results]
  BY DEF TypeOK
<1>2. CASE ~(Admit(e) \/ Refuse(e) \/ Fault(e) \/ Step(e))
  <2>1. run'[e] = run[e] /\ outcome'[e] = outcome[e]
    BY <1>2, MovesOrWaits
  <2>2. CountInv(e)
    BY <2>1 DEF Active
  <2> QED BY <2>1, <2>2, WaitingKeepsCount
<1>3. ASSUME NEW result, Finish(e, result) PROVE FALSE
  BY <1>1, <1>3 DEF Finish, Active, Idle
<1>4. ASSUME Conflict(e), Active(e) PROVE CountInv(e)'
  <2>1. /\ run'[e] = Attempt(e, run[e].revision, run[e].retries - 1)
        /\ outcome'[e] = "none"
    BY <1>1, <1>3, <1>4 DEF Conflict, CountInv
  <2> QED BY <2>1, AttemptBegins
<1>5. CASE Admit(e)
  <2>1. PICK revision \in Revisions :
          run' = [run EXCEPT ![e] = Attempt(e, revision, RetryBudget(e, revision))]
    BY <1>5 DEF Admit
  <2>2. outcome'[e] = "none"
    BY <1>1, <1>5 DEF Admit
  <2>3. run'[e] = Attempt(e, revision, RetryBudget(e, revision))
    BY <1>1, <2>1
  <2> QED BY <2>2, <2>3, AttemptBegins
<1>6. CASE Refuse(e)
  BY <1>6 DEF Refuse, Deliver, Active
<1>7. CASE \/ Fault(e) \/ PublishDuplicate(e) \/ Publish(e) \/ PublishUnacknowledged(e)
  BY <1>3, <1>7 DEF Fault, PublishDuplicate, Publish, PublishUnacknowledged
<1>8. CASE PublishConflict(e)
  BY <1>4, <1>8 DEF PublishConflict, Active
<1>9. CASE ReadSnapshot(e)
  <2> DEFINE next == [run[e] EXCEPT !.pc = "load", !.base = snapshot.position,
                                    !.state = snapshot.state]
  <2>1. /\ run'[e] = next /\ UNCHANGED <<log, outcome>> /\ run[e].pc = "snapshot"
        /\ CountInv(e)
    BY <1>1, <1>9 DEF ReadSnapshot, Active
  <2>2. /\ next.pc = "load" /\ next.tail = run[e].tail /\ next.last = run[e].last
        /\ next.replayed = run[e].replayed
    BY <1>1 DEF Execution
  <2> HIDE DEF next
  <2> QED BY <2>1, <2>2 DEF CountInv
<1>10. CASE DiscardUnreadable(e)
  <2> DEFINE next == [run[e] EXCEPT !.pc = "load", !.discarded = TRUE]
  <2>1. /\ run'[e] = next /\ UNCHANGED <<log, outcome>> /\ run[e].pc = "snapshot"
        /\ CountInv(e)
    BY <1>1, <1>10 DEF DiscardUnreadable, Active
  <2>2. /\ next.pc = "load" /\ next.tail = run[e].tail /\ next.last = run[e].last
        /\ next.replayed = run[e].replayed
    BY <1>1 DEF Execution
  <2> HIDE DEF next
  <2> QED BY <2>1, <2>2 DEF CountInv
<1>11. CASE DiscardAhead(e)
  <2> DEFINE next == [run[e] EXCEPT !.base = NoPosition, !.state = {}, !.discarded = TRUE]
  <2>1. run' = [run EXCEPT ![e].base = NoPosition, ![e].state = {}, ![e].discarded = TRUE]
        /\ UNCHANGED outcome
    BY <1>3, <1>11 DEF DiscardAhead
  <2>2. run'[e] = next /\ UNCHANGED <<log, outcome>> /\ run[e].pc = "load" /\ CountInv(e)
    BY <1>1, <1>11, <2>1 DEF DiscardAhead, Active
  <2>3. /\ next.pc = "load" /\ next.tail = run[e].tail /\ next.last = run[e].last
        /\ next.replayed = run[e].replayed
    BY <1>1, <2>2 DEF Execution
  <2> HIDE DEF next
  <2> QED BY <2>2, <2>3 DEF CountInv
<1>12. CASE Load(e)
  <2>1. CountInv(e) /\ UNCHANGED log
    BY <1>12 DEF Load, Active
  <2>2. CurrentPosition(log) \in {NoPosition} \cup OnSubject(log)
    BY <1>1, CurrentPositionIsLast
  <2> QED BY <1>12, <2>1, <2>2, LoadCounts, CountedOn
<1>13. CASE Walk(e)
  <2>1. CountInv(e) /\ UNCHANGED log /\ run[e].pc = "walk"
    BY <1>13 DEF Walk, Active
  <2>2. run[e].tail \in {NoPosition} \cup OnSubject(log) /\ run[e].base <= run[e].tail
    BY <2>1 DEF CountInv
  <2> QED BY <1>13, <2>1, <2>2, WalkCounts, CountedOn
<1>14. CASE Decide(e)
  <2>1. CountInv(e) /\ run[e].pc = "decide" /\ UNCHANGED log
    BY <1>14 DEF Decide, Active
  <2>2. CASE Conflict(e)
    BY <1>4, <1>14, <2>2 DEF Decide, Active
  <2>3. CASE ~Conflict(e)
    <3>1. PICK guard \in Guards(e), n \in 1..MaxBatch :
            /\ run' = [run EXCEPT ![e].pc = "publish", ![e].guard = guard, ![e].batch = n]
            /\ UNCHANGED outcome
            /\ ~(/\ Precondition[e] = "StreamExists" /\ run[e].revision = NoPosition
                 /\ CurrentPosition(log) = NoPosition)
      BY <1>3, <1>14, <2>3 DEF Decide
    <3> DEFINE next == [run[e] EXCEPT !.pc = "publish", !.guard = guard, !.batch = n]
    <3>2. run'[e] = next
      BY <1>1, <3>1
    <3>3. /\ next.pc = "publish" /\ next.guard = guard /\ next.revision = run[e].revision
          /\ next.base = run[e].base /\ next.tail = run[e].tail /\ next.last = run[e].last
          /\ next.replayed = run[e].replayed
      BY <1>1 DEF Execution
    <3> HIDE DEF next
    <3>4. Guards(e)' = Guards(e)
      BY <3>2, <3>3 DEF Guards
    <3>5. CurrentPosition(log) # NoPosition => OnSubject(log) # {}
      BY <1>1, CurrentPositionIsLast
    <3> QED BY <2>1, <3>1, <3>2, <3>3, <3>4, <3>5 DEF CountInv
  <2> QED BY <2>2, <2>3
<1> QED
  BY <1>2, <1>5, <1>6, <1>7, <1>8, <1>9, <1>10, <1>11, <1>12, <1>13, <1>14 DEF Step

\* An execution that discards its snapshot knows nothing, exactly.
LEMMA DiscardKnowsNothing ==
    ASSUME TypeOK, NEW e \in Executors, CountInv(e), UNCHANGED log,
           run'[e].pc = "load", run'[e].base = NoPosition, run'[e].state = {},
           run'[e].tail = run[e].tail, run'[e].last = NoPosition
    PROVE  CleanInv(e)'
<1>1. log \in Seq(Entry)
  BY DEF TypeOK
<1>2. History(log, NoPosition) = {} /\ Len(log) \in Nat
  BY <1>1, NoHistory, LenProperties
<1>3. run[e].tail \in {NoPosition} \cup OnSubject(log)
  BY DEF CountInv
<1> QED BY <1>2, <1>3 DEF CleanInv, ExecutionInv, NoPosition

\* Replaying after a discard is exact.
LEMMA CleanReplay ==
    ASSUME TypeOK, [Next]_vars, NEW e \in Executors, CountInv(e), ExecutionInv(e),
           Load(e) \/ Walk(e)
    PROVE  ExecutionInv(e)'
<1>1. /\ log \in Seq(Entry) /\ run[e].base \in Nat /\ run[e].last \in Nat /\ run[e].tail \in Nat
      /\ run[e].replayed \in Nat
  BY DEF TypeOK, Execution
<1>2. CASE Load(e)
  <2> DEFINE position == run[e].base
             bound    == ReadBound(ReplayLimit, ChunkSize, 0)
             tail     == CurrentPosition(log)
             chunk    == ReadAfter(log, position, bound)
  <2>1. /\ tail \in Nat /\ tail \in {NoPosition} \cup OnSubject(log) /\ bound \in Nat
    BY <1>1, ConfigAssumption, ReadBoundType, CurrentPositionIsLast, LenProperties
  <2>2. /\ position <= tail /\ Replay(e, chunk, tail) /\ UNCHANGED log
    BY <1>1, <1>2, <2>1 DEF Load, SnapshotAhead
  <2>3. run[e].state = History(log, position) /\ run[e].last \in {NoPosition, position}
    BY <1>2 DEF Load, ExecutionInv
  <2>4. ASSUME ChunkSize = Unset, WithinLimit(run[e].replayed + Cardinality(UpTo(chunk, tail)))
        PROVE  chunk = After(OnSubject(log), position)
    BY <2>4, FirstReadIsComplete
  <2> HIDE DEF bound, tail
  <2> QED BY <1>1, <2>1, <2>2, <2>3, <2>4, ReplayInv
<1>3. CASE Walk(e)
  <2> DEFINE position == run[e].last
             bound    == ReadBound(ReplayLimit, ChunkSize, run[e].replayed)
             tail     == run[e].tail
             chunk    == ReadAfter(log, position, bound)
  <2>1. bound \in Nat
    BY <1>1, ConfigAssumption, ReadBoundType
  <2>2. Replay(e, chunk, tail) /\ UNCHANGED log /\ run[e].pc = "walk"
    BY <1>3 DEF Walk
  <2>3. /\ position <= tail /\ tail \in {NoPosition} \cup OnSubject(log)
        /\ run[e].state = History(log, position) /\ ChunkSize # Unset
    BY <2>2 DEF ExecutionInv
  <2>4. run[e].last \in {NoPosition, position}
    OBVIOUS
  <2> HIDE DEF bound
  <2> QED BY <1>1, <2>1, <2>2, <2>3, <2>4, ReplayInv
<1> QED BY <1>2, <1>3

\* What an execution that discarded has folded, step by step.
LEMMA CleanStep ==
    ASSUME TypeOK, [Next]_vars, NEW e \in Executors,
           Active(e) => CountInv(e) /\ CleanInv(e), Active(e)'
    PROVE  CleanInv(e)'
<1>1. /\ run \in [Executors -> Execution] /\ run[e] \in Execution /\ log \in Seq(Entry)
      /\ outcome \in [Executors -> Results]
  BY DEF TypeOK
<1>2. CASE ~(Admit(e) \/ Refuse(e) \/ Fault(e) \/ Step(e))
  <2>1. run'[e] = run[e]
    BY <1>2, MovesOrWaits
  <2>2. CountInv(e) /\ CleanInv(e)
    BY <2>1 DEF Active
  <2> QED BY <2>1, <2>2, WaitingKeepsClean
<1>3. ASSUME NEW result, Finish(e, result) PROVE FALSE
  BY <1>1, <1>3 DEF Finish, Active, Idle
<1>4. ASSUME NEW revision, NEW retries, run' = [run EXCEPT ![e] = Attempt(e, revision, retries)]
      PROVE  CleanInv(e)'
  BY <1>1, <1>4 DEF Attempt, Idle, CleanInv
<1>5. ASSUME Conflict(e) PROVE CleanInv(e)'
  BY <1>3, <1>4, <1>5 DEF Conflict
<1>6. CASE Admit(e)
  BY <1>4, <1>6 DEF Admit
<1>7. CASE Refuse(e)
  BY <1>7 DEF Refuse, Deliver, Active
<1>8. CASE \/ Fault(e) \/ PublishDuplicate(e) \/ Publish(e) \/ PublishUnacknowledged(e)
  BY <1>3, <1>8 DEF Fault, PublishDuplicate, Publish, PublishUnacknowledged
<1>9. CASE PublishConflict(e)
  BY <1>5, <1>9 DEF PublishConflict
<1>10. CASE ReadSnapshot(e)
  <2>1. CountInv(e) /\ run[e].pc = "snapshot"
    BY <1>10 DEF ReadSnapshot, Active
  <2>2. run'[e].discarded = run[e].discarded
    BY <1>1, <1>10 DEF ReadSnapshot, Execution
  <2> QED BY <2>1, <2>2 DEF CountInv, CleanInv
<1>11. CASE DiscardUnreadable(e)
  <2> DEFINE next == [run[e] EXCEPT !.pc = "load", !.discarded = TRUE]
  <2>1. /\ run'[e] = next /\ UNCHANGED log /\ run[e].pc = "snapshot" /\ CountInv(e)
    BY <1>1, <1>11 DEF DiscardUnreadable, Active
  <2>2. /\ next.pc = "load" /\ next.tail = run[e].tail /\ next.last = run[e].last
        /\ next.base = run[e].base /\ next.state = run[e].state
    BY <1>1 DEF Execution
  <2> HIDE DEF next
  <2>3. run[e].base = NoPosition /\ run[e].state = {} /\ run[e].last = NoPosition
    BY <2>1 DEF CountInv
  <2> QED BY <2>1, <2>2, <2>3, DiscardKnowsNothing
<1>12. CASE DiscardAhead(e)
  <2> DEFINE next == [run[e] EXCEPT !.base = NoPosition, !.state = {}, !.discarded = TRUE]
  <2>1. run' = [run EXCEPT ![e].base = NoPosition, ![e].state = {}, ![e].discarded = TRUE]
    BY <1>3, <1>12 DEF DiscardAhead
  <2>2. run'[e] = next /\ UNCHANGED log /\ run[e].pc = "load" /\ CountInv(e)
    BY <1>1, <1>12, <2>1 DEF DiscardAhead, Active
  <2>3. /\ next.pc = "load" /\ next.tail = run[e].tail /\ next.last = run[e].last
        /\ next.base = NoPosition /\ next.state = {}
    BY <1>1, <2>2 DEF Execution
  <2> HIDE DEF next
  <2>4. run[e].last = NoPosition
    BY <2>2 DEF CountInv
  <2> QED BY <2>2, <2>3, <2>4, DiscardKnowsNothing
<1>13. CASE Load(e) \/ Walk(e)
  <2>1. CountInv(e) /\ CleanInv(e) /\ run[e].pc \in {"load", "walk"}
    BY <1>13 DEF Load, Walk, Active
  <2>2. PICK tail : CountsTo(e, tail)
    BY <1>13, <2>1, LoadCounts, WalkCounts
  <2>3. /\ run'[e].pc \in {"walk", "decide"} /\ run'[e].base = run[e].base
        /\ run'[e].discarded = run[e].discarded
    BY <1>3, <2>2 DEF CountsTo
  <2>4. run[e].discarded => ExecutionInv(e)'
    BY <1>13, <2>1, CleanReplay DEF CleanInv
  <2> QED BY <2>1, <2>3, <2>4 DEF CleanInv
<1>14. CASE Decide(e)
  <2>1. CleanInv(e) /\ run[e].pc = "decide" /\ UNCHANGED log
    BY <1>14 DEF Decide, Active
  <2>2. CASE Conflict(e)
    BY <1>5, <2>2
  <2>3. ASSUME NEW guard, NEW n,
               run' = [run EXCEPT ![e].pc = "publish", ![e].guard = guard, ![e].batch = n]
        PROVE  CleanInv(e)'
    <3> DEFINE next == [run[e] EXCEPT !.pc = "publish", !.guard = guard, !.batch = n]
    <3>1. run'[e] = next
      BY <1>1, <2>3
    <3>2. /\ next.pc = "publish" /\ next.base = run[e].base /\ next.tail = run[e].tail
          /\ next.state = run[e].state /\ next.discarded = run[e].discarded
      BY <1>1 DEF Execution
    <3> HIDE DEF next
    <3> QED BY <2>1, <3>1, <3>2 DEF CleanInv, ExecutionInv
  <2> QED BY <1>3, <1>14, <2>2, <2>3 DEF Decide
<1> QED
  BY <1>2, <1>6, <1>7, <1>8, <1>9, <1>10, <1>11, <1>12, <1>13, <1>14 DEF Step

\* Restoring the stream spans no execution, and leaves the state well typed.
LEMMA RestoreStep ==
    ASSUME TypeOK, Restore
    PROVE  TypeOK' /\ \A e \in Executors : ~Active(e) /\ ~Active(e)'
<1>1. PICK n \in 0..(Len(log) - 1) : log' = SubSeq(log, 1, n)
  BY DEF Restore
<1>2. log \in Seq(Entry) /\ Len(log) \in Nat
  BY LenProperties DEF TypeOK
<1>3. log' \in Seq(Entry)
  BY <1>1, <1>2, SubSeqProperties
<1> QED BY <1>3 DEF Restore, TypeOK, Active

\* AttemptInv is inductive, of the stream as it is and of one that is restored.
LEMMA AttemptStep == TypeOK /\ AttemptInv /\ [RestoredNext]_vars => TypeOK' /\ AttemptInv'
<1> SUFFICES ASSUME TypeOK, AttemptInv, [RestoredNext]_vars PROVE TypeOK' /\ AttemptInv'
  OBVIOUS
<1>1. CASE [Next]_vars
  <2>1. ASSUME NEW e \in Executors, Active(e)' PROVE CountInv(e)' /\ CleanInv(e)'
    BY <1>1, <2>1, CountStep, CleanStep DEF AttemptInv
  <2> QED BY <1>1, <2>1, TypeStep DEF AttemptInv
<1>2. CASE Restore
  BY <1>2, RestoreStep DEF AttemptInv
<1> QED BY <1>1, <1>2 DEF RestoredNext

\* It holds before the first delivery.
LEMMA AttemptInit == Init => TypeOK /\ AttemptInv
BY InitType DEF Init, AttemptInv, Active, Idle

\* AttemptInv holds of every configuration.
LEMMA AttemptInvHolds ==
    /\ Spec => [](TypeOK /\ AttemptInv)
    /\ RestoredSpec => [](TypeOK /\ AttemptInv)
<1>1. [Next]_vars => [RestoredNext]_vars
  BY DEF RestoredNext
<1> QED BY <1>1, AttemptInit, AttemptStep, PTL DEF Spec, RestoredSpec

\* A restore is done while no execution runs, so it returns and takes no permit:
\* what admission.rs promises holds of a host that comes back to an older stream.
THEOREM PermitsKeptByRestore == RestoredSpec => []PermitsConserved
<1>1. PermitsInv => PermitsConserved
  BY DEF PermitsInv
<1>2. TypeOK /\ PermitsInv /\ [RestoredNext]_vars => PermitsInv'
  <2> SUFFICES ASSUME TypeOK, PermitsInv, [RestoredNext]_vars PROVE PermitsInv'
    OBVIOUS
  <2>1. CASE [Next]_vars
    BY <2>1, PermitsStep
  <2>2. CASE Restore
    <3>1. UNCHANGED <<run, permits>>
      BY <2>2 DEF Restore
    <3>2. Admitted' = Admitted
      BY <3>1 DEF Admitted, Active
    <3> QED BY <3>1, <3>2 DEF PermitsInv, PermitsConserved, Admitted, Active
  <2> QED BY <2>1, <2>2 DEF RestoredNext
<1> QED BY <1>1, <1>2, PermitsInit, AttemptInvHolds, PTL DEF RestoredSpec

\* ReplayIsExact (execution.rs, replay_bounds.rs): chunked replay of a moving
\* stream folds every event up to the tail its append is guarded on, none twice.
THEOREM ReplayExact == OnlyGuarded => (Spec => []ReplayIsExact)
<1> SUFFICES ASSUME OnlyGuarded PROVE Spec => []ReplayIsExact
  OBVIOUS
<1>1. GuardedInv => ReplayReachesTail
  BY DEF GuardedInv, ExecutionInv, ReplayReachesTail
<1>2. AttemptInv => ReplayedOnce
  BY DEF AttemptInv, CountInv, ReplayedOnce, Active, Between
<1>3. GuardedInv /\ AttemptInv => ReplayIsExact
  BY <1>1, <1>2 DEF ReplayIsExact
<1>4. Spec => []GuardedInv
  <2>1. Spec => [](TypeOK /\ GuardedInv)
    BY GuardedInvHolds
  <2> QED BY <2>1, PTL
<1> QED BY <1>3, <1>4, AttemptInvHolds, PTL

\* The tail the execution of a read is pinned to.
Pinned(e) == IF run[e].pc = "walk" THEN run[e].tail ELSE CurrentPosition(log)

\* No step of a replay passes the limit, or trips it, but by the whole history.
LEMMA LimitStep ==
    ASSUME TypeOK, AttemptInv, [Next]_vars, NEW e \in Executors, run[e].pc \in {"load", "walk"}
    PROVE  LET replayed == Between(log, run[e].base, Pinned(e))
           IN  /\ run'[e].pc = "decide" /\ ReplayLimit # Unset =>
                     Cardinality(replayed) <= ReplayLimit
               /\ outcome'[e] = "limit" => Cardinality(replayed) > ReplayLimit
<1> DEFINE replayed == Between(log, run[e].base, Pinned(e))
<1>1. /\ run \in [Executors -> Execution] /\ run[e] \in Execution
      /\ outcome \in [Executors -> Results]
  BY DEF TypeOK
<1>2. CountInv(e) /\ outcome[e] = "none" /\ Active(e)
  BY DEF AttemptInv, CountInv, Active
<1>3. CASE ~(Admit(e) \/ Refuse(e) \/ Fault(e) \/ Step(e))
  <2>1. run'[e] = run[e] /\ outcome'[e] = outcome[e]
    BY <1>3, MovesOrWaits
  <2> QED BY <1>2, <2>1
<1>4. CASE Load(e) \/ Walk(e)
  <2>1. CountsTo(e, Pinned(e))
    BY <1>2, <1>4, LoadCounts, WalkCounts DEF Pinned, Load, Walk
  <2>2. CASE Finish(e, "limit") /\ Cardinality(replayed) > ReplayLimit
    <3>1. run'[e].pc = "idle"
      BY <1>1, <2>2 DEF Finish, Idle
    <3> QED BY <2>2, <3>1
  <2>3. CASE /\ UNCHANGED outcome
             /\ run'[e].pc = "decide" => WithinLimit(Cardinality(replayed))
    BY <1>2, <2>3 DEF WithinLimit
  <2> QED BY <2>1, <2>2, <2>3 DEF CountsTo
<1>5. ASSUME Finish(e, "failed") PROVE run'[e].pc = "idle" /\ outcome'[e] = "failed"
  BY <1>1, <1>5 DEF Finish, Idle
<1>6. CASE Fault(e)
  BY <1>5, <1>6 DEF Fault
<1>7. CASE DiscardAhead(e)
  <2>1. CASE Finish(e, "failed")
    BY <1>5, <2>1
  <2>2. CASE ~Finish(e, "failed")
    <3>1. UNCHANGED outcome /\ run'[e].pc = run[e].pc
      BY <1>1, <1>7, <2>2 DEF DiscardAhead, Execution
    <3> QED BY <1>2, <3>1
  <2> QED BY <2>1, <2>2
<1>8. CASE Admit(e) \/ Refuse(e)
  BY <1>2, <1>8 DEF Admit, Refuse, Deliver
<1>9. CASE \/ ReadSnapshot(e) \/ DiscardUnreadable(e) \/ Decide(e)
           \/ PublishDuplicate(e) \/ PublishConflict(e) \/ Publish(e) \/ PublishUnacknowledged(e)
  BY <1>9 DEF ReadSnapshot, DiscardUnreadable, Decide, PublishDuplicate, PublishConflict,
              Publish, PublishUnacknowledged
<1> QED BY <1>3, <1>4, <1>6, <1>7, <1>8, <1>9 DEF Step

\* LimitIsExact (replay_bounds.rs): the limit trips exactly when the history after
\* the snapshot is longer than it, chunked or not, while others append.
THEOREM LimitExact == Spec => LimitIsExact
<1> DEFINE Exact ==
             \A e \in Executors :
                run[e].pc \in {"load", "walk"} =>
                   LET replayed == {p \in OnSubject(log) : run[e].base < p /\ p <= IF run[e].pc = "walk" THEN run[e].tail ELSE CurrentPosition(log)}
                   IN  /\ run'[e].pc = "decide" /\ ReplayLimit # Unset =>
                             Cardinality(replayed) <= ReplayLimit
                       /\ outcome'[e] = "limit" => Cardinality(replayed) > ReplayLimit
<1>1. TypeOK /\ AttemptInv /\ [Next]_vars => Exact
  BY LimitStep DEF Between, Pinned
<1>2. TypeOK /\ AttemptInv /\ [Next]_vars => [Exact]_vars
  BY <1>1
<1> HIDE DEF Exact
<1>3. Spec => [][Exact]_vars
  BY <1>2, AttemptInvHolds, PTL DEF Spec
<1> QED BY <1>3, PTL DEF Exact, LimitIsExact

\* AheadNeverTrusted (snapshot.rs): whatever the stream lost, no execution gets
\* past its load with a snapshot ahead of the stream.
THEOREM AheadIsNeverTrusted == RestoredSpec => []AheadNeverTrusted
<1>1. AttemptInv => AheadNeverTrusted
  BY DEF AttemptInv, CountInv, AheadNeverTrusted, Active
<1> QED BY <1>1, AttemptInvHolds, PTL

\* The execution whose event ends the log is the one that stored its batch.
LEMMA StoredBy ==
    ASSUME TypeOK, [RestoredNext]_vars, NEW e \in Executors, run[e].pc = "publish",
           Ids(log') # Ids(log), log'[Len(log')].id[1] = e
    PROVE  Stores(e)
<1>1. CASE UNCHANGED log
  BY <1>1 DEF Ids
<1>2. CASE Restore
  BY <1>2 DEF Restore, Active
<1>3. ASSUME NEW kind \in {"alien", "foreign"}, AppendOther(kind) PROVE FALSE
  <2>1. /\ log' \in Seq(Entry) /\ Extends(log', log) /\ Decodable(log') = Decodable(log)
    BY <1>3, OtherGrowsLog
  <2>2. \A p \in Decodable(log) : log'[p] = log[p]
    BY <2>1, OldEntry
  <2> QED BY <2>1, <2>2 DEF Ids
<1>4. ASSUME NEW d \in Executors, Stores(d) PROVE d = e
  <2>1. /\ log \in Seq(Entry) /\ Len(log) \in Nat /\ run[d].batch \in Nat
    BY LenProperties DEF TypeOK, Execution
  <2>2. /\ Len(log') = Len(log) + run[d].batch /\ log' \in Seq(Entry) /\ Extends(log', log)
        /\ Decodable(log') = Decodable(log) \cup (Len(log) + 1)..(Len(log) + run[d].batch)
    BY <1>4, CommitGrowsLog DEF Stores
  <2>3. CASE run[d].batch = 0
    <3>1. Decodable(log') = Decodable(log)
      BY <2>1, <2>2, <2>3
    <3>2. \A p \in Decodable(log) : log'[p] = log[p]
      BY <2>2, OldEntry
    <3> QED BY <3>1, <3>2 DEF Ids
  <2>4. CASE run[d].batch # 0
    <3>1. Len(log') \in Decodable(log') /\ Len(log') \notin Decodable(log)
      BY <2>1, <2>2, <2>4 DEF Decodable, Positions
    <3>2. /\ log'[Len(log')].id = EventIds(d)[Len(log') - Len(log)]
          /\ EventIds(d)[Len(log') - Len(log)] = <<d, Key(d), Len(log') - Len(log)>>
      BY <1>4, <3>1, StoredBatch DEF Stores
    <3> QED BY <3>2
  <2> QED BY <2>3, <2>4
<1> QED BY <1>1, <1>2, <1>3, <1>4, LogStep DEF RestoredNext

\* What the guard of a batch says of what its execution read.
LEMMA StoredOnGuard ==
    ASSUME TypeOK, AttemptInv, NEW e \in Executors, Stores(e)
    PROVE  /\ run[e].tail \in Nat /\ run[e].revision \in Nat /\ run[e].tail <= CurrentPosition(log)
           /\ CountInv(e) /\ run[e].pc = "publish"
           /\ run[e].guard \in Guards(e)
           /\ run[e].guard = NoGuard \/ run[e].guard = CurrentPosition(log)
           /\ OnSubject(log) # {} => CurrentPosition(log) # NoPosition
           /\ CurrentPosition(log) \in Nat
<1>1. log \in Seq(Entry) /\ run[e].tail \in Nat /\ run[e].revision \in Nat
  BY DEF TypeOK, Execution
<1>2. /\ CurrentPosition(log) \in Nat
      /\ \A x \in OnSubject(log) : x \in Nat \ {0} /\ x <= CurrentPosition(log)
  BY <1>1, CurrentPositionIsLast, LenProperties
<1>3. CountInv(e) /\ run[e].pc = "publish"
  BY DEF Stores, AttemptInv, Active
<1>4. run[e].tail <= CurrentPosition(log)
  BY <1>1, <1>2, <1>3 DEF CountInv, NoPosition
<1>5. run[e].guard \in Guards(e)
  BY <1>3 DEF CountInv
<1>6. OnSubject(log) # {} => CurrentPosition(log) # NoPosition
  BY <1>2 DEF NoPosition
<1>7. run[e].guard = NoGuard \/ run[e].guard = CurrentPosition(log)
  BY DEF Stores, GuardHolds
<1> QED BY <1>1, <1>2, <1>3, <1>4, <1>5, <1>6, <1>7

\* A batch that is stored meets the precondition it was declared with.
LEMMA StoredHeld ==
    ASSUME TypeOK, AttemptInv, NEW e \in Executors, Stores(e)
    PROVE  HeldAtAppend(e)
<1> DEFINE current == CurrentPosition(log)
<1>1. /\ run[e].tail \in Nat /\ run[e].revision \in Nat /\ run[e].tail <= current
      /\ CountInv(e) /\ run[e].pc = "publish" /\ current \in Nat
      /\ run[e].guard \in Guards(e)
      /\ run[e].guard = NoGuard \/ run[e].guard = current
      /\ OnSubject(log) # {} => current # NoPosition
  BY StoredOnGuard
<1> HIDE DEF current
<1>2. Precondition[e] \in WritePreconditions
  BY ConfigAssumption
<1>3. CASE run[e].revision # NoPosition
  <2>1. Precondition[e] # "NoStream" /\ run[e].revision <= run[e].tail
        /\ run[e].guard = run[e].revision
    BY <1>1, <1>3 DEF Guards, WriteGuards
  <2>2. current = run[e].revision
    BY <1>1, <2>1 DEF NoGuard
  <2> QED BY <1>1, <1>3, <2>1, <2>2 DEF HeldAtAppend, current
<1>4. CASE run[e].revision = NoPosition
  <2>1. Precondition[e] = "StreamUnchanged" => current = run[e].tail
    BY <1>1, <1>4 DEF Guards, WriteGuards, NoGuard
  <2>2. Precondition[e] = "NoStream" => current = NoPosition
    BY <1>1, <1>4 DEF Guards, WriteGuards, NoGuard, NoPosition
  <2>3. Precondition[e] = "StreamExists" => current # NoPosition
    BY <1>1, <1>4 DEF CountInv
  <2> QED BY <1>4, <2>1, <2>2, <2>3 DEF HeldAtAppend, current
<1> QED BY <1>3, <1>4

\* PreconditionHeldAtAppend (write_precondition.rs, store.rs): the declared
\* precondition and the caller's revision hold of the stream where a batch is
\* stored, whatever other executions, writers and restores did since the load.
THEOREM PreconditionsHold == RestoredSpec => PreconditionHeldAtAppend
<1> DEFINE Held ==
             \A e \in Executors :
                Ids(log') # Ids(log) /\ run[e].pc = "publish" /\ run'[e].pc = "idle"
                   /\ log'[Len(log')].id[1] = e
                => HeldAtAppend(e)
<1>1. TypeOK /\ AttemptInv /\ [RestoredNext]_vars => [Held]_vars
  BY StoredBy, StoredHeld
<1> HIDE DEF Held
<1>2. RestoredSpec => [][Held]_vars
  BY <1>1, AttemptInvHolds, PTL DEF RestoredSpec
<1> QED BY <1>2 DEF Held, PreconditionHeldAtAppend

\* A batch stored under its guard after a discard was decided on all there is.
LEMMA DiscardedOnAll ==
    ASSUME TypeOK, AttemptInv, NEW e \in Executors, Stores(e), run[e].discarded,
           run[e].guard # NoGuard
    PROVE  run[e].state = Decodable(log)
<1>1. /\ run[e].tail \in Nat /\ run[e].revision \in Nat
      /\ run[e].tail <= CurrentPosition(log)
      /\ run[e].pc = "publish" /\ CurrentPosition(log) \in Nat
      /\ run[e].guard \in Guards(e) /\ run[e].guard = CurrentPosition(log)
  BY StoredOnGuard
<1>2. run[e].state = History(log, run[e].tail)
  BY <1>1 DEF AttemptInv, CleanInv, Active
<1>3. run[e].guard <= run[e].tail
  <2>1. CASE run[e].revision # NoPosition
    BY <1>1, <2>1 DEF Guards, WriteGuards
  <2>2. CASE run[e].revision = NoPosition
    <3>1. Precondition[e] \in WritePreconditions
      BY ConfigAssumption
    <3>2. run[e].guard \in {run[e].tail, 0, NoGuard}
      BY Zenon, <1>1, <2>2, <3>1 DEF Guards, WriteGuards, WritePreconditions
    <3> QED BY <1>1, <3>2
  <2> QED BY <2>1, <2>2
<1>4. run[e].tail = CurrentPosition(log)
  BY <1>1, <1>3
<1>5. \A x \in Decodable(log) : x <= CurrentPosition(log)
  BY CurrentPositionIsLast DEF TypeOK
<1> QED BY <1>2, <1>4, <1>5 DEF History, UpTo

\* DiscardRecovers (snapshot.rs): a snapshot that was discarded, unreadable or
\* ahead of what survived of the stream, leaves no trace in what is decided.
THEOREM DiscardingRecovers == RestoredSpec => DiscardRecovers
<1> DEFINE Recovered ==
             \A e \in Executors :
                run[e].discarded /\ run[e].pc = "publish" /\ Ids(log') # Ids(log)
                   /\ log'[Len(log')].id[1] = e /\ log'[Len(log')].guard # NoGuard
                => run[e].state = Decodable(log)
<1>1. TypeOK /\ AttemptInv /\ [RestoredNext]_vars => [Recovered]_vars
  <2> SUFFICES ASSUME TypeOK, AttemptInv, [RestoredNext]_vars, NEW e \in Executors,
                      run[e].discarded, run[e].pc = "publish", Ids(log') # Ids(log),
                      log'[Len(log')].id[1] = e, log'[Len(log')].guard # NoGuard
               PROVE  run[e].state = Decodable(log)
    OBVIOUS
  <2>1. Stores(e)
    BY StoredBy
  <2>2. run[e].guard # NoGuard
    <3>1. log \in Seq(Entry) /\ Len(log) \in Nat /\ run[e].batch \in Nat
      BY LenProperties DEF TypeOK, Execution
    <3>2. /\ Len(log') = Len(log) + run[e].batch /\ log' \in Seq(Entry) /\ Extends(log', log)
          /\ Decodable(log') = Decodable(log) \cup (Len(log) + 1)..(Len(log) + run[e].batch)
      BY <2>1, CommitGrowsLog DEF Stores
    <3>3. run[e].batch # 0
      <4>1. run[e].batch = 0 => Decodable(log') = Decodable(log)
        BY <3>1, <3>2
      <4>2. \A p \in Decodable(log) : log'[p] = log[p]
        BY <3>2, OldEntry
      <4> QED BY <4>1, <4>2 DEF Ids
    <3>4. Len(log') \in Decodable(log') /\ Len(log') \notin Decodable(log)
      BY <3>1, <3>2, <3>3 DEF Decodable, Positions
    <3> QED BY <2>1, <3>4, StoredBatch DEF Stores
  <2> QED BY <2>1, <2>2, DiscardedOnAll
<1> HIDE DEF Recovered
<1>2. RestoredSpec => [][Recovered]_vars
  BY <1>1, AttemptInvHolds, PTL DEF RestoredSpec
<1> QED BY <1>2 DEF Recovered, DiscardRecovers

=============================================================================
