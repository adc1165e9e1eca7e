-------------------------- MODULE CommandExecution --------------------------
(***************************************************************************)
(* Concurrent command executions against one stream: CommandExecution in   *)
(* trogon-decider-runtime over the JetStream store of trogon-decider-nats. *)
(*                                                                         *)
(* Each executor runs the deliveries of one command. An execution suspends *)
(* where the code awaits the store, and between two awaits it runs alone,  *)
(* so pc names the store call an execution is about to make:               *)
(*   idle      no execution                                                *)
(*   snapshot  read_snapshot                                               *)
(*   load      the first stream read of an attempt                         *)
(*   walk      the read of a further chunk                                 *)
(*   decide    decide, then the append's own read of the subject           *)
(*   publish   the atomic batch publish                                    *)
(* The decider's state is abstracted to the set of positions folded into   *)
(* it: two states are equal exactly when they summarize the same events.   *)
(***************************************************************************)
EXTENDS EventLog

CONSTANTS
    Executors,       \* the concurrent executions; each owns one command
    Precondition,    \* [Executors -> WritePreconditions], C::WRITE_PRECONDITION
    Identified,      \* the executors whose command carries a CommandId
    Revisions,       \* the expected revisions callers send; NoPosition is none
    RetryLimit,      \* conflict_retry_limit, 0 when not configured
    ReplayLimit,     \* replay_limit, or Unset
    ChunkSize,       \* replay_chunk_size, or Unset
    Cadence,         \* SnapshotCadence::EveryEvents, Unset is Never
    FailurePolicy,   \* "Fail" or "Discard"
    AdmissionLimit,  \* permits of the ConcurrencyAdmission semaphore
    MaxBatch,        \* bound: events per decision
    MaxDeliveries,   \* bound: deliveries of one command
    MaxOthers        \* bound: entries appended by other writers

WritePreconditions == {"StreamUnchanged", "NoStream", "StreamExists", "Any"}

ASSUME ConfigAssumption ==
    /\ Precondition \in [Executors -> WritePreconditions]
    /\ Identified \subseteq Executors
    /\ Revisions \subseteq Nat
    /\ {RetryLimit, ReplayLimit, ChunkSize, Cadence, MaxDeliveries, MaxOthers} \subseteq Nat
    /\ AdmissionLimit \in Nat \ {0}
    /\ MaxBatch \in Nat \ {0}
    /\ FailurePolicy \in {"Fail", "Discard"}

VARIABLES
    log,        \* the physical stream
    snapshot,   \* the snapshot KV entry; position NoPosition is no entry
    tasks,      \* spawned snapshot writes that have not run yet
    permits,    \* available permits of the admission semaphore
    run,        \* per executor, the local variables of its execution
    delivery,   \* per executor, how often its command was delivered
    outcome     \* per executor, what its last execution returned

vars == <<log, snapshot, tasks, permits, run, delivery, outcome>>

Idle == [pc |-> "idle", revision |-> NoPosition, retries |-> 0,
         base |-> NoPosition, tail |-> NoPosition, last |-> NoPosition,
         state |-> {}, replayed |-> 0, discarded |-> FALSE,
         batch |-> 0, guard |-> NoGuard]

Active(e) == run[e].pc # "idle"

Init ==
    /\ log = <<>>
    /\ snapshot = [position |-> NoPosition, state |-> {}]
    /\ tasks = {}
    /\ permits = AdmissionLimit
    /\ run = [e \in Executors |-> Idle]
    /\ delivery = [e \in Executors |-> 0]
    /\ outcome = [e \in Executors |-> "none"]

-----------------------------------------------------------------------------
(* Beginning and ending an execution. *)

\* Mutant of Finish: the permit is not given back.
FinishKeepingPermit(e, result) ==
    /\ run' = [run EXCEPT ![e] = Idle]
    /\ outcome' = [outcome EXCEPT ![e] = result]
    /\ UNCHANGED permits

\* The result is returned and the permit held by execute_inner is dropped.
Finish(e, result) ==
    /\ run' = [run EXCEPT ![e] = Idle]
    /\ outcome' = [outcome EXCEPT ![e] = result]
    /\ permits' = permits + 1

\* Only a StreamUnchanged command without an expected revision is retried.
RetryBudget(e, revision) ==
    IF Precondition[e] = "StreamUnchanged" /\ revision = NoPosition
    THEN RetryLimit ELSE 0

\* An attempt starts from nothing. A creation command has no history to load.
Attempt(e, revision, retries) ==
    [Idle EXCEPT !.pc = IF Precondition[e] = "NoStream" THEN "decide" ELSE "snapshot",
                 !.revision = revision,
                 !.retries = retries]

Deliver(e) ==
    /\ ~Active(e)
    /\ delivery[e] < MaxDeliveries
    /\ delivery' = [delivery EXCEPT ![e] = @ + 1]
    /\ UNCHANGED <<log, snapshot, tasks>>

Admit(e) ==
    /\ Deliver(e)
    /\ permits > 0
    /\ permits' = permits - 1
    /\ \E revision \in Revisions :
          run' = [run EXCEPT ![e] = Attempt(e, revision, RetryBudget(e, revision))]
    /\ outcome' = [outcome EXCEPT ![e] = "none"]

\* No permit, or the authorizer denies the principal: the store is not read
\* and the permit, if one was taken, is given back.
Refuse(e) ==
    /\ Deliver(e)
    /\ \/ permits = 0 /\ outcome' = [outcome EXCEPT ![e] = "overloaded"]
       \/ permits > 0 /\ outcome' = [outcome EXCEPT ![e] = "denied"]
    /\ UNCHANGED <<permits, run>>

\* The store or the codec fails, or the caller drops the future, and nothing
\* of this attempt is stored.
Fault(e) ==
    /\ Active(e)
    /\ Finish(e, "failed")
    /\ UNCHANGED <<log, snapshot, tasks, delivery>>

-----------------------------------------------------------------------------
(* Loading the state to decide on. *)

\* Snapshots::load_replay_context, up to its first stream read.
ReadSnapshot(e) ==
    /\ run[e].pc = "snapshot"
    /\ run' = [run EXCEPT ![e].pc = "load",
                          ![e].base = snapshot.position,
                          ![e].state = snapshot.state]
    /\ UNCHANGED <<log, snapshot, tasks, permits, delivery, outcome>>

\* The snapshot cannot be read or decoded. DiscardAndReplaySnapshotFailure
\* goes on from the initial state; FailOnSnapshotFailure is Fault.
DiscardUnreadable(e) ==
    /\ run[e].pc = "snapshot"
    /\ FailurePolicy = "Discard"
    /\ run' = [run EXCEPT ![e].pc = "load", ![e].discarded = TRUE]
    /\ UNCHANGED <<log, snapshot, tasks, permits, delivery, outcome>>

\* Mutant of SnapshotAhead: compared with the tail of the physical stream.
SnapshotAheadOfPhysical(e) == run[e].base > Len(log)

\* ensure_snapshot_not_ahead
SnapshotAhead(e) == run[e].base > CurrentPosition(log)

\* The snapshot claims a position the stream has not reached: read again from
\* the beginning, or fail.
DiscardAhead(e) ==
    /\ run[e].pc = "load"
    /\ SnapshotAhead(e)
    /\ IF FailurePolicy = "Discard"
       THEN /\ run' = [run EXCEPT ![e].base = NoPosition,
                                  ![e].state = {},
                                  ![e].discarded = TRUE]
            /\ UNCHANGED <<permits, outcome>>
       ELSE Finish(e, "failed")
    /\ UNCHANGED <<log, snapshot, tasks, delivery>>

\* Mutants of ReadsOn: the walk stops one short of the tail; it goes on at it.
ReadsOnShort(last, tail) == ChunkSize # Unset /\ last # NoPosition /\ last + 1 < tail
ReadsOnAtTail(last, tail) == ChunkSize # Unset /\ last # NoPosition /\ last <= tail

\* ReplayCursor::next_read: whether the walk reads on after last.
ReadsOn(last, tail) == ChunkSize # Unset /\ last # NoPosition /\ last < tail

\* Mutant of TruncateToTail: events appended since the first read are folded.
Untruncated(chunk, tail) == chunk

\* ReplayBounds::truncate_to_tail: events appended since the first read are
\* not folded, because the append is guarded on the tail it reported.
TruncateToTail(chunk, tail) == UpTo(chunk, tail)

\* ensure_replay_within_limit
WithinLimit(count) == ReplayLimit = Unset \/ count <= ReplayLimit

\* One turn of the replay loop: truncate the chunk to the pinned tail, count
\* it, check the limit, fold it, and read on or decide.
Replay(e, chunk, tail) ==
    LET kept  == TruncateToTail(chunk, tail)
        count == run[e].replayed + Cardinality(kept)
        last  == IF kept = {} THEN run[e].last ELSE Max(kept)
    IN  IF WithinLimit(count)
        THEN /\ run' = [run EXCEPT
                   ![e].pc = IF chunk # {} /\ ReadsOn(last, tail) THEN "walk" ELSE "decide",
                   ![e].tail = tail,
                   ![e].last = last,
                   ![e].replayed = count,
                   ![e].state = @ \cup (kept \cap Decodable(log))]
             /\ UNCHANGED <<permits, outcome>>
        ELSE Finish(e, "limit")

\* The first read reports the position the whole execution is pinned to.
Load(e) ==
    /\ run[e].pc = "load"
    /\ ~SnapshotAhead(e)
    /\ Replay(e, ReadAfter(log, run[e].base, ReadBound(ReplayLimit, ChunkSize, 0)),
              CurrentPosition(log))
    /\ UNCHANGED <<log, snapshot, tasks, delivery>>

\* A further chunk, from a stream that may have grown since the first.
Walk(e) ==
    /\ run[e].pc = "walk"
    /\ Replay(e, ReadAfter(log, run[e].last,
                           ReadBound(ReplayLimit, ChunkSize, run[e].replayed)),
              run[e].tail)
    /\ UNCHANGED <<log, snapshot, tasks, delivery>>

-----------------------------------------------------------------------------
(* Deciding and appending. *)

\* Mutant of Conflict: retried without looking at the budget.
ConflictUnbudgeted(e) ==
    /\ run' = [run EXCEPT ![e] = Attempt(e, run[e].revision, run[e].retries - 1)]
    /\ UNCHANGED <<permits, outcome>>

\* A write conflict is retried from the first read while the budget lasts.
Conflict(e) ==
    IF run[e].retries > 0
    THEN /\ run' = [run EXCEPT ![e] = Attempt(e, run[e].revision, run[e].retries - 1)]
         /\ UNCHANGED <<permits, outcome>>
    ELSE Finish(e, "conflict")

Guards(e) == WriteGuards(Precondition[e], run[e].revision, run[e].tail)

\* append_decision and the subject read of append_stream: the precondition is
\* resolved first, then the command is decided, then StreamExists is checked.
Decide(e) ==
    /\ run[e].pc = "decide"
    /\ \/ Guards(e) = {} /\ Finish(e, "precondition")
       \/ Guards(e) # {} /\ Finish(e, "rejected")
       \/ \E guard \in Guards(e), n \in 1..MaxBatch :
             IF Precondition[e] = "StreamExists" /\ run[e].revision = NoPosition
                   /\ CurrentPosition(log) = NoPosition
             THEN Conflict(e)
             ELSE /\ run' = [run EXCEPT ![e].pc = "publish",
                                        ![e].guard = guard,
                                        ![e].batch = n]
                  /\ UNCHANGED <<permits, outcome>>
    /\ UNCHANGED <<log, snapshot, tasks, delivery>>

\* Mutant of EventIds: ids fresh to a delivery even when the command is
\* identified.
FreshEventIds(e) == [i \in 1..run[e].batch |-> <<e, delivery[e], i>>]

\* CommandId::event_id, or ids fresh to this delivery.
EventIds(e) ==
    [i \in 1..run[e].batch |-> <<e, IF e \in Identified THEN 0 ELSE delivery[e], i>>]

\* The broker has already stored one of the Nats-Msg-Ids.
Duplicate(e) == \E i \in 1..run[e].batch : EventIds(e)[i] \in Ids(log)

\* Mutant of GuardHolds: a stale guard is accepted.
GuardNotAhead(e) == run[e].guard <= CurrentPosition(log)

GuardHolds(e) == run[e].guard \in {NoGuard, CurrentPosition(log)}

Commit(e) == log' = log \o Batch(EventIds(e), run[e].state, run[e].guard)

\* DuplicateEventId is not classified as a write conflict.
PublishDuplicate(e) ==
    /\ run[e].pc = "publish"
    /\ Duplicate(e)
    /\ Finish(e, "failed")
    /\ UNCHANGED <<log, snapshot, tasks, delivery>>

PublishConflict(e) ==
    /\ run[e].pc = "publish"
    /\ ~GuardHolds(e)
    /\ Conflict(e)
    /\ UNCHANGED <<log, snapshot, tasks, delivery>>

\* SnapshotPolicy for SnapshotCadence
CadenceElapsed(e) == Cadence # Unset /\ run[e].replayed + run[e].batch >= Cadence

\* The replacement of a discarded snapshot is written whatever the policy says.
TakesSnapshot(e) == run[e].discarded \/ CadenceElapsed(e)

\* Mutant of SnapshotTask: the state is the one before the decision.
SnapshotBeforeDecision(e) ==
    [position |-> Len(log) + run[e].batch,
     state    |-> run[e].state]

\* The snapshot the execution schedules, at the position of its own append.
SnapshotTask(e) ==
    [position |-> Len(log) + run[e].batch,
     state    |-> run[e].state \cup (Len(log) + 1)..(Len(log) + run[e].batch)]

Publish(e) ==
    /\ run[e].pc = "publish"
    /\ ~Duplicate(e)
    /\ GuardHolds(e)
    /\ Commit(e)
    /\ tasks' = IF TakesSnapshot(e) THEN tasks \cup {SnapshotTask(e)} ELSE tasks
    /\ Finish(e, "succeeded")
    /\ UNCHANGED <<snapshot, delivery>>

\* The batch is stored but its acknowledgement never arrives.
PublishUnacknowledged(e) ==
    /\ run[e].pc = "publish"
    /\ ~Duplicate(e)
    /\ GuardHolds(e)
    /\ Commit(e)
    /\ Finish(e, "failed")
    /\ UNCHANGED <<snapshot, tasks, delivery>>

-----------------------------------------------------------------------------
(* The snapshot tasks and the other writers. *)

\* write_snapshot: the store keeps whichever snapshot has the later position.
WriteSnapshot(task) ==
    /\ tasks' = tasks \ {task}
    /\ snapshot' = IF snapshot.position >= task.position
                   THEN snapshot
                   ELSE [position |-> task.position, state |-> task.state]
    /\ UNCHANGED <<log, permits, run, delivery, outcome>>

\* A write that fails is logged and forgotten; so is one the process takes
\* down with it.
LoseSnapshot(task) ==
    /\ tasks' = tasks \ {task}
    /\ UNCHANGED <<log, snapshot, permits, run, delivery, outcome>>

AppendOther(kind) ==
    /\ Cardinality(Positions(log) \ Decodable(log)) < MaxOthers
    /\ log' = Append(log, Other(kind))
    /\ UNCHANGED <<snapshot, tasks, permits, run, delivery, outcome>>

-----------------------------------------------------------------------------

Step(e) ==
    \/ ReadSnapshot(e) \/ DiscardUnreadable(e) \/ DiscardAhead(e)
    \/ Load(e) \/ Walk(e) \/ Decide(e)
    \/ PublishDuplicate(e) \/ PublishConflict(e)
    \/ Publish(e) \/ PublishUnacknowledged(e)

Next ==
    \/ \E e \in Executors : Admit(e) \/ Refuse(e) \/ Fault(e) \/ Step(e)
    \/ \E task \in tasks : WriteSnapshot(task) \/ LoseSnapshot(task)
    \/ \E kind \in {"alien", "foreign"} : AppendOther(kind)

Spec == Init /\ [][Next]_vars

\* A future that was admitted is polled until it resolves; nothing obliges
\* callers to deliver, tasks to run or other writers to write.
FairSpec == Spec /\ \A e \in Executors : WF_vars(Step(e))

-----------------------------------------------------------------------------
(* Properties. *)

Results == {"none", "succeeded", "overloaded", "denied", "precondition",
            "rejected", "limit", "conflict", "failed"}

Entry ==
    [kind : {"event", "alien", "foreign"},
     id : (Executors \X Nat \X Nat) \cup {<<>>},
     index : Nat \ {0},
     seen : SUBSET Nat,
     guard : Nat \cup {NoGuard}]

Execution ==
    [pc : {"idle", "snapshot", "load", "walk", "decide", "publish"},
     revision : Nat, retries : Nat, base : Nat, tail : Nat, last : Nat,
     state : SUBSET Nat, replayed : Nat, discarded : BOOLEAN,
     batch : Nat, guard : Nat \cup {NoGuard}]

TypeOK ==
    /\ log \in Seq(Entry)
    /\ snapshot \in [position : Nat, state : SUBSET Nat]
    /\ tasks \subseteq [position : Nat, state : SUBSET Nat]
    /\ permits \in Nat
    /\ run \in [Executors -> Execution]
    /\ delivery \in [Executors -> 0..MaxDeliveries]
    /\ outcome \in [Executors -> Results]

\* The position of the first event of the batch that the event at p is in.
BatchStart(p) == p - log[p].index + 1

\* Optimistic concurrency: an event published under a guard was decided on
\* exactly the decodable history before its batch, whatever snapshots, chunks,
\* retries and other writers its execution met on the way.
DecidedOnExactHistory ==
    \A p \in Decodable(log) :
        log[p].guard # NoGuard => log[p].seen = Before(Decodable(log), BatchStart(p))

\* Redelivery is idempotent: the events of an identified command are stored at
\* most once, in one batch, however often it is delivered, retried, answered
\* with a lost acknowledgement or decided differently.
IdentifiedOnce ==
    \A p, q \in Decodable(log) :
        /\ log[p].id[1] = log[q].id[1]
        /\ log[p].id[1] \in Identified
        => BatchStart(p) = BatchStart(q)

\* A snapshot, stored or on its way to the store, summarizes every decodable
\* event up to the position it is tagged with and nothing else, so replay may
\* resume strictly after it.
SnapshotCoversHistory ==
    \A s \in tasks \cup {snapshot} : s.state = History(log, s.position)

\* An execution that is ready to decide has folded every decodable event up to
\* the position its append will be guarded on, across all its chunks.
ReplayReachesTail ==
    \A e \in Executors :
        run[e].pc \in {"decide", "publish"} /\ Precondition[e] # "NoStream"
        => run[e].state = History(log, run[e].tail)

\* Folding never repeats and never skips: as many events were folded as the
\* subject holds between the snapshot and the last one folded.
ReplayedOnce ==
    \A e \in Executors :
        run[e].pc \in {"walk", "decide", "publish"} =>
            run[e].replayed =
                Cardinality({p \in OnSubject(log) : run[e].base < p /\ p <= run[e].last})

\* Chunked replay of a moving stream, pinned to the tail of its first read: it
\* reaches the tail, and neither repeats nor skips an event on the way.
ReplayIsExact == ReplayReachesTail /\ ReplayedOnce

\* Every permit is either available or held by an admitted execution, through
\* conflicts, retries, faults and dropped futures.
PermitsConserved ==
    permits + Cardinality({e \in Executors : Active(e)}) = AdmissionLimit

\* The replay limit trips exactly when the history after the snapshot is
\* longer than it, although no read fetches more than the limit allows.
LimitIsExact ==
    [][\A e \in Executors :
         run[e].pc \in {"load", "walk"} =>
            LET replayed == {p \in OnSubject(log) : run[e].base < p /\ p <= IF run[e].pc = "walk" THEN run[e].tail ELSE CurrentPosition(log)}
            IN  /\ run'[e].pc = "decide" /\ ReplayLimit # Unset =>
                      Cardinality(replayed) <= ReplayLimit
                /\ outcome'[e] = "limit" => Cardinality(replayed) > ReplayLimit]_vars

\* The declared precondition, and the caller's revision if there is one, hold
\* of the stream at the moment a batch is stored.
HeldAtAppend(e) ==
    LET current == CurrentPosition(log)
    IN  /\ Precondition[e] = "StreamUnchanged" => current = run[e].tail
        /\ Precondition[e] = "NoStream" => current = NoPosition
        /\ Precondition[e] = "StreamExists" => current # NoPosition
        /\ run[e].revision # NoPosition => current = run[e].revision

PreconditionHeldAtAppend ==
    [][\A e \in Executors :
         Ids(log') # Ids(log) /\ run[e].pc = "publish" /\ run'[e].pc = "idle"
            /\ log'[Len(log')].id[1] = e
         => HeldAtAppend(e)]_vars

\* Every admitted execution is answered: chunked replay and conflict retries
\* end although other writers keep moving the stream.
ExecutionsEnd == \A e \in Executors : Active(e) ~> ~Active(e)

=============================================================================
