# TrogonAi: TLA+ specifications and proofs

TrogonAi coordinates agents over NATS JetStream. Most of its crates translate
protocols at the edge and keep no state of their own. The state, and with it the
concurrency, lives in a few places, and these are what this project models:

* the **decider** crates (`rsworkspace/crates/decider/`), the event-sourcing
  core: a command loads a snapshot and a chunked replay of its stream, decides,
  appends its events under optimistic concurrency, retries on conflict and
  leaves a snapshot behind;
* the **scheduler** crates (`rsworkspace/crates/scheduler/`), the largest user
  of that core: a schedule's events are applied, at least once and in any
  order after a failure, to scheduled messages of the broker;
* the gateway's **credentials** (`platform/trogon-gateway/`): an event stream and
  OpenBao, which share no transaction, are kept in step by sagas and a recovery
  worker, and every process keeps a registry of what can be resolved.

Paths below are relative to `src/rsworkspace/crates/` unless they say otherwise.

## 1. Inventory

### Decider

| component | state | operations | hard behaviour | what makes it correct |
|---|---|---|---|---|
| Command execution (`trogon-decider-runtime/src/execution.rs`, `replay_bounds.rs`, `command_id.rs`) | locals of one execution | read snapshot, read chunks, decide, append, retry, schedule a snapshot | the stream moves between any two awaits; redelivery after a lost answer; chunk and limit boundaries | an event was decided on exactly the history it is guarded on; an identified command is stored once |
| Admission (`admission.rs`) | semaphore | admit, drop | permits across retries, errors and dropped futures | permits are conserved |
| JetStream store (`trogon-decider-nats/src/store.rs`, `stream_store.rs`) | the physical stream, shared by many logical ones | read a range, append an atomic batch | guard by subject sequence, duplicate window | the append is conditional on what was read |
| Snapshot store (`snapshot_store.rs`) | one KV entry per stream | upsert, delete, read | compare-and-swap races, late writes, lost acknowledgements | the stored position never regresses except by deletion |
| Snapshot task tracker (`execution.rs`) | atomic count, `Notify` | schedule, guard drop, drain | lost wakeups; a count that moves while it is read | drain returns, and not before the writes it was called for |
| Decider host (`trogon-decider-nats-server/src/runtime.rs`) | subscription, handler tasks | receive, execute, reply, shut down | commands still running while the host drains | shutdown ends and loses nothing that was answered |
| Retention (`retention.rs`), projector (`projector.rs`), provisioning, WASM runtime, simulator | watermarks, read-model checkpoints | query, catch up | truncation under running executions; ordered catch-up | not modelled, see section 6 |

### Scheduler

| component | state | operations | hard behaviour | what makes it correct |
|---|---|---|---|---|
| Schedule aggregate (`trogon-scheduler-domain`, `schedule_next_occurrence.rs`, `record_schedule_occurrence.rs`) | fold of the schedule's events | create, pause, resume, remove, arm next, record occurrence | a pending occurrence meets a pause, resume or removal | occurrences follow one another without gap or repeat |
| Execution processor (`trogon-scheduler/src/processor/execution`) | per-instance lanes, KV checkpoint, the execution subject | load, reconcile, purge, publish, dispatch, arm, save, settle | partial failure between side effect and checkpoint; redelivery overtaken by its own lane; two instances | paused or removed schedules are silent, enabled ones have one message, occurrences reach the user once |
| Wakeup consumer (`wakeup.rs`) | none | record the occurrence, ack | lost acks | a wakeup is recorded once |
| Schedule projections (`projections/`) | read model and its position | catch up | restart between batch and position | not modelled, see section 6 |

### Gateway credentials (`platform/trogon-gateway/src`)

| component | state | operations | hard behaviour | what makes it correct |
|---|---|---|---|---|
| Credential aggregate (`credential/commands/`) | fold of the credential's events | request, activate, fail, rotate, revoke, destroy | a late activation meets a revocation | each phase admits only its own successors |
| Lifecycle handlers (`credential_lifecycle/handler.rs`) | write locks of one process | put, rotate, revoke, destroy, two recoveries | crash between OpenBao and the stream; answers lost; processes that do not share locks | what is recorded as revoked is unreadable; versions are not reused |
| Recovery worker (`recovery_worker.rs`) | checkpoint in a KV bucket | scan, plan, recover, save | failed passes, stale plans, requests in between | the checkpoint never passes a pending event; pending sagas settle |
| Secret store (`secret_store/openbao_secret_store.rs`) | none; OpenBao's versions of one path | write, metadata, soft-delete, destroy | a call that takes effect after its caller gave up | versions named by a bound read earlier |
| Runtime projection (`credential_runtime_projection.rs`) | table, applied positions, cursor, cache | refresh pass, apply, invalidate, resolve | handlers apply late; a resolve spans a revocation; failed reads; restart | never goes back, never serves what it knows revoked, converges |
| Management API and idempotency (`credential_management/`) | idempotency entries with leases | routes over the handlers | a lease reclaimed while its execution still runs | not modelled, see section 6 |

### The rest

`platform/trogon-nats` (leader lease on a KV entry with a TTL, claim check),
`platform/trogon-audit` (hash-chained audit log) and the push dispatcher of
`a2a/` hold some state and are candidates for later modules. `acp/`, `mcp/`,
`channel/`, `ard/`, `policy/`, the webhook sources, the egress proxy and telemetry are
conversion, I/O or pure evaluation; `platform/trogonai-proto` is generated;
`tsworkspace` and `goworkspace` are a console and code generators.
`PROJECT.json` lists each with the reason it is left out.

### How they interact

A host's handler task runs one command execution: it calls the event store and
the snapshot store and hands a snapshot write to the tracker, which the host
drains at shutdown. The scheduler's user commands, its arming command and its
wakeup command are command executions too; their events come back through a
durable consumer to the processor, which publishes scheduled messages, whose
firing becomes a wakeup and so a command again. The credential handlers and
the recovery worker issue command executions too; the registry of each process
reads the stream they append to, at its interval, and its own handlers tell it
of their outcome at once.

## 2. Modules

```
EventLog ── CommandExecution ── SerialRefinement ── MCCommandExecution
    │             │                  └─ INSTANCE SerialStream
    │             │                  └── CommandExecutionProofs
    │             └── RestoredStream ── MCRestoredStream
    │                      └── CommandExecutionProofs
    └── EventLogProofs (used by CommandExecutionProofs)
KvEntry ──── SnapshotStore ── SnapshotStoreProofs
    │             └─ INSTANCE SnapshotRegister
    │        SnapshotTracker ── DeciderHost ── DeciderHostProofs
    │             └── SnapshotTrackerProofs
    └─────── ScheduleExecution ── MCScheduleExecution
                  ├─ EXTENDS ScheduleAggregate
                  └── ScheduleExecutionProofs
CredentialAggregate ─┬─ CredentialLifecycle ── MCCredentialLifecycle
SecretVersions ──────┘       └── CredentialLifecycleProofs
CredentialAggregate ─── CredentialProjection ── MCCredentialProjection
                             └── CredentialProjectionProofs
```

**EventLog** holds pure operators over a log: positions of one subject in a
stream shared with others, bounded reads, `ReadBound` (limit and chunk
together), and `WriteGuards` (declared precondition, caller's revision and
observed position to the sequence guard). A decider's state is abstracted to
the set of positions folded into it, and the content of an event to the history
it was decided on; both are exact for any deterministic decider.

**CommandExecution** has one action per await of `execute_inner`; `pc` names the
store call an execution is about to make, so other executions, snapshot tasks
and other writers of the stream may run between any two. `Fault` is any error
that is not retried and a dropped future; `PublishUnacknowledged` a stored batch
whose answer is lost.

| code | model |
|---|---|
| `admission.admit`, `authorize_execution` | `Admit`, `Refuse` |
| `load_replay_context` | `ReadSnapshot`, `DiscardUnreadable`, `Load`, `DiscardAhead` |
| replay loop of `attempt` | `Replay` in `Load` and `Walk` |
| `append_decision`, read of the subject in `append_stream` | `Decide` |
| atomic batch publish | `Publish`, `PublishConflict`, `PublishDuplicate`, `PublishUnacknowledged` |
| conflict loop | `Conflict` |
| spawned snapshot write | `tasks`, `WriteSnapshot`, `LoseSnapshot` |

**SerialStream** is what this is for: each delivery takes effect in one step on
the whole history, or not at all, and success means it took effect.
**SerialRefinement** states that `CommandExecution` implements it, by the
identity on the log and the answers.

**RestoredStream** lets the stream lose its tail while no execution runs, which
is how a snapshot comes to be ahead of it.

**SnapshotStore** is the read/create/update and read/delete loops over one KV
entry, one bucket operation per step; `Fail` may come after the operation took
effect. **SnapshotRegister** is the atomic, monotone register it implements.
This is why `CommandExecution` may write a snapshot in one step.

**SnapshotTracker** separates the decrement of a guard from its notification and
a drain's `notified()`, load and await. A Tokio `Notified` receives
`notify_waiters` from its creation on, which is what `Subscribed` says.
**DeciderHost** composes it with handlers, shutdown and process exit.

**ScheduleAggregate** is the decider of one schedule; a command is one atomic
step, as `SerialStream` allows. **ScheduleExecution** adds the durable consumer,
the lanes of each processor instance, the calls of `apply_action` one per step
(`Purge`, `Publish`, `Dispatch`, `Arm`), the checkpoint's compare-and-swap
(`Save`, `Resolve`), settlement, the firing of messages and the wakeup consumer.
A record that is given up on is two calls too: its durable failure record
(`Missing`) and the termination of its delivery (`Term`). `Fail` may strike at
any call, and at the next call stands for an answer that was lost. The broker
(consumer, duplicate windows, scheduled messages) is external, modelled from how
the processor uses it; a purge empties the subject and leaves the duplicate
window, and a broker that forgets what it purges is a purge followed by
`ExpireWindow`. `duplicates` and `overtaken` remember, for the properties, which
publishes were dropped as duplicates and which records were still open when a
later one was reconciled; no action reads them.

**CredentialAggregate** gives each command of a credential as the set of states
it may lead to. **SecretVersions** is OpenBao's versions of one path, external,
modelled from the requests the store makes and the metadata it reads.

**CredentialLifecycle** runs any number of requests and workers on one
credential, each in a process of its own or not. `pc` names the call a job is
about to make. `home` says which process a job runs in: the write lock excludes
jobs of one process only. A fault is a failed call, an answer lost, or a future
dropped (`Drop`); a call given up may still be executed by OpenBao later
(`late`, `LandWrite`, `LandDelete`, `LandDestroy`).

| code | model |
|---|---|
| `put`, `rotate`, `revoke`, `destroy` up to their first await | `Begin`, `Acquire` |
| the command that opens the saga, and `load_state` after it failed | `Request`, `Reload` |
| resuming a rotation a crash left behind | `Probe` |
| `SecretStore` write: writable check, POST, metadata | `CheckWritable`, `Post`, `ReadMetadata` |
| the command that closes it, or records that it failed | `Activate`, `RecordFailure` |
| `revoke`/`destroy`: state, bound, call, closing command, conflict | `LoadForRevoke`, `ReadBound`, `Apply`, `Close`, `Recheck` |
| one pass of the worker | `Scan`, `Plan`, `ReadTarget`, `Walk`, `Save`, `BackOff` |

**CredentialProjection** is the registry of one process for the credentials of
one integration. Events are appended to the stream by a handler of this process
(`StoreHere`, whose outcome the handler then applies) or by anyone else
(`StoreElsewhere`); a handler that finds its revocation already on the stream
applies what it found (`AnswerHere`). An activation may name any version up to
the next one (`Activations`): `ActivateCredentialWrite` asks for active metadata
and not for new metadata, and another process may have read its own long ago. The
worker reads what changed past its cursor and applies states one by one; a state
the table refuses is evicted under a second acquisition of its lock (`Evict`).
`job` and `resolver` keep what is read before an await and used after it. A
restart loses the registry and keeps the stream.

## 3. Runs

Every run finishes within a few minutes on two cores.

| run | question | answer |
|---|---|---|
| `exec_serial` | two guarded transitions, one identified, a limit of 3 in chunks of 2; retries, redelivery, another writer | decided on exact history, identified commands stored once, snapshots cover their history; replay neither skips nor repeats and reaches the tail; the limit trips exactly when it is exceeded; `SerialStream` is implemented; every execution ends |
| `restored` | one command of each of three preconditions behind two permits, over a stream that loses its tail between executions, policy Discard | permits conserved; every precondition holds where its batch is stored; recovery decides on the surviving history; a snapshot ahead of the stream is never folded into |
| `snapshot_race` | three callers on one key | the register is implemented, no upsert is lost, every call returns |
| `host_shutdown` | shutdown at every point of three commands | it ends, its drain waits for what was scheduled, answered commands keep their writes |
| `sched_single` | one instance, any kind of schedule, a fault of any kind | silent when not enabled; an enabled native schedule never has another message than its last one, which is missing only when a repeated publish was taken for a duplicate; a one-shot is kept, fired, expired or lost that same way; a recurrence is armed while enabled and its recorded occurrences are dispatched, unless a record was overtaken, given up on or taken for a duplicate; every settled change is behind the checkpoint or has a failure record |
| `sched_instances` | two instances of the processor, one fault | a record is applied ahead of its checkpoint, which never goes back; no occurrence twice; every event settles, unless its recurrence is removed |
| `cred_lifecycle` | two requests and the recovery worker, in one process or two, one fault | revoked material is unreadable, the checkpoint covers what is pending, versions are not reused, what is pending settles unless its material cannot be activated |
| `cred_projection` | a registry that starts on a stream with a destroyed credential or one in use, under its worker, a handler, a resolve, failed reads and restarts | publishes what was last applied, never serves a version it knows revoked as long as the stream brings none back, its cursor passes nothing unapplied, it converges |

Four runs state what a comment promises and the code does not do; `PROJECT.json`
quotes each line under `findings`.

| run | what TLC shows |
|---|---|
| `exec_any_snapshot` | an unguarded command's snapshot omits events below its position, and later guarded commands decide on it |
| `sched_lost_occurrence` | a failed dispatch is overtaken by its lane, and its redelivery is stale |
| `sched_repeated_upsert` | a retried upsert purges the message of its first attempt and is itself taken for a duplicate |
| `sched_livelock` | a recurrence removed before its creation was applied is retried forever |

`sched_single` allows every kind of fault. What a fault may
cost is part of their properties: `overtaken` and `duplicates` name the records
that `sched_lost_occurrence` and `sched_repeated_upsert` show to be lost, and the
properties say that nothing else is.

### Bounds, and why they are enough

* Two executors with two deliveries each give every pair of concurrent steps,
  a redelivery after each outcome and a conflict after a retry; `restored` has
  three: a transition, a creation and a command that requires the stream to exist;
  with no expected revision the last is as unguarded as a command without a
  precondition. Batches of two events and chunks of two, over
  histories of up to nine entries, put chunk boundaries inside, between and
  at the end of batches. `MaxOthers` lets the stream move at every await.
* Three callers and three positions on a snapshot key: a winner, a loser and
  one that comes between the loser's read and retry.
* One drain and three commands, each with a write: the count may reach zero and
  leave it again between any two steps of the drain. (The proofs cover any
  number of drains.)
* Two instants of a recurrence give a recorded, a planned and a last
  occurrence; up to three user commands give pause, resume and removal in any
  order; one fault is enough for every counterexample found. `Ceiling` is 2
  instead of 120: it counts deliveries and nothing else compares it.
* Two requests and one worker on a credential, in one process or with one of the
  requests in another; requests and faults together are at most four in one
  process, which allows a write, its revocation, a destruction and a second life
  of the path, and three in two processes, where no lock keeps jobs apart and
  three are already two requests and the fault between them.
* Two instances: a one-shot with one user command, and a recurrence without any,
  because a removed one is not settled (`sched_livelock`). An early redelivery is
  enough to give one record to both. Windows do not expire there, as `DispatchedOnce`
  supposes.
* A credential of the integration that was written, revoked and destroyed before the
  process started, or that is in use after two failed rotations (`MCInit` holds what
  some events and a restart lead to), and three or two further events of it or of one
  more credential: of the same owner, or of another owner who takes its kind. Three
  events are a second write, its activation and its revocation, where the activation
  may bring the revoked version back; with `VersionsFresh` left out `RevokedNotServed`
  is violated here. Two events are a rotation or an end of the credential in use, or the
  write of another owner, which the table refuses. Two failed reads or
  restarts.
* Larger bounds (batches of two under a cadence of two, four events, four
  requests in two processes) held as well, but take many minutes: TLC's search
  for a fair cycle costs many times the search for states. The safety properties
  of these runs are proved for all bounds.
* `Occurrences`, `MaxCommands`, `RecurrenceCommands`, `MaxFaults`, `MaxDeliveries`, `MaxOthers`,
  `MaxBatch`, `MaxCalls`, `Budget`, `MaxEvents` and `MaxUsed` are bounds; the other
  constants configure the code. `MaxOthers` bounds `CommandExecution` only:
  `SerialStream` lets other writers append without end.

Deadlock is not checked where a bounded environment has nothing left to do.

### Fairness

* `CommandExecution!FairSpec`: a future that was admitted is polled until it
  resolves. Callers, snapshot tasks and other writers owe nothing.
* `SnapshotStore!FairSpec`: a call in progress is polled.
* `DeciderHost!HostFairSpec`: the runtime polls ready tasks, a write ends because
  every bucket operation has a timeout, and a host whose drain returned exits.
  New commands may arrive and schedule writes up to the end.
* `ScheduleExecution!FairSpec`: the dispatcher polls its workers and the consumer
  redelivers what is not settled and no longer in hand (`max_deliver: -1`).
  Users, the clock, the broker's timers and faults owe nothing.
* `CredentialLifecycle!FairSpec`: a request that runs is polled until it returns,
  the worker's interval keeps ticking, and, because a Tokio mutex queues its
  waiters, a job that finds the lock free again and again gets it (strong
  fairness of `Acquire`). Requests, faults and late calls owe nothing.
* `CredentialProjection!FairSpec`: the worker's interval keeps ticking. Handlers,
  resolves, events and restarts owe nothing.

## 4. Proofs

TLAPS proves, for every value of the constants, or for those the statement names:

| theorem | module | statement |
|---|---|---|
| `TypeCorrect` | `CommandExecutionProofs` | `Spec => []TypeOK` |
| `StoredOnce` | `CommandExecutionProofs` | `Spec => []IdentifiedOnce` |
| `PermitsKept` | `CommandExecutionProofs` | `Spec => []PermitsConserved` |
| `HistoryExact` | `CommandExecutionProofs` | `OnlyGuarded => (Spec => []DecidedOnExactHistory)` |
| `SnapshotsCover` | `CommandExecutionProofs` | `OnlyGuarded => (Spec => []SnapshotCoversHistory)` |
| `ReplayExact` | `CommandExecutionProofs` | `OnlyGuarded => (Spec => []ReplayIsExact)` |
| `LimitExact` | `CommandExecutionProofs` | `Spec => LimitIsExact` |
| `PermitsKeptByRestore` | `CommandExecutionProofs` | `RestoredSpec => []PermitsConserved` |
| `PreconditionsHold` | `CommandExecutionProofs` | `RestoredSpec => PreconditionHeldAtAppend` |
| `AheadIsNeverTrusted` | `CommandExecutionProofs` | `RestoredSpec => []AheadNeverTrusted` |
| `DiscardingRecovers` | `CommandExecutionProofs` | `RestoredSpec => DiscardRecovers` |
| `ExecutionIsSerial` | `CommandExecutionProofs` | `OnlyGuarded => (Spec => ImplementsSerialStream)` |
| `InvariantHolds` | `SnapshotStoreProofs` | `Spec => []StoreInv` |
| `UpsertsSurvive` | `SnapshotStoreProofs` | `Spec => []NoUpsertLost` |
| `LoopsImplementRegister` | `SnapshotStoreProofs` | `Spec => Register!Spec` |
| `TrackerCorrect` | `SnapshotTrackerProofs` | `Spec => []TrackerInv` |
| `DrainWaits` | `SnapshotTrackerProofs` | `Spec => []DrainWaitsForScheduled` |
| `HostCorrect` | `DeciderHostProofs` | `HostSpec => [](TrackerInv /\ HostInv)` |
| `AnsweredWritesSurvive` | `DeciderHostProofs` | `HostSpec => []AnsweredWritesKept` |
| `CheckpointCorrect` | `ScheduleExecutionProofs` | `Spec => []CheckpointInv` |
| `CheckpointForward` | `ScheduleExecutionProofs` | `Spec => CheckpointNeverRegresses` |
| `ScheduleFlow` | `ScheduleExecutionProofs` | `Spec => []ScheduleInv` |
| `ChangesApplied` | `ScheduleExecutionProofs` | `Spec => []ChangesAccounted` |
| `NeverTwice` | `ScheduleExecutionProofs` | windows that do not expire: `Spec => []DispatchedOnce` |
| `SilentNative` | `ScheduleExecutionProofs` | one instance: `Spec => [](Kind # "RRule" => SilentWhenNotEnabled)` |
| `OneMessageNative` | `ScheduleExecutionProofs` | one instance: `Spec => []OneMessageUnlessDuplicate` |
| `OneShotNative` | `ScheduleExecutionProofs` | one instance: `Spec => []OneShotUnlessDuplicate` |
| `OccurrencesReach` | `ScheduleExecutionProofs` | `Spec => []LostOnlyWhenOvertaken` |
| `RecurrenceGoesOn` | `ScheduleExecutionProofs` | one instance: `Spec => []RecurrenceAlive` |
| `TypeCorrect` | `CredentialLifecycleProofs` | `Spec => []TypeOK` |
| `RevokedIsUnreadable` | `CredentialLifecycleProofs` | `Spec => []RevokedUnreadable` |
| `CheckpointCovers` | `CredentialLifecycleProofs` | `Spec => []CheckpointCoversPending` |
| `VersionsAreNew` | `CredentialLifecycleProofs` | `Spec => []VersionsNotReused` |
| `TypeCorrect` | `CredentialProjectionProofs` | `Spec => []TypeOK` |
| `PublishedCorrect` | `CredentialProjectionProofs` | `Spec => []PublishedIsApplied` |
| `RevokedIsNotServed` | `CredentialProjectionProofs` | `Spec => []RevokedNotServed` |
| `CursorCovers` | `CredentialProjectionProofs` | `Spec => []CursorCoversApplied` |
| `AppliesForward` | `CredentialProjectionProofs` | `Spec => AppliedForward` |

**Snapshot store.** A read and the write that depends on it are two steps, so
`NoUpsertLost` is not inductive. `CallInv` is what a call knows: while the entry
still has the revision it read, the entry is the one it read, so an update finds
a value that does not cover its own position. Revisions only grow, so every
other step makes the premise false or leaves it alone. The refinement follows:
a write that succeeds under this invariant is one `Upsert` or `Delete`.

**Tracker.** `CountExact` ties the atomic count to the set of guards held, a
finite set, and `GuardedWrites` says a guard outlives its write. When a drain
loads zero no guard is held, so every write scheduled before has ended; and an
ended write never runs again. `TrackerInv` also keeps `awaited` within the tasks
that have a guard.

**Command execution.** `EventLogProofs` has the lemmas on logs, positions and
bounded reads; `TypeCorrect` has one lemma per group of actions. None of the
other properties is inductive. `IdentityInv` adds that event ids are unique, that
every batch begins with the first of its ids, and that the ids of an identified
command do not depend on the delivery: so a publish that finds its first id
nowhere stores its batch for the first time. `GuardedInv` adds what an execution holds: its snapshot and
its decision are folded from every event of the log up to their position, and
its replay has folded exactly the events before its cursor (the lemma
`FoldChunk` about one bounded read). A publish that goes through at the observed
position then appends after exactly the history it was decided on. `GuardedInv`
needs `OnlyGuarded`, that every command is declared `StreamUnchanged` or `NoStream`:
`exec_any_snapshot` shows that it fails otherwise. The refinement follows from
both: the publish that stores a batch is the whole command of `SerialStream`,
every other step a stutter or an answer. Permits are the finite set of
executions between `Admit` and their end.

What does not depend on the commands being guarded, nor on the stream keeping
its tail, is in `AttemptInv`, which speaks of running executions only and so
survives a restore, done while none runs. `CountInv`: an execution counted
exactly the events between its snapshot and the last it folded (`KeptChunk`: a
turn keeps an initial segment of what lies before the pinned tail, and all of it
when the loop ends), it is pinned at or after its snapshot, and it publishes under a
guard that its precondition allows for what it read. `CleanInv`: an execution that
discarded a snapshot has replayed from the beginning, so its state is exact even where
stored snapshots are not. `LimitExact`, `PreconditionsHold`,
`AheadIsNeverTrusted` and `DiscardingRecovers` follow, and with `GuardedInv`
`ReplayExact`.

**Host.** The host's steps on the tracker are the tracker's, so `TrackerInv`
carries over. `HostInv` adds that the host stops only after its drain returned
and that nothing but the exit drops a write; so every write scheduled before the
shutdown has ended when the exit comes.

**Checkpoint.** That a write goes through only at the loaded revision does not
make `CheckpointNeverRegresses` inductive: the record must also be ahead of the
checkpoint that was loaded. `AppliesAhead` says so for as long as the checkpoint
has that revision. The stale check establishes it, every write of another
instance makes its premise false because revisions grow, and at `Save` it is
what turns an accepted write into a step forward. `HoldsEvents`, that what is
queued or processed is on the stream, keeps the types of published messages.
The proof covers any number of instances, events, faults and redeliveries.

**Flow of a schedule's events.** `FlowInv` adds to the above how far each stage
may be ahead of the next, for any constants: deliveries, the records in hand, what
is settled and the checkpoint (`DeliveredInv`), and what the fold knows of the
stream (`FoldInv`): while nothing arms a recurrence an event can only come from a
user's command, which is why the stream stays within `MaxEvents`. `ChangeApplied`
is then inductive: a change is acknowledged only by the write that applied it, by a
checkpoint that had passed it, or by an instance that lost to such a checkpoint, and
it is terminated only after its failure record was written. A failure record does not
mean that its record is settled (the Term may fail, and the record is delivered again),
only that it was delivered up to the ceiling (`GivenUp`).

**No record twice.** `DispatchInv` ties the messages to the duplicate windows: a
dispatched occurrence is remembered by the delivery stream; a one-shot that fired
left the subject, is remembered there and so is not stored again. Hence the one
assumption of `NeverTwice`, windows that do not expire: otherwise a record that is
retried after its message fired is published and fires again.

**Native schedules, one instance.** A lone instance always writes at the revision
it loaded (`Alone`), so the effect of a record on the subject and its checkpoint
are not separated by anybody else. `Effect(p, status)` says what the application
of the event at `p` leaves at the broker: nothing for a pause or a removal, exactly
its message for an event that enables, or nothing if its publish was dropped as a
duplicate. `NativeInv` says that this holds of the last event once the checkpoint has
reached it, and of the record in hand when it is about to be saved. It survives
failures and crashes because every record begins with a purge, and what was overtaken
is stale. One instance is assumed because with two it does not hold (hazard: an older
pause purges a newer resume's message).

**Recurrences, occurrences.** `OccurrencesReach` holds for any number of instances and
every fault. `OccurrenceInv` says that what the delivery stream remembers reached the
user, and so did each occurrence that the checkpoint has reached or that is settled,
unless it was overtaken or given up on. A write that takes the checkpoint past an
occurrence goes through only at the revision it loaded, and when it was loaded whatever
lay between was settled or became overtaken (`OccurrenceRun`). `StatusInv` and
`RecurrenceStream` say why an occurrence is not found stale for its status: the
checkpoint's status is that of an earlier event, and neither a removal nor the end of
the recurrence precedes an occurrence on the stream.

**Recurrences, one instance.** `RecurrenceGoesOn` follows the pending occurrence from
the command that arms it to its message, its wakeup and the next plan, under every
fault. `PlanStream` is what a recurrence's stream looks
like: an occurrence is planned by an arming command or with the record of the
occurrence before it, and recorded while it is the last plan or right after a pause; in
an enabled recurrence something is pending exactly as long as the last event planned
it. `Going` is the premise: enabled, not completed, and no record since it was enabled
was overtaken, given up on or dropped as a duplicate. Whatever was lost before does not
matter, because enabling arms again. Then no record since is settled ahead of the
checkpoint, whose status is `Scheduled` (`InOrder`), so no plan is found stale; the
calls of an instance are those its event asks for, and a command the stream remembers
is not the last event's (`GoingInv`). `OnTheWay`: once the last event is applied, the
recurrence is no longer to be armed, and what it planned is in a message or a wakeup.

**Credential lifecycle.** `Inv` has five parts. `ScanInv`: a pass loaded a
checkpoint older than the stream, and only saves a position that lies before
whatever is pending; this is for any number of workers, which overwrite each
other's checkpoint. `RevocationInv`: from the call that succeeds to the command
that records it, every version up to the one named is unreadable (or destroyed).
It rests on the order of the two reads: the bound is read after the state, so it
covers the version named, and `StoreNeverReverts`, that no step makes a version
readable again, keeps it true whatever lands in between. Neither needs the lock,
so `RevokedUnreadable` holds across processes. `Exclusive`: jobs of a process
take turns. `LockInv`, under `OneProcess`: what the holder of the lock read is
still so when it acts, and a destruction that OpenBao may still execute finds
nothing left to destroy once the credential is past being destroyed. The last
part is the reason why a late destruction cannot reach the material of a second
life of the path, and it is what `VersionsNotReused` rests on. Each action is
first reduced to the few facts the invariant looks at (the `...Facts` lemmas,
`Steps`); then each part is preserved by a lemma of its own.

**Credential registry.** `Inv` says that what a job is about to apply is on the stream
(`JobsHold`), that the table publishes what was applied (`PublishedIsApplied`),
that no resolve in flight began after the revocation of its version was applied
(`ResolverInv`), and that the cursor and a pass under way have taken in what they
passed (`CursorCoversApplied`, `PassCovers`). `RevokedNotServed` has a premise,
`VersionsFresh`: no event of the stream brings a revoked version back. The stream only
grows, so a stream that is fresh was fresh before, and the premise is carried backwards
along a step: an apply that is older than what the table has is dropped, and the state
that is applied is of a version newer than every one revoked before it. `VersionsFresh`
is what `VersionsNotReused` gives within one process; with two it may fail
(section 5), and the other theorems do without it.

Assumptions are the named `ASSUME`s of the modules (`ConfigAssumption`,
`StoreAssumption`, `TrackerAssumption`, ...): sets of naturals, finite sets and known
names, nothing about behaviour. TLC evaluates them in the runs.

Only model-checked: the liveness properties (`PendingSettles`, `RegistryConverges`,
`EventsSettle` and those of the other components): fairness and `ENABLED` are beyond
the prover.

## 5. Abstractions a reader should know

* The duplicate window of the event stream is unbounded in `CommandExecution`;
  `command_id.rs:11-13` rests on it and `provision.rs` requires one. In the
  scheduler the windows may expire, as a fault.
* An atomic batch is stored in one step; that is JetStream's promise. A read of a
  range and the position before it read the log as of the first request, because
  stored messages do not change. An event that overrides its own event id is not
  modelled.
* `ReadBound` never yields zero, so 0 can stand for an unset limit or chunk. With
  no tail `truncate_to_tail` leaves the chunk alone, but a stream without a tail
  has no events to return.
* `WithoutSnapshots` is `Cadence = Unset`. The in-memory test store is not
  modelled.
* In the scheduler a recurrence's instants are `1 .. Occurrences` and the clock
  counts how many are past their grace. A message may fire at any time, which
  allows more than real time does. A checkpoint that cannot be decoded, a request
  that fails validation, foreign events and the bound on active lanes are left
  out; `Ok(None)` in `resolve_save_conflict` needs a deletion that nothing in
  the crate makes. Properties except records terminated at the ceiling, which
  leave a durable failure record for an operator.
* Two more places where a comment says more than the code does were met while
  modelling. They are covered by a configuration or a hazard note and have no run
  of their own: the replacement of a discarded snapshot, which
  `execution.rs:1132` calls unconditional, is refused by the store when the stored position is not earlier
  (`snapshot_store.rs:786`); handlers that outlive the drain are abandoned with
  the writes they schedule (`runtime.rs:320-326`), so `AnsweredWritesKept` speaks
  of writes scheduled before.
* A checkpoint write that fails after arming leaves the armed occurrence's event stale
  when it is overtaken (`reconcile.rs:243`): the recurrence stalls until it is
  enabled again. `RecurrenceAlive` says so by its premise on `overtaken`.
* The duplicate window of the execution stream survives a purge of a subject, as
  `execution_schedules/mod.rs:3-5` describes it. `sched_repeated_upsert` rests on
  this. The properties of native schedules hold for windows of either kind; `NeverTwice` needs one that
  lasts, for a one-shot across the purges of its subject too.
* Two instances are run for the checkpoint, the settling of events and what is
  dispatched, and not for what the broker holds: `consumer.rs:12-19` documents
  that their side effects interleave and asks for a single active instance.
* A credential command is one step of `CredentialLifecycle`, as `SerialStream`
  allows; a conflict is one of the failures. The reference a state holds is
  abstracted to its version. The back-off times of the worker, the schema of its
  checkpoint entry, KV `max_versions` pruning and custom metadata are not
  modelled, nor are the management API's routes and idempotency leases.
* `PendingSettles` excepts what can never be activated (`Unusable`), because the
  code leaves it to an operator: a planned version that was destroyed or
  deleted before it was activated, and a rotation whose next version was
  superseded by a late write. The worker then fails each pass and its checkpoint
  stays. `docs/architecture/secret-management.md:112-114` calls a stuck write "a
  recoverable state"; here it takes the operator's runbook
  (`devops/openbao/runbooks/stuck-pending-secret-write.md`).
* Other outcomes the model shows and no property excludes: a rotation that gave
  up after its write leaves version 2 in OpenBao while version 1 is active, and
  the next rotation from 1 finds it not the current version and fails; a resumed rotation
  activates the value an earlier attempt wrote; a revocation deletes the versions
  it read, so a write by another process or one that lands late leaves a newer
  live version that nothing refers to. `VersionsNotReused` is therefore stated for one
  process (`OneProcess`), which is what the locks cover.
* With two processes a `put` that read its metadata and stalls
  (`handler.rs:642-647`) may activate after the other process went through a whole life
  of the credential and opened a second one: `activate_credential_write.rs:42-60` takes
  any active metadata for the pending write. The stream then names a version it had
  revoked and the registry publishes it. `RevokedNotServed` is stated for streams where
  this does not happen (`VersionsFresh`); `CredentialProjection` lets it happen.
* `CredentialProjection` is one integration in one process. With a second owner
  for the same kind the table publishes neither until one is gone, and the
  `OneOwner` properties speak of the other case. The worker's eviction (`Evict`) takes
  effect whatever a handler applied since the merge was refused. Events that cannot be decoded,
  release policies and full rebuilds are not modelled.

## 6. Not modelled, and what would come next

* `TruncatedStream`: the retention watermark (`retention.rs`, ADR 0029) and an
  external purge against running executions and snapshots, composed with
  `CommandExecution` as `RestoredStream` is.
* `LeaderLease`: acquire, renew and release on a KV entry with a TTL, with
  pauses and clock drift; at most one leader acts on a lease it still holds.
* Projections: the scheduler's catch-up and the decider's projector, with a
  restart between the batch and its position.
* The idempotency entries of the credential management API and their leases.
* The checkpoints of the snapshot store, the audit chain and the push
  dispatcher's retries, as far as they hold state.

Conversion, pure I/O and generated code (most of `a2a/`, `acp/`, `mcp/`, `ard/`,
`channel/`, `trogonai-proto`, the consoles and the code generators) hold no state
that an interleaving could break; there a specification would only repeat the code.
