------------------------- MODULE CredentialLifecycle -------------------------
(***************************************************************************)
(* The lifecycle of one credential in trogon-gateway: the management API's *)
(* requests and the recovery worker drive the aggregate's event stream and *)
(* OpenBao, which share no transaction (credential_lifecycle/handler.rs,   *)
(* recovery_worker.rs, secret_store/openbao_secret_store.rs).              *)
(*                                                                         *)
(* A job is one request or the worker. It suspends where the code awaits   *)
(* the stream or OpenBao, and pc names the call it is about to make:       *)
(*   lock             CredentialWriteLocks::acquire                        *)
(*   request, reload  the command that opens the saga; load_state after it *)
(*                    failed                                               *)
(*   probe            rotate: metadata of the version a crash left behind  *)
(*   writable         SecretStoreRotate: metadata of the active version    *)
(*   post             the write of the secret                              *)
(*   metadata         metadata of the version just written                 *)
(*   activate         the command that closes a write or a rotation        *)
(*   record           the command that records a failed write, rotation or *)
(*                    destruction                                          *)
(*   load, recheck    revoke: load_state before it and after a conflict    *)
(*   bound            revoke, destroy: metadata that bounds the versions   *)
(*   apply            the soft-deletion or destruction                     *)
(*   close            the command that closes a revocation or destruction  *)
(*   plan             worker: the replay of the changed credential         *)
(*   target, walk     worker: metadata of the planned and of later versions*)
(*   save, backoff    worker: the checkpoint of a clean or failed pass     *)
(* A command is one step: CommandExecution shows that an execution takes   *)
(* effect at its append, and a conflict is one of the failures below.      *)
(***************************************************************************)
EXTENDS CredentialAggregate, SecretVersions, FiniteSets

CONSTANTS
    Requests,     \* the management API's concurrent requests
    Workers,      \* recovery workers, at most one in each process
    Processes,    \* gateway processes; locks do not reach across them
    MaxFaults,    \* bound: failures, lost answers and dropped futures
    Budget        \* bound: requests made and faults, together

Jobs == Requests \cup Workers

ASSUME JobsAssumption ==
    /\ Requests \cap Workers = {}
    /\ MaxFaults \in Nat /\ Budget \in Nat

VARIABLES
    home,        \* the process each job runs in
    credential,  \* the aggregate, folded from its stream
    position,    \* the stream's current position
    store,       \* the versions at the credential's path in OpenBao
    late,        \* requests OpenBao may still execute after their caller gave up
    job,         \* per job, the local variables of its handler
    checkpoint,  \* the recovery checkpoint: the last sequence scanned
    requests,    \* requests made so far
    faults       \* faults that happened so far

vars == <<home, credential, position, store, late, job, checkpoint, requests, faults>>

Idle == [op |-> "none", pc |-> "idle", ref |-> NoVersion, version |-> NoVersion,
         status |-> "Missing", upto |-> 0, position |-> 0, loaded |-> 0]

Init ==
    /\ home \in [Jobs -> Processes]
    /\ credential = InitialCredential
    /\ position = 0
    /\ store = <<>>
    /\ late = [writes |-> 0, deletes |-> {}, destroys |-> {}]
    /\ job = [j \in Jobs |-> Idle]
    /\ checkpoint = 0
    /\ requests = 0
    /\ faults = 0

Running(j) == job[j].pc # "idle"

\* The write lock is held from its acquisition to the return of the handler;
\* planning and the checkpoint are outside it.
Holds(j) == job[j].pc \notin {"idle", "lock", "plan", "save", "backoff"}

\* A job that has ended, well or not, keeps nothing.
Goto(j, pc) ==
    job' = [job EXCEPT ![j] = IF pc = "idle" THEN Idle ELSE [@ EXCEPT !.pc = pc]]

Fault == faults < MaxFaults /\ requests + faults < Budget /\ faults' = faults + 1

\* A request returns to its caller; the worker goes on to its checkpoint.
Returned(j) == IF j \in Workers THEN "save" ELSE "idle"
Failed(j) == IF j \in Workers THEN "backoff" ELSE "idle"

-----------------------------------------------------------------------------
(* The two systems a handler talks to. *)

\* CommandExecution::execute. A command that is rejected, is not stored, or is
\* stored without an acknowledgement, returns an error.
Executes(j, decision, ok, error) ==
    /\ \/ /\ credential' \in decision
          /\ position' = position + 1
          /\ \/ Goto(j, ok) /\ UNCHANGED faults
             \/ Goto(j, error) /\ Fault
       \/ /\ decision = {}
          /\ Goto(j, error)
          /\ UNCHANGED <<credential, position, faults>>
       \/ /\ decision # {}
          /\ Goto(j, error) /\ Fault
          /\ UNCHANGED <<credential, position>>
    /\ UNCHANGED <<home, store, late, checkpoint, requests>>

\* A read of metadata changes nothing but the job.
Reads(j) == UNCHANGED <<home, credential, position, store, late, checkpoint, requests>>

\* A read of metadata or of the stream that fails.
ReadFails(j, error) == Goto(j, error) /\ Fault

\* OpenBao executes a write, or a request on the versions 1..upto, whose caller
\* stopped waiting for it.
LandWrite ==
    /\ late.writes > 0
    /\ late' = [late EXCEPT !.writes = @ - 1]
    /\ store' = Write(store)
    /\ UNCHANGED <<home, credential, position, job, checkpoint, requests, faults>>

LandDelete(upto) ==
    /\ late' = [late EXCEPT !.deletes = @ \ {upto}]
    /\ store' = DeleteUpTo(store, upto)
    /\ UNCHANGED <<home, credential, position, job, checkpoint, requests, faults>>

LandDestroy(upto) ==
    /\ late' = [late EXCEPT !.destroys = @ \ {upto}]
    /\ store' = DestroyUpTo(store, upto)
    /\ UNCHANGED <<home, credential, position, job, checkpoint, requests, faults>>

\* The request a job at this point may have left behind in OpenBao.
LeftBehind(j) ==
    CASE job[j].pc = "post" -> [late EXCEPT !.writes = @ + 1]
      [] job[j].pc = "apply" /\ job[j].op = "revoke" ->
            [late EXCEPT !.deletes = @ \cup {job[j].upto}]
      [] job[j].pc = "apply" /\ job[j].op = "destroy" ->
            [late EXCEPT !.destroys = @ \cup {job[j].upto}]
      [] OTHER -> late

\* The client disconnects, the call times out or the process stops: the future
\* is dropped and its lock with it. A crash drops every job of a process.
Drop(j) ==
    /\ Running(j)
    /\ Fault
    /\ Goto(j, "idle")
    /\ late' \in {late, LeftBehind(j)}
    /\ UNCHANGED <<home, credential, position, store, checkpoint, requests>>

-----------------------------------------------------------------------------
(* Beginning a handler. *)

Operations == {"put", "rotate", "revoke", "destroy"}

\* A request names the version it is about; a put names none.
Begin(j) ==
    /\ ~Running(j)
    /\ requests + faults < Budget
    /\ requests' = requests + 1
    /\ \E op \in Operations :
       \E ref \in IF op = "put" THEN {NoVersion} ELSE DOMAIN store :
          job' = [job EXCEPT ![j] = [Idle EXCEPT !.op = op, !.pc = "lock", !.ref = ref]]
    /\ UNCHANGED <<home, credential, position, store, late, checkpoint, faults>>

FirstCall(op) ==
    CASE op = "revoke" -> "load"
      [] op \in {"recover write", "recover rotation"} -> "target"
      [] OTHER -> "request"

\* Mutant of Free: the lock is taken without waiting for its holder.
FreeAlways(j) == TRUE

Free(j) == \A k \in Jobs : home[k] = home[j] => ~Holds(k)

Acquire(j) ==
    /\ job[j].pc = "lock"
    /\ Free(j)
    /\ Goto(j, FirstCall(job[j].op))
    /\ UNCHANGED <<home, credential, position, store, late, checkpoint, requests, faults>>

\* The event that opens the saga.
Opening(j) ==
    CASE job[j].op = "put"     -> RequestWrite(credential)
      [] job[j].op = "rotate"  -> RequestRotation(credential, job[j].ref)
      [] job[j].op = "destroy" -> RequestDestroy(credential, job[j].ref)

AfterOpening(op) ==
    CASE op = "put" -> "post" [] op = "rotate" -> "writable" [] op = "destroy" -> "bound"

Request(j) ==
    /\ job[j].pc = "request"
    /\ Executes(j, Opening(j), AfterOpening(job[j].op), "reload")

\* ensure_write_requested, ensure_rotation_requested, ensure_destroy_requested:
\* a saga an earlier attempt opened is resumed.
Reload(j) ==
    /\ job[j].pc = "reload"
    /\ \/ UNCHANGED faults /\ Goto(j,
             CASE job[j].op = "put" /\ credential.phase = "PendingWrite" -> "post"
               [] job[j].op = "rotate" /\ At(credential, {"RotationPending"}, job[j].ref) -> "probe"
               [] job[j].op = "destroy" /\ At(credential, {"DestroyRequested"}, job[j].ref) -> "bound"
               [] OTHER -> "idle")
       \/ ReadFails(j, "idle")
    /\ Reads(j)

-----------------------------------------------------------------------------
(* Writing: put, rotate and their recovery. *)

\* A resumed rotation uses the next version if an earlier attempt wrote it.
Probe(j) ==
    /\ job[j].pc = "probe"
    /\ \/ /\ Status(store, job[j].ref + 1) = "Missing"
          /\ Goto(j, "writable") /\ UNCHANGED faults
       \/ /\ Status(store, job[j].ref + 1) # "Missing"
          /\ job' = [job EXCEPT ![j].pc = "metadata", ![j].version = job[j].ref + 1]
          /\ UNCHANGED faults
       \/ ReadFails(j, "idle")
    /\ Reads(j)

\* SecretStoreRotate::rotate writes only over the current version.
CheckWritable(j) ==
    /\ job[j].pc = "writable"
    /\ \/ /\ Goto(j, IF Status(store, job[j].ref) = "Active" THEN "post" ELSE "record")
          /\ UNCHANGED faults
       \/ ReadFails(j, "record")
    /\ Reads(j)

\* The write of the secret. A failed call may still take effect.
Post(j) ==
    /\ job[j].pc = "post"
    /\ \/ /\ store' = Write(store)
          /\ job' = [job EXCEPT ![j].pc = "metadata", ![j].version = Len(store) + 1]
          /\ UNCHANGED <<late, faults>>
       \/ /\ Goto(j, "record") /\ Fault
          /\ late' \in {late, LeftBehind(j)}
          /\ UNCHANGED store
    /\ UNCHANGED <<home, credential, position, checkpoint, requests>>

ReadMetadata(j) ==
    /\ job[j].pc = "metadata"
    /\ \/ /\ job' = [job EXCEPT ![j].pc = "activate",
                                ![j].status = Status(store, job[j].version)]
          /\ UNCHANGED faults
       \/ ReadFails(j, "idle")
    /\ Reads(j)

IsRotation(op) == op \in {"rotate", "recover rotation"}

Activate(j) ==
    /\ job[j].pc = "activate"
    /\ Executes(j, IF IsRotation(job[j].op)
                   THEN ActivateRotation(credential, job[j].version, job[j].status)
                   ELSE ActivateWrite(credential, job[j].version, job[j].status),
                Returned(j), Failed(j))

\* A failed destruction is recorded like a failed write; only the worker takes
\* a recorded failure for a result.
RecordFailure(j) ==
    /\ job[j].pc = "record"
    /\ Executes(j, CASE IsRotation(job[j].op) -> RecordRotationFailure(credential, job[j].ref)
                     [] job[j].op = "destroy" -> RecordDestroyFailure(credential, job[j].ref)
                     [] OTHER                 -> RecordWriteFailure(credential),
                Returned(j), Failed(j))

-----------------------------------------------------------------------------
(* Revoking and destroying. *)

LoadForRevoke(j) ==
    /\ job[j].pc = "load"
    /\ \/ /\ IsRevocable(credential, job[j].ref)
          /\ job' = [job EXCEPT ![j].pc = "bound", ![j].position = position]
          /\ UNCHANGED faults
       \/ /\ ~IsRevocable(credential, job[j].ref)
          /\ Goto(j, "idle") /\ UNCHANGED faults
       \/ ReadFails(j, "idle")
    /\ Reads(j)

\* What the handler does when OpenBao refuses a destruction or a revocation.
Refused(op) == IF op = "destroy" THEN "record" ELSE "idle"

\* Mutant of ReadBound: the versions after the one named are left alone.
ReadBoundAtRef(j) ==
    /\ job[j].pc = "bound"
    /\ job' = [job EXCEPT ![j].upto = job[j].ref - 1, ![j].pc = "apply"]
    /\ UNCHANGED faults
    /\ Reads(j)

ReadBound(j) ==
    /\ job[j].pc = "bound"
    /\ LET status  == Status(store, job[j].ref)
           refused == \/ status = "Missing"
                      \/ status = "Destroyed" /\ job[j].op = "revoke"
       IN  \/ /\ refused
              /\ Goto(j, Refused(job[j].op)) /\ UNCHANGED faults
           \/ /\ ~refused
              /\ job' = [job EXCEPT ![j].pc = "apply", ![j].upto = Len(store)]
              /\ UNCHANGED faults
           \/ ReadFails(j, Refused(job[j].op))
    /\ Reads(j)

\* The soft-deletion or destruction of every version read. A failed call may
\* still take effect.
Apply(j) ==
    /\ job[j].pc = "apply"
    /\ \/ /\ store' = IF job[j].op = "revoke" THEN DeleteUpTo(store, job[j].upto)
                                              ELSE DestroyUpTo(store, job[j].upto)
          /\ Goto(j, "close")
          /\ UNCHANGED <<late, faults>>
       \/ /\ Goto(j, Refused(job[j].op)) /\ Fault
          /\ late' \in {late, LeftBehind(j)}
          /\ UNCHANGED store
    /\ UNCHANGED <<home, credential, position, checkpoint, requests>>

\* A revocation is recorded only at the revision it was checked against.
Closing(j) ==
    CASE job[j].op = "destroy" -> CompleteDestroy(credential, job[j].ref)
      [] job[j].op = "revoke" ->
            {d \in Revoke(credential, job[j].ref) : position = job[j].position}

Close(j) ==
    /\ job[j].pc = "close"
    /\ Executes(j, Closing(j), "idle", IF job[j].op = "revoke" THEN "recheck" ELSE "idle")

\* After a failed RevokeCredential it is tried again if the stream moved and it
\* can still be revoked. It may have been revoked by another writer meanwhile.
Recheck(j) ==
    /\ job[j].pc = "recheck"
    /\ \/ /\ position # job[j].position /\ IsRevocable(credential, job[j].ref)
          /\ job' = [job EXCEPT ![j].pc = "close", ![j].position = position]
          /\ UNCHANGED faults
       \/ /\ position = job[j].position \/ ~IsRevocable(credential, job[j].ref)
          /\ Goto(j, "idle") /\ UNCHANGED faults
       \/ ReadFails(j, "idle")
    /\ Reads(j)

-----------------------------------------------------------------------------
(* The recovery worker. *)

\* A pass reads the events after the checkpoint. Backing off only postpones it.
Scan(w) ==
    /\ ~Running(w)
    /\ position > checkpoint
    /\ job' = [job EXCEPT ![w] = [Idle EXCEPT !.op = "plan", !.pc = "plan",
                                    !.position = position, !.loaded = checkpoint]]
    /\ UNCHANGED faults
    /\ Reads(w)

\* activation_recovery_command on the credential's replayed state.
Plan(w) ==
    /\ job[w].pc = "plan"
    /\ \/ /\ job' = [job EXCEPT ![w] =
                CASE credential.phase = "PendingWrite" ->
                        [@ EXCEPT !.pc = "lock", !.op = "recover write",
                                  !.ref = credential.destroyed + 1]
                  [] credential.phase = "RotationPending" ->
                        [@ EXCEPT !.pc = "lock", !.op = "recover rotation",
                                  !.ref = credential.version]
                  [] OTHER -> [@ EXCEPT !.pc = "save"]]
          /\ UNCHANGED faults
       \/ ReadFails(w, "backoff")
    /\ Reads(w)

\* The planned version, or the one after the version being rotated.
Target(w) == IF IsRotation(job[w].op) THEN job[w].ref + 1 ELSE job[w].ref

\* Mutant of ReadTarget: missing material is a failure of the pass.
ReadTargetFailing(w) ==
    /\ job[w].pc = "target"
    /\ IF Status(store, Target(w)) = "Missing"
       THEN Goto(w, "backoff")
       ELSE job' = [job EXCEPT ![w].version = Target(w),
                               ![w].status = Status(store, Target(w)),
                               ![w].pc = IF IsRotation(job[w].op) THEN "activate" ELSE "walk"]
    /\ UNCHANGED faults
    /\ Reads(w)

\* Material that never landed makes the pending write or rotation a failed one.
ReadTarget(w) ==
    /\ job[w].pc = "target"
    /\ \/ /\ Status(store, Target(w)) = "Missing"
          /\ Goto(w, "record") /\ UNCHANGED faults
       \/ /\ Status(store, Target(w)) # "Missing"
          /\ job' = [job EXCEPT ![w].version = Target(w),
                                ![w].status = Status(store, Target(w)),
                                ![w].pc = IF IsRotation(job[w].op) THEN "activate" ELSE "walk"]
          /\ UNCHANGED faults
       \/ ReadFails(w, "backoff")
    /\ Reads(w)

\* recover_write_activation looks for later versions until one is missing.
Walk(w) ==
    /\ job[w].pc = "walk"
    /\ LET next == job[w].version + 1
       IN  \/ /\ Status(store, next) = "Missing"
              /\ Goto(w, "activate") /\ UNCHANGED faults
           \/ /\ Status(store, next) # "Missing"
              /\ job' = [job EXCEPT ![w].version = next, ![w].status = Status(store, next)]
              /\ UNCHANGED faults
           \/ ReadFails(w, "backoff")
    /\ Reads(w)

\* A pass without failures moves the checkpoint to what it scanned; one with
\* failures writes back the one it loaded. Saving overwrites whatever is there.
Save(w) ==
    /\ job[w].pc = "save"
    /\ \/ checkpoint' = job[w].position /\ UNCHANGED faults
       \/ Fault /\ UNCHANGED checkpoint
    /\ Goto(w, "idle")
    /\ UNCHANGED <<home, credential, position, store, late, requests>>

\* Mutant of BackOff: a failed pass moves the checkpoint as well.
BackOffPastFailure(w) ==
    /\ job[w].pc = "backoff"
    /\ checkpoint' = job[w].position
    /\ Goto(w, "idle")
    /\ UNCHANGED <<home, credential, position, store, late, requests, faults>>

BackOff(w) ==
    /\ job[w].pc = "backoff"
    /\ \/ checkpoint' = job[w].loaded /\ UNCHANGED faults
       \/ Fault /\ UNCHANGED checkpoint
    /\ Goto(w, "idle")
    /\ UNCHANGED <<home, credential, position, store, late, requests>>

-----------------------------------------------------------------------------

RequestStep(j) ==
    \/ Request(j) \/ Reload(j) \/ Probe(j) \/ CheckWritable(j) \/ Post(j)
    \/ ReadMetadata(j) \/ Activate(j) \/ RecordFailure(j)
    \/ LoadForRevoke(j) \/ ReadBound(j) \/ Apply(j) \/ Close(j) \/ Recheck(j)

WorkerStep(w) ==
    \/ Scan(w) \/ Plan(w) \/ ReadTarget(w) \/ Walk(w)
    \/ Activate(w) \/ RecordFailure(w) \/ Save(w) \/ BackOff(w)

Next ==
    \/ \E j \in Requests : Begin(j) \/ RequestStep(j)
    \/ \E w \in Workers : WorkerStep(w)
    \/ \E j \in Jobs : Acquire(j) \/ Drop(j)
    \/ LandWrite
    \/ \E upto \in late.deletes : LandDelete(upto)
    \/ \E upto \in late.destroys : LandDestroy(upto)

Spec == Init /\ [][Next]_vars

\* A future that runs is polled until it returns; the worker's interval keeps
\* ticking; a tokio mutex queues its waiters. Requests, faults and whether a
\* late request is executed are up to others.
Fairness ==
    /\ \A j \in Requests : WF_vars(RequestStep(j))
    /\ \A w \in Workers : WF_vars(WorkerStep(w))
    /\ \A j \in Jobs : SF_vars(Acquire(j))

FairSpec == Spec /\ Fairness

-----------------------------------------------------------------------------
(* Properties. *)

Job == [op : Operations \cup {"none", "plan", "recover write", "recover rotation"},
        pc : {"idle", "lock", "request", "reload", "probe", "writable", "post",
                         "metadata", "activate", "record", "load", "bound", "apply",
                         "close", "recheck", "plan", "target", "walk", "save", "backoff"},
        ref : Nat, version : Nat,
        status : {"Missing", "Active", "Previous", "Revoked", "Destroyed"},
        upto : Nat, position : Nat, loaded : Nat]

TypeOK ==
    /\ home \in [Jobs -> Processes]
    /\ credential \in Credential
    /\ position \in Nat
    /\ store \in Versions
    /\ late \in [writes : Nat, deletes : SUBSET Nat, destroys : SUBSET Nat]
    /\ job \in [Jobs -> Job]
    /\ checkpoint \in Nat
    /\ requests \in 0..Budget
    /\ faults \in 0..MaxFaults

\* A credential whose stream says revoked, or any state after that, has no
\* readable version up to the one revoked, and one whose stream says destroyed
\* has no version up to it that could be restored: whatever was retried, dropped,
\* left behind in OpenBao or done by another process in between.
RevokedUnreadable ==
    /\ credential.phase \in {"Revoked", "DestroyRequested", "CleanupFailed", "Destroyed"} =>
          \A n \in 1..credential.version : n \in DOMAIN store /\ store[n] # "live"
    /\ \A n \in 1..credential.destroyed : n \in DOMAIN store /\ store[n] = "destroyed"

\* The recovery checkpoint never passes the event that left the credential
\* pending, so a pass can always find it again: however passes, requests and
\* other workers interleave, and whichever of them fail.
CheckpointCoversPending == IsPending(credential) => checkpoint < position

OneProcess == \A j, k \in Jobs : home[j] = home[k]

\* Within one process, a credential in use names a version that was written,
\* was not destroyed, and is newer than every version destroyed before: version
\* numbers are not reused.
VersionsNotReused ==
    OneProcess /\ IsUsable(credential) =>
        /\ credential.version \in DOMAIN store
        /\ store[credential.version] # "destroyed"
        /\ credential.version > credential.destroyed

\* The material the worker would activate exists and cannot be activated.
Unusable ==
    \/ /\ credential.phase = "PendingWrite"
       /\ credential.destroyed + 1 \in DOMAIN store
       /\ store[Len(store)] # "live"
    \/ /\ credential.phase = "RotationPending"
       /\ Status(store, credential.version + 1) \notin {"Missing", "Active"}

\* The worker settles every write or rotation that was left pending, unless
\* what it finds in OpenBao can no longer be activated.
PendingSettles == IsPending(credential) ~> ~IsPending(credential) \/ Unusable

=============================================================================
