------------------------- MODULE CredentialProjection -------------------------
(***************************************************************************)
(* The runtime credentials of one integration in one gateway process       *)
(* (credential_runtime_projection.rs): a table of the credentials that can *)
(* be resolved, kept up to date by the refresh worker, which replays what  *)
(* changed on the credential stream, and at once by the handlers of this   *)
(* process; and a cache of secret material in front of OpenBao.            *)
(*                                                                         *)
(* A credential is named by its owner and kind: its id is derived from     *)
(* them, its source and its integration. Undecodable events, release       *)
(* policies and the unused full rebuilds are not modelled.                 *)
(***************************************************************************)
EXTENDS CredentialAggregate, Sequences, FiniteSets

CONSTANTS
    Ids,         \* credentials of the integration, as <<owner, kind>>
    Worker,      \* the refresh worker
    Handlers,    \* management requests of this process
    Resolvers,   \* webhook requests that resolve a credential
    MaxEvents,   \* bound: events on the stream
    MaxUsed,     \* bound: credentials that have events
    MaxFaults    \* bound: failed reads and restarts

Appliers == Handlers \cup {Worker}

ASSUME ProjectionAssumption ==
    /\ Worker \notin Handlers
    /\ MaxEvents \in Nat /\ MaxUsed \in Nat /\ MaxFaults \in Nat

VARIABLES
    log,         \* the credential stream: the credential and its state after the event
    credential,  \* the current state of each credential
    written,     \* the newest version of each credential on the stream
    table,       \* RuntimeProjectionTable.integrations: the credentials published
    applied,     \* RuntimeProjectionTable.applied_positions, 0 for none
    cache,       \* RuntimeCredentialCache.entries
    cursor,      \* RuntimeProjectionCursor
    pass,        \* the refresh worker's pass over the stream
    job,         \* per applier, the state it is applying
    resolver,    \* per resolver, where it is in resolve_for
    faults

streamVars == <<log, credential, written>>
registryVars == <<table, applied, cache, cursor>>
vars == <<streamVars, registryVars, pass, job, resolver, faults>>

Owner(id) == id[1]
Kind(id) == id[2]

\* A CredentialRef.
Ref(id, version) == [id |-> id, version |-> version]

NoPass == [pc |-> "idle", changed |-> {}, upto |-> 0, failed |-> FALSE]
NoJob == [pc |-> "idle", position |-> 0, affected |-> {}]
NoResolve == [pc |-> "idle", ref |-> Ref(<<>>, NoVersion), revoked |-> FALSE]

\* A process starts with nothing published and nothing scanned.
NothingApplied == [id \in Ids |-> 0]
NoJobs == [a \in Appliers |-> NoJob]
NoResolves == [r \in Resolvers |-> NoResolve]

Init ==
    /\ log = <<>> /\ faults = 0
    /\ credential = [id \in Ids |-> InitialCredential]
    /\ written = [id \in Ids |-> 0]
    /\ table = {} /\ cache = {} /\ cursor = 0
    /\ applied = NothingApplied /\ pass = NoPass /\ job = NoJobs /\ resolver = NoResolves

Positions(id) == {p \in DOMAIN log : log[p].id = id}

\* The position of the credential's current state, none before its first event.
Current(id) == {p \in Positions(id) : \A q \in Positions(id) : q <= p}

Applying(position) == [NoJob EXCEPT !.pc = "apply", !.position = position]

Fault == faults < MaxFaults /\ faults' = faults + 1

Retired == {"Revoked", "DestroyRequested", "Destroyed", "CleanupFailed"}

\* The versions of the credential up to a revoked one: OpenBao refuses them
\* (RevokedUnreadable of CredentialLifecycle).
RevokedBy(p, ref) ==
    /\ log[p].id = ref.id
    /\ log[p].state.phase \in Retired
    /\ ref.version <= log[p].state.version

-----------------------------------------------------------------------------
(* The credential stream. *)

\* A saga activates the version its own metadata names. The metadata may have been
\* read before another process went through a whole life of the credential.
Activations(c, versions) ==
    UNION {ActivateWrite(c, v, "Active") \cup ActivateRotation(c, v, "Active") : v \in versions}

\* What the next event of a credential may lead to.
NextStates(c, versions) ==
    UNION {RequestWrite(c), Activations(c, versions), RecordWriteFailure(c),
           RequestRotation(c, c.version), RecordRotationFailure(c, c.version),
           Revoke(c, c.version), RequestDestroy(c, c.version), CompleteDestroy(c, c.version),
           RecordDestroyFailure(c, c.version)}

Used == {log[p].id : p \in DOMAIN log}

Stores(id) ==
    /\ Len(log) < MaxEvents /\ Cardinality(Used \cup {id}) <= MaxUsed
    /\ \E c \in NextStates(credential[id], 1..(written[id] + 1)) :
          /\ log' = Append(log, [id |-> id, state |-> c])
          /\ credential' = [credential EXCEPT ![id] = c]
          /\ written' = IF c.version > written[id]
                        THEN [written EXCEPT ![id] = c.version] ELSE written

\* An event whose outcome this registry is not told: one of another process, of
\* the recovery worker, of a saga that goes on, or of a dropped request.
StoreElsewhere(id) ==
    /\ Stores(id)
    /\ UNCHANGED <<registryVars, pass, job, resolver, faults>>

\* The last event of a handler's saga, whose outcome it then applies.
StoreHere(h, id) ==
    /\ job[h].pc = "idle"
    /\ Stores(id)
    /\ job' = [job EXCEPT ![h] = Applying(Len(log) + 1)]
    /\ UNCHANGED <<registryVars, pass, resolver, faults>>

\* A handler that finds its revocation or destruction already on the stream stores
\* nothing, and applies the state it found.
AnswerHere(h, id) ==
    /\ job[h].pc = "idle"
    /\ \E p \in Current(id) :
          /\ log[p].state.phase \in {"Revoked", "Destroyed"}
          /\ job' = [job EXCEPT ![h] = Applying(p)]
    /\ UNCHANGED <<streamVars, registryVars, pass, resolver, faults>>

-----------------------------------------------------------------------------
(* Applying a state to the registry. *)

\* Mutant of IsStale: the state of a handler is taken as the newest.
NeverStale(id, position) == FALSE

IsStale(id, position) == applied[id] >= position

Entries(id) == {ref \in table : ref.id = id}

\* Mutant of Slot: a published version is kept beside a newer one.
SlotKept(id) == {}

\* What the table holds at this integration and kind, whoever owns it.
Slot(id) == {ref \in table : Kind(ref.id) = Kind(id)}

\* merge_projection refuses a second owner of the integration.
OwnerMismatch(id) == \E ref \in table : Owner(ref.id) # Owner(id)

Finish(a) == job' = [job EXCEPT ![a] = NoJob]

\* These credentials remain to be invalidated.
Invalidating(affected) ==
    IF affected = {} THEN NoJob
    ELSE [NoJob EXCEPT !.pc = "invalidate", !.affected = affected]

\* The table lets these go, and takes those in. Every affected credential is
\* then invalidated.
Replace(a, gone, new, affected) ==
    /\ table' = (table \ gone) \cup new
    /\ job' = [job EXCEPT ![a] = Invalidating(affected)]

\* RuntimeProjectionChange::from_state and apply_change, under the table's lock.
Change(a, id, c) ==
    LET ref == Ref(id, c.version)
    IN  \/ IsUsable(c) /\ Replace(a, Slot(id), {ref}, Slot(id) \cup {ref})
        \/ c.phase \in Retired /\ Replace(a, Slot(id), {}, Slot(id) \cup {ref})
        \/ c.phase \in {"PendingWrite", "WriteFailed"}
             /\ Replace(a, Entries(id), {}, Entries(id))

Apply(a) ==
    /\ job[a].pc = "apply"
    /\ LET position == job[a].position
           id       == log[position].id
           c        == log[position].state
           refused  == IsUsable(c) /\ OwnerMismatch(id)
       IN  \/ /\ IsStale(id, position)
              /\ Finish(a)
              /\ UNCHANGED <<table, applied>>
           \/ /\ ~IsStale(id, position) /\ refused
              /\ IF a = Worker THEN job' = [job EXCEPT ![a].pc = "evict"] ELSE Finish(a)
              /\ UNCHANGED <<table, applied>>
           \/ /\ ~IsStale(id, position) /\ ~refused
              /\ Change(a, id, c)
              /\ applied' = [applied EXCEPT ![id] = position]
    /\ UNCHANGED <<streamVars, cache, cursor, pass, resolver, faults>>

\* The worker takes the table's lock again to evict a credential it could not
\* project, whatever was applied to it in between.
Evict ==
    /\ job[Worker].pc = "evict"
    /\ LET id == log[job[Worker].position].id
       IN  Replace(Worker, Entries(id), {}, Entries(id))
    /\ UNCHANGED <<streamVars, cache, applied, cursor, pass, resolver, faults>>

\* invalidate_all, one credential at a time.
Invalidate(a) ==
    /\ job[a].pc = "invalidate"
    /\ \E ref \in job[a].affected :
          /\ cache' = cache \ {ref}
          /\ job' = [job EXCEPT ![a] = Invalidating(job[a].affected \ {ref})]
    /\ UNCHANGED <<streamVars, table, applied, cursor, pass, resolver, faults>>

\* The client disconnects before its outcome is applied.
DropRequest(h) ==
    /\ job[h].pc # "idle"
    /\ Finish(h)
    /\ UNCHANGED <<streamVars, registryVars, pass, resolver, faults>>

-----------------------------------------------------------------------------
(* The refresh worker. *)

\* The events after the cursor, and the credentials they are about.
Scan ==
    /\ pass.pc = "idle"
    /\ cursor < Len(log)
    /\ pass' = [pc |-> "pass", upto |-> Len(log), failed |-> FALSE,
                changed |-> {log[p].id : p \in (cursor + 1)..Len(log)}]
    /\ UNCHANGED <<streamVars, registryVars, job, resolver, faults>>

\* load_credential_state of the next changed credential. A failed read fails the
\* pass once it has been through the others.
Load(id) ==
    /\ pass.pc = "pass" /\ id \in pass.changed
    /\ job[Worker].pc = "idle"
    /\ \/ /\ \E p \in Current(id) : job' = [job EXCEPT ![Worker] = Applying(p)]
          /\ pass' = [pass EXCEPT !.changed = @ \ {id}]
          /\ UNCHANGED faults
       \/ /\ Fault
          /\ pass' = [pass EXCEPT !.changed = @ \ {id}, !.failed = TRUE]
          /\ UNCHANGED job
    /\ UNCHANGED <<streamVars, registryVars, resolver>>

\* Mutant of AdvancedTo: a pass with a failed read advances the cursor.
AdvancedPastFailure == IF pass.upto > cursor THEN pass.upto ELSE cursor

\* RuntimeProjectionCursor::advance, of a pass without failures.
AdvancedTo == IF pass.failed \/ pass.upto < cursor THEN cursor ELSE pass.upto

EndPass ==
    /\ pass.pc = "pass" /\ pass.changed = {}
    /\ job[Worker].pc = "idle"
    /\ cursor' = AdvancedTo
    /\ pass' = NoPass
    /\ UNCHANGED <<streamVars, table, applied, cache, job, resolver, faults>>

-----------------------------------------------------------------------------
(* Resolving. *)

\* Its revocation, or a later state, was applied here.
RevocationApplied(ref) ==
    \E p \in 1..applied[ref.id] : RevokedBy(p, ref)

Goto(r, pc) ==
    resolver' = [resolver EXCEPT ![r] = IF pc = "idle" THEN NoResolve ELSE [@ EXCEPT !.pc = pc]]

Resolving(r) == UNCHANGED <<streamVars, table, applied, cursor, pass, job, faults>>

\* Mutant of Candidates: cached credentials are served without asking the table.
CandidatesCached == table \cup cache

\* Only what the table publishes can be resolved.
Candidates == table

Resolve(r) ==
    /\ resolver[r].pc = "idle"
    /\ \E ref \in Candidates :
          resolver' = [resolver EXCEPT ![r] = [pc |-> "cache", ref |-> ref,
                                              revoked |-> RevocationApplied(ref)]]
    /\ UNCHANGED cache
    /\ Resolving(r)

\* A hit is the answer.
CacheGet(r) ==
    /\ resolver[r].pc = "cache"
    /\ Goto(r, IF resolver[r].ref \in cache THEN "idle" ELSE "store")
    /\ UNCHANGED cache
    /\ Resolving(r)

\* OpenBao answers unless the version was revoked.
StoreGet(r) ==
    /\ resolver[r].pc = "store"
    /\ Goto(r, IF \E p \in DOMAIN log : RevokedBy(p, resolver[r].ref) THEN "idle" ELSE "put")
    /\ UNCHANGED cache
    /\ Resolving(r)

\* Whatever happened to the credential since, its material is cached.
CachePut(r) ==
    /\ resolver[r].pc = "put"
    /\ cache' = cache \cup {resolver[r].ref}
    /\ Goto(r, "idle")
    /\ Resolving(r)

\* The time to live of an entry ends.
Expire(ref) ==
    /\ cache' = cache \ {ref}
    /\ UNCHANGED <<streamVars, table, applied, cursor, pass, job, resolver, faults>>

-----------------------------------------------------------------------------

\* The process stops and starts again: its registry is in memory only.
Restart ==
    /\ Fault
    /\ table' = {} /\ cache' = {} /\ cursor' = 0
    /\ applied' = NothingApplied /\ pass' = NoPass /\ job' = NoJobs /\ resolver' = NoResolves
    /\ UNCHANGED streamVars

WorkerStep ==
    \/ Scan
    \/ \E id \in Ids : Load(id)
    \/ Apply(Worker) \/ Evict \/ Invalidate(Worker)
    \/ EndPass

Next ==
    \/ \E id \in Ids : StoreElsewhere(id)
    \/ \E h \in Handlers, id \in Ids : StoreHere(h, id) \/ AnswerHere(h, id)
    \/ \E h \in Handlers : Apply(h) \/ Invalidate(h) \/ DropRequest(h)
    \/ WorkerStep
    \/ \E r \in Resolvers : Resolve(r) \/ CacheGet(r) \/ StoreGet(r) \/ CachePut(r)
    \/ \E ref \in cache : Expire(ref)
    \/ Restart

Spec == Init /\ [][Next]_vars

\* The worker's interval keeps ticking; everything else is up to others.
FairSpec == Spec /\ WF_vars(WorkerStep)

-----------------------------------------------------------------------------
(* Properties. *)

Refs == [id : Ids, version : Nat]

TypeOK ==
    /\ log \in Seq([id : Ids, state : Credential])
    /\ credential \in [Ids -> Credential] /\ written \in [Ids -> Nat]
    /\ table \subseteq Refs /\ cache \subseteq Refs
    /\ applied \in [Ids -> Nat] /\ cursor \in Nat
    /\ pass \in [pc : {"idle", "pass"}, changed : SUBSET Ids, upto : Nat, failed : BOOLEAN]
    /\ job \in [Appliers -> [pc : {"idle", "apply", "evict", "invalidate"},
                             position : Nat, affected : SUBSET Refs]]
    /\ resolver \in [Resolvers -> [pc : {"idle", "cache", "store", "put"},
                                   ref : Refs \cup {NoResolve.ref}, revoked : BOOLEAN]]
    /\ faults \in Nat

\* A published credential is the one that the state last applied to it named,
\* however the slots of the integration were merged, replaced and given up.
PublishedIsApplied ==
    \A ref \in table :
        /\ applied[ref.id] \in Positions(ref.id)
        /\ IsUsable(log[applied[ref.id]].state)
        /\ log[applied[ref.id]].state.version = ref.version

\* No version comes back into use after a later state revoked it. One process
\* sees to that (VersionsNotReused of CredentialLifecycle); with two, a write that
\* stalls before its activation can bring back what the other one destroyed.
VersionsFresh ==
    \A p, q \in DOMAIN log :
        p < q /\ log[p].id = log[q].id
          /\ log[p].state.phase \in Retired /\ IsUsable(log[q].state)
        => log[q].state.version > log[p].state.version

\* A resolve that begins after the registry applied a revocation does not serve
\* the revoked version, although a resolve that began before may still put it
\* back in the cache, and states are applied out of order: as long as the stream
\* itself never brings a revoked version back.
RevokedNotServed == VersionsFresh => \A r \in Resolvers : ~resolver[r].revoked

\* Within the life of a process the state applied to a credential never gets
\* older: what a handler applies late does not undo what the worker applied.
AppliedForward ==
    [][applied' = NothingApplied \/ \A id \in Ids : applied'[id] >= applied[id]]_applied

\* At most one owner has credentials of the integration.
OneOwner == \A p, q \in DOMAIN log : Owner(log[p].id) = Owner(log[q].id)

\* The cursor never passes an event that the table has not taken in: a failed
\* read is always retried. (With two owners, merge_projection refuses one.)
CursorCoversApplied ==
    OneOwner => \A p \in 1..cursor : p <= applied[log[p].id]

\* What the stream says of the credential is what the table holds.
InStep(id) ==
    Entries(id) = {ref \in {Ref(id, credential[id].version)} : IsUsable(credential[id])}

\* Once the stream is quiet, the registry of every process comes to publish
\* exactly the credentials that are in use, for one owner.
RegistryConverges == <>[](OneOwner => \A id \in Ids : InStep(id))

=============================================================================
