---------------------- MODULE CredentialLifecycleProofs ----------------------
(***************************************************************************)
(* What is revoked stays unreadable, the checkpoint covers what is         *)
(* pending, and versions are not reused: for any number of requests,       *)
(* workers, processes and faults.                                          *)
(***************************************************************************)
EXTENDS CredentialLifecycle, SequenceTheorems, TLAPS

-----------------------------------------------------------------------------
(* The inductive invariant. *)

Recoveries == {"recover write", "recover rotation"}

\* Which handlers are at which of their calls.
OpFits(j) ==
    LET x == job[j]
    IN  /\ x.pc = "lock" => x.op \in Operations \cup Recoveries
        /\ x.pc \in {"request", "reload"} => x.op \in {"put", "rotate", "destroy"}
        /\ x.pc \in {"bound", "apply", "close"} => x.op \in {"revoke", "destroy"}
        /\ x.pc \in {"load", "recheck"} => x.op = "revoke"

Types == TypeOK /\ \A j \in Jobs : OpFits(j)

\* A pass knows an older position than the stream's, and only saves it while
\* nothing before it is pending.
PassInv(w) ==
    /\ Running(w) => job[w].loaded < position /\ job[w].position <= position
    /\ job[w].pc = "save" /\ IsPending(credential) => job[w].position < position

ScanInv ==
    /\ checkpoint <= position
    /\ CheckpointCoversPending
    /\ \A w \in Workers : PassInv(w)

\* No version up to n can be read; none can be restored.
Unreadable(n) == \A m \in 1..n : m \in DOMAIN store /\ store[m] # "live"
Purged(n) == \A m \in 1..n : m \in DOMAIN store /\ store[m] = "destroyed"

\* What a revocation or destruction knows of OpenBao until it is recorded.
ClosingInv(j) ==
    LET x == job[j]
    IN  /\ x.pc = "apply" => x.ref <= x.upto /\ x.upto <= Len(store)
        /\ x.pc \in {"close", "recheck"} /\ x.op = "revoke" => Unreadable(x.ref)
        /\ x.pc = "close" /\ x.op = "destroy" => Purged(x.ref)

RevocationInv == RevokedUnreadable /\ \A j \in Jobs : ClosingInv(j)

\* The jobs of a process take turns.
Exclusive ==
    \A j, k \in Jobs : j # k /\ home[j] = home[k] => ~Holds(j) \/ ~Holds(k)

Destroying == {"DestroyRequested", "CleanupFailed"}

\* A destruction that OpenBao may still execute finds nothing left to destroy,
\* unless the credential is still being destroyed.
LateInv ==
    /\ \A u \in late.destroys : u \in Nat /\ u <= Len(store)
    /\ credential.phase \notin Destroying => \A u \in late.destroys : Purged(u)

\* What the job that holds the lock knows of the credential and of OpenBao.
HolderInv(j) ==
    LET x == job[j]
    IN  /\ x.op = "destroy" /\ x.pc \in {"bound", "apply", "close"} =>
              At(credential, {"DestroyRequested"}, x.ref)
        /\ x.op = "destroy" /\ x.pc = "apply" => \A u \in late.destroys : u <= x.upto
        /\ x.op = "destroy" /\ x.pc = "close" => \A u \in late.destroys : Purged(u)
        /\ x.pc \in {"walk", "activate"} /\ x.status = "Active" /\ IsPending(credential) =>
              x.version \in DOMAIN store /\ store[x.version] # "destroyed"

UsableInv ==
    IsUsable(credential) =>
        credential.version \in DOMAIN store /\ store[credential.version] # "destroyed"

LockInv == OneProcess => LateInv /\ (\A j \in Jobs : HolderInv(j)) /\ UsableInv

Inv == Types /\ ScanInv /\ RevocationInv /\ Exclusive /\ LockInv
-----------------------------------------------------------------------------
(* Commands. *)

\* RequestWrite (commands/request_credential_write.rs) begins a life.
LEMMA RequestWriteFacts ==
    ASSUME NEW c \in Credential, NEW d \in RequestWrite(c)
    PROVE  /\ d \in Credential /\ d.phase = "PendingWrite" /\ d.version = 0
           /\ d.destroyed = c.destroyed /\ c.phase \in {"Missing", "WriteFailed", "Destroyed"}
BY DEF RequestWrite, Becomes, Credential, Phases, NoVersion

\* ActivateWrite follows a pending write, at the version read.
LEMMA ActivateWriteFacts ==
    ASSUME NEW c \in Credential, NEW v \in Nat, NEW s, NEW d \in ActivateWrite(c, v, s)
    PROVE  /\ d \in Credential /\ d.phase = "Active" /\ d.version = v
           /\ d.destroyed = c.destroyed /\ c.phase = "PendingWrite" /\ s = "Active"
BY DEF ActivateWrite, Becomes, Credential, Phases

\* RecordWriteFailure leaves nothing pending.
LEMMA RecordWriteFailureFacts ==
    ASSUME NEW c \in Credential, NEW d \in RecordWriteFailure(c)
    PROVE  /\ d \in Credential /\ d.phase = "WriteFailed" /\ d.version = 0
           /\ d.destroyed = c.destroyed /\ c.phase = "PendingWrite"
BY DEF RecordWriteFailure, Becomes, Credential, Phases, NoVersion

\* RequestRotation keeps the active version.
LEMMA RequestRotationFacts ==
    ASSUME NEW c \in Credential, NEW v \in Nat, NEW d \in RequestRotation(c, v)
    PROVE  /\ d \in Credential /\ d.phase = "RotationPending" /\ d.version = c.version
           /\ d.destroyed = c.destroyed /\ c.phase = "Active"
BY DEF RequestRotation, Becomes, Credential, Phases, At

\* ActivateRotation follows a pending rotation, at the version read.
LEMMA ActivateRotationFacts ==
    ASSUME NEW c \in Credential, NEW v \in Nat, NEW s, NEW d \in ActivateRotation(c, v, s)
    PROVE  /\ d \in Credential /\ d.phase = "Active" /\ d.version = v
           /\ d.destroyed = c.destroyed /\ c.phase = "RotationPending" /\ s = "Active"
BY DEF ActivateRotation, Becomes, Credential, Phases

\* RecordRotationFailure goes back to the active version.
LEMMA RecordRotationFailureFacts ==
    ASSUME NEW c \in Credential, NEW v \in Nat, NEW d \in RecordRotationFailure(c, v)
    PROVE  /\ d \in Credential /\ d.phase = "Active" /\ d.version = c.version
           /\ d.destroyed = c.destroyed /\ c.phase = "RotationPending"
BY DEF RecordRotationFailure, Becomes, Credential, Phases, At

\* Revoke names the version in use.
LEMMA RevokeFacts ==
    ASSUME NEW c \in Credential, NEW v \in Nat, NEW d \in Revoke(c, v)
    PROVE  /\ d \in Credential /\ d.phase = "Revoked" /\ d.version = v
           /\ d.destroyed = c.destroyed /\ c.phase \in {"Active", "RotationPending"}
BY DEF Revoke, IsRevocable, Becomes, Credential, Phases, At

\* RequestDestroy and RecordDestroyFailure keep the revoked version.
LEMMA DestroyingFacts ==
    ASSUME NEW c \in Credential, NEW v \in Nat,
           NEW d \in RequestDestroy(c, v) \cup RecordDestroyFailure(c, v)
    PROVE  /\ d \in Credential /\ d.phase \in {"DestroyRequested", "CleanupFailed"}
           /\ d.version = v /\ c.version = v /\ d.destroyed = c.destroyed
           /\ c.phase \in {"Revoked", "CleanupFailed", "DestroyRequested"}
           /\ d \in RequestDestroy(c, v) => d.phase = "DestroyRequested"
BY DEF RequestDestroy, RecordDestroyFailure, Becomes, Credential, Phases, At

\* CompleteDestroy records the version destroyed.
LEMMA CompleteDestroyFacts ==
    ASSUME NEW c \in Credential, NEW v \in Nat, NEW d \in CompleteDestroy(c, v)
    PROVE  /\ d \in Credential /\ d.phase = "Destroyed" /\ d.version = v /\ c.version = v
           /\ d.destroyed = v /\ c.phase = "DestroyRequested"
<1>1. /\ d = [[phase |-> "Destroyed", version |-> v, destroyed |-> c.destroyed]
                  EXCEPT !.destroyed = v]
      /\ c.phase = "DestroyRequested" /\ c.version = v
      BY DEF CompleteDestroy, Becomes, At
<1> QED BY <1>1 DEF Credential, Phases

-----------------------------------------------------------------------------
(* The versions in OpenBao. *)

\* Nothing that was unreadable or destroyed stops being so.
StoreKeeps ==
    /\ Len(store) \in Nat /\ Len(store') \in Nat /\ Len(store) <= Len(store')
    /\ \A m \in DOMAIN store :
          /\ m \in DOMAIN store'
          /\ store[m] # "live" => store'[m] # "live"
          /\ store[m] = "destroyed" => store'[m] = "destroyed"

\* A write makes the next version (openbao_secret_store.rs).
LEMMA WriteFacts ==
    ASSUME store \in Versions, store' = Write(store)
    PROVE  /\ store' \in Versions /\ StoreKeeps /\ Len(store') = Len(store) + 1
           /\ \A m \in DOMAIN store : store'[m] = store[m]
<1> DEFINE V == {"live", "deleted", "destroyed"}
<1>1. store \in Seq(V) /\ store' = Append(store, "live")
      BY DEF Versions, Write
<1>2. store' \in Seq(V) /\ Len(store') = Len(store) + 1 /\ Len(store) \in Nat
      /\ \A m \in 1..Len(store) : store'[m] = store[m]
      BY <1>1
<1> QED BY <1>1, <1>2 DEF StoreKeeps, Versions

\* A deletion makes every version it names unreadable and touches no other.
LEMMA DeleteFacts ==
    ASSUME store \in Versions, NEW upto \in Nat, store' = DeleteUpTo(store, upto)
    PROVE  /\ store' \in Versions /\ StoreKeeps /\ Len(store') = Len(store)
           /\ \A m \in DOMAIN store : store'[m] = "destroyed" => store[m] = "destroyed"
           /\ \A m \in DOMAIN store : m <= upto => store'[m] # "live"
<1> DEFINE V == {"live", "deleted", "destroyed"}
<1>1. /\ Len(store) \in Nat /\ DOMAIN store = 1..Len(store)
      /\ \A m \in 1..Len(store) : store[m] \in V
      BY DEF Versions
<1>2. /\ DOMAIN store' = 1..Len(store)
      /\ \A m \in 1..Len(store) :
            store'[m] = IF m <= upto /\ store[m] = "live" THEN "deleted" ELSE store[m]
      BY <1>1 DEF DeleteUpTo
<1>3. store' \in [1..Len(store) -> V]
      BY <1>1, <1>2 DEF DeleteUpTo
<1>4. store' \in Seq(V)  BY <1>1, <1>3, SeqDef
<1>5. Len(store') = Len(store)
      BY <1>1, <1>2, <1>4, LenProperties
<1> QED BY <1>1, <1>2, <1>4, <1>5 DEF StoreKeeps, Versions

\* A destruction destroys every version it names and touches no other.
LEMMA DestroyFacts ==
    ASSUME store \in Versions, NEW upto \in Nat, store' = DestroyUpTo(store, upto)
    PROVE  /\ store' \in Versions /\ StoreKeeps /\ Len(store') = Len(store)
           /\ \A m \in DOMAIN store : m > upto => store'[m] = store[m]
           /\ \A m \in DOMAIN store : m <= upto => store'[m] = "destroyed"
<1> DEFINE V == {"live", "deleted", "destroyed"}
<1>1. /\ Len(store) \in Nat /\ DOMAIN store = 1..Len(store)
      /\ \A m \in 1..Len(store) : store[m] \in V
      BY DEF Versions
<1>2. /\ DOMAIN store' = 1..Len(store)
      /\ \A m \in 1..Len(store) :
            store'[m] = IF m <= upto THEN "destroyed" ELSE store[m]
      BY <1>1 DEF DestroyUpTo
<1>3. store' \in [1..Len(store) -> V]
      BY <1>1, <1>2 DEF DestroyUpTo
<1>4. store' \in Seq(V)  BY <1>1, <1>3, SeqDef
<1>5. Len(store') = Len(store)
      BY <1>1, <1>2, <1>4, LenProperties
<1> QED BY <1>1, <1>2, <1>4, <1>5 DEF StoreKeeps, Versions

\* The status of a version is one of those OpenBaoMetadata::status knows.
LEMMA StatusFacts ==
    ASSUME store \in Versions, NEW n \in Nat
    PROVE  /\ Status(store, n) \in {"Missing", "Active", "Previous", "Revoked", "Destroyed"}
           /\ Status(store, n) # "Missing" => n \in DOMAIN store /\ n <= Len(store)
           /\ Status(store, n) = "Active" => n \in DOMAIN store /\ store[n] # "destroyed"
<1>1. /\ Len(store) \in Nat /\ DOMAIN store = 1..Len(store)
      /\ \A m \in 1..Len(store) : store[m] \in {"live", "deleted", "destroyed"}
      BY DEF Versions
<1>2. n \in DOMAIN store =>
          n <= Len(store) /\ store[n] \in {"live", "deleted", "destroyed"}
      BY <1>1
<1>3. n \notin DOMAIN store => Status(store, n) = "Missing"
      BY Zenon DEF Status
<1>4. n \in DOMAIN store /\ store[n] = "destroyed" => Status(store, n) = "Destroyed"
      BY Zenon DEF Status
<1>5. n \in DOMAIN store /\ store[n] = "deleted" => Status(store, n) = "Revoked"
      BY Zenon DEF Status
<1>6. n \in DOMAIN store /\ store[n] = "live" => Status(store, n) \in {"Active", "Previous"}
      BY Zenon DEF Status
<1> QED BY <1>2, <1>3, <1>4, <1>5, <1>6

-----------------------------------------------------------------------------
(* Moves of a job. *)

Calls == {"idle", "lock", "request", "reload", "probe", "writable", "post",
          "metadata", "activate", "record", "load", "bound", "apply",
          "close", "recheck", "plan", "target", "walk", "save", "backoff"}

Statuses == {"Missing", "Active", "Previous", "Revoked", "Destroyed"}

\* Only this job moves.
Alone(j) ==
    /\ job' \in [Jobs -> Job]
    /\ \A k \in Jobs : k # j => job'[k] = job[k]

\* The job is about to make this call, with what it knows.
To(j, pc) ==
    /\ job'[j].pc = pc
    /\ pc # "idle" => /\ job'[j].op = job[j].op /\ job'[j].ref = job[j].ref
                      /\ job'[j].version = job[j].version
                      /\ job'[j].status = job[j].status /\ job'[j].upto = job[j].upto
                      /\ job'[j].position = job[j].position
                      /\ job'[j].loaded = job[j].loaded

\* A job's fields have their types.
LEMMA JobFields ==
    ASSUME TypeOK, NEW j \in Jobs
    PROVE  /\ job[j] \in Job /\ job[j].pc \in Calls /\ job[j].ref \in Nat
           /\ job[j].op \in Operations \cup {"none", "plan", "recover write", "recover rotation"}
           /\ job[j].version \in Nat /\ job[j].status \in Statuses /\ job[j].upto \in Nat
           /\ job[j].position \in Nat /\ job[j].loaded \in Nat
BY DEF TypeOK, Job, Calls, Statuses

\* One job is given new local variables.
LEMMA MoveFacts ==
    ASSUME TypeOK, NEW j \in Jobs, NEW x \in Job, job' = [job EXCEPT ![j] = x]
    PROVE  Alone(j) /\ job'[j] = x
BY DEF TypeOK, Alone

\* Goto keeps what the job knows, or forgets all of it.
LEMMA GotoFacts ==
    ASSUME TypeOK, NEW j \in Jobs, NEW pc \in Calls, Goto(j, pc)
    PROVE  Alone(j) /\ To(j, pc)
<1>1. Idle \in Job /\ Idle.pc = "idle"
      BY DEF Idle, Job, NoVersion
<1>2. CASE pc = "idle"
      <2>1. job' = [job EXCEPT ![j] = Idle]  BY <1>2 DEF Goto
      <2> QED BY <1>1, <1>2, <2>1, MoveFacts DEF To
<1>3. CASE pc # "idle"
      <2> DEFINE x == [job[j] EXCEPT !.pc = pc]
      <2>1. job[j] \in Job  BY JobFields
      <2>2. /\ x \in Job /\ x.pc = pc /\ x.op = job[j].op /\ x.ref = job[j].ref
            /\ x.version = job[j].version /\ x.status = job[j].status
            /\ x.upto = job[j].upto /\ x.position = job[j].position
            /\ x.loaded = job[j].loaded
            BY <2>1 DEF Job, Calls
      <2>3. job' = [job EXCEPT ![j] = x]  BY <1>3 DEF Goto, TypeOK
      <2> HIDE DEF x
      <2> QED BY <2>2, <2>3, MoveFacts DEF To
<1> QED BY <1>2, <1>3

\* A step that fails, or not, stays within the faults there may be.
LEMMA FaultFacts ==
    ASSUME TypeOK, Fault \/ UNCHANGED faults
    PROVE  faults' \in 0..MaxFaults
BY JobsAssumption DEF TypeOK, Fault

\* A command takes effect once, with its answer or without it, or not at all
\* (CommandExecution::execute).
LEMMA ExecutesFacts ==
    ASSUME TypeOK, NEW j \in Jobs, NEW decision, decision \subseteq Credential,
           NEW ok \in Calls, NEW error \in Calls, Executes(j, decision, ok, error)
    PROVE  /\ TypeOK' /\ Alone(j)
           /\ \/ credential' \in decision /\ position' = position + 1
                 /\ (To(j, ok) \/ To(j, error))
              \/ credential' = credential /\ position' = position /\ To(j, error)
           /\ UNCHANGED <<home, store, late, checkpoint>>
<1>1. UNCHANGED <<home, store, late, checkpoint, requests>>  BY DEF Executes
<1>2. Fault \/ UNCHANGED faults  BY DEF Executes
<1>3. faults' \in 0..MaxFaults  BY <1>2, FaultFacts
<1>4. CASE /\ credential' \in decision /\ position' = position + 1
           /\ Goto(j, ok) \/ Goto(j, error)
      <2>1. Alone(j) /\ (To(j, ok) \/ To(j, error))  BY <1>4, GotoFacts
      <2>2. credential' \in Credential /\ position' \in Nat  BY <1>4 DEF TypeOK
      <2>3. TypeOK'  BY <1>1, <1>3, <2>1, <2>2 DEF TypeOK, Alone
      <2> QED BY <1>1, <1>4, <2>1, <2>3
<1>5. CASE UNCHANGED <<credential, position>> /\ Goto(j, error)
      <2>1. Alone(j) /\ To(j, error)  BY <1>5, GotoFacts
      <2>2. TypeOK'  BY <1>1, <1>3, <1>5, <2>1 DEF TypeOK, Alone
      <2> QED BY <1>1, <1>5, <2>1, <2>2
<1> QED BY <1>4, <1>5 DEF Executes

-----------------------------------------------------------------------------
(* What each step does to its job: the types, and the facts used below. *)

\* A step that reads leaves the rest of the types alone.
LEMMA ReadsTypes ==
    ASSUME TypeOK, NEW j \in Jobs, Reads(j), Alone(j), Fault \/ UNCHANGED faults
    PROVE  TypeOK'
<1>1. faults' \in 0..MaxFaults  BY FaultFacts
<1> QED BY <1>1 DEF TypeOK, Reads, Alone

\* Versions are numbered from one.
LEMMA VersionNumbers ==
    ASSUME TypeOK
    PROVE  /\ Len(store) \in Nat /\ DOMAIN store = 1..Len(store)
           /\ DOMAIN store \subseteq Nat
BY DEF TypeOK, Versions

\* A new request waits for the lock.
LEMMA BeginFacts ==
    ASSUME Types, NEW j \in Requests, Begin(j)
    PROVE  /\ Alone(j) /\ TypeOK' /\ OpFits(j)' /\ job'[j].pc = "lock"
           /\ UNCHANGED <<home, credential, position, store, late, checkpoint>>
<1>1. PICK op \in Operations, ref \in Nat :
          job' = [job EXCEPT ![j] = [Idle EXCEPT !.op = op, !.pc = "lock", !.ref = ref]]
      <2>1. PICK op \in Operations :
            \E ref \in IF op = "put" THEN {NoVersion} ELSE DOMAIN store :
               job' = [job EXCEPT ![j] = [Idle EXCEPT !.op = op, !.pc = "lock", !.ref = ref]]
            BY DEF Begin
      <2> QED BY <2>1, VersionNumbers DEF Types, NoVersion
<1> DEFINE x == [Idle EXCEPT !.op = op, !.pc = "lock", !.ref = ref]
<1>2. x \in Job /\ x.pc = "lock" /\ x.op \in Operations
      BY DEF Idle, Job, NoVersion
<1>3. job' = [job EXCEPT ![j] = x] /\ j \in Jobs  BY <1>1 DEF Jobs
<1> HIDE DEF x
<1>4. Alone(j) /\ job'[j] = x  BY <1>2, <1>3, MoveFacts DEF Types
<1>5. OpFits(j)'  BY <1>2, <1>4 DEF OpFits
<1>6. requests' \in 0..Budget
      BY JobsAssumption DEF Begin, Types, TypeOK
<1>7. TypeOK'  BY <1>4, <1>6 DEF Begin, Types, TypeOK, Alone
<1> QED BY <1>2, <1>4, <1>5, <1>7 DEF Begin

\* The lock is taken by a job whose process holds it in no other.
LEMMA AcquireFacts ==
    ASSUME Types, NEW j \in Jobs, Acquire(j)
    PROVE  /\ Alone(j) /\ TypeOK' /\ OpFits(j)' /\ Free(j)
           /\ \E pc \in {"load", "target", "request"} : To(j, pc)
           /\ UNCHANGED <<home, credential, position, store, late, checkpoint>>
<1> DEFINE pc == FirstCall(job[j].op)
<1>1. job[j].op \in Operations \cup Recoveries
      BY DEF Acquire, Types, OpFits
<1>2. /\ job[j].op = "revoke" => pc = "load"
      /\ job[j].op \in Recoveries => pc = "target"
      /\ job[j].op \in {"put", "rotate", "destroy"} => pc = "request"
      BY Zenon DEF FirstCall, Recoveries
<1>3. pc \in {"load", "target", "request"} /\ (pc = "load" => job[j].op = "revoke")
      /\ (pc = "request" => job[j].op \in {"put", "rotate", "destroy"})
      BY <1>1, <1>2 DEF Operations, Recoveries
<1>4. Goto(j, pc)  BY DEF Acquire
<1> HIDE DEF pc
<1>5. Alone(j) /\ To(j, pc)  BY <1>3, <1>4, GotoFacts DEF Types, Calls
<1>6. OpFits(j)'  BY <1>3, <1>5 DEF OpFits, To
<1>7. TypeOK'  BY <1>5 DEF Acquire, Types, TypeOK, Alone
<1> QED BY <1>3, <1>5, <1>6, <1>7 DEF Acquire

\* Nothing is left of a dropped job but what OpenBao may still execute.
LEMMA LeftBehindFacts ==
    ASSUME Types, NEW j \in Jobs
    PROVE  /\ LeftBehind(j) \in [writes : Nat, deletes : SUBSET Nat, destroys : SUBSET Nat]
           /\ LeftBehind(j).destroys =
                 IF job[j].pc = "apply" /\ job[j].op = "destroy"
                 THEN late.destroys \cup {job[j].upto} ELSE late.destroys
<1>1. /\ late \in [writes : Nat, deletes : SUBSET Nat, destroys : SUBSET Nat]
      /\ job[j].upto \in Nat
      BY JobFields DEF Types, TypeOK
<1>2. CASE job[j].pc = "post"
      <2>1. LeftBehind(j) = [late EXCEPT !.writes = @ + 1]  BY Zenon, <1>2 DEF LeftBehind
      <2> QED BY <1>1, <1>2, <2>1
<1>3. CASE job[j].pc = "apply" /\ job[j].op = "revoke"
      <2>1. LeftBehind(j) = [late EXCEPT !.deletes = @ \cup {job[j].upto}]
            BY Zenon, <1>3 DEF LeftBehind
      <2> QED BY <1>1, <1>3, <2>1
<1>4. CASE job[j].pc = "apply" /\ job[j].op = "destroy"
      <2>1. LeftBehind(j) = [late EXCEPT !.destroys = @ \cup {job[j].upto}]
            BY Zenon, <1>4 DEF LeftBehind
      <2> QED BY <1>1, <1>4, <2>1
<1>5. CASE job[j].pc # "post" /\ ~(job[j].pc = "apply" /\ job[j].op \in {"revoke", "destroy"})
      <2>1. job[j].pc = "apply" => job[j].op # "revoke" /\ job[j].op # "destroy"
            BY <1>5
      <2>2. LeftBehind(j) = late  BY Zenon, <1>5, <2>1 DEF LeftBehind
      <2> QED BY <1>1, <1>5, <2>2
<1> QED BY <1>2, <1>3, <1>4, <1>5

\* A dropped job keeps nothing.
LEMMA DropFacts ==
    ASSUME Types, NEW j \in Jobs, Drop(j)
    PROVE  /\ Alone(j) /\ TypeOK' /\ OpFits(j)' /\ To(j, "idle")
           /\ late' \in {late, LeftBehind(j)}
           /\ UNCHANGED <<home, credential, position, store, checkpoint>>
<1>1. Alone(j) /\ To(j, "idle")  BY GotoFacts DEF Drop, Types, Calls
<1>2. OpFits(j)'  BY <1>1 DEF OpFits, To
<1>3. late' \in [writes : Nat, deletes : SUBSET Nat, destroys : SUBSET Nat]
      BY LeftBehindFacts DEF Drop, Types, TypeOK
<1>4. faults' \in 0..MaxFaults  BY FaultFacts DEF Drop, Types
<1>5. TypeOK'  BY <1>1, <1>3, <1>4 DEF Drop, Types, TypeOK, Alone
<1> QED BY <1>1, <1>2, <1>5 DEF Drop

\* The event that opens a saga.
LEMMA RequestFacts ==
    ASSUME Types, NEW j \in Requests, Request(j)
    PROVE  /\ Alone(j) /\ TypeOK' /\ OpFits(j)'
           /\ \E pc \in {"post", "writable", "bound", "reload"} :
                 /\ To(j, pc)
                 /\ pc = "bound" =>
                       /\ job[j].op = "destroy"
                       /\ credential' \in RequestDestroy(credential, job[j].ref)
           /\ \/ credential' = credential /\ position' = position
              \/ /\ position' = position + 1
                 /\ \/ credential' \in RequestWrite(credential)
                    \/ credential' \in RequestRotation(credential, job[j].ref)
                    \/ credential' \in RequestDestroy(credential, job[j].ref)
           /\ UNCHANGED <<home, store, late, checkpoint>>
<1> DEFINE decision == Opening(j)
           pc == AfterOpening(job[j].op)
<1>1. j \in Jobs /\ job[j].ref \in Nat /\ credential \in Credential
      BY JobFields DEF Jobs, Types, TypeOK
<1>2. job[j].op \in {"put", "rotate", "destroy"}
      BY <1>1 DEF Request, Types, OpFits
<1>3. /\ job[j].op = "put" => decision = RequestWrite(credential) /\ pc = "post"
      /\ job[j].op = "rotate" =>
            decision = RequestRotation(credential, job[j].ref) /\ pc = "writable"
      /\ job[j].op = "destroy" =>
            decision = RequestDestroy(credential, job[j].ref) /\ pc = "bound"
      BY Zenon DEF Opening, AfterOpening
<1>4. Executes(j, decision, pc, "reload")  BY DEF Request
<1> HIDE DEF decision, pc
<1>5. decision \subseteq Credential
      BY <1>1, <1>2, <1>3, RequestWriteFacts, RequestRotationFacts, DestroyingFacts
<1>6. pc \in Calls /\ "reload" \in Calls  BY <1>2, <1>3 DEF Calls
<1>7. /\ TypeOK' /\ Alone(j)
      /\ \/ credential' \in decision /\ position' = position + 1
            /\ (To(j, pc) \/ To(j, "reload"))
         \/ credential' = credential /\ position' = position /\ To(j, "reload")
      /\ UNCHANGED <<home, store, late, checkpoint>>
      BY <1>1, <1>4, <1>5, <1>6, ExecutesFacts DEF Types
<1>8. OpFits(j)'  BY <1>2, <1>3, <1>7 DEF OpFits, To
<1>9. CASE credential' \in decision /\ position' = position + 1 /\ To(j, pc)
      BY <1>2, <1>3, <1>7, <1>8, <1>9
<1>10. CASE credential' \in decision /\ position' = position + 1 /\ To(j, "reload")
      BY <1>2, <1>3, <1>7, <1>8, <1>10
<1>11. CASE credential' = credential /\ position' = position /\ To(j, "reload")
      BY <1>7, <1>8, <1>11
<1> QED BY <1>7, <1>9, <1>10, <1>11

\* A saga that an earlier attempt opened is resumed.
LEMMA ReloadFacts ==
    ASSUME Types, NEW j \in Requests, Reload(j)
    PROVE  /\ Alone(j) /\ TypeOK' /\ OpFits(j)'
           /\ \E pc \in {"post", "probe", "bound", "idle"} :
                 /\ To(j, pc)
                 /\ pc = "bound" => /\ job[j].op = "destroy"
                                    /\ At(credential, {"DestroyRequested"}, job[j].ref)
           /\ UNCHANGED <<home, credential, position, store, late, checkpoint>>
<1> DEFINE pc == CASE job[j].op = "put" /\ credential.phase = "PendingWrite" -> "post"
               [] job[j].op = "rotate" /\ At(credential, {"RotationPending"}, job[j].ref) -> "probe"
               [] job[j].op = "destroy" /\ At(credential, {"DestroyRequested"}, job[j].ref) -> "bound"
               [] OTHER -> "idle"
<1>1. j \in Jobs  BY DEF Jobs
<1>2. pc \in {"post", "probe", "bound", "idle"}  BY Zenon
<1>3. pc = "bound" => job[j].op = "destroy" /\ At(credential, {"DestroyRequested"}, job[j].ref)
      BY Zenon
<1>4. Reads(j) /\ (Fault \/ UNCHANGED faults) /\ (Goto(j, pc) \/ Goto(j, "idle"))
      BY Zenon DEF Reload, ReadFails
<1> HIDE DEF pc
<1>5. PICK c \in {"post", "probe", "bound", "idle"} :
          /\ Goto(j, c)
          /\ c = "bound" => job[j].op = "destroy" /\ At(credential, {"DestroyRequested"}, job[j].ref)
      BY <1>2, <1>3, <1>4
<1>6. Alone(j) /\ To(j, c)  BY <1>1, <1>5, GotoFacts DEF Types, Calls
<1>7. OpFits(j)'  BY <1>5, <1>6 DEF OpFits, To
<1>8. TypeOK'  BY <1>1, <1>4, <1>6, ReadsTypes DEF Types
<1> QED BY <1>4, <1>5, <1>6, <1>7, <1>8 DEF Reads

\* A rotation goes on with a version that is there, or writes one.
LEMMA ProbeFacts ==
    ASSUME Types, NEW j \in Requests, Probe(j)
    PROVE  /\ Alone(j) /\ TypeOK' /\ OpFits(j)'
           /\ job'[j].pc \in {"writable", "metadata", "idle"}
           /\ UNCHANGED <<home, credential, position, store, late, checkpoint>>
<1>1. j \in Jobs /\ job[j] \in Job /\ job[j].ref \in Nat  BY JobFields DEF Jobs, Types
<1>0. PICK v \in Nat : v = job[j].ref + 1  BY <1>1
<1> DEFINE x == [job[j] EXCEPT !.pc = "metadata", !.version = v]
<1>2. x \in Job /\ x.pc = "metadata" /\ x.version = v  BY <1>1 DEF Job
<1>3. Reads(j) /\ (Fault \/ UNCHANGED faults)  BY DEF Probe, ReadFails
<1>4. Goto(j, "writable") \/ Goto(j, "idle") \/ job' = [job EXCEPT ![j] = x]
      BY <1>1, <1>0 DEF Probe, ReadFails, Types, TypeOK
<1> HIDE DEF x
<1>5. CASE Goto(j, "writable") \/ Goto(j, "idle")
      <2>1. Alone(j) /\ (To(j, "writable") \/ To(j, "idle"))
            BY <1>1, <1>5, GotoFacts DEF Types, Calls
      <2>2. TypeOK'  BY <1>1, <1>3, <2>1, ReadsTypes DEF Types
      <2> QED BY <1>3, <2>1, <2>2 DEF Reads, OpFits, To
<1>6. CASE job' = [job EXCEPT ![j] = x]
      <2>1. Alone(j) /\ job'[j] = x  BY <1>1, <1>2, <1>6, MoveFacts DEF Types
      <2>2. TypeOK'  BY <1>1, <1>3, <2>1, ReadsTypes DEF Types
      <2> QED BY <1>2, <1>3, <2>1, <2>2 DEF Reads, OpFits
<1> QED BY <1>4, <1>5, <1>6

\* A rotation writes over the current version, or is recorded as failed.
LEMMA CheckWritableFacts ==
    ASSUME Types, NEW j \in Requests, CheckWritable(j)
    PROVE  /\ Alone(j) /\ TypeOK' /\ OpFits(j)'
           /\ job'[j].pc \in {"post", "record"}
           /\ UNCHANGED <<home, credential, position, store, late, checkpoint>>
<1>1. j \in Jobs  BY DEF Jobs
<1>2. Reads(j) /\ (Fault \/ UNCHANGED faults) /\ (Goto(j, "post") \/ Goto(j, "record"))
      BY DEF CheckWritable, ReadFails
<1>3. Alone(j) /\ (To(j, "post") \/ To(j, "record"))
      BY <1>1, <1>2, GotoFacts DEF Types, Calls
<1>4. TypeOK'  BY <1>1, <1>2, <1>3, ReadsTypes DEF Types
<1> QED BY <1>2, <1>3, <1>4 DEF Reads, OpFits, To

\* A write lands now, later or never.
LEMMA PostFacts ==
    ASSUME Types, NEW j \in Requests, Post(j)
    PROVE  /\ Alone(j) /\ TypeOK' /\ OpFits(j)'
           /\ job'[j].pc \in {"metadata", "record"}
           /\ store' = Write(store) \/ store' = store
           /\ late'.destroys = late.destroys
           /\ UNCHANGED <<home, credential, position, checkpoint>>
<1>1. j \in Jobs /\ job[j] \in Job /\ Len(store) \in Nat
      BY JobFields, VersionNumbers DEF Jobs, Types
<1>0. PICK v \in Nat : v = Len(store) + 1  BY <1>1
<1> DEFINE x == [job[j] EXCEPT !.pc = "metadata", !.version = v]
<1>2. x \in Job /\ x.pc = "metadata" /\ x.version = v  BY <1>1 DEF Job
<1>3. \/ store' = Write(store) /\ job' = [job EXCEPT ![j] = x] /\ UNCHANGED <<late, faults>>
      \/ Goto(j, "record") /\ Fault /\ late' \in {late, LeftBehind(j)} /\ store' = store
      BY <1>1, <1>0 DEF Post, Types, TypeOK
<1>4. UNCHANGED <<home, credential, position, checkpoint>> /\ requests' = requests
      BY DEF Post
<1> HIDE DEF x
<1>5. CASE store' = Write(store) /\ job' = [job EXCEPT ![j] = x] /\ UNCHANGED <<late, faults>>
      <2>1. Alone(j) /\ job'[j] = x  BY <1>1, <1>2, <1>5, MoveFacts DEF Types
      <2>2. store' \in Versions  BY <1>5, WriteFacts DEF Types, TypeOK
      <2>3. TypeOK'  BY <1>4, <1>5, <2>1, <2>2 DEF Types, TypeOK, Alone
      <2>4. OpFits(j)'  BY <1>2, <2>1 DEF OpFits
      <2> QED BY <1>2, <1>4, <1>5, <2>1, <2>3, <2>4
<1>6. CASE Goto(j, "record") /\ Fault /\ late' \in {late, LeftBehind(j)} /\ store' = store
      <2>1. Alone(j) /\ To(j, "record")  BY <1>1, <1>6, GotoFacts DEF Types, Calls
      <2>2. /\ late' \in [writes : Nat, deletes : SUBSET Nat, destroys : SUBSET Nat]
            /\ late'.destroys = late.destroys
            BY <1>1, <1>6, LeftBehindFacts DEF Types, TypeOK, Post
      <2>3. faults' \in 0..MaxFaults  BY <1>6, FaultFacts DEF Types
      <2>4. TypeOK'  BY <1>4, <1>6, <2>1, <2>2, <2>3 DEF Types, TypeOK, Alone
      <2>5. OpFits(j)'  BY <2>1 DEF OpFits, To
      <2> QED BY <1>4, <1>6, <2>1, <2>2, <2>4, <2>5 DEF To
<1> QED BY <1>3, <1>5, <1>6

\* What is written is read back.
LEMMA ReadMetadataFacts ==
    ASSUME Types, NEW j \in Requests, ReadMetadata(j)
    PROVE  /\ Alone(j) /\ TypeOK' /\ OpFits(j)'
           /\ job'[j].pc \in {"activate", "idle"}
           /\ job'[j].pc = "activate" /\ job'[j].status = "Active" =>
                 job'[j].version \in DOMAIN store /\ store[job'[j].version] # "destroyed"
           /\ UNCHANGED <<home, credential, position, store, late, checkpoint>>
<1>1. j \in Jobs /\ job[j] \in Job /\ job[j].version \in Nat
      BY JobFields DEF Jobs, Types
<1>2. /\ Status(store, job[j].version) \in Statuses
      /\ Status(store, job[j].version) = "Active" =>
            job[j].version \in DOMAIN store /\ store[job[j].version] # "destroyed"
      BY <1>1, StatusFacts DEF Types, TypeOK, Statuses
<1> DEFINE x == [job[j] EXCEPT !.pc = "activate", !.status = Status(store, job[j].version)]
<1>3. /\ x \in Job /\ x.pc = "activate" /\ x.version = job[j].version
      /\ x.status = Status(store, job[j].version)
      BY <1>1, <1>2, ZenonT(60) DEF Job, Statuses
<1>4. Reads(j) /\ (Fault \/ UNCHANGED faults)  BY DEF ReadMetadata, ReadFails
<1>5. Goto(j, "idle") \/ job' = [job EXCEPT ![j] = x]
      BY <1>1 DEF ReadMetadata, ReadFails, Types, TypeOK
<1> HIDE DEF x
<1>6. CASE Goto(j, "idle")
      <2>1. Alone(j) /\ To(j, "idle")  BY <1>1, <1>6, GotoFacts DEF Types, Calls
      <2>2. TypeOK'  BY <1>1, <1>4, <2>1, ReadsTypes DEF Types
      <2> QED BY <1>4, <2>1, <2>2 DEF Reads, OpFits, To
<1>7. CASE job' = [job EXCEPT ![j] = x]
      <2>1. Alone(j) /\ job'[j] = x  BY <1>1, <1>3, <1>7, MoveFacts DEF Types
      <2>2. TypeOK'  BY <1>1, <1>4, <2>1, ReadsTypes DEF Types
      <2> QED BY <1>2, <1>3, <1>4, <2>1, <2>2 DEF Reads, OpFits
<1> QED BY <1>5, <1>6, <1>7

\* The command that closes a write or a rotation.
LEMMA ActivateFacts ==
    ASSUME Types, NEW j \in Jobs, Activate(j)
    PROVE  /\ Alone(j) /\ TypeOK' /\ OpFits(j)'
           /\ \E pc \in {"idle", "save", "backoff"} :
                 /\ To(j, pc)
                 /\ pc = "save" => credential'.phase = "Active"
           /\ \/ credential' = credential /\ position' = position
              \/ /\ position' = position + 1
                 /\ \/ credential' \in ActivateWrite(credential, job[j].version, job[j].status)
                    \/ credential' \in ActivateRotation(credential, job[j].version, job[j].status)
           /\ UNCHANGED <<home, store, late, checkpoint>>
<1> DEFINE decision == IF IsRotation(job[j].op)
                       THEN ActivateRotation(credential, job[j].version, job[j].status)
                       ELSE ActivateWrite(credential, job[j].version, job[j].status)
           ok == Returned(j)
           error == Failed(j)
<1>1. job[j].version \in Nat /\ credential \in Credential
      BY JobFields DEF Types, TypeOK
<1>2. ok \in {"idle", "save"} /\ error \in {"idle", "backoff"}
      BY DEF Returned, Failed
<1>3. Executes(j, decision, ok, error)  BY DEF Activate
<1>4. \/ decision = ActivateWrite(credential, job[j].version, job[j].status)
      \/ decision = ActivateRotation(credential, job[j].version, job[j].status)
      OBVIOUS
<1> HIDE DEF decision, ok, error
<1>5. decision \subseteq {d \in Credential : d.phase = "Active"}
      BY <1>1, <1>4, ActivateWriteFacts, ActivateRotationFacts
<1>6. ok \in Calls /\ error \in Calls  BY <1>2 DEF Calls
<1>7. /\ TypeOK' /\ Alone(j)
      /\ \/ credential' \in decision /\ position' = position + 1
            /\ (To(j, ok) \/ To(j, error))
         \/ credential' = credential /\ position' = position /\ To(j, error)
      /\ UNCHANGED <<home, store, late, checkpoint>>
      BY <1>3, <1>5, <1>6, ExecutesFacts DEF Types
<1>8. OpFits(j)'  BY <1>2, <1>7 DEF OpFits, To
<1>9. CASE credential' \in decision /\ position' = position + 1 /\ (To(j, ok) \/ To(j, error))
      BY <1>2, <1>4, <1>5, <1>7, <1>8, <1>9
<1>10. CASE credential' = credential /\ position' = position /\ To(j, error)
      BY <1>2, <1>7, <1>8, <1>10
<1> QED BY <1>7, <1>9, <1>10

\* The command that records a failed write, rotation or destruction.
LEMMA RecordFailureFacts ==
    ASSUME Types, NEW j \in Jobs, RecordFailure(j)
    PROVE  /\ Alone(j) /\ TypeOK' /\ OpFits(j)'
           /\ \E pc \in {"idle", "save", "backoff"} :
                 /\ To(j, pc)
                 /\ pc = "save" => ~IsPending(credential')
           /\ \/ credential' = credential /\ position' = position
              \/ /\ position' = position + 1
                 /\ \/ credential' \in RecordRotationFailure(credential, job[j].ref)
                    \/ credential' \in RecordDestroyFailure(credential, job[j].ref)
                    \/ credential' \in RecordWriteFailure(credential)
           /\ UNCHANGED <<home, store, late, checkpoint>>
<1> DEFINE decision == CASE IsRotation(job[j].op) -> RecordRotationFailure(credential, job[j].ref)
                     [] job[j].op = "destroy" -> RecordDestroyFailure(credential, job[j].ref)
                     [] OTHER                 -> RecordWriteFailure(credential)
           ok == Returned(j)
           error == Failed(j)
<1>1. job[j].ref \in Nat /\ credential \in Credential
      BY JobFields DEF Types, TypeOK
<1>2. ok \in {"idle", "save"} /\ error \in {"idle", "backoff"}
      BY DEF Returned, Failed
<1>3. Executes(j, decision, ok, error)  BY DEF RecordFailure
<1>4. \/ decision = RecordRotationFailure(credential, job[j].ref)
      \/ decision = RecordDestroyFailure(credential, job[j].ref)
      \/ decision = RecordWriteFailure(credential)
      BY Zenon DEF IsRotation
<1> HIDE DEF decision, ok, error
<1>5. decision \subseteq {d \in Credential : ~IsPending(d)}
      BY <1>1, <1>4, RecordRotationFailureFacts, DestroyingFacts, RecordWriteFailureFacts
      DEF IsPending
<1>6. ok \in Calls /\ error \in Calls  BY <1>2 DEF Calls
<1>7. /\ TypeOK' /\ Alone(j)
      /\ \/ credential' \in decision /\ position' = position + 1
            /\ (To(j, ok) \/ To(j, error))
         \/ credential' = credential /\ position' = position /\ To(j, error)
      /\ UNCHANGED <<home, store, late, checkpoint>>
      BY <1>3, <1>5, <1>6, ExecutesFacts DEF Types
<1>8. OpFits(j)'  BY <1>2, <1>7 DEF OpFits, To
<1>9. CASE credential' \in decision /\ position' = position + 1 /\ (To(j, ok) \/ To(j, error))
      BY <1>2, <1>4, <1>5, <1>7, <1>8, <1>9
<1>10. CASE credential' = credential /\ position' = position /\ To(j, error)
      BY <1>2, <1>7, <1>8, <1>10
<1> QED BY <1>7, <1>9, <1>10

\* A revocation begins with what the stream says.
LEMMA LoadForRevokeFacts ==
    ASSUME Types, NEW j \in Requests, LoadForRevoke(j)
    PROVE  /\ Alone(j) /\ TypeOK' /\ OpFits(j)'
           /\ job'[j].pc \in {"bound", "idle"}
           /\ job'[j].pc = "bound" => job'[j].op = "revoke"
           /\ UNCHANGED <<home, credential, position, store, late, checkpoint>>
<1>1. j \in Jobs /\ job[j] \in Job /\ position \in Nat
      BY JobFields DEF Jobs, Types, TypeOK
<1>2. job[j].op = "revoke"  BY <1>1 DEF LoadForRevoke, Types, OpFits
<1> DEFINE x == [job[j] EXCEPT !.pc = "bound", !.position = position]
<1>3. x \in Job /\ x.pc = "bound" /\ x.op = "revoke"  BY <1>1, <1>2 DEF Job
<1>4. Reads(j) /\ (Fault \/ UNCHANGED faults)  BY DEF LoadForRevoke, ReadFails
<1>5. Goto(j, "idle") \/ job' = [job EXCEPT ![j] = x]
      BY <1>1 DEF LoadForRevoke, ReadFails, Types, TypeOK
<1> HIDE DEF x
<1>6. CASE Goto(j, "idle")
      <2>1. Alone(j) /\ To(j, "idle")  BY <1>1, <1>6, GotoFacts DEF Types, Calls
      <2>2. TypeOK'  BY <1>1, <1>4, <2>1, ReadsTypes DEF Types
      <2> QED BY <1>4, <2>1, <2>2 DEF Reads, OpFits, To
<1>7. CASE job' = [job EXCEPT ![j] = x]
      <2>1. Alone(j) /\ job'[j] = x  BY <1>1, <1>3, <1>7, MoveFacts DEF Types
      <2>2. TypeOK'  BY <1>1, <1>4, <2>1, ReadsTypes DEF Types
      <2> QED BY <1>3, <1>4, <2>1, <2>2 DEF Reads, OpFits
<1> QED BY <1>5, <1>6, <1>7

\* A job that is refused records it, or gives up.
LEMMA RefusedFacts ==
    ASSUME NEW op
    PROVE  Refused(op) \in {"record", "idle"} /\ Refused(op) \in Calls
BY DEF Refused, Calls

\* The versions to revoke or destroy are all of those there are.
LEMMA ReadBoundFacts ==
    ASSUME Types, NEW j \in Requests, ReadBound(j)
    PROVE  /\ Alone(j) /\ TypeOK' /\ OpFits(j)'
           /\ \/ job'[j].pc \in {"record", "idle"}
              \/ /\ job'[j].pc = "apply" /\ job'[j].op = job[j].op
                 /\ job'[j].ref = job[j].ref /\ job[j].ref \in DOMAIN store
                 /\ job'[j].upto = Len(store)
           /\ UNCHANGED <<home, credential, position, store, late, checkpoint>>
<1>1. j \in Jobs /\ job[j] \in Job /\ job[j].ref \in Nat /\ Len(store) \in Nat
      BY JobFields, VersionNumbers DEF Jobs, Types
<1>2. Status(store, job[j].ref) # "Missing" => job[j].ref \in DOMAIN store
      BY <1>1, StatusFacts DEF Types, TypeOK
<1>3. job[j].op \in {"revoke", "destroy"}  BY <1>1 DEF ReadBound, Types, OpFits
<1> DEFINE x == [job[j] EXCEPT !.pc = "apply", !.upto = Len(store)]
           pc == Refused(job[j].op)
<1>4. /\ x \in Job /\ x.pc = "apply" /\ x.upto = Len(store)
      /\ x.op = job[j].op /\ x.ref = job[j].ref
      BY <1>1 DEF Job
<1>5. pc \in {"record", "idle"} /\ pc \in Calls  BY RefusedFacts
<1>6. Reads(j) /\ (Fault \/ UNCHANGED faults)  BY DEF ReadBound, ReadFails
<1>7. Goto(j, pc) \/ (job' = [job EXCEPT ![j] = x] /\ Status(store, job[j].ref) # "Missing")
      BY <1>1 DEF ReadBound, ReadFails, Types, TypeOK
<1> HIDE DEF x, pc
<1>8. CASE Goto(j, pc)
      <2>1. Alone(j) /\ To(j, pc)  BY <1>1, <1>5, <1>8, GotoFacts DEF Types
      <2>2. TypeOK'  BY <1>1, <1>6, <2>1, ReadsTypes DEF Types
      <2> QED BY <1>5, <1>6, <2>1, <2>2 DEF Reads, OpFits, To
<1>9. CASE job' = [job EXCEPT ![j] = x] /\ Status(store, job[j].ref) # "Missing"
      <2>1. Alone(j) /\ job'[j] = x  BY <1>1, <1>4, <1>9, MoveFacts DEF Types
      <2>2. TypeOK'  BY <1>1, <1>6, <2>1, ReadsTypes DEF Types
      <2> QED BY <1>2, <1>3, <1>4, <1>6, <1>9, <2>1, <2>2 DEF Reads, OpFits
<1> QED BY <1>7, <1>8, <1>9

\* The revocation or destruction lands now, later or never.
LEMMA ApplyFacts ==
    ASSUME Types, NEW j \in Requests, Apply(j)
    PROVE  /\ Alone(j) /\ TypeOK' /\ OpFits(j)'
           /\ \/ /\ To(j, "close") /\ late' = late
                 /\ job[j].op = "revoke" => store' = DeleteUpTo(store, job[j].upto)
                 /\ job[j].op = "destroy" => store' = DestroyUpTo(store, job[j].upto)
              \/ /\ job'[j].pc \in {"record", "idle"} /\ store' = store
                 /\ late' \in {late, LeftBehind(j)}
           /\ UNCHANGED <<home, credential, position, checkpoint>>
<1>1. j \in Jobs /\ job[j].upto \in Nat  BY JobFields DEF Jobs, Types
<1>2. job[j].op \in {"revoke", "destroy"}  BY <1>1 DEF Apply, Types, OpFits
<1>3. UNCHANGED <<home, credential, position, checkpoint>> /\ requests' = requests
      BY DEF Apply
<1> DEFINE pc == Refused(job[j].op)
<1>4. pc \in {"record", "idle"} /\ pc \in Calls  BY RefusedFacts
<1>5. \/ /\ store' = IF job[j].op = "revoke" THEN DeleteUpTo(store, job[j].upto)
                                             ELSE DestroyUpTo(store, job[j].upto)
         /\ Goto(j, "close") /\ UNCHANGED <<late, faults>>
      \/ Goto(j, pc) /\ Fault /\ late' \in {late, LeftBehind(j)} /\ store' = store
      BY DEF Apply
<1> HIDE DEF pc
<1>6. CASE /\ store' = IF job[j].op = "revoke" THEN DeleteUpTo(store, job[j].upto)
                                               ELSE DestroyUpTo(store, job[j].upto)
           /\ Goto(j, "close") /\ UNCHANGED <<late, faults>>
      <2>1. Alone(j) /\ To(j, "close")  BY <1>1, <1>6, GotoFacts DEF Types, Calls
      <2>2. store' \in Versions
            BY <1>1, <1>6, DeleteFacts, DestroyFacts DEF Types, TypeOK
      <2>3. TypeOK'  BY <1>3, <1>6, <2>1, <2>2 DEF Types, TypeOK, Alone
      <2>4. OpFits(j)'  BY <1>2, <2>1 DEF OpFits, To
      <2> QED BY <1>3, <1>6, <2>1, <2>3, <2>4
<1>7. CASE Goto(j, pc) /\ Fault /\ late' \in {late, LeftBehind(j)} /\ store' = store
      <2>1. Alone(j) /\ To(j, pc)  BY <1>1, <1>4, <1>7, GotoFacts DEF Types
      <2>2. late' \in [writes : Nat, deletes : SUBSET Nat, destroys : SUBSET Nat]
            BY <1>1, <1>7, LeftBehindFacts DEF Types, TypeOK
      <2>3. faults' \in 0..MaxFaults  BY <1>7, FaultFacts DEF Types
      <2>4. TypeOK'  BY <1>3, <1>7, <2>1, <2>2, <2>3 DEF Types, TypeOK, Alone
      <2>5. OpFits(j)'  BY <1>4, <2>1 DEF OpFits, To
      <2> QED BY <1>3, <1>4, <1>7, <2>1, <2>4, <2>5 DEF To
<1> QED BY <1>5, <1>6, <1>7

\* The command that closes a revocation or a destruction.
LEMMA CloseFacts ==
    ASSUME Types, NEW j \in Requests, Close(j)
    PROVE  /\ Alone(j) /\ TypeOK' /\ OpFits(j)'
           /\ \E pc \in {"idle", "recheck"} :
                 To(j, pc) /\ (pc = "recheck" => job[j].op = "revoke")
           /\ \/ credential' = credential /\ position' = position
              \/ /\ position' = position + 1
                 /\ \/ /\ job[j].op = "destroy"
                       /\ credential' \in CompleteDestroy(credential, job[j].ref)
                    \/ /\ job[j].op = "revoke"
                       /\ credential' \in Revoke(credential, job[j].ref)
           /\ UNCHANGED <<home, store, late, checkpoint>>
<1> DEFINE decision == Closing(j)
           error == IF job[j].op = "revoke" THEN "recheck" ELSE "idle"
<1>1. j \in Jobs /\ job[j].ref \in Nat /\ credential \in Credential
      BY JobFields DEF Jobs, Types, TypeOK
<1>2. job[j].op \in {"revoke", "destroy"}  BY <1>1 DEF Close, Types, OpFits
<1>3. Executes(j, decision, "idle", error)  BY DEF Close
<1>4. /\ job[j].op = "destroy" => decision = CompleteDestroy(credential, job[j].ref)
      /\ job[j].op = "revoke" =>
            decision = {d \in Revoke(credential, job[j].ref) : position = job[j].position}
      BY Zenon DEF Closing
<1>5. error \in {"idle", "recheck"} /\ (error = "recheck" => job[j].op = "revoke")
      OBVIOUS
<1> HIDE DEF decision, error
<1>6. decision \subseteq Credential
      BY <1>1, <1>2, <1>4, CompleteDestroyFacts, RevokeFacts
<1>7. "idle" \in Calls /\ error \in Calls  BY <1>5 DEF Calls
<1>8. /\ TypeOK' /\ Alone(j)
      /\ \/ credential' \in decision /\ position' = position + 1
            /\ (To(j, "idle") \/ To(j, error))
         \/ credential' = credential /\ position' = position /\ To(j, error)
      /\ UNCHANGED <<home, store, late, checkpoint>>
      BY <1>1, <1>3, <1>6, <1>7, ExecutesFacts DEF Types
<1>9. OpFits(j)'  BY <1>5, <1>8 DEF OpFits, To
<1>10. CASE credential' \in decision /\ position' = position + 1
            /\ (To(j, "idle") \/ To(j, error))
      BY <1>2, <1>4, <1>5, <1>8, <1>9, <1>10
<1>11. CASE credential' = credential /\ position' = position /\ To(j, error)
      BY <1>5, <1>8, <1>9, <1>11
<1> QED BY <1>8, <1>10, <1>11

\* A revocation that met a conflict is tried again or given up.
LEMMA RecheckFacts ==
    ASSUME Types, NEW j \in Requests, Recheck(j)
    PROVE  /\ Alone(j) /\ TypeOK' /\ OpFits(j)'
           /\ \/ job'[j].pc = "idle"
              \/ job'[j].pc = "close" /\ job'[j].op = "revoke" /\ job'[j].ref = job[j].ref
           /\ job[j].op = "revoke"
           /\ UNCHANGED <<home, credential, position, store, late, checkpoint>>
<1>1. j \in Jobs /\ job[j] \in Job /\ position \in Nat
      BY JobFields DEF Jobs, Types, TypeOK
<1>2. job[j].op = "revoke"  BY <1>1 DEF Recheck, Types, OpFits
<1> DEFINE x == [job[j] EXCEPT !.pc = "close", !.position = position]
<1>3. x \in Job /\ x.pc = "close" /\ x.op = "revoke" /\ x.ref = job[j].ref
      BY <1>1, <1>2 DEF Job
<1>4. Reads(j) /\ (Fault \/ UNCHANGED faults)  BY DEF Recheck, ReadFails
<1>5. Goto(j, "idle") \/ job' = [job EXCEPT ![j] = x]
      BY <1>1 DEF Recheck, ReadFails, Types, TypeOK
<1> HIDE DEF x
<1>6. CASE Goto(j, "idle")
      <2>1. Alone(j) /\ To(j, "idle")  BY <1>1, <1>6, GotoFacts DEF Types, Calls
      <2>2. TypeOK'  BY <1>1, <1>4, <2>1, ReadsTypes DEF Types
      <2> QED BY <1>2, <1>4, <2>1, <2>2 DEF Reads, OpFits, To
<1>7. CASE job' = [job EXCEPT ![j] = x]
      <2>1. Alone(j) /\ job'[j] = x  BY <1>1, <1>3, <1>7, MoveFacts DEF Types
      <2>2. TypeOK'  BY <1>1, <1>4, <2>1, ReadsTypes DEF Types
      <2> QED BY <1>2, <1>3, <1>4, <2>1, <2>2 DEF Reads, OpFits
<1> QED BY <1>5, <1>6, <1>7

\* A pass begins with the positions of the stream and of the checkpoint.
LEMMA ScanFacts ==
    ASSUME Types, NEW w \in Workers, Scan(w)
    PROVE  /\ Alone(w) /\ TypeOK' /\ OpFits(w)' /\ job'[w].pc = "plan"
           /\ job'[w].position = position /\ job'[w].loaded = checkpoint
           /\ checkpoint < position
           /\ UNCHANGED <<home, credential, position, store, late, checkpoint>>
<1>1. w \in Jobs /\ position \in Nat /\ checkpoint \in Nat  BY DEF Jobs, Types, TypeOK
<1> DEFINE x == [Idle EXCEPT !.op = "plan", !.pc = "plan",
                             !.position = position, !.loaded = checkpoint]
<1>2. x \in Job /\ x.pc = "plan" /\ x.position = position /\ x.loaded = checkpoint
      BY <1>1 DEF Idle, Job, NoVersion
<1>3. Reads(w) /\ UNCHANGED faults /\ job' = [job EXCEPT ![w] = x] /\ checkpoint < position
      BY <1>1 DEF Scan
<1> HIDE DEF x
<1>4. Alone(w) /\ job'[w] = x  BY <1>1, <1>2, <1>3, MoveFacts DEF Types
<1>5. TypeOK'  BY <1>1, <1>3, <1>4, ReadsTypes DEF Types
<1> QED BY <1>2, <1>3, <1>4, <1>5 DEF Reads, OpFits

\* What the pass plans for the credential it replayed.
LEMMA PlanFacts ==
    ASSUME Types, NEW w \in Workers, Plan(w)
    PROVE  /\ Alone(w) /\ TypeOK' /\ OpFits(w)'
           /\ job'[w].pc \in {"lock", "save", "backoff"}
           /\ job'[w].pc = "save" => ~IsPending(credential)
           /\ job'[w].position = job[w].position /\ job'[w].loaded = job[w].loaded
           /\ UNCHANGED <<home, credential, position, store, late, checkpoint>>
<1>1. /\ w \in Jobs /\ job[w] \in Job
      /\ credential.version \in Nat /\ credential.destroyed \in Nat
      BY JobFields DEF Jobs, Types, TypeOK, Credential
<1>0. PICK v \in Nat : v = credential.destroyed + 1  BY <1>1
<1> DEFINE write == [job[w] EXCEPT !.pc = "lock", !.op = "recover write", !.ref = v]
           rotation == [job[w] EXCEPT !.pc = "lock", !.op = "recover rotation",
                                      !.ref = credential.version]
           nothing == [job[w] EXCEPT !.pc = "save"]
           x == CASE credential.phase = "PendingWrite" -> write
                  [] credential.phase = "RotationPending" -> rotation
                  [] OTHER -> nothing
<1>2. /\ write \in Job /\ write.pc = "lock" /\ write.op = "recover write"
      /\ write.position = job[w].position /\ write.loaded = job[w].loaded
      BY <1>1 DEF Job
<1>3. /\ rotation \in Job /\ rotation.pc = "lock" /\ rotation.op = "recover rotation"
      /\ rotation.position = job[w].position /\ rotation.loaded = job[w].loaded
      BY <1>1 DEF Job
<1>4. /\ nothing \in Job /\ nothing.pc = "save"
      /\ nothing.position = job[w].position /\ nothing.loaded = job[w].loaded
      BY <1>1 DEF Job
<1>5. Reads(w) /\ (Fault \/ UNCHANGED faults)  BY DEF Plan, ReadFails
<1>6. Goto(w, "backoff") \/ job' = [job EXCEPT ![w] = x]
      BY <1>0, <1>1 DEF Plan, ReadFails, Types, TypeOK
<1> HIDE DEF write, rotation, nothing
<1>7. \/ credential.phase = "PendingWrite" /\ x = write
      \/ credential.phase = "RotationPending" /\ x = rotation
      \/ ~IsPending(credential) /\ x = nothing
      <2>1. IsPending(credential) <=>
                credential.phase = "PendingWrite" \/ credential.phase = "RotationPending"
            BY DEF IsPending
      <2> QED BY Zenon, <2>1
<1> HIDE DEF x
<1>8. CASE Goto(w, "backoff")
      <2>1. Alone(w) /\ To(w, "backoff")  BY <1>1, <1>8, GotoFacts DEF Types, Calls
      <2>2. TypeOK'  BY <1>1, <1>5, <2>1, ReadsTypes DEF Types
      <2> QED BY <1>5, <2>1, <2>2 DEF Reads, OpFits, To
<1>9. CASE job' = [job EXCEPT ![w] = x]
      <2>1. x \in Job  BY <1>2, <1>3, <1>4, <1>7
      <2>2. Alone(w) /\ job'[w] = x  BY <1>1, <1>9, <2>1, MoveFacts DEF Types
      <2>3. TypeOK'  BY <1>1, <1>5, <2>2, ReadsTypes DEF Types
      <2>4. OpFits(w)'  BY <1>2, <1>3, <1>4, <1>7, <2>2 DEF OpFits, Recoveries
      <2>5. /\ job'[w].pc \in {"lock", "save"}
            /\ job'[w].pc = "save" => ~IsPending(credential)
            /\ job'[w].position = job[w].position /\ job'[w].loaded = job[w].loaded
            BY <1>2, <1>3, <1>4, <1>7, <2>2
      <2> QED BY <1>5, <2>2, <2>3, <2>4, <2>5 DEF Reads
<1> QED BY <1>6, <1>8, <1>9

\* What the worker knows of a version it found.
Found(w) ==
    job'[w].status = "Active" =>
        job'[w].version \in DOMAIN store /\ store[job'[w].version] # "destroyed"

\* The material that the pending write or rotation would activate.
LEMMA ReadTargetFacts ==
    ASSUME Types, NEW w \in Workers, ReadTarget(w)
    PROVE  /\ Alone(w) /\ TypeOK' /\ OpFits(w)'
           /\ job'[w].pc \in {"record", "activate", "walk", "backoff"}
           /\ job'[w].pc \in {"activate", "walk"} => Found(w)
           /\ job'[w].position = job[w].position /\ job'[w].loaded = job[w].loaded
           /\ UNCHANGED <<home, credential, position, store, late, checkpoint>>
<1>1. w \in Jobs /\ job[w] \in Job /\ job[w].ref \in Nat  BY JobFields DEF Jobs, Types
<1>2. PICK v \in Nat : v = Target(w)  BY <1>1 DEF Target
<1>3. /\ Status(store, v) \in Statuses
      /\ Status(store, v) = "Active" => v \in DOMAIN store /\ store[v] # "destroyed"
      BY StatusFacts DEF Types, TypeOK, Statuses
<1>4. PICK pc \in {"activate", "walk"} :
          pc = IF IsRotation(job[w].op) THEN "activate" ELSE "walk"
      OBVIOUS
<1> DEFINE x == [job[w] EXCEPT !.version = v, !.status = Status(store, v), !.pc = pc]
<1>5. /\ x \in Job /\ x.pc = pc /\ x.version = v /\ x.status = Status(store, v)
      /\ x.position = job[w].position /\ x.loaded = job[w].loaded
      BY <1>1, <1>3, ZenonT(60) DEF Job, Statuses
<1>6. Reads(w) /\ (Fault \/ UNCHANGED faults)  BY DEF ReadTarget, ReadFails
<1>7. Goto(w, "record") \/ Goto(w, "backoff") \/ job' = [job EXCEPT ![w] = x]
      BY <1>1, <1>2, <1>4 DEF ReadTarget, ReadFails, Types, TypeOK
<1> HIDE DEF x
<1>8. CASE Goto(w, "record") \/ Goto(w, "backoff")
      <2>1. Alone(w) /\ (To(w, "record") \/ To(w, "backoff"))
            BY <1>1, <1>8, GotoFacts DEF Types, Calls
      <2>2. TypeOK'  BY <1>1, <1>6, <2>1, ReadsTypes DEF Types
      <2> QED BY <1>6, <2>1, <2>2 DEF Reads, OpFits, To
<1>9. CASE job' = [job EXCEPT ![w] = x]
      <2>1. Alone(w) /\ job'[w] = x  BY <1>1, <1>5, <1>9, MoveFacts DEF Types
      <2>2. TypeOK'  BY <1>1, <1>6, <2>1, ReadsTypes DEF Types
      <2>3. OpFits(w)'  BY <1>5, <2>1 DEF OpFits
      <2>4. Found(w)  BY <1>3, <1>5, <2>1 DEF Found
      <2> QED BY <1>5, <1>6, <2>1, <2>2, <2>3, <2>4 DEF Reads
<1> QED BY <1>7, <1>8, <1>9

\* The walk to the last version written.
LEMMA WalkFacts ==
    ASSUME Types, NEW w \in Workers, Walk(w)
    PROVE  /\ Alone(w) /\ TypeOK' /\ OpFits(w)'
           /\ \/ job'[w].pc = "backoff"
              \/ job'[w].pc = "walk" /\ Found(w)
              \/ To(w, "activate")
           /\ job'[w].position = job[w].position /\ job'[w].loaded = job[w].loaded
           /\ UNCHANGED <<home, credential, position, store, late, checkpoint>>
<1>1. w \in Jobs /\ job[w] \in Job /\ job[w].version \in Nat /\ job[w].pc = "walk"
      BY JobFields DEF Jobs, Types, Walk
<1>2. PICK v \in Nat : v = job[w].version + 1  BY <1>1
<1>3. /\ Status(store, v) \in Statuses
      /\ Status(store, v) = "Active" => v \in DOMAIN store /\ store[v] # "destroyed"
      BY StatusFacts DEF Types, TypeOK, Statuses
<1> DEFINE x == [job[w] EXCEPT !.version = v, !.status = Status(store, v)]
<1>4. /\ x \in Job /\ x.pc = "walk" /\ x.version = v /\ x.status = Status(store, v)
      /\ x.position = job[w].position /\ x.loaded = job[w].loaded
      BY <1>1, <1>3 DEF Job, Statuses
<1>5. Reads(w) /\ (Fault \/ UNCHANGED faults)  BY DEF Walk, ReadFails
<1>6. Goto(w, "activate") \/ Goto(w, "backoff") \/ job' = [job EXCEPT ![w] = x]
      BY <1>1, <1>2 DEF Walk, ReadFails, Types, TypeOK
<1> HIDE DEF x
<1>7. CASE Goto(w, "activate") \/ Goto(w, "backoff")
      <2>1. Alone(w) /\ (To(w, "activate") \/ To(w, "backoff"))
            BY <1>1, <1>7, GotoFacts DEF Types, Calls
      <2>2. TypeOK'  BY <1>1, <1>5, <2>1, ReadsTypes DEF Types
      <2> QED BY <1>5, <2>1, <2>2 DEF Reads, OpFits, To
<1>8. CASE job' = [job EXCEPT ![w] = x]
      <2>1. Alone(w) /\ job'[w] = x  BY <1>1, <1>4, <1>8, MoveFacts DEF Types
      <2>2. TypeOK'  BY <1>1, <1>5, <2>1, ReadsTypes DEF Types
      <2>3. OpFits(w)'  BY <1>4, <2>1 DEF OpFits
      <2>4. Found(w)  BY <1>3, <1>4, <2>1 DEF Found
      <2> QED BY <1>4, <1>5, <2>1, <2>2, <2>3, <2>4 DEF Reads
<1> QED BY <1>6, <1>7, <1>8

\* The end of a pass: what it scanned, what it loaded, or nothing is written.
LEMMA CheckpointFacts ==
    ASSUME Types, NEW w \in Workers, Save(w) \/ BackOff(w)
    PROVE  /\ Alone(w) /\ TypeOK' /\ OpFits(w)' /\ To(w, "idle") /\ Running(w)
           /\ \/ checkpoint' = checkpoint
              \/ job[w].pc = "save" /\ checkpoint' = job[w].position
              \/ checkpoint' = job[w].loaded
           /\ UNCHANGED <<home, credential, position, store, late>>
<1>1. /\ w \in Jobs /\ job[w].position \in Nat /\ job[w].loaded \in Nat
      BY JobFields DEF Jobs, Types
<1>2. /\ Goto(w, "idle") /\ (Fault \/ UNCHANGED faults) /\ job[w].pc \in {"save", "backoff"}
      /\ \/ checkpoint' = checkpoint
         \/ job[w].pc = "save" /\ checkpoint' = job[w].position
         \/ checkpoint' = job[w].loaded
      /\ UNCHANGED <<home, credential, position, store, late, requests>>
      BY DEF Save, BackOff
<1>3. Alone(w) /\ To(w, "idle")  BY <1>1, <1>2, GotoFacts DEF Types, Calls
<1>4. checkpoint' \in Nat  BY <1>1, <1>2 DEF Types, TypeOK
<1>5. faults' \in 0..MaxFaults  BY <1>2, FaultFacts DEF Types
<1>6. TypeOK'  BY <1>2, <1>3, <1>4, <1>5 DEF Types, TypeOK, Alone
<1> QED BY <1>2, <1>3, <1>6 DEF Running, OpFits, To

\* OpenBao executes what its caller gave up.
LateStep ==
    \/ LandWrite
    \/ \E upto \in late.deletes : LandDelete(upto)
    \/ \E upto \in late.destroys : LandDestroy(upto)

\* A late request changes the versions as one in time does.
LEMMA LateFacts ==
    ASSUME Types, LateStep
    PROVE  /\ TypeOK' /\ job' = job
           /\ late'.destroys \subseteq late.destroys
           /\ \/ store' = Write(store)
              \/ \E upto \in Nat : store' = DeleteUpTo(store, upto)
              \/ \E upto \in late.destroys : store' = DestroyUpTo(store, upto)
           /\ UNCHANGED <<home, credential, position, checkpoint>>
<1>1. store \in Versions /\ late \in [writes : Nat, deletes : SUBSET Nat, destroys : SUBSET Nat]
      BY DEF Types, TypeOK
<1>2. CASE LandWrite
      <2>1. store' = Write(store) /\ late' = [late EXCEPT !.writes = @ - 1] /\ late.writes > 0
            BY <1>2 DEF LandWrite
      <2>2. /\ late' \in [writes : Nat, deletes : SUBSET Nat, destroys : SUBSET Nat]
            /\ late'.destroys = late.destroys
            BY <1>1, <2>1
      <2>3. store' \in Versions  BY <1>1, <2>1, WriteFacts
      <2>4. TypeOK'  BY <1>2, <2>2, <2>3 DEF LandWrite, Types, TypeOK
      <2> QED BY <1>2, <2>1, <2>2, <2>4 DEF LandWrite
<1>3. ASSUME NEW upto \in late.deletes, LandDelete(upto)
      PROVE  /\ TypeOK' /\ late'.destroys = late.destroys /\ upto \in Nat
             /\ store' = DeleteUpTo(store, upto)
             /\ UNCHANGED <<home, credential, position, checkpoint, job>>
      <2>1. /\ store' = DeleteUpTo(store, upto) /\ upto \in Nat
            /\ late' = [late EXCEPT !.deletes = @ \ {upto}]
            BY <1>1, <1>3 DEF LandDelete
      <2>2. /\ late' \in [writes : Nat, deletes : SUBSET Nat, destroys : SUBSET Nat]
            /\ late'.destroys = late.destroys
            BY <1>1, <2>1
      <2>3. store' \in Versions  BY <1>1, <2>1, DeleteFacts
      <2>4. TypeOK'  BY <1>3, <2>2, <2>3 DEF LandDelete, Types, TypeOK
      <2> QED BY <1>3, <2>1, <2>2, <2>4 DEF LandDelete
<1>4. ASSUME NEW upto \in late.destroys, LandDestroy(upto)
      PROVE  /\ TypeOK' /\ late'.destroys \subseteq late.destroys
             /\ store' = DestroyUpTo(store, upto)
             /\ UNCHANGED <<home, credential, position, checkpoint, job>>
      <2>1. /\ store' = DestroyUpTo(store, upto) /\ upto \in Nat
            /\ late' = [late EXCEPT !.destroys = @ \ {upto}]
            BY <1>1, <1>4 DEF LandDestroy
      <2>2. /\ late' \in [writes : Nat, deletes : SUBSET Nat, destroys : SUBSET Nat]
            /\ late'.destroys \subseteq late.destroys
            BY <1>1, <2>1
      <2>3. store' \in Versions  BY <1>1, <2>1, DestroyFacts
      <2>4. TypeOK'  BY <1>4, <2>2, <2>3 DEF LandDestroy, Types, TypeOK
      <2> QED BY <1>4, <2>1, <2>2, <2>4 DEF LandDestroy
<1> QED BY <1>2, <1>3, <1>4 DEF LateStep

-----------------------------------------------------------------------------
(* The steps, as far as the invariants below tell them apart. *)

\* Calls before which a job relies on nothing.
Quiet == {"idle", "lock", "request", "reload", "probe", "writable", "post",
          "metadata", "record", "load", "plan", "target", "backoff"}

\* The pass goes on, ends, or begins.
KeepsPass(j) ==
    \/ job'[j].pc = "idle"
    \/ Running(j) /\ job'[j].position = job[j].position /\ job'[j].loaded = job[j].loaded
    \/ job'[j].position = position /\ job'[j].loaded = checkpoint /\ checkpoint < position

\* A step that only reads.
Looks(j) ==
    /\ Alone(j) /\ UNCHANGED <<home, credential, position, store, late, checkpoint>>
    /\ j \in Workers => KeepsPass(j)
    /\ job'[j].pc \in {"idle", "lock", "plan", "save", "backoff"} \/ Holds(j) \/ Free(j)
    /\ \/ job'[j].pc \in Quiet
       \/ /\ job'[j].pc = "bound"
          /\ job'[j].op = "destroy" => At(credential, {"DestroyRequested"}, job'[j].ref)
       \/ /\ job[j].pc = "bound" /\ job'[j].pc = "apply" /\ job'[j].op = job[j].op
          /\ job'[j].ref = job[j].ref /\ job[j].ref \in DOMAIN store
          /\ job'[j].upto = Len(store)
       \/ /\ job[j].pc = "recheck" /\ job'[j].pc = "close" /\ job'[j].ref = job[j].ref
          /\ job[j].op = "revoke" /\ job'[j].op = "revoke"
       \/ job'[j].pc \in {"activate", "walk"} /\ Found(j)
       \/ job[j].pc = "walk" /\ To(j, "activate")
       \/ job'[j].pc = "save" /\ ~IsPending(credential)

\* What a command may have made of the credential.
Decided(j) ==
    \/ credential' = credential /\ position' = position
    \/ /\ position' = position + 1
       /\ \/ credential' \in RequestWrite(credential)
          \/ credential' \in RequestRotation(credential, job[j].ref)
          \/ credential' \in RequestDestroy(credential, job[j].ref)
          \/ credential' \in RecordWriteFailure(credential)
          \/ credential' \in RecordRotationFailure(credential, job[j].ref)
          \/ credential' \in RecordDestroyFailure(credential, job[j].ref)
          \/ /\ job[j].pc = "activate"
             /\ \/ credential' \in ActivateWrite(credential, job[j].version, job[j].status)
                \/ credential' \in ActivateRotation(credential, job[j].version, job[j].status)
          \/ /\ job[j].pc = "close" /\ job[j].op = "destroy"
             /\ credential' \in CompleteDestroy(credential, job[j].ref)
          \/ /\ job[j].pc = "close" /\ job[j].op = "revoke"
             /\ credential' \in Revoke(credential, job[j].ref)

\* A step that executes a command, holding the lock.
Commands(j) ==
    /\ Alone(j) /\ UNCHANGED <<home, store, late, checkpoint>>
    /\ Holds(j) /\ Decided(j)
    /\ j \in Workers => KeepsPass(j)
    /\ \E pc \in {"idle", "post", "writable", "reload", "backoff", "bound", "recheck", "save"} :
          /\ To(j, pc)
          /\ pc = "bound" =>
                job[j].op = "destroy" /\ credential' \in RequestDestroy(credential, job[j].ref)
          /\ pc = "recheck" => job[j].pc = "close" /\ job[j].op = "revoke"
          /\ pc = "save" => ~IsPending(credential')

\* A step that writes, revokes or destroys, holding the lock.
Changes(j) ==
    /\ Alone(j) /\ UNCHANGED <<home, credential, position, checkpoint>>
    /\ Holds(j) /\ j \in Requests
    /\ \/ /\ job'[j].pc \in {"metadata", "record"} /\ late'.destroys = late.destroys
          /\ store' = Write(store) \/ store' = store
       \/ /\ job[j].pc = "apply" /\ To(j, "close") /\ late' = late
          /\ job[j].op = "revoke" => store' = DeleteUpTo(store, job[j].upto)
          /\ job[j].op = "destroy" => store' = DestroyUpTo(store, job[j].upto)

\* A job gives up, and its request to OpenBao may be executed later.
GivesUp(j) ==
    /\ Alone(j) /\ UNCHANGED <<home, credential, position, store, checkpoint>>
    /\ job'[j].pc \in {"record", "idle"} /\ late' \in {late, LeftBehind(j)}
    /\ Holds(j) \/ job'[j].pc = "idle"
    /\ j \in Workers => job'[j].pc = "idle"

\* A request does one of these.
LEMMA RequestSteps ==
    ASSUME Types, NEW j \in Requests, Begin(j) \/ RequestStep(j)
    PROVE  /\ TypeOK' /\ OpFits(j)'
           /\ Looks(j) \/ Commands(j) \/ Changes(j) \/ GivesUp(j)
<1>1. j \in Jobs /\ j \notin Workers  BY JobsAssumption DEF Jobs
<1>2. CASE Begin(j)
      BY <1>1, <1>2, BeginFacts DEF Looks, Quiet
<1>3. CASE Request(j)
      <2>1. Holds(j)  BY <1>3 DEF Request, Holds
      <2>2. Decided(j)  BY <1>3, RequestFacts DEF Decided
      <2> QED BY <1>1, <1>3, <2>1, <2>2, RequestFacts DEF Commands
<1>4. CASE Reload(j)
      <2>1. Holds(j)  BY <1>4 DEF Reload, Holds
      <2> QED BY <1>1, <1>4, <2>1, ReloadFacts DEF Looks, Quiet, To
<1>5. CASE Probe(j)
      <2>1. Holds(j)  BY <1>5 DEF Probe, Holds
      <2> QED BY <1>1, <1>5, <2>1, ProbeFacts DEF Looks, Quiet
<1>6. CASE CheckWritable(j)
      <2>1. Holds(j)  BY <1>6 DEF CheckWritable, Holds
      <2> QED BY <1>1, <1>6, <2>1, CheckWritableFacts DEF Looks, Quiet
<1>7. CASE Post(j)
      <2>1. Holds(j)  BY <1>7 DEF Post, Holds
      <2> QED BY <1>1, <1>7, <2>1, PostFacts DEF Changes
<1>8. CASE ReadMetadata(j)
      <2>1. Holds(j)  BY <1>8 DEF ReadMetadata, Holds
      <2>2. job'[j].pc = "activate" => Found(j)  BY <1>8, ReadMetadataFacts DEF Found
      <2> QED BY <1>1, <1>8, <2>1, <2>2, ReadMetadataFacts DEF Looks, Quiet
<1>9. CASE Activate(j)
      <2>1. Holds(j) /\ job[j].pc = "activate"  BY <1>9 DEF Activate, Holds
      <2>2. Decided(j)  BY <1>1, <1>9, <2>1, ActivateFacts DEF Decided
      <2> QED BY <1>1, <1>9, <2>1, <2>2, ActivateFacts DEF Commands, IsPending
<1>10. CASE RecordFailure(j)
      <2>1. Holds(j)  BY <1>10 DEF RecordFailure, Holds
      <2>2. Decided(j)  BY <1>1, <1>10, RecordFailureFacts DEF Decided
      <2> QED BY <1>1, <1>10, <2>1, <2>2, RecordFailureFacts DEF Commands, IsPending
<1>11. CASE LoadForRevoke(j)
      <2>1. Holds(j)  BY <1>11 DEF LoadForRevoke, Holds
      <2> QED BY <1>1, <1>11, <2>1, LoadForRevokeFacts DEF Looks, Quiet
<1>12. CASE ReadBound(j)
      <2>1. Holds(j) /\ job[j].pc = "bound"  BY <1>12 DEF ReadBound, Holds
      <2> QED BY <1>1, <1>12, <2>1, ReadBoundFacts DEF Looks, Quiet
<1>13. CASE Apply(j)
      <2>1. Holds(j) /\ job[j].pc = "apply"  BY <1>13 DEF Apply, Holds
      <2> QED BY <1>1, <1>13, <2>1, ApplyFacts DEF Changes, GivesUp
<1>14. CASE Close(j)
      <2>1. Holds(j) /\ job[j].pc = "close"  BY <1>14 DEF Close, Holds
      <2>2. Decided(j)  BY <1>14, <2>1, CloseFacts DEF Decided
      <2> QED BY <1>1, <1>14, <2>1, <2>2, CloseFacts DEF Commands
<1>15. CASE Recheck(j)
      <2>1. Holds(j) /\ job[j].pc = "recheck"  BY <1>15 DEF Recheck, Holds
      <2> QED BY <1>1, <1>15, <2>1, RecheckFacts DEF Looks, Quiet
<1> QED BY <1>2, <1>3, <1>4, <1>5, <1>6, <1>7, <1>8, <1>9, <1>10, <1>11, <1>12, <1>13,
           <1>14, <1>15 DEF RequestStep

\* The worker does one of these.
LEMMA WorkerSteps ==
    ASSUME Types, NEW w \in Workers, WorkerStep(w)
    PROVE  /\ TypeOK' /\ OpFits(w)'
           /\ Looks(w) \/ Commands(w) \/ Save(w) \/ BackOff(w)
<1>1. w \in Jobs  BY DEF Jobs
<1>2. CASE Scan(w)
      BY <1>2, ScanFacts DEF Looks, Quiet, KeepsPass
<1>3. CASE Plan(w)
      <2>1. Running(w)  BY <1>3 DEF Plan, Running
      <2> QED BY <1>3, <2>1, PlanFacts DEF Looks, Quiet, KeepsPass
<1>4. CASE ReadTarget(w)
      <2>1. Running(w) /\ Holds(w)  BY <1>4 DEF ReadTarget, Running, Holds
      <2> QED BY <1>4, <2>1, ReadTargetFacts DEF Looks, Quiet, KeepsPass
<1>5. CASE Walk(w)
      <2>1. Running(w) /\ Holds(w) /\ job[w].pc = "walk"  BY <1>5 DEF Walk, Running, Holds
      <2> QED BY <1>5, <2>1, WalkFacts DEF Looks, Quiet, KeepsPass
<1>6. CASE Activate(w)
      <2>1. Holds(w) /\ Running(w) /\ job[w].pc = "activate"
            BY <1>6 DEF Activate, Holds, Running
      <2>2. Decided(w)  BY <1>1, <1>6, <2>1, ActivateFacts DEF Decided
      <2>3. KeepsPass(w)  BY <1>1, <1>6, <2>1, ActivateFacts DEF KeepsPass, To
      <2> QED BY <1>1, <1>6, <2>1, <2>2, <2>3, ActivateFacts DEF Commands, IsPending
<1>7. CASE RecordFailure(w)
      <2>1. Holds(w) /\ Running(w)  BY <1>7 DEF RecordFailure, Holds, Running
      <2>2. Decided(w)  BY <1>1, <1>7, RecordFailureFacts DEF Decided
      <2>3. KeepsPass(w)  BY <1>1, <1>7, <2>1, RecordFailureFacts DEF KeepsPass, To
      <2> QED BY <1>1, <1>7, <2>1, <2>2, <2>3, RecordFailureFacts DEF Commands, IsPending
<1>8. CASE Save(w) \/ BackOff(w)
      BY <1>8, CheckpointFacts
<1> QED BY <1>2, <1>3, <1>4, <1>5, <1>6, <1>7, <1>8 DEF WorkerStep

\* Taking the lock, and being dropped.
LEMMA SharedSteps ==
    ASSUME Types, NEW j \in Jobs, Acquire(j) \/ Drop(j)
    PROVE  /\ TypeOK' /\ OpFits(j)'
           /\ Looks(j) \/ GivesUp(j)
<1>1. CASE Acquire(j)
      <2>1. Running(j)  BY <1>1 DEF Acquire, Running
      <2>2. PICK pc \in {"load", "target", "request"} : To(j, pc)
            BY <1>1, AcquireFacts
      <2>3. KeepsPass(j)  BY <2>1, <2>2 DEF KeepsPass, To
      <2>4. job'[j].pc \in Quiet  BY <2>2 DEF To, Quiet
      <2> QED BY <1>1, <2>3, <2>4, AcquireFacts DEF Looks
<1>2. CASE Drop(j)
      BY <1>2, DropFacts DEF GivesUp, To
<1> QED BY <1>1, <1>2

\* Every step is one of these, and keeps the types.
LEMMA Steps ==
    ASSUME Types, Next
    PROVE  /\ Types'
           /\ \/ \E j \in Jobs : Looks(j) \/ Commands(j) \/ Changes(j) \/ GivesUp(j)
              \/ \E w \in Workers : Save(w) \/ BackOff(w)
              \/ LateStep
<1>1. ASSUME NEW j \in Jobs, Alone(j), OpFits(j)'
      PROVE  \A k \in Jobs : OpFits(k)'
      BY <1>1 DEF Alone, OpFits, Types
<1>2. ASSUME NEW j \in Jobs, TypeOK', OpFits(j)',
             Looks(j) \/ Commands(j) \/ Changes(j) \/ GivesUp(j)
      PROVE  Types'
      <2>1. Alone(j)  BY <1>2 DEF Looks, Commands, Changes, GivesUp
      <2> QED BY <1>1, <1>2, <2>1 DEF Types
<1>3. CASE \E j \in Requests : Begin(j) \/ RequestStep(j)
      BY <1>2, <1>3, RequestSteps DEF Jobs
<1>4. CASE \E w \in Workers : WorkerStep(w)
      <2>1. PICK w \in Workers : WorkerStep(w)  BY <1>4
      <2>2. w \in Jobs  BY DEF Jobs
      <2>3. CASE Save(w) \/ BackOff(w)
            BY <1>1, <2>2, <2>3, CheckpointFacts DEF Types
      <2> QED BY <1>2, <2>1, <2>2, <2>3, WorkerSteps
<1>5. CASE \E j \in Jobs : Acquire(j) \/ Drop(j)
      BY <1>2, <1>5, SharedSteps
<1>6. CASE LateStep
      <2>1. TypeOK' /\ job' = job  BY <1>6, LateFacts
      <2>2. \A k \in Jobs : OpFits(k)'  BY <2>1 DEF OpFits, Types
      <2> QED BY <1>6, <2>1, <2>2 DEF Types
<1> QED BY <1>3, <1>4, <1>5, <1>6 DEF Next, LateStep

-----------------------------------------------------------------------------
(* Each part of the invariant is kept. *)

\* Only the job that moves is to be looked at.
LEMMA OnlyOneMoves ==
    ASSUME NEW j \in Jobs, Looks(j) \/ Commands(j) \/ Changes(j) \/ GivesUp(j)
    PROVE  /\ Alone(j) /\ home' = home /\ checkpoint' = checkpoint
           /\ \A k \in Jobs : k # j => job'[k] = job[k]
BY DEF Looks, Commands, Changes, GivesUp, Alone

\* The stream only grows, and a decision is at its end.
LEMMA PositionGrows ==
    ASSUME Types, NEW j \in Jobs, Looks(j) \/ Commands(j) \/ Changes(j) \/ GivesUp(j)
    PROVE  /\ position \in Nat /\ checkpoint \in Nat
           /\ \/ credential' = credential /\ position' = position
              \/ position' = position + 1
BY DEF Looks, Commands, Changes, GivesUp, Decided, Types, TypeOK

\* A pass of another worker, while the stream grows or not.
LEMMA PassFrame ==
    ASSUME Types, ScanInv, NEW w \in Workers, job'[w] = job[w], position \in Nat,
           \/ credential' = credential /\ position' = position
           \/ position' = position + 1
    PROVE  PassInv(w)'
<1>1. PassInv(w) /\ w \in Jobs  BY DEF ScanInv, Jobs
<1>2. job[w].position \in Nat /\ job[w].loaded \in Nat  BY <1>1, JobFields DEF Types
<1> QED BY <1>1, <1>2 DEF PassInv, Running, IsPending

\* CheckpointCoversPending and what passes know of positions are kept.
LEMMA ScanKept ==
    ASSUME Types, ScanInv, Next
    PROVE  ScanInv'
<1>1. ASSUME NEW j \in Jobs, Looks(j) \/ Commands(j) \/ Changes(j) \/ GivesUp(j)
      PROVE  ScanInv'
      <2>1. /\ position \in Nat /\ checkpoint \in Nat
            /\ \/ credential' = credential /\ position' = position
               \/ position' = position + 1
            /\ checkpoint' = checkpoint /\ \A k \in Jobs : k # j => job'[k] = job[k]
            BY <1>1, PositionGrows, OnlyOneMoves
      <2>2. (checkpoint <= position)' /\ CheckpointCoversPending'
            BY <2>1 DEF ScanInv, CheckpointCoversPending, IsPending
      <2>3. ASSUME NEW w \in Workers  PROVE PassInv(w)'
            <3>1. CASE w # j
                  BY <2>1, <3>1, PassFrame DEF Jobs
            <3>2. CASE w = j
                  <4>1. j \in Workers /\ j \notin Requests  BY <3>2, JobsAssumption
                  <4>2. /\ PassInv(j) /\ job[j].position \in Nat /\ job[j].loaded \in Nat
                        BY <4>1, JobFields DEF ScanInv, Types
                  <4>3. KeepsPass(j)
                        BY <1>1, <4>1 DEF Looks, Commands, Changes, GivesUp, KeepsPass
                  <4>4. job'[j].pc = "save" => ~IsPending(credential')
                        BY <1>1, <4>1 DEF Looks, Commands, Changes, GivesUp, Quiet, To
                  <4>5. job'[j].pc # "idle" =>
                            job'[j].loaded < position' /\ job'[j].position <= position'
                        BY <2>1, <4>2, <4>3 DEF KeepsPass, PassInv, Running
                  <4>6. (job[j].pc = "save" /\ IsPending(credential))' =>
                            (job[j].position < position)'
                        BY <4>4 DEF IsPending
                  <4> QED BY <3>2, <4>5, <4>6 DEF PassInv, Running
            <3> QED BY <3>1, <3>2
      <2> QED BY <2>2, <2>3 DEF ScanInv
<1>2. ASSUME NEW w \in Workers, Save(w) \/ BackOff(w)
      PROVE  ScanInv'
      <2>1. w \in Jobs /\ PassInv(w) /\ Running(w)
            BY <1>2, CheckpointFacts DEF Jobs, ScanInv
      <2>2. /\ Alone(w) /\ To(w, "idle") /\ UNCHANGED <<credential, position>>
            /\ \/ checkpoint' = checkpoint
               \/ job[w].pc = "save" /\ checkpoint' = job[w].position
               \/ checkpoint' = job[w].loaded
            BY <1>2, CheckpointFacts
      <2>3. /\ position \in Nat /\ checkpoint \in Nat
            /\ job[w].position \in Nat /\ job[w].loaded \in Nat
            BY <2>1, JobFields DEF Types, TypeOK
      <2>4. (checkpoint <= position)' /\ CheckpointCoversPending'
            BY <2>1, <2>2, <2>3 DEF ScanInv, CheckpointCoversPending, PassInv, IsPending
      <2>5. ASSUME NEW v \in Workers  PROVE PassInv(v)'
            <3>1. CASE v # w
                  BY <2>2, <2>3, <3>1, PassFrame DEF Jobs, Alone
            <3>2. CASE v = w
                  BY <2>2, <3>2 DEF PassInv, Running, To
            <3> QED BY <3>1, <3>2
      <2> QED BY <2>4, <2>5 DEF ScanInv
<1>3. CASE LateStep
      <2>1. job' = job /\ UNCHANGED <<credential, position, checkpoint>>
            BY <1>3, LateFacts
      <2>2. \A w \in Workers : PassInv(w)'
            BY <2>1 DEF ScanInv, PassInv, Running, IsPending
      <2> QED BY <2>1, <2>2 DEF ScanInv, CheckpointCoversPending, IsPending
<1> QED BY <1>1, <1>2, <1>3, Steps

\* What is unreadable or destroyed stays so.
LEMMA KeptUnreadable ==
    ASSUME StoreKeeps, NEW n
    PROVE  (Unreadable(n) => Unreadable(n)') /\ (Purged(n) => Purged(n)')
BY DEF StoreKeeps, Unreadable, Purged

\* No step makes a version readable again (openbao_secret_store.rs).
LEMMA StoreNeverReverts ==
    ASSUME Types, Next
    PROVE  StoreKeeps
<1>1. store \in Versions  BY DEF Types, TypeOK
<1>2. store' = store => StoreKeeps
      BY VersionNumbers DEF StoreKeeps, Types
<1>3. store' = Write(store) => StoreKeeps  BY <1>1, WriteFacts
<1>4. \A upto \in Nat : store' = DeleteUpTo(store, upto) => StoreKeeps
      BY <1>1, DeleteFacts
<1>5. \A upto \in Nat : store' = DestroyUpTo(store, upto) => StoreKeeps
      BY <1>1, DestroyFacts
<1>6. ASSUME NEW j \in Jobs, Looks(j) \/ Commands(j) \/ Changes(j) \/ GivesUp(j)
      PROVE  StoreKeeps
      <2>1. job[j].upto \in Nat  BY JobFields DEF Types
      <2>2. job[j].pc = "apply" => job[j].op \in {"revoke", "destroy"}
            BY DEF Types, OpFits
      <2> QED BY <1>2, <1>3, <1>4, <1>5, <1>6, <2>1, <2>2
              DEF Looks, Commands, Changes, GivesUp
<1>7. ASSUME NEW w \in Workers, Save(w) \/ BackOff(w)
      PROVE  StoreKeeps
      BY <1>2, <1>7, CheckpointFacts
<1>8. CASE LateStep
      <2>1. late.destroys \subseteq Nat  BY DEF Types, TypeOK
      <2> QED BY <1>3, <1>4, <1>5, <1>8, <2>1, LateFacts
<1> QED BY <1>6, <1>7, <1>8, Steps

\* What another job relies on to close is kept.
LEMMA ClosingFrame ==
    ASSUME Types, StoreKeeps, NEW k \in Jobs, ClosingInv(k), job'[k] = job[k]
    PROVE  ClosingInv(k)'
<1>1. job[k].upto \in Nat /\ job[k].ref \in Nat  BY JobFields DEF Types
<1>2. job[k].upto <= Len(store) => job[k].upto <= Len(store')
      BY <1>1 DEF StoreKeeps
<1> QED BY <1>2, KeptUnreadable DEF ClosingInv

\* RevokedUnreadable holds of a credential nothing is decided about.
LEMMA RevokedFrame ==
    ASSUME StoreKeeps, RevokedUnreadable, credential' = credential
    PROVE  RevokedUnreadable'
<1> QED BY KeptUnreadable DEF RevokedUnreadable, Unreadable, Purged

Retired == {"Revoked", "DestroyRequested", "CleanupFailed", "Destroyed"}

\* A decision makes a revocation or a destruction definite only after OpenBao did.
LEMMA DecisionRevokes ==
    ASSUME Types, RevocationInv, NEW j \in Jobs, Decided(j), store' = store
    PROVE  RevokedUnreadable'
<1>1. /\ credential \in Credential /\ job[j].ref \in Nat /\ job[j].version \in Nat
      /\ credential.version \in Nat /\ credential.destroyed \in Nat
      BY JobFields DEF Types, TypeOK, Credential
<1>2. /\ credential.phase \in Retired => Unreadable(credential.version)
      /\ Purged(credential.destroyed) /\ ClosingInv(j)
      BY DEF RevocationInv, RevokedUnreadable, Unreadable, Purged, Retired
<1>3. SUFFICES ASSUME credential' # credential
               PROVE  /\ credential'.phase \in Retired => Unreadable(credential'.version)
                      /\ Purged(credential'.destroyed)
      BY <1>2 DEF RevokedUnreadable, Unreadable, Purged, Retired
<1>4. CASE credential' \in RequestWrite(credential)
      BY <1>1, <1>2, <1>4, RequestWriteFacts DEF Retired
<1>5. CASE credential' \in RequestRotation(credential, job[j].ref)
      BY <1>1, <1>2, <1>5, RequestRotationFacts DEF Retired
<1>6. CASE credential' \in RequestDestroy(credential, job[j].ref)
      BY <1>1, <1>2, <1>6, DestroyingFacts DEF Retired
<1>7. CASE credential' \in RecordWriteFailure(credential)
      BY <1>1, <1>2, <1>7, RecordWriteFailureFacts DEF Retired
<1>8. CASE credential' \in RecordRotationFailure(credential, job[j].ref)
      BY <1>1, <1>2, <1>8, RecordRotationFailureFacts DEF Retired
<1>9. CASE credential' \in RecordDestroyFailure(credential, job[j].ref)
      BY <1>1, <1>2, <1>9, DestroyingFacts DEF Retired
<1>10. CASE credential' \in ActivateWrite(credential, job[j].version, job[j].status)
      BY <1>1, <1>2, <1>10, ActivateWriteFacts DEF Retired
<1>11. CASE credential' \in ActivateRotation(credential, job[j].version, job[j].status)
      BY <1>1, <1>2, <1>11, ActivateRotationFacts DEF Retired
<1>12. CASE /\ job[j].pc = "close" /\ job[j].op = "destroy"
            /\ credential' \in CompleteDestroy(credential, job[j].ref)
      <2>1. Purged(job[j].ref)  BY <1>2, <1>12 DEF ClosingInv
      <2>2. Unreadable(job[j].ref)  BY <2>1 DEF Purged, Unreadable
      <2> QED BY <1>1, <1>12, <2>1, <2>2, CompleteDestroyFacts
<1>13. CASE /\ job[j].pc = "close" /\ job[j].op = "revoke"
            /\ credential' \in Revoke(credential, job[j].ref)
      <2>1. Unreadable(job[j].ref)  BY <1>2, <1>13 DEF ClosingInv
      <2> QED BY <1>1, <1>2, <1>13, <2>1, RevokeFacts
<1> QED BY <1>3, <1>4, <1>5, <1>6, <1>7, <1>8, <1>9, <1>10, <1>11, <1>12, <1>13 DEF Decided

\* A job records a revocation or a destruction only once OpenBao has executed it.
LEMMA ClosingMoves ==
    ASSUME Types, RevocationInv, StoreKeeps, NEW j \in Jobs,
           Looks(j) \/ Commands(j) \/ Changes(j) \/ GivesUp(j)
    PROVE  ClosingInv(j)'
<1>1. /\ ClosingInv(j) /\ job[j].ref \in Nat /\ job[j].upto \in Nat
      /\ store \in Versions /\ Len(store) \in Nat /\ DOMAIN store = 1..Len(store)
      BY JobFields, VersionNumbers DEF RevocationInv, Types, TypeOK
<1>2. CASE Looks(j)
      <2>1. store' = store  BY <1>2 DEF Looks
      <2>2. CASE job'[j].pc \notin {"apply", "close", "recheck"}
            BY <2>2 DEF ClosingInv
      <2>3. CASE /\ job'[j].pc = "apply" /\ job'[j].ref = job[j].ref
                 /\ job[j].ref \in DOMAIN store /\ job'[j].upto = Len(store)
            BY <1>1, <2>1, <2>3 DEF ClosingInv
      <2>4. CASE /\ job[j].pc = "recheck" /\ job'[j].pc = "close" /\ job'[j].ref = job[j].ref
                 /\ job[j].op = "revoke" /\ job'[j].op = "revoke"
            BY <1>1, <2>1, <2>4 DEF ClosingInv, Unreadable
      <2> QED BY <1>2, <2>2, <2>3, <2>4 DEF Looks, Quiet, To
<1>3. CASE Commands(j)
      <2>1. PICK pc \in {"idle", "post", "writable", "reload", "backoff", "bound",
                         "recheck", "save"} :
              /\ To(j, pc) /\ store' = store
              /\ pc = "recheck" => job[j].pc = "close" /\ job[j].op = "revoke"
            BY <1>3 DEF Commands
      <2> QED BY <1>1, <2>1 DEF ClosingInv, To, Unreadable
<1>4. CASE Changes(j)
      <2>1. CASE job'[j].pc \in {"metadata", "record"}
            BY <2>1 DEF ClosingInv
      <2>2. CASE /\ job[j].pc = "apply" /\ To(j, "close")
                 /\ job[j].op = "revoke" /\ store' = DeleteUpTo(store, job[j].upto)
            <3>1. Unreadable(job[j].ref)'
                  BY <1>1, <2>2, DeleteFacts DEF ClosingInv, Unreadable, To, StoreKeeps
            <3> QED BY <2>2, <3>1 DEF ClosingInv, To
      <2>3. CASE /\ job[j].pc = "apply" /\ To(j, "close")
                 /\ job[j].op = "destroy" /\ store' = DestroyUpTo(store, job[j].upto)
            <3>1. Purged(job[j].ref)'
                  BY <1>1, <2>3, DestroyFacts DEF ClosingInv, Purged, To, StoreKeeps
            <3> QED BY <2>3, <3>1 DEF ClosingInv, To
      <2>4. job[j].pc = "apply" => job[j].op \in {"revoke", "destroy"}
            BY DEF Types, OpFits
      <2> QED BY <1>4, <2>1, <2>2, <2>3, <2>4 DEF Changes
<1>5. CASE GivesUp(j)
      BY <1>5 DEF GivesUp, ClosingInv
<1> QED BY <1>2, <1>3, <1>4, <1>5

\* A retired credential stays unreadable.
LEMMA RevocationKept ==
    ASSUME Types, RevocationInv, Next
    PROVE  RevocationInv'
<1>1. StoreKeeps  BY StoreNeverReverts
<1>2. ASSUME NEW j \in Jobs, Looks(j) \/ Commands(j) \/ Changes(j) \/ GivesUp(j)
      PROVE  RevocationInv'
      <2>1. ASSUME NEW k \in Jobs  PROVE ClosingInv(k)'
            BY <1>1, <1>2, OnlyOneMoves, ClosingFrame, ClosingMoves DEF RevocationInv
      <2>2. RevokedUnreadable'
            <3>1. CASE Commands(j)
                  BY <3>1, DecisionRevokes DEF Commands
            <3>2. CASE credential' = credential
                  BY <1>1, <3>2, RevokedFrame DEF RevocationInv
            <3> QED BY <1>2, <3>1, <3>2 DEF Looks, Changes, GivesUp
      <2> QED BY <2>1, <2>2 DEF RevocationInv
<1>3. ASSUME NEW w \in Workers, Save(w) \/ BackOff(w)
      PROVE  RevocationInv'
      <2>1. Alone(w) /\ To(w, "idle") /\ credential' = credential
            BY <1>3, CheckpointFacts
      <2>2. ASSUME NEW k \in Jobs  PROVE ClosingInv(k)'
            <3>1. CASE k = w  BY <2>1, <3>1 DEF ClosingInv, To
            <3>2. CASE k # w
                  BY <1>1, <2>1, <3>2, ClosingFrame DEF RevocationInv, Alone
            <3> QED BY <3>1, <3>2
      <2> QED BY <1>1, <2>1, <2>2, RevokedFrame DEF RevocationInv
<1>4. CASE LateStep
      <2>1. job' = job /\ credential' = credential  BY <1>4, LateFacts
      <2>2. \A k \in Jobs : ClosingInv(k)'
            BY <1>1, <2>1, ClosingFrame DEF RevocationInv
      <2> QED BY <1>1, <2>1, <2>2, RevokedFrame DEF RevocationInv
<1> QED BY <1>2, <1>3, <1>4, Steps

\* Holding the lock excludes the other jobs of the process (lifecycle.rs).
LEMMA ExclusiveKept ==
    ASSUME Types, Exclusive, Next
    PROVE  Exclusive'
<1>1. ASSUME NEW j \in Jobs, Alone(j), home' = home,
             ~(Holds(j)') \/ Holds(j) \/ Free(j)
      PROVE  Exclusive'
      <2>1. \A k \in Jobs : k # j => Holds(k)' = Holds(k)
            BY <1>1 DEF Alone, Holds
      <2>2. \A k \in Jobs : k # j /\ home[j] = home[k] /\ Holds(j)' => ~Holds(k)
            BY <1>1 DEF Exclusive, Free
      <2> QED BY <1>1, <2>1, <2>2 DEF Exclusive
<1>2. ASSUME NEW j \in Jobs, Looks(j) \/ Commands(j) \/ Changes(j) \/ GivesUp(j)
      PROVE  Exclusive'
      <2>1. Alone(j) /\ home' = home  BY <1>2, OnlyOneMoves
      <2>2. ~(Holds(j)') \/ Holds(j) \/ Free(j)
            BY <1>2 DEF Looks, Commands, Changes, GivesUp, Holds
      <2> QED BY <1>1, <2>1, <2>2
<1>3. ASSUME NEW w \in Workers, Save(w) \/ BackOff(w)
      PROVE  Exclusive'
      <2>1. w \in Jobs /\ Alone(w) /\ home' = home /\ ~(Holds(w)')
            BY <1>3, CheckpointFacts DEF Jobs, To, Holds
      <2> QED BY <1>1, <2>1
<1>4. CASE LateStep
      <2>1. job' = job /\ home' = home  BY <1>4, LateFacts
      <2> QED BY <2>1 DEF Exclusive, Holds
<1> QED BY <1>2, <1>3, <1>4, Steps

-----------------------------------------------------------------------------
(* Within one process, whoever holds the lock can rely on what it knows. *)

\* What is destroyed below u leaves a version that is not, above it.
LEMMA LateSpares ==
    ASSUME Types, StoreKeeps, NEW u \in Nat, Purged(u), store' = DestroyUpTo(store, u),
           NEW v \in DOMAIN store, store[v] # "destroyed"
    PROVE  v \in DOMAIN store' /\ store'[v] # "destroyed"
<1>1. store \in Versions /\ v \in Nat /\ v >= 1
      BY VersionNumbers DEF Types, TypeOK
<1>2. v > u  BY <1>1 DEF Purged
<1> QED BY <1>1, <1>2, DestroyFacts DEF StoreKeeps

\* Calls before which HolderInv says nothing.
LEMMA NothingHeld ==
    ASSUME NEW j \in Jobs, job[j].pc \notin {"bound", "apply", "close", "walk", "activate"}
    PROVE  HolderInv(j)
BY DEF HolderInv

\* What the holder knows does not depend on what does not change.
LEMMA HolderFrame ==
    ASSUME NEW k \in Jobs, HolderInv(k),
           UNCHANGED <<credential, store, late>>, job'[k] = job[k]
    PROVE  HolderInv(k)'
BY DEF HolderInv, At, IsPending, Purged

\* A destruction a job left behind, or not, names versions that exist.
LEMMA GivingUpIsLate ==
    ASSUME Types, RevocationInv, LateInv, NEW j \in Jobs, HolderInv(j), GivesUp(j)
    PROVE  LateInv'
<1>1. /\ job[j].upto \in Nat /\ late.destroys \subseteq Nat
      /\ job[j].pc = "apply" => job[j].upto <= Len(store)
      BY JobFields DEF Types, TypeOK, RevocationInv, ClosingInv
<1>2. /\ store' = store /\ credential' = credential
      /\ \/ late'.destroys = late.destroys
         \/ /\ job[j].pc = "apply" /\ job[j].op = "destroy"
            /\ late'.destroys = late.destroys \cup {job[j].upto}
      BY LeftBehindFacts DEF GivesUp
<1>3. CASE late'.destroys = late.destroys
      BY <1>2, <1>3 DEF LateInv, Purged
<1>4. CASE /\ job[j].pc = "apply" /\ job[j].op = "destroy"
           /\ late'.destroys = late.destroys \cup {job[j].upto}
      <2>1. credential.phase \in Destroying  BY <1>4 DEF HolderInv, At, Destroying
      <2> QED BY <1>1, <1>2, <1>4, <2>1 DEF LateInv
<1> QED BY <1>2, <1>3, <1>4

\* A command keeps what is known of late destructions and of the version in use.
LEMMA DecisionKeepsLock ==
    ASSUME Types, LateInv, UsableInv, NEW j \in Jobs, HolderInv(j), Decided(j),
           UNCHANGED <<store, late>>
    PROVE  LateInv' /\ UsableInv'
<1>1. /\ credential \in Credential /\ job[j].ref \in Nat /\ job[j].version \in Nat
      BY JobFields DEF Types, TypeOK
<1>2. SUFFICES /\ credential'.phase \notin Destroying => \A u \in late.destroys : Purged(u)
               /\ IsUsable(credential') =>
                     /\ credential'.version \in DOMAIN store
                     /\ store[credential'.version] # "destroyed"
      BY DEF LateInv, UsableInv, Purged, IsUsable
<1>3. CASE credential' = credential
      BY <1>3 DEF LateInv, UsableInv
<1>4. CASE credential' \in RequestWrite(credential)
      BY <1>1, <1>4, RequestWriteFacts DEF LateInv, Destroying, IsUsable
<1>5. CASE credential' \in RequestRotation(credential, job[j].ref)
      BY <1>1, <1>5, RequestRotationFacts DEF LateInv, UsableInv, Destroying, IsUsable
<1>6. CASE \/ credential' \in RequestDestroy(credential, job[j].ref)
           \/ credential' \in RecordDestroyFailure(credential, job[j].ref)
      BY <1>1, <1>6, DestroyingFacts DEF Destroying, IsUsable
<1>7. CASE credential' \in RecordWriteFailure(credential)
      BY <1>1, <1>7, RecordWriteFailureFacts DEF LateInv, Destroying, IsUsable
<1>8. CASE credential' \in RecordRotationFailure(credential, job[j].ref)
      BY <1>1, <1>8, RecordRotationFailureFacts DEF LateInv, UsableInv, Destroying, IsUsable
<1>9. CASE /\ job[j].pc = "activate"
           /\ \/ credential' \in ActivateWrite(credential, job[j].version, job[j].status)
              \/ credential' \in ActivateRotation(credential, job[j].version, job[j].status)
      <2>1. /\ credential.phase \in {"PendingWrite", "RotationPending"}
            /\ job[j].status = "Active" /\ credential'.version = job[j].version
            BY <1>1, <1>9, ActivateWriteFacts, ActivateRotationFacts
      <2>2. job[j].version \in DOMAIN store /\ store[job[j].version] # "destroyed"
            BY <1>9, <2>1 DEF HolderInv, IsPending
      <2> QED BY <2>1, <2>2 DEF LateInv, Destroying
<1>10. CASE /\ job[j].pc = "close" /\ job[j].op = "destroy"
            /\ credential' \in CompleteDestroy(credential, job[j].ref)
      <2>1. \A u \in late.destroys : Purged(u)  BY <1>10 DEF HolderInv
      <2> QED BY <1>1, <1>10, <2>1, CompleteDestroyFacts DEF IsUsable
<1>11. CASE credential' \in Revoke(credential, job[j].ref)
      BY <1>1, <1>11, RevokeFacts DEF LateInv, Destroying, IsUsable
<1> QED BY <1>3, <1>4, <1>5, <1>6, <1>7, <1>8, <1>9, <1>10, <1>11 DEF Decided

\* So does a change of the versions.
LEMMA ChangeKeepsLock ==
    ASSUME Types, RevocationInv, StoreKeeps, LateInv, UsableInv, NEW j \in Jobs,
           HolderInv(j), Changes(j)
    PROVE  LateInv' /\ UsableInv' /\ HolderInv(j)'
<1>1. /\ store \in Versions /\ job[j].upto \in Nat /\ late.destroys \subseteq Nat
      /\ Len(store) \in Nat /\ Len(store') \in Nat /\ Len(store) <= Len(store')
      /\ DOMAIN store = 1..Len(store)
      BY JobFields, VersionNumbers DEF Types, TypeOK, StoreKeeps
<1>2. credential' = credential /\ late'.destroys = late.destroys  BY DEF Changes
<1>3. LateInv'
      BY <1>1, <1>2, KeptUnreadable DEF LateInv
<1>4. CASE /\ job'[j].pc \in {"metadata", "record"}
           /\ store' = Write(store) \/ store' = store
      <2>1. HolderInv(j)'  BY <1>4 DEF HolderInv
      <2>2. \A v \in DOMAIN store : v \in DOMAIN store' /\ store'[v] = store[v]
            BY <1>1, <1>4, WriteFacts DEF StoreKeeps
      <2>3. UsableInv'  BY <1>2, <2>2 DEF UsableInv, IsUsable
      <2> QED BY <1>3, <2>1, <2>3
<1>5. CASE job[j].pc = "apply" /\ To(j, "close") /\ job[j].op = "revoke"
      <2>1. store' = DeleteUpTo(store, job[j].upto)  BY <1>5 DEF Changes, To
      <2>2. HolderInv(j)'  BY <1>5 DEF HolderInv, To
      <2>3. \A v \in DOMAIN store : v \in DOMAIN store'
                /\ (store'[v] = "destroyed" => store[v] = "destroyed")
            BY <1>1, <2>1, DeleteFacts DEF StoreKeeps
      <2>4. UsableInv'  BY <1>2, <2>3 DEF UsableInv, IsUsable
      <2> QED BY <1>3, <2>2, <2>4
<1>6. CASE job[j].pc = "apply" /\ To(j, "close") /\ job[j].op = "destroy"
      <2>1. store' = DestroyUpTo(store, job[j].upto)  BY <1>6 DEF Changes, To
      <2>2. /\ At(credential, {"DestroyRequested"}, job[j].ref)
            /\ \A u \in late.destroys : u <= job[j].upto
            BY <1>6 DEF HolderInv
      <2>3. job[j].upto <= Len(store)  BY <1>6 DEF RevocationInv, ClosingInv
      <2>4. \A u \in late.destroys : Purged(u)'
            BY <1>1, <2>1, <2>2, <2>3, DestroyFacts DEF Purged, StoreKeeps
      <2>5. HolderInv(j)'
            BY <1>2, <1>6, <2>2, <2>4 DEF HolderInv, To, At
      <2>6. UsableInv'  BY <1>2, <2>2 DEF UsableInv, IsUsable, At
      <2> QED BY <1>3, <2>5, <2>6
<1>7. job[j].pc = "apply" => job[j].op \in {"revoke", "destroy"}
      BY DEF Types, OpFits
<1> QED BY <1>4, <1>5, <1>6, <1>7 DEF Changes

\* What a job comes to know by reading, commanding or giving up.
LEMMA HolderMoves ==
    ASSUME Types, LateInv, NEW j \in Jobs, HolderInv(j),
           Looks(j) \/ Commands(j) \/ GivesUp(j)
    PROVE  HolderInv(j)'
<1>1. CASE job'[j].pc \notin {"bound", "apply", "close", "walk", "activate"}
      BY <1>1 DEF HolderInv
<1>2. CASE Looks(j)
      <2>1. UNCHANGED <<credential, store, late>>  BY <1>2 DEF Looks
      <2>2. CASE /\ job'[j].pc = "bound"
                 /\ job'[j].op = "destroy" => At(credential, {"DestroyRequested"}, job'[j].ref)
            BY <2>1, <2>2 DEF HolderInv, At
      <2>3. CASE /\ job[j].pc = "bound" /\ job'[j].pc = "apply" /\ job'[j].op = job[j].op
                 /\ job'[j].ref = job[j].ref /\ job'[j].upto = Len(store)
            BY <2>1, <2>3 DEF HolderInv, LateInv, At
      <2>4. CASE job'[j].pc = "close" /\ job'[j].op = "revoke"
            BY <2>4 DEF HolderInv
      <2>5. CASE job'[j].pc \in {"activate", "walk"} /\ Found(j)
            BY <2>1, <2>5 DEF HolderInv, Found
      <2>6. CASE job[j].pc = "walk" /\ To(j, "activate")
            BY <2>1, <2>6 DEF HolderInv, To, IsPending
      <2> QED BY <1>1, <1>2, <2>2, <2>3, <2>4, <2>5, <2>6 DEF Looks, Quiet
<1>3. CASE Commands(j)
      <2>1. PICK pc \in {"idle", "post", "writable", "reload", "backoff", "bound",
                         "recheck", "save"} :
              /\ To(j, pc)
              /\ pc = "bound" =>
                    job[j].op = "destroy" /\ credential' \in RequestDestroy(credential, job[j].ref)
            BY <1>3 DEF Commands
      <2>2. CASE pc = "bound"
            <3>1. credential \in Credential /\ job[j].ref \in Nat
                  BY JobFields DEF Types, TypeOK
            <3>2. At(credential', {"DestroyRequested"}, job'[j].ref)
                  BY <2>1, <2>2, <3>1, DestroyingFacts DEF At, To
            <3> QED BY <2>1, <2>2, <3>2 DEF HolderInv, To, At
      <2> QED BY <1>1, <2>1, <2>2 DEF To
<1> QED BY <1>1, <1>2, <1>3 DEF GivesUp

\* The lock covers what its holder relies on, and late destructions spare what
\* is in use: as long as the gateway is one process.
LEMMA LockKept ==
    ASSUME Types, RevocationInv, Exclusive, LockInv, Next
    PROVE  LockInv'
<1>1. home' = home  BY Steps, OnlyOneMoves, CheckpointFacts, LateFacts
<1>2. SUFFICES ASSUME OneProcess
               PROVE  LateInv' /\ (\A k \in Jobs : HolderInv(k)') /\ UsableInv'
      BY <1>1 DEF LockInv, OneProcess
<1>3. LateInv /\ (\A k \in Jobs : HolderInv(k)) /\ UsableInv /\ StoreKeeps
      BY <1>2, StoreNeverReverts DEF LockInv
<1>4. ASSUME NEW j \in Jobs, Holds(j), Alone(j), NEW k \in Jobs, k # j
      PROVE  HolderInv(k)'
      <2>1. ~Holds(k) /\ job'[k] = job[k]
            BY <1>2, <1>4 DEF Exclusive, OneProcess, Alone
      <2> QED BY <2>1 DEF HolderInv, Holds
<1>5. ASSUME NEW j \in Jobs, Looks(j)
      PROVE  LateInv' /\ (\A k \in Jobs : HolderInv(k)') /\ UsableInv'
      <2>1. UNCHANGED <<credential, store, late>> /\ Alone(j)  BY <1>5 DEF Looks
      <2>2. HolderInv(j)'  BY <1>3, <1>5, HolderMoves
      <2>3. \A k \in Jobs : k # j => HolderInv(k)'
            BY <1>3, <2>1, HolderFrame DEF Alone
      <2> QED BY <1>3, <2>1, <2>2, <2>3 DEF LateInv, UsableInv, Purged, IsUsable
<1>6. ASSUME NEW j \in Jobs, Commands(j)
      PROVE  LateInv' /\ (\A k \in Jobs : HolderInv(k)') /\ UsableInv'
      <2>1. Holds(j) /\ Alone(j) /\ Decided(j) /\ UNCHANGED <<store, late>>
            BY <1>6 DEF Commands
      <2>2. HolderInv(j)'  BY <1>3, <1>6, HolderMoves
      <2>3. \A k \in Jobs : k # j => HolderInv(k)'  BY <1>4, <2>1
      <2> QED BY <1>3, <2>1, <2>2, <2>3, DecisionKeepsLock
<1>7. ASSUME NEW j \in Jobs, Changes(j)
      PROVE  LateInv' /\ (\A k \in Jobs : HolderInv(k)') /\ UsableInv'
      <2>1. Holds(j) /\ Alone(j)  BY <1>7 DEF Changes
      <2>2. \A k \in Jobs : k # j => HolderInv(k)'  BY <1>4, <2>1
      <2> QED BY <1>3, <1>7, <2>2, ChangeKeepsLock
<1>8. ASSUME NEW j \in Jobs, GivesUp(j)
      PROVE  LateInv' /\ (\A k \in Jobs : HolderInv(k)') /\ UsableInv'
      <2>1. UNCHANGED <<credential, store>> /\ Alone(j)  BY <1>8 DEF GivesUp
      <2>2. LateInv'  BY <1>3, <1>8, GivingUpIsLate
      <2>3. UsableInv'  BY <1>3, <2>1 DEF UsableInv, IsUsable
      <2>4. HolderInv(j)'  BY <1>3, <1>8, HolderMoves
      <2>5. CASE Holds(j)
            BY <1>4, <2>1, <2>2, <2>3, <2>4, <2>5
      <2>6. CASE ~Holds(j)
            <3>1. LeftBehind(j) = late
                  BY Zenon, <2>6 DEF LeftBehind, Holds
            <3>2. late' = late  BY <1>8, <3>1 DEF GivesUp
            <3>3. \A k \in Jobs : k # j => HolderInv(k)'
                  BY <1>3, <2>1, <3>2, HolderFrame DEF Alone
            <3> QED BY <2>2, <2>3, <2>4, <3>3
      <2> QED BY <2>5, <2>6
<1>9. ASSUME NEW w \in Workers, Save(w) \/ BackOff(w)
      PROVE  LateInv' /\ (\A k \in Jobs : HolderInv(k)') /\ UsableInv'
      <2>1. /\ w \in Jobs /\ Alone(w) /\ To(w, "idle")
            /\ UNCHANGED <<credential, store, late>>
            BY <1>9, CheckpointFacts DEF Jobs
      <2>2. HolderInv(w)'  BY <2>1 DEF HolderInv, To
      <2>3. \A k \in Jobs : k # w => HolderInv(k)'
            BY <1>3, <2>1, HolderFrame DEF Alone
      <2> QED BY <1>3, <2>1, <2>2, <2>3 DEF LateInv, UsableInv, Purged, IsUsable
<1>10. CASE LateStep
      <2>1. /\ job' = job /\ credential' = credential
            /\ late'.destroys \subseteq late.destroys
            /\ \/ store' = Write(store)
               \/ \E upto \in Nat : store' = DeleteUpTo(store, upto)
               \/ \E upto \in late.destroys : store' = DestroyUpTo(store, upto)
            BY <1>10, LateFacts
      <2>2. store \in Versions /\ late.destroys \subseteq Nat
            BY DEF Types, TypeOK
      <2>3. LateInv'
            BY <1>3, <2>1, <2>2, KeptUnreadable DEF LateInv, StoreKeeps
      <2>4. ASSUME credential.phase \notin Destroying,
                   NEW v \in DOMAIN store, store[v] # "destroyed"
            PROVE  v \in DOMAIN store' /\ store'[v] # "destroyed"
            <3>1. CASE store' = Write(store)
                  BY <2>2, <2>4, <3>1, WriteFacts DEF StoreKeeps
            <3>2. CASE \E upto \in Nat : store' = DeleteUpTo(store, upto)
                  BY <1>3, <2>2, <2>4, <3>2, DeleteFacts DEF StoreKeeps
            <3>3. CASE \E upto \in late.destroys : store' = DestroyUpTo(store, upto)
                  BY <1>3, <2>2, <2>4, <3>3, LateSpares DEF LateInv
            <3> QED BY <2>1, <3>1, <3>2, <3>3
      <2>5. UsableInv'
            BY <1>3, <2>1, <2>4 DEF UsableInv, IsUsable, Destroying
      <2>6. ASSUME NEW k \in Jobs  PROVE HolderInv(k)'
            <3>1. /\ \A u \in late'.destroys : u \in late.destroys
                  /\ HolderInv(k) /\ job'[k] = job[k]
                  BY <1>3, <2>1
            <3>2. (job[k].pc \in {"walk", "activate"} /\ job[k].status = "Active"
                       /\ IsPending(credential)) =>
                     job[k].version \in DOMAIN store' /\ store'[job[k].version] # "destroyed"
                  BY <2>4, <3>1 DEF HolderInv, IsPending, Destroying
            <3>3. job[k].op = "destroy" /\ job[k].pc = "close" =>
                     \A u \in late'.destroys : Purged(u)'
                  BY <1>3, <3>1, KeptUnreadable DEF HolderInv
            <3> QED BY <2>1, <3>1, <3>2, <3>3 DEF HolderInv, At, IsPending
      <2> QED BY <2>3, <2>5, <2>6
<1> QED BY <1>5, <1>6, <1>7, <1>8, <1>9, <1>10, Steps

-----------------------------------------------------------------------------
(* The theorems. *)

\* A credential nobody has written yet.
LEMMA InitFacts ==
    ASSUME Init
    PROVE  Inv
<1>1. Idle \in Job /\ Idle.pc = "idle"
      BY DEF Idle, Job, NoVersion
<1>2. job \in [Jobs -> Job] /\ \A j \in Jobs : job[j].pc = "idle"
      BY <1>1 DEF Init
<1>3. credential \in Credential /\ credential.phase = "Missing" /\ credential.destroyed = 0
      BY DEF Init, InitialCredential, Credential, Phases, NoVersion
<1>4. /\ store = <<>> /\ store \in Versions /\ late.destroys = {}
      /\ late \in [writes : Nat, deletes : SUBSET Nat, destroys : SUBSET Nat]
      BY DEF Init, Versions
<1>5. Types
      <2>1. TypeOK  BY <1>2, <1>3, <1>4, JobsAssumption DEF Init, TypeOK
      <2> QED BY <1>2, <2>1 DEF Types, OpFits
<1>6. ScanInv
      BY <1>2, <1>3, JobsAssumption
         DEF Init, ScanInv, CheckpointCoversPending, IsPending, PassInv, Running, Jobs
<1>7. RevocationInv
      BY <1>2, <1>3 DEF RevocationInv, RevokedUnreadable, ClosingInv
<1>8. Exclusive
      BY <1>2 DEF Exclusive, Holds
<1>9. LockInv
      BY <1>2, <1>3, <1>4 DEF LockInv, LateInv, HolderInv, UsableInv, IsUsable
<1> QED BY <1>5, <1>6, <1>7, <1>8, <1>9 DEF Inv

\* Every step keeps the invariant, and so does taking none.
LEMMA NextFacts ==
    ASSUME Inv, [Next]_vars
    PROVE  Inv'
<1>1. CASE Next
      BY <1>1, Steps, ScanKept, RevocationKept, ExclusiveKept, LockKept DEF Inv
<1>2. CASE UNCHANGED vars
      <2>1. UNCHANGED <<home, credential, position, store, late, job, checkpoint,
                        requests, faults>>
            BY <1>2 DEF vars
      <2>2. Types'  BY <2>1 DEF Inv, Types, TypeOK, OpFits
      <2>3. ScanInv'
            BY <2>1 DEF Inv, ScanInv, CheckpointCoversPending, PassInv, Running
      <2>4. RevocationInv'
            BY <2>1 DEF Inv, RevocationInv, RevokedUnreadable, ClosingInv, Unreadable, Purged
      <2>5. Exclusive'  BY <2>1 DEF Inv, Exclusive, Holds
      <2>6. LockInv'
            BY <2>1 DEF Inv, LockInv, OneProcess, LateInv, HolderInv, UsableInv, Purged
      <2> QED BY <2>2, <2>3, <2>4, <2>5, <2>6 DEF Inv
<1> QED BY <1>1, <1>2

\* The invariant holds of every behaviour, for any number of requests, workers
\* and processes, any number of failures and any history in OpenBao.
THEOREM Invariance == Spec => []Inv
<1>1. Init => Inv  BY InitFacts
<1>2. Inv /\ [Next]_vars => Inv'  BY NextFacts
<1> QED BY <1>1, <1>2, PTL DEF Spec

\* TypeOK: every variable keeps its type (credential_lifecycle/handler.rs,
\* recovery_worker.rs).
THEOREM TypeCorrect == Spec => []TypeOK
<1>1. Inv => TypeOK  BY DEF Inv, Types
<1> QED BY <1>1, Invariance, PTL

\* RevokedUnreadable: a credential recorded as revoked cannot be read, one
\* recorded as destroyed cannot be restored, however requests, retries, late calls
\* and processes interleave (handler.rs, openbao_secret_store.rs).
THEOREM RevokedIsUnreadable == Spec => []RevokedUnreadable
<1>1. Inv => RevokedUnreadable  BY DEF Inv, RevocationInv
<1> QED BY <1>1, Invariance, PTL

\* CheckpointCoversPending: no pass of any worker moves the checkpoint past the
\* event that left the credential pending (recovery_worker.rs).
THEOREM CheckpointCovers == Spec => []CheckpointCoversPending
<1>1. Inv => CheckpointCoversPending  BY DEF Inv, ScanInv
<1> QED BY <1>1, Invariance, PTL

\* VersionsNotReused: within one process a credential in use names a version that
\* was written, is not destroyed and is newer than all destroyed before (lifecycle.rs).
THEOREM VersionsAreNew == Spec => []VersionsNotReused
<1>1. ASSUME Inv  PROVE VersionsNotReused
      <2>1. SUFFICES ASSUME OneProcess, IsUsable(credential)
                     PROVE  /\ credential.version \in DOMAIN store
                            /\ store[credential.version] # "destroyed"
                            /\ credential.version > credential.destroyed
            BY DEF VersionsNotReused
      <2>2. /\ credential.version \in DOMAIN store
            /\ store[credential.version] # "destroyed"
            BY <1>1, <2>1 DEF Inv, LockInv, UsableInv
      <2>3. \A n \in 1..credential.destroyed : store[n] = "destroyed"
            BY <1>1 DEF Inv, RevocationInv, RevokedUnreadable
      <2>4. credential.version \in Nat /\ credential.destroyed \in Nat
            BY <1>1 DEF Inv, Types, TypeOK, Credential
      <2>5. credential.version >= 1
            BY <1>1, <2>2, <2>4, VersionNumbers DEF Inv, Types
      <2> QED BY <2>2, <2>3, <2>4, <2>5
<1> QED BY <1>1, Invariance, PTL

=============================================================================
