---------------------- MODULE CredentialProjectionProofs ----------------------
(***************************************************************************)
(* Proofs about CredentialProjection, for any credentials, handlers,       *)
(* resolvers and bounds.                                                   *)
(***************************************************************************)
EXTENDS CredentialProjection, TLAPS

-----------------------------------------------------------------------------
(* The credential stream. *)

\* The state a command leads to is a state of a credential.
LEMMA BecomesFacts ==
    ASSUME NEW c \in Credential, NEW accepted, NEW phase \in Phases, NEW version \in Nat,
           NEW d \in Becomes(c, accepted, phase, version)
    PROVE  d \in Credential
BY DEF Becomes, Credential

\* Whatever the next event of a credential is, it leads to one.
LEMMA NextStatesFacts ==
    ASSUME NEW c \in Credential, NEW versions \in SUBSET Nat, NEW d \in NextStates(c, versions)
    PROVE  d \in Credential
<1>0. /\ c.version \in Nat /\ NoVersion \in Nat
      /\ {"PendingWrite", "Active", "WriteFailed", "RotationPending", "Revoked",
          "DestroyRequested", "Destroyed", "CleanupFailed"} \subseteq Phases
      BY DEF Credential, NoVersion, Phases
<1>1. CASE d \in RequestWrite(c)  BY <1>0, <1>1, BecomesFacts DEF RequestWrite
<1>2. CASE d \in Activations(c, versions)
      <2>1. PICK v \in versions :
                d \in ActivateWrite(c, v, "Active") \cup ActivateRotation(c, v, "Active")
            BY <1>2 DEF Activations
      <2>2. CASE d \in ActivateWrite(c, v, "Active")
            BY <1>0, <2>2, BecomesFacts DEF ActivateWrite
      <2>3. CASE d \in ActivateRotation(c, v, "Active")
            BY <1>0, <2>3, BecomesFacts DEF ActivateRotation
      <2>. QED  BY <2>1, <2>2, <2>3
<1>3. CASE d \in RecordWriteFailure(c)  BY <1>0, <1>3, BecomesFacts DEF RecordWriteFailure
<1>4. CASE d \in RequestRotation(c, c.version)
      BY <1>0, <1>4, BecomesFacts DEF RequestRotation
<1>5. CASE d \in RecordRotationFailure(c, c.version)
      BY <1>0, <1>5, BecomesFacts DEF RecordRotationFailure
<1>6. CASE d \in Revoke(c, c.version)  BY <1>0, <1>6, BecomesFacts DEF Revoke
<1>7. CASE d \in RequestDestroy(c, c.version)
      BY <1>0, <1>7, BecomesFacts DEF RequestDestroy
<1>8. CASE d \in CompleteDestroy(c, c.version)
      <2>1. PICK e \in Becomes(c, At(c, {"DestroyRequested"}, c.version), "Destroyed", c.version) :
                d = [e EXCEPT !.destroyed = c.version]
            BY <1>8 DEF CompleteDestroy
      <2>2. e \in Credential  BY <1>0, <2>1, BecomesFacts
      <2>. QED  BY <1>0, <2>1, <2>2 DEF Credential
<1>9. CASE d \in RecordDestroyFailure(c, c.version)
      BY <1>0, <1>9, BecomesFacts DEF RecordDestroyFailure
<1>. QED  BY <1>1, <1>2, <1>3, <1>4, <1>5, <1>6, <1>7, <1>8, <1>9 DEF NextStates

\* The types of the stream's part of the state.
StreamType ==
    /\ log \in Seq([id : Ids, state : Credential])
    /\ credential \in [Ids -> Credential]
    /\ written \in [Ids -> Nat]

\* An event names a credential and carries a state of it.
LEMMA EventFacts ==
    ASSUME StreamType, NEW p \in DOMAIN log
    PROVE  /\ p \in Nat /\ log[p].id \in Ids
           /\ log[p].state \in Credential /\ log[p].state.version \in Nat
<1>1. \A S : \A s \in Seq(S) : \A i \in DOMAIN s : i \in Nat /\ s[i] \in S
      OBVIOUS
<1>2. p \in Nat /\ log[p] \in [id : Ids, state : Credential]
      BY <1>1 DEF StreamType
<1>3. log[p].id \in Ids /\ log[p].state \in Credential
      BY <1>2
<1>. QED  BY <1>2, <1>3 DEF Credential

\* Every event keeps the stream's types, and leaves the events before it.
LEMMA StoresKeeps ==
    ASSUME StreamType, NEW id \in Ids, Stores(id)
    PROVE  /\ StreamType'
           /\ Len(log') = Len(log) + 1
           /\ \A p \in DOMAIN log : p \in DOMAIN log' /\ log'[p] = log[p]
<1>1. PICK d \in NextStates(credential[id], 1..(written[id] + 1)) :
          /\ log' = Append(log, [id |-> id, state |-> d])
          /\ credential' = [credential EXCEPT ![id] = d]
          /\ written' = IF d.version > written[id]
                        THEN [written EXCEPT ![id] = d.version] ELSE written
      BY DEF Stores
<1>2. credential[id] \in Credential /\ 1..(written[id] + 1) \in SUBSET Nat
      BY DEF StreamType
<1>3. d \in Credential /\ d.version \in Nat
      <2>1. d \in Credential  BY <1>1, <1>2, NextStatesFacts
      <2>. QED  BY <2>1 DEF Credential
<1>4. /\ Len(log') = Len(log) + 1 /\ Len(log) \in Nat
      /\ DOMAIN log = 1..Len(log) /\ DOMAIN log' = 1..(Len(log) + 1)
      /\ \A p \in DOMAIN log : log'[p] = log[p]
      BY <1>1 DEF StreamType
<1>5. StreamType'  BY <1>1, <1>3 DEF StreamType
<1>. QED  BY <1>4, <1>5

-----------------------------------------------------------------------------
(* The inductive invariant. *)

RegistryType ==
    /\ table \subseteq Refs /\ cache \subseteq Refs
    /\ applied \in [Ids -> Nat] /\ cursor \in Nat

WorkType ==
    /\ pass \in [pc : {"idle", "pass"}, changed : SUBSET Ids, upto : Nat, failed : BOOLEAN]
    /\ job \in [Appliers -> [pc : {"idle", "apply", "evict", "invalidate"},
                             position : Nat, affected : SUBSET Refs]]
    /\ faults \in Nat

Places == [pc : {"idle", "cache", "store", "put"}, ref : Refs \cup {NoResolve.ref},
           revoked : BOOLEAN]
ResolverType == resolver \in [Resolvers -> Places]

\* What is being applied, or evicted, is an event of the stream.
JobsHold ==
    \A a \in Appliers : job[a].pc \in {"apply", "evict"} => job[a].position \in DOMAIN log

\* What is being resolved is a credential, and none that was revoked.
ResolvesHold == \A r \in Resolvers : resolver[r].pc # "idle" => resolver[r].ref \in Refs
ResolverInv == ResolvesHold /\ RevokedNotServed

\* The event is taken in, or the pass still has to.
Covered(p) ==
    \/ p <= applied[log[p].id]
    \/ log[p].id \in pass.changed
    \/ /\ job[Worker].pc = "apply"
       /\ log[job[Worker].position].id = log[p].id /\ p <= job[Worker].position

PassCovers ==
    /\ cursor <= Len(log) /\ pass.upto <= Len(log)
    /\ pass.pc = "pass" /\ ~pass.failed /\ OneOwner => \A p \in 1..pass.upto : Covered(p)

Types == StreamType /\ RegistryType /\ WorkType /\ ResolverType

Inv ==
    /\ Types /\ JobsHold
    /\ PublishedIsApplied /\ ResolverInv
    /\ CursorCoversApplied /\ PassCovers

\* The parts of the type invariant are all of it.
LEMMA TypesAreTypeOK == Types <=> TypeOK
BY DEF Types, StreamType, RegistryType, WorkType, ResolverType, Places, TypeOK

\* The invariant holds before anything happened.
LEMMA InitInv == Init => Inv
<1> SUFFICES ASSUME Init PROVE Inv  OBVIOUS
<1> USE DEF Init
<1>1. InitialCredential \in Credential
      BY DEF InitialCredential, Credential, Phases, NoVersion
<1>2. Len(log) = 0 /\ DOMAIN log = {}  OBVIOUS
<1>3. StreamType /\ RegistryType
      BY <1>1 DEF StreamType, RegistryType, NothingApplied
<1>4. WorkType
      BY DEF WorkType, NoPass, NoJobs, NoJob
<1>5. ResolverType
      BY DEF ResolverType, Places, NoResolves, NoResolve
<1>6. JobsHold  BY DEF JobsHold, NoJobs, NoJob
<1>7. PublishedIsApplied  BY DEF PublishedIsApplied
<1>8. ResolverInv  BY DEF ResolverInv, ResolvesHold, RevokedNotServed, NoResolves, NoResolve
<1>9. CursorCoversApplied  BY DEF CursorCoversApplied
<1>10. PassCovers  BY <1>2 DEF PassCovers, NoPass
<1>. QED  BY <1>3, <1>4, <1>5, <1>6, <1>7, <1>8, <1>9, <1>10 DEF Inv, Types

-----------------------------------------------------------------------------
(* What a longer stream leaves as it was. *)

\* The stream only grows, and the events it had stay.
Grows ==
    /\ StreamType' /\ Len(log) <= Len(log')
    /\ \A p \in DOMAIN log : p \in DOMAIN log' /\ log'[p] = log[p]

\* An event appended by anyone grows the stream.
LEMMA StoresGrows ==
    ASSUME Inv, NEW id \in Ids, Stores(id)
    PROVE  Grows /\ Len(log') = Len(log) + 1
<1>1. StreamType /\ Len(log) \in Nat  BY DEF Inv, Types, StreamType
<1>. QED  BY <1>1, StoresKeeps DEF Grows

\* So does a step that leaves it alone.
LEMMA SameGrows ==
    ASSUME Inv, UNCHANGED streamVars
    PROVE  Grows
<1>1. Len(log) \in Nat  BY DEF Inv, Types, StreamType
<1>. QED  BY <1>1 DEF Inv, Types, Grows, streamVars, StreamType

\* The positions of a credential remain its positions.
LEMMA DomainFacts ==
    ASSUME Inv, Grows
    PROVE  /\ Len(log) \in Nat /\ Len(log') \in Nat
           /\ DOMAIN log = 1..Len(log) /\ DOMAIN log' = 1..Len(log')
BY DEF Inv, Types, Grows, StreamType

\* Resolvers keep what they resolve; a version that the longer stream does not bring
\* back was not brought back before.
LEMMA ResolversKept ==
    ASSUME Inv, Grows, resolver' = resolver
    PROVE  ResolverType' /\ ResolverInv'
<1>1. ResolverType' /\ ResolvesHold'
      BY DEF Inv, Types, ResolverType, ResolverInv, ResolvesHold
<1>2. VersionsFresh' => VersionsFresh  BY DEF VersionsFresh, Grows
<1>3. RevokedNotServed'  BY <1>2 DEF RevokedNotServed, Inv, ResolverInv
<1>. QED  BY <1>1, <1>3 DEF ResolverInv

\* Credentials published before, with nothing newly applied, stay justified.
LEMMA PublishedKept ==
    ASSUME Inv, Grows, table' \subseteq table, applied' = applied
    PROVE  PublishedIsApplied'
BY DEF Inv, Grows, PublishedIsApplied, Positions

\* So does what the cursor covers.
LEMMA CursorKept ==
    ASSUME Inv, Grows, cursor' = cursor, \A id \in Ids : applied'[id] >= applied[id],
           RegistryType'
    PROVE  CursorCoversApplied'
<1>1. SUFFICES ASSUME OneOwner', NEW p \in 1..cursor
               PROVE  p <= applied'[log'[p].id]
      BY DEF CursorCoversApplied
<1>2. OneOwner  BY <1>1 DEF OneOwner, Grows
<1>3. /\ cursor \in Nat /\ cursor <= Len(log) /\ p \in DOMAIN log
      /\ p <= applied[log[p].id]
      BY <1>1, <1>2, DomainFacts DEF Inv, Types, RegistryType, PassCovers, CursorCoversApplied
<1>4. log'[p] = log[p]  BY <1>3 DEF Grows
<1>5. log[p].id \in Ids  BY <1>3, EventFacts DEF Inv, Types
<1>6. applied'[log[p].id] \in Nat /\ applied[log[p].id] \in Nat
      BY <1>5 DEF Inv, Types, RegistryType
<1>. QED  BY <1>3, <1>4, <1>5, <1>6

\* So does what a pass has yet to cover, while the worker's job is kept.
LEMMA PassKept ==
    ASSUME Inv, Grows, cursor' = cursor, pass' = pass, RegistryType',
           job[Worker].pc = "apply" => job'[Worker] = job[Worker],
           \A id \in Ids : applied'[id] >= applied[id]
    PROVE  PassCovers'
<1>1. cursor' <= Len(log') /\ pass'.upto <= Len(log')
      BY DomainFacts DEF Inv, Types, RegistryType, WorkType, PassCovers, Grows
<1>2. SUFFICES ASSUME pass.pc = "pass", ~pass.failed, OneOwner', NEW p \in 1..pass.upto
               PROVE  Covered(p)'
      BY <1>1 DEF PassCovers
<1>3. OneOwner  BY <1>2 DEF OneOwner, Grows
<1>4. p \in DOMAIN log /\ Covered(p)
      BY <1>2, <1>3, DomainFacts DEF Inv, Types, WorkType, PassCovers
<1>5. log'[p] = log[p] /\ log[p].id \in Ids
      BY <1>4, EventFacts DEF Grows, Inv, Types
<1>6. CASE p <= applied[log[p].id]
      <2>1. applied'[log[p].id] \in Nat /\ applied[log[p].id] \in Nat /\ p \in Nat
            BY <1>5, <1>2 DEF Inv, Types, RegistryType
      <2>. QED  BY <1>5, <1>6, <2>1 DEF Covered
<1>7. CASE log[p].id \in pass.changed  BY <1>5, <1>7 DEF Covered
<1>8. CASE /\ job[Worker].pc = "apply"
           /\ log[job[Worker].position].id = log[p].id /\ p <= job[Worker].position
      <2>1. job[Worker].position \in DOMAIN log
            BY <1>8 DEF Inv, JobsHold, Appliers
      <2>2. log'[job[Worker].position] = log[job[Worker].position]
            BY <2>1 DEF Grows
      <2>. QED  BY <1>5, <1>8, <2>2 DEF Covered
<1>. QED  BY <1>4, <1>6, <1>7, <1>8 DEF Covered

-----------------------------------------------------------------------------
(* Applying a state. *)

Jobs == [pc : {"idle", "apply", "evict", "invalidate"}, position : Nat, affected : SUBSET Refs]

\* The applier is done with its event, or has yet to evict its credential; the
\* others are where they were.
JobDone(a) ==
    /\ job' \in [Appliers -> Jobs]
    /\ job'[a].pc # "apply"
    /\ job'[a].pc = "evict" => job'[a].position \in DOMAIN log
    /\ \A b \in Appliers \ {a} : job'[b] = job[b]

\* Finishing a job.
LEMMA FinishFacts ==
    ASSUME Inv, NEW a \in Appliers, Finish(a)
    PROVE  JobDone(a)
<1>1. job \in [Appliers -> Jobs]  BY DEF Inv, Types, WorkType, Jobs
<1>2. NoJob \in Jobs /\ NoJob.pc = "idle"  BY DEF NoJob, Jobs
<1>3. job' = [job EXCEPT ![a] = NoJob]  BY DEF Finish
<1>. QED  BY <1>1, <1>2, <1>3 DEF JobDone

\* What remains to be invalidated is a job.
LEMMA InvalidatingFacts ==
    ASSUME NEW affected, affected \subseteq Refs
    PROVE  Invalidating(affected) \in Jobs /\ Invalidating(affected).pc \notin {"apply", "evict"}
<1>1. CASE affected = {}  BY <1>1 DEF Invalidating, NoJob, Jobs
<1>2. CASE affected # {}
      <2>1. Invalidating(affected) = [pc |-> "invalidate", position |-> 0, affected |-> affected]
            BY <1>2 DEF Invalidating, NoJob
      <2>. QED  BY <2>1 DEF Jobs
<1>. QED  BY <1>1, <1>2

\* Replacing what the table holds, and going on to invalidate.
LEMMA ReplaceFacts ==
    ASSUME Inv, NEW a \in Appliers, NEW gone, NEW new, NEW affected,
           new \subseteq Refs, affected \subseteq Refs, Replace(a, gone, new, affected)
    PROVE  JobDone(a) /\ table' = (table \ gone) \cup new /\ table' \subseteq Refs
<1>1. job \in [Appliers -> Jobs] /\ table \subseteq Refs
      BY DEF Inv, Types, WorkType, RegistryType, Jobs
<1>2. job' = [job EXCEPT ![a] = Invalidating(affected)]
      BY DEF Replace
<1>3. Invalidating(affected) \in Jobs /\ Invalidating(affected).pc \notin {"apply", "evict"}
      BY InvalidatingFacts
<1>4. JobDone(a)  BY <1>1, <1>2, <1>3 DEF JobDone
<1>. QED  BY <1>1, <1>4 DEF Replace

\* What Change takes in: the state's own credential, when it is in use, and no
\* other entry of that credential.
LEMMA ChangeFacts ==
    ASSUME Inv, NEW a \in Appliers, NEW id \in Ids, NEW c \in Credential, Change(a, id, c)
    PROVE  /\ JobDone(a) /\ table' \subseteq Refs
           /\ \A ref \in table' : \/ ref \in table /\ ref.id # id
                                  \/ ref = Ref(id, c.version) /\ IsUsable(c)
<1>1. table \subseteq Refs  BY DEF Inv, Types, RegistryType
<1>2. c.version \in Nat  BY DEF Credential
<1>3. Ref(id, c.version) \in Refs  BY <1>2 DEF Ref, Refs
<1>4. Slot(id) \subseteq table /\ Entries(id) \subseteq table
      BY DEF Slot, Entries
<1>5. \A ref \in table : ref.id = id => ref \in Slot(id) /\ ref \in Entries(id)
      BY DEF Slot, Entries
<1>6. CASE IsUsable(c) /\ Replace(a, Slot(id), {Ref(id, c.version)},
                                  Slot(id) \cup {Ref(id, c.version)})
      <2>1. /\ JobDone(a) /\ table' \subseteq Refs
            /\ table' = (table \ Slot(id)) \cup {Ref(id, c.version)}
            BY <1>1, <1>3, <1>4, <1>6, ReplaceFacts
      <2>. QED  BY <1>5, <1>6, <2>1
<1>7. CASE Replace(a, Slot(id), {}, Slot(id) \cup {Ref(id, c.version)})
      <2>1. /\ JobDone(a) /\ table' \subseteq Refs
            /\ table' = (table \ Slot(id)) \cup {}
            BY <1>1, <1>3, <1>4, <1>7, ReplaceFacts
      <2>. QED  BY <1>5, <2>1
<1>8. CASE Replace(a, Entries(id), {}, Entries(id))
      <2>1. /\ JobDone(a) /\ table' \subseteq Refs
            /\ table' = (table \ Entries(id)) \cup {}
            BY <1>1, <1>4, <1>8, ReplaceFacts
      <2>. QED  BY <1>5, <2>1
<1>. QED  BY <1>6, <1>7, <1>8 DEF Change

\* With one owner no publication is refused.
LEMMA OneOwnerNotRefused ==
    ASSUME Inv, OneOwner, NEW p \in DOMAIN log
    PROVE  ~OwnerMismatch(log[p].id)
<1>1. SUFFICES ASSUME NEW ref \in table, Owner(ref.id) # Owner(log[p].id)
               PROVE  FALSE
      BY DEF OwnerMismatch
<1>2. applied[ref.id] \in DOMAIN log /\ log[applied[ref.id]].id = ref.id
      BY DEF Inv, PublishedIsApplied, Positions
<1>. QED  BY <1>1, <1>2 DEF OneOwner

\* What applying a state does: nothing new is published unless the event is
\* newer than the last one applied, and then it is that event's credential.
ApplyEffect(a) ==
    LET p == job[a].position
    IN  /\ p \in DOMAIN log
        /\ JobDone(a) /\ table' \subseteq Refs
        /\ \/ /\ table' \subseteq table /\ applied' = applied
              /\ applied[log[p].id] >= p \/ OwnerMismatch(log[p].id)
           \/ /\ applied' = [applied EXCEPT ![log[p].id] = p]
              /\ applied[log[p].id] < p
              /\ \A ref \in table' :
                    \/ ref \in table /\ ref.id # log[p].id
                    \/ ref = Ref(log[p].id, log[p].state.version) /\ IsUsable(log[p].state)

\* Apply does that.
LEMMA ApplyFacts ==
    ASSUME Inv, NEW a \in Appliers, Apply(a)
    PROVE  ApplyEffect(a)
<1> DEFINE p == job[a].position
           id == log[p].id
           c == log[p].state
<1>1. p \in DOMAIN log  BY DEF Inv, JobsHold, Apply
<1>2. id \in Ids /\ c \in Credential /\ p \in Nat
      BY <1>1, EventFacts DEF Inv, Types
<1>3. table \subseteq Refs /\ applied[id] \in Nat
      BY <1>2 DEF Inv, Types, RegistryType
<1>4. \/ IsStale(id, p) /\ Finish(a) /\ table' = table /\ applied' = applied
      \/ /\ ~IsStale(id, p) /\ OwnerMismatch(id) /\ applied' = applied
         /\ table' = table
         /\ job' = [job EXCEPT ![a].pc = "evict"] \/ Finish(a)
      \/ ~IsStale(id, p) /\ Change(a, id, c) /\ applied' = [applied EXCEPT ![id] = p]
      BY DEF Apply
<1>5. CASE IsStale(id, p) /\ Finish(a) /\ table' = table /\ applied' = applied
      <2>1. JobDone(a)  BY <1>5, FinishFacts
      <2>. QED  BY <1>1, <1>3, <1>5, <2>1 DEF ApplyEffect, IsStale
<1>6. CASE /\ OwnerMismatch(id) /\ applied' = applied /\ table' = table
           /\ job' = [job EXCEPT ![a].pc = "evict"]
      <2>1. job \in [Appliers -> Jobs] /\ job[a] \in Jobs
            BY DEF Inv, Types, WorkType, Jobs
      <2>2. PICK n : n = [job[a] EXCEPT !.pc = "evict"] /\ job' = [job EXCEPT ![a] = n]
            BY <1>6
      <2>3. n \in Jobs /\ n.pc = "evict" /\ n.position = p
            BY <2>1, <2>2 DEF Jobs
      <2>4. JobDone(a)  BY <1>1, <2>1, <2>2, <2>3 DEF JobDone
      <2>. QED  BY <1>1, <1>3, <1>6, <2>4 DEF ApplyEffect
<1>7. CASE OwnerMismatch(id) /\ applied' = applied /\ Finish(a) /\ table' = table
      <2>1. JobDone(a)  BY <1>7, FinishFacts
      <2>. QED  BY <1>1, <1>3, <1>7, <2>1 DEF ApplyEffect
<1>8. CASE ~IsStale(id, p) /\ Change(a, id, c) /\ applied' = [applied EXCEPT ![id] = p]
      <2>1. /\ JobDone(a) /\ table' \subseteq Refs
            /\ \A ref \in table' : \/ ref \in table /\ ref.id # id
                                   \/ ref = Ref(id, c.version) /\ IsUsable(c)
            BY <1>2, <1>8, ChangeFacts
      <2>2. applied[id] < p  BY <1>2, <1>3, <1>8 DEF IsStale
      <2>. QED  BY <1>1, <1>8, <2>1, <2>2 DEF ApplyEffect
<1>. QED  BY <1>4, <1>5, <1>6, <1>7, <1>8

\* The positions applied only grow.
LEMMA ApplyForward ==
    ASSUME Inv, NEW a \in Appliers, ApplyEffect(a)
    PROVE  /\ applied' \in [Ids -> Nat]
           /\ \A id \in Ids : applied'[id] >= applied[id]
<1>1. applied \in [Ids -> Nat]  BY DEF Inv, Types, RegistryType
<1>2. job[a].position \in Nat /\ log[job[a].position].id \in Ids
      BY EventFacts DEF ApplyEffect, Inv, Types
<1>. QED  BY <1>1, <1>2 DEF ApplyEffect

\* Everything published after it is what was last applied.
LEMMA ApplyPublishes ==
    ASSUME Inv, NEW a \in Appliers, ApplyEffect(a), log' = log
    PROVE  PublishedIsApplied'
<1> DEFINE p == job[a].position
           id == log[p].id
<1>0. applied \in [Ids -> Nat] /\ table \subseteq Refs
      BY DEF Inv, Types, RegistryType
<1>1. p \in DOMAIN log /\ id \in Ids
      BY EventFacts DEF ApplyEffect, Inv, Types
<1>2. CASE table' \subseteq table /\ applied' = applied
      BY <1>2 DEF Inv, PublishedIsApplied, Positions
<1>3. CASE /\ applied' = [applied EXCEPT ![id] = p]
           /\ \A ref \in table' : \/ ref \in table /\ ref.id # id
                                  \/ ref = Ref(id, log[p].state.version)
                                     /\ IsUsable(log[p].state)
      <2>1. SUFFICES ASSUME NEW ref \in table'
                     PROVE  /\ applied'[ref.id] \in DOMAIN log
                            /\ log[applied'[ref.id]].id = ref.id
                            /\ IsUsable(log[applied'[ref.id]].state)
                            /\ log[applied'[ref.id]].state.version = ref.version
            BY DEF PublishedIsApplied, Positions
      <2>2. CASE ref \in table /\ ref.id # id
            <3>1. ref.id \in Ids  BY <1>0, <2>2 DEF Refs
            <3>2. applied'[ref.id] = applied[ref.id]  BY <1>0, <1>3, <2>2, <3>1
            <3>. QED  BY <2>2, <3>2 DEF Inv, PublishedIsApplied, Positions
      <2>3. CASE ref = Ref(id, log[p].state.version) /\ IsUsable(log[p].state)
            <3>1. ref.id = id /\ ref.version = log[p].state.version
                  BY <2>3 DEF Ref
            <3>2. applied'[id] = p  BY <1>0, <1>1, <1>3
            <3>. QED  BY <1>1, <2>3, <3>1, <3>2
      <2>. QED  BY <1>3, <2>2, <2>3
<1>. QED  BY <1>2, <1>3 DEF ApplyEffect

\* A pass still covers its events once the worker has applied one of them.
LEMMA ApplyCovers ==
    ASSUME Inv, ApplyEffect(Worker), UNCHANGED <<streamVars, cursor, pass>>
    PROVE  PassCovers'
<1> DEFINE q == job[Worker].position
<1>0. Worker \in Appliers  BY DEF Appliers
<1>1. /\ applied \in [Ids -> Nat] /\ applied' \in [Ids -> Nat]
      /\ \A id \in Ids : applied'[id] >= applied[id]
      BY <1>0, ApplyForward DEF Inv, Types, RegistryType
<1>2. SUFFICES ASSUME pass.pc = "pass", ~pass.failed, OneOwner, NEW p \in 1..pass.upto
               PROVE  p <= applied'[log[p].id] \/ log[p].id \in pass.changed
      BY DEF PassCovers, Covered, OneOwner, Inv, streamVars
<1>3. p \in DOMAIN log /\ Covered(p)
      BY <1>2 DEF Inv, Types, StreamType, WorkType, PassCovers
<1>4. log[p].id \in Ids /\ p \in Nat  BY <1>3, EventFacts DEF Inv, Types
<1>5. CASE p <= applied[log[p].id]  BY <1>1, <1>4, <1>5
<1>6. CASE log[q].id = log[p].id /\ p <= q
      <2>1. q \in DOMAIN log /\ q \in Nat  BY EventFacts DEF ApplyEffect, Inv, Types
      <2>2. ~OwnerMismatch(log[q].id)  BY <1>2, <2>1, OneOwnerNotRefused
      <2>3. applied'[log[q].id] >= q
            BY <1>1, <1>4, <1>6, <2>1, <2>2 DEF ApplyEffect
      <2>. QED  BY <1>1, <1>4, <1>6, <2>1, <2>3
<1>. QED  BY <1>3, <1>5, <1>6 DEF Covered

\* Applying a state keeps the invariant.
LEMMA ApplyKeeps ==
    ASSUME Inv, NEW a \in Appliers, Apply(a)
    PROVE  Inv'
<1>1. ApplyEffect(a)  BY ApplyFacts
<1>2. UNCHANGED <<streamVars, cache, cursor, pass, resolver, faults>>  BY DEF Apply
<1>3. Grows  BY <1>2, SameGrows
<1>4. /\ applied' \in [Ids -> Nat] /\ \A id \in Ids : applied'[id] >= applied[id]
      BY <1>1, ApplyForward
<1>5. RegistryType'
      BY <1>1, <1>2, <1>4 DEF RegistryType, ApplyEffect, Inv, Types
<1>6. WorkType'
      BY <1>1, <1>2 DEF WorkType, ApplyEffect, JobDone, Jobs, Inv, Types
<1>7. ResolverType' /\ ResolverInv'  BY <1>2, <1>3, ResolversKept
<1>8. StreamType'  BY <1>3 DEF Grows
<1>9. JobsHold'
      BY <1>1, <1>2 DEF JobsHold, ApplyEffect, JobDone, streamVars, Inv
<1>10. PublishedIsApplied'  BY <1>1, <1>2, ApplyPublishes DEF streamVars
<1>11. CursorCoversApplied'  BY <1>2, <1>3, <1>4, <1>5, CursorKept
<1>12. PassCovers'
       <2>1. CASE a = Worker  BY <2>1, <1>1, <1>2, ApplyCovers
       <2>2. CASE a # Worker
             <3>1. job'[Worker] = job[Worker]
                   BY <1>1, <2>2 DEF ApplyEffect, JobDone, Appliers
             <3>. QED  BY <1>2, <1>3, <1>4, <1>5, <3>1, PassKept
       <2>. QED  BY <2>1, <2>2
<1>. QED  BY <1>5, <1>6, <1>7, <1>8, <1>9, <1>10, <1>11, <1>12 DEF Inv, Types

-----------------------------------------------------------------------------
(* The other steps. *)

\* A step that applies nothing and leaves the pass where it is.
LEMMA OtherKeeps ==
    ASSUME Inv, Grows, table' \subseteq table, UNCHANGED <<applied, cursor, pass>>,
           job[Worker].pc = "apply" => job'[Worker] = job[Worker],
           RegistryType', WorkType', ResolverType', JobsHold', ResolverInv'
    PROVE  Inv'
<1>1. StreamType'  BY DEF Grows
<1>2. \A id \in Ids : applied'[id] >= applied[id]
      BY DEF Inv, Types, RegistryType
<1>3. PublishedIsApplied'  BY PublishedKept
<1>4. CursorCoversApplied'  BY <1>2, CursorKept
<1>5. PassCovers'  BY <1>2, PassKept
<1>. QED  BY <1>1, <1>3, <1>4, <1>5 DEF Inv, Types

\* An event of another process.
LEMMA StoreElsewhereKeeps ==
    ASSUME Inv, NEW id \in Ids, StoreElsewhere(id)
    PROVE  Inv'
<1>1. Grows  BY StoresGrows DEF StoreElsewhere
<1>2. UNCHANGED <<registryVars, pass, job, resolver, faults>>  BY DEF StoreElsewhere
<1>3. RegistryType' /\ WorkType'
      BY <1>2 DEF registryVars, RegistryType, WorkType, Inv, Types
<1>5. ResolverType' /\ ResolverInv'  BY <1>1, <1>2, ResolversKept
<1>4. JobsHold'  BY <1>1, <1>2 DEF JobsHold, Grows, Inv
<1>. QED  BY <1>1, <1>2, <1>3, <1>4, <1>5, OtherKeeps DEF registryVars

\* A handler that takes up a position of the stream.
LEMMA TakesUp ==
    ASSUME Inv, Grows, NEW h \in Handlers, NEW p \in DOMAIN log',
           UNCHANGED <<registryVars, pass, resolver, faults>>,
           job' = [job EXCEPT ![h] = Applying(p)]
    PROVE  Inv'
<1>1. p \in Nat  BY DomainFacts
<1>2. job \in [Appliers -> Jobs] /\ h \in Appliers /\ Worker \in Appliers /\ h # Worker
      BY ProjectionAssumption DEF Appliers, Inv, Types, WorkType, Jobs
<1>3. PICK j : j = Applying(p) /\ job' = [job EXCEPT ![h] = j]
      OBVIOUS
<1>4. j \in Jobs /\ j.position = p
      <2>1. j = [pc |-> "apply", position |-> p, affected |-> {}]
            BY <1>3 DEF Applying, NoJob
      <2>. QED  BY <1>1, <2>1 DEF Jobs
<1>5. job' \in [Appliers -> Jobs] /\ job'[Worker] = job[Worker] /\ job'[h] = j
      /\ \A a \in Appliers \ {h} : job'[a] = job[a]
      BY <1>2, <1>3, <1>4
<1>6. RegistryType'  BY DEF registryVars, RegistryType, Inv, Types
<1>7. ResolverType' /\ ResolverInv'  BY ResolversKept
<1>8. WorkType'  BY <1>5 DEF WorkType, Jobs, Inv, Types
<1>9. JobsHold'  BY <1>4, <1>5 DEF JobsHold, Grows, Inv
<1>. QED  BY <1>5, <1>6, <1>7, <1>8, <1>9, OtherKeeps DEF registryVars

\* An event of a handler, which it will apply.
LEMMA StoreHereKeeps ==
    ASSUME Inv, NEW h \in Handlers, NEW id \in Ids, StoreHere(h, id)
    PROVE  Inv'
<1>1. Grows /\ Len(log') = Len(log) + 1  BY StoresGrows DEF StoreHere
<1>2. Len(log) + 1 \in DOMAIN log'  BY <1>1, DomainFacts
<1>. QED  BY <1>1, <1>2, TakesUp DEF StoreHere

\* A handler that applies what it finds on the stream.
LEMMA AnswerHereKeeps ==
    ASSUME Inv, NEW h \in Handlers, NEW id \in Ids, AnswerHere(h, id)
    PROVE  Inv'
<1>1. UNCHANGED <<streamVars, registryVars, pass, resolver, faults>>  BY DEF AnswerHere
<1>2. PICK p \in Current(id) : job' = [job EXCEPT ![h] = Applying(p)]
      BY DEF AnswerHere
<1>3. Grows  BY <1>1, SameGrows
<1>4. p \in DOMAIN log'  BY <1>3 DEF Current, Positions, Grows
<1>. QED  BY <1>1, <1>2, <1>3, <1>4, TakesUp

\* The worker's eviction.
LEMMA EvictKeeps ==
    ASSUME Inv, Evict
    PROVE  Inv'
<1>1. /\ UNCHANGED <<streamVars, cache, applied, cursor, pass, resolver, faults>>
      /\ job[Worker].pc = "evict" /\ Worker \in Appliers
      BY DEF Evict, Appliers
<1>2. PICK id : Replace(Worker, Entries(id), {}, Entries(id))
      BY DEF Evict
<1>3. table \subseteq Refs /\ Entries(id) \subseteq Refs
      BY DEF Entries, Inv, Types, RegistryType
<1>4. JobDone(Worker) /\ table' \subseteq table
      <2>1. JobDone(Worker) /\ table' = (table \ Entries(id)) \cup {}
            BY <1>1, <1>2, <1>3, ReplaceFacts
      <2>. QED  BY <2>1
<1>5. Grows  BY <1>1, SameGrows
<1>6. RegistryType'  BY <1>1, <1>3, <1>4 DEF RegistryType, Inv, Types
<1>7. ResolverType' /\ ResolverInv'  BY <1>1, <1>5, ResolversKept
<1>8. WorkType'  BY <1>1, <1>4 DEF WorkType, JobDone, Jobs, Inv, Types
<1>9. JobsHold'  BY <1>1, <1>4 DEF JobsHold, JobDone, streamVars, Inv
<1>. QED  BY <1>1, <1>4, <1>5, <1>6, <1>7, <1>8, <1>9, OtherKeeps

\* Invalidating a credential.
LEMMA InvalidateKeeps ==
    ASSUME Inv, NEW a \in Appliers, Invalidate(a)
    PROVE  Inv'
<1>1. UNCHANGED <<streamVars, table, applied, cursor, pass, resolver, faults>>
      BY DEF Invalidate
<1>2. Grows  BY <1>1, SameGrows
<1>0. job \in [Appliers -> Jobs]  BY DEF Inv, Types, WorkType, Jobs
<1>3. PICK ref \in job[a].affected :
          /\ cache' = cache \ {ref}
          /\ job' = [job EXCEPT ![a] = Invalidating(job[a].affected \ {ref})]
      BY DEF Invalidate
<1>4. job[a] \in Jobs /\ job[a].pc = "invalidate"
      BY <1>0 DEF Invalidate
<1> DEFINE j == Invalidating(job[a].affected \ {ref})
<1>5. j \in Jobs /\ j.pc \notin {"apply", "evict"}
      <2>1. job[a].affected \ {ref} \subseteq Refs  BY <1>4 DEF Jobs
      <2>. QED  BY <2>1, InvalidatingFacts
<1> HIDE DEF j
<1>6. job' \in [Appliers -> Jobs] /\ job'[a] = j
      /\ \A b \in Appliers \ {a} : job'[b] = job[b]
      BY <1>0, <1>3, <1>5 DEF j
<1>7. RegistryType'  BY <1>1, <1>3 DEF RegistryType, Inv, Types
<1>11. ResolverType' /\ ResolverInv'  BY <1>1, <1>2, ResolversKept
<1>8. WorkType'  BY <1>1, <1>6 DEF WorkType, Jobs, Inv, Types
<1>9. JobsHold'  BY <1>1, <1>5, <1>6 DEF JobsHold, streamVars, Inv
<1>10. job[Worker].pc = "apply" => job'[Worker] = job[Worker]
       BY <1>4, <1>6 DEF Appliers
<1>. QED  BY <1>1, <1>2, <1>7, <1>8, <1>9, <1>10, <1>11, OtherKeeps

\* A request dropped on the way.
LEMMA DropRequestKeeps ==
    ASSUME Inv, NEW h \in Handlers, DropRequest(h)
    PROVE  Inv'
<1>1. UNCHANGED <<streamVars, registryVars, pass, resolver, faults>>
      BY DEF DropRequest
<1>2. Grows  BY <1>1, SameGrows
<1>3. h \in Appliers /\ h # Worker /\ Worker \in Appliers
      BY ProjectionAssumption DEF Appliers
<1>4. JobDone(h)  BY <1>3, FinishFacts DEF DropRequest
<1>5. RegistryType'  BY <1>1 DEF registryVars, RegistryType, Inv, Types
<1>8. ResolverType' /\ ResolverInv'  BY <1>1, <1>2, ResolversKept
<1>6. WorkType'  BY <1>1, <1>4 DEF WorkType, JobDone, Jobs, Inv, Types
<1>7. JobsHold'  BY <1>1, <1>4 DEF JobsHold, JobDone, streamVars, Inv
<1>. QED  BY <1>1, <1>2, <1>3, <1>4, <1>5, <1>6, <1>7, <1>8, OtherKeeps DEF JobDone, registryVars

\* A step of a resolver, or of the cache.
LEMMA ResolvingKeeps ==
    ASSUME Inv, UNCHANGED <<streamVars, table, applied, cursor, pass, job, faults>>,
           cache' \subseteq Refs, ResolverType', ResolverInv'
    PROVE  Inv'
<1>1. Grows  BY SameGrows
<1>2. RegistryType' /\ WorkType'
      BY DEF RegistryType, WorkType, Inv, Types
<1>3. JobsHold'  BY DEF JobsHold, streamVars, Inv
<1>. QED  BY <1>1, <1>2, <1>3, OtherKeeps

\* No published credential was revoked by a state applied here: the state last
\* applied to it is in use, and newer than the revocation.
LEMMA PublishedNotRevoked ==
    ASSUME Inv, VersionsFresh, NEW ref \in table
    PROVE  ~RevocationApplied(ref)
<1> DEFINE q == applied[ref.id]
<1>1. /\ q \in DOMAIN log /\ log[q].id = ref.id
      /\ IsUsable(log[q].state) /\ log[q].state.version = ref.version
      BY DEF Inv, PublishedIsApplied, Positions
<1>2. SUFFICES ASSUME NEW p \in 1..q, RevokedBy(p, ref)
               PROVE  FALSE
      BY DEF RevocationApplied
<1>3. q \in Nat /\ DOMAIN log = 1..Len(log) /\ Len(log) \in Nat
      BY <1>1 DEF Inv, Types, StreamType
<1>4. p \in DOMAIN log /\ p \in Nat /\ p <= q
      BY <1>1, <1>2, <1>3
<1>5. log[p].id = ref.id /\ log[p].state.phase \in Retired /\ ref.version <= log[p].state.version
      BY <1>2 DEF RevokedBy
<1>6. log[p].state.version \in Nat /\ log[q].state.version \in Nat
      BY <1>1, <1>4, EventFacts DEF Inv, Types
<1>7. p # q  BY <1>1, <1>5 DEF Retired, IsUsable
<1>8. p < q  BY <1>3, <1>4, <1>7
<1>9. log[q].state.version > log[p].state.version
      BY <1>1, <1>4, <1>5, <1>8 DEF VersionsFresh
<1>. QED  BY <1>1, <1>5, <1>6, <1>9

\* The resolver is at a place of its own, with a credential that was not revoked.
LEMMA PlaceFacts ==
    ASSUME Inv, NEW r \in Resolvers, NEW n \in Places, log' = log,
           resolver' = [resolver EXCEPT ![r] = n],
           n.pc # "idle" => n.ref \in Refs, VersionsFresh => ~n.revoked
    PROVE  ResolverType' /\ ResolverInv'
<1>1. /\ resolver \in [Resolvers -> Places]
      /\ VersionsFresh => \A s \in Resolvers : ~resolver[s].revoked
      /\ \A s \in Resolvers : resolver[s].pc # "idle" => resolver[s].ref \in Refs
      BY DEF Inv, Types, ResolverType, ResolverInv, ResolvesHold, RevokedNotServed, Places
<1>2. VersionsFresh' = VersionsFresh  BY DEF VersionsFresh
<1>3. /\ resolver' \in [Resolvers -> Places]
      /\ VersionsFresh => \A s \in Resolvers : ~resolver'[s].revoked
      /\ \A s \in Resolvers : resolver'[s].pc # "idle" => resolver'[s].ref \in Refs
      BY <1>1
<1>. QED  BY <1>2, <1>3 DEF ResolverType, ResolverInv, ResolvesHold, RevokedNotServed, Places

\* A resolver that goes on, or answers.
LEMMA GotoFacts ==
    ASSUME Inv, NEW r \in Resolvers, NEW pc \in {"idle", "cache", "store", "put"}, Goto(r, pc),
           resolver[r].pc # "idle", log' = log
    PROVE  ResolverType' /\ ResolverInv'
<1>1. /\ resolver[r] \in Places /\ resolver[r].ref \in Refs
      /\ VersionsFresh => ~resolver[r].revoked
      BY DEF Inv, Types, ResolverType, ResolverInv, ResolvesHold, RevokedNotServed, Places
<1>2. PICK n : /\ n = IF pc = "idle" THEN NoResolve ELSE [resolver[r] EXCEPT !.pc = pc]
               /\ resolver' = [resolver EXCEPT ![r] = n]
      BY DEF Goto
<1>3. n \in Places /\ (VersionsFresh => ~n.revoked) /\ (n.pc # "idle" => n.ref \in Refs)
      <2>1. CASE n = NoResolve  BY <2>1 DEF NoResolve, Places
      <2>2. CASE n = [resolver[r] EXCEPT !.pc = pc]  BY <1>1, <2>2 DEF Places
      <2>. QED  BY <1>2, <2>1, <2>2
<1>. QED  BY <1>2, <1>3, PlaceFacts

\* A resolve.
LEMMA ResolverKeeps ==
    ASSUME Inv, NEW r \in Resolvers,
           Resolve(r) \/ CacheGet(r) \/ StoreGet(r) \/ CachePut(r)
    PROVE  Inv'
<1>0. cache \subseteq Refs /\ table \subseteq Refs /\ log' = log
      BY DEF Inv, Types, RegistryType, Resolve, CacheGet, StoreGet, CachePut, Resolving, streamVars
<1>1. CASE Resolve(r)
      <2>1. PICK ref \in table :
                resolver' = [resolver EXCEPT ![r] = [pc |-> "cache", ref |-> ref,
                                                     revoked |-> RevocationApplied(ref)]]
            BY <1>1 DEF Resolve, Candidates
      <2>2. PICK n :
                /\ n = [pc |-> "cache", ref |-> ref, revoked |-> RevocationApplied(ref)]
                /\ resolver' = [resolver EXCEPT ![r] = n]
            BY <2>1
      <2>3. RevocationApplied(ref) \in BOOLEAN  BY DEF RevocationApplied
      <2>4. VersionsFresh => ~RevocationApplied(ref)  BY PublishedNotRevoked
      <2>5. n \in Places /\ n.ref \in Refs /\ (VersionsFresh => ~n.revoked)
            BY <1>0, <2>2, <2>3, <2>4 DEF Places
      <2>6. ResolverType' /\ ResolverInv'  BY <1>0, <2>2, <2>5, PlaceFacts
      <2>. QED  BY <1>0, <1>1, <2>6, ResolvingKeeps DEF Resolve, Resolving
<1>2. CASE CacheGet(r)
      <2>0. resolver[r].pc # "idle"  BY <1>2 DEF CacheGet
      <2>1. ResolverType' /\ ResolverInv'
            <3>1. CASE Goto(r, "idle")  BY <1>0, <2>0, <3>1, GotoFacts
            <3>2. CASE Goto(r, "store")  BY <1>0, <2>0, <3>2, GotoFacts
            <3>. QED  BY <1>2, <3>1, <3>2 DEF CacheGet
      <2>. QED  BY <1>0, <1>2, <2>1, ResolvingKeeps DEF CacheGet, Resolving
<1>3. CASE StoreGet(r)
      <2>0. resolver[r].pc # "idle"  BY <1>3 DEF StoreGet
      <2>1. ResolverType' /\ ResolverInv'
            <3>1. CASE Goto(r, "idle")  BY <1>0, <2>0, <3>1, GotoFacts
            <3>2. CASE Goto(r, "put")  BY <1>0, <2>0, <3>2, GotoFacts
            <3>. QED  BY <1>3, <3>1, <3>2 DEF StoreGet
      <2>. QED  BY <1>0, <1>3, <2>1, ResolvingKeeps DEF StoreGet, Resolving
<1>4. CASE CachePut(r)
      <2>0. resolver[r].pc # "idle"  BY <1>4 DEF CachePut
      <2>1. ResolverType' /\ ResolverInv'
            BY <1>0, <1>4, <2>0, GotoFacts DEF CachePut
      <2>2. resolver[r].ref \in Refs
            BY <1>4 DEF CachePut, Inv, ResolverInv, ResolvesHold
      <2>. QED  BY <1>0, <1>4, <2>1, <2>2, ResolvingKeeps DEF CachePut, Resolving
<1>. QED  BY <1>1, <1>2, <1>3, <1>4

\* A restart begins again with nothing published and nothing scanned.
LEMMA RestartKeeps ==
    ASSUME Inv, Restart
    PROVE  Inv'
<1>1. /\ table' = {} /\ cache' = {} /\ cursor' = 0 /\ applied' = NothingApplied
      /\ pass' = NoPass /\ job' = NoJobs /\ resolver' = NoResolves
      /\ UNCHANGED streamVars /\ faults' = faults + 1
      BY DEF Restart, Fault
<1>2. Grows  BY <1>1, SameGrows
<1>3. StreamType'  BY <1>2 DEF Grows
<1>4. RegistryType'  BY <1>1 DEF RegistryType, NothingApplied
<1>5. WorkType'  BY <1>1 DEF WorkType, NoPass, NoJobs, NoJob, Inv, Types
<1>6. ResolverType'  BY <1>1 DEF ResolverType, Places, NoResolves, NoResolve
<1>7. ResolverInv'
      BY <1>1 DEF ResolverInv, ResolvesHold, RevokedNotServed, NoResolves, NoResolve
<1>8. JobsHold'  BY <1>1 DEF JobsHold, NoJobs, NoJob
<1>9. PublishedIsApplied'  BY <1>1 DEF PublishedIsApplied
<1>10. CursorCoversApplied'  BY <1>1 DEF CursorCoversApplied
<1>11. PassCovers'
       BY <1>1, <1>2, DomainFacts DEF PassCovers, NoPass
<1>. QED  BY <1>3, <1>4, <1>5, <1>6, <1>7, <1>8, <1>9, <1>10, <1>11 DEF Inv, Types

-----------------------------------------------------------------------------
(* The refresh worker. *)

\* A step of the pass: only the cursor, the pass and the worker's job change.
LEMMA PassStepKeeps ==
    ASSUME Inv, UNCHANGED <<streamVars, table, cache, applied, resolver>>,
           cursor' \in Nat, WorkType', JobsHold', CursorCoversApplied', PassCovers'
    PROVE  Inv'
<1>1. Grows  BY SameGrows
<1>2. StreamType'  BY <1>1 DEF Grows
<1>3. RegistryType'  BY DEF RegistryType, Inv, Types
<1>5. ResolverType' /\ ResolverInv'  BY <1>1, ResolversKept
<1>4. PublishedIsApplied'  BY <1>1, PublishedKept
<1>. QED  BY <1>2, <1>3, <1>4, <1>5 DEF Inv, Types

\* The pass begins: what the cursor does not cover has changed.
LEMMA ScanKeeps ==
    ASSUME Inv, Scan
    PROVE  Inv'
<1>1. UNCHANGED <<streamVars, registryVars, job, resolver, faults>>  BY DEF Scan
<1>2. Len(log) \in Nat /\ DOMAIN log = 1..Len(log) /\ cursor \in Nat
      BY DEF Inv, Types, StreamType, RegistryType
<1>3. \A p \in DOMAIN log : log[p].id \in Ids  BY EventFacts DEF Inv, Types
<1>4. /\ pass'.changed = {log[p].id : p \in (cursor + 1)..Len(log)}
      /\ pass'.upto = Len(log)
      /\ pass' = [pc |-> "pass", changed |-> pass'.changed, upto |-> Len(log), failed |-> FALSE]
      BY DEF Scan
<1>5. pass'.changed \in SUBSET Ids
      <2>1. \A p \in (cursor + 1)..Len(log) : p \in DOMAIN log  BY <1>2
      <2>. QED  BY <1>3, <1>4, <2>1
<1>6. WorkType'
      <2>1. PICK changed \in SUBSET Ids :
                pass' = [pc |-> "pass", changed |-> changed, upto |-> Len(log), failed |-> FALSE]
            BY <1>4, <1>5
      <2>2. pass' \in [pc : {"idle", "pass"}, changed : SUBSET Ids, upto : Nat, failed : BOOLEAN]
            BY <1>2, <2>1
      <2>. QED  BY <1>1, <2>2 DEF WorkType, Inv, Types
<1>7. JobsHold'  BY <1>1 DEF JobsHold, streamVars, Inv
<1>8. CursorCoversApplied'
      BY <1>1 DEF CursorCoversApplied, OneOwner, registryVars, streamVars, Inv
<1>9. PassCovers'
      <2>1. cursor' <= Len(log') /\ pass'.upto <= Len(log')
            BY <1>1, <1>2, <1>4 DEF Inv, PassCovers, registryVars, streamVars
      <2>2. SUFFICES ASSUME OneOwner, NEW p \in 1..Len(log)
                     PROVE  p <= applied[log[p].id] \/ log[p].id \in pass'.changed
            BY <1>1, <1>4, <2>1 DEF PassCovers, Covered, OneOwner, streamVars, registryVars
      <2>3. CASE p <= cursor
            BY <1>2, <2>2, <2>3 DEF Inv, CursorCoversApplied
      <2>4. CASE p > cursor
            <3>1. p \in (cursor + 1)..Len(log)  BY <1>2, <2>4
            <3>. QED  BY <1>4, <3>1
      <2>. QED  BY <1>2, <2>3, <2>4
<1>. QED  BY <1>1, <1>2, <1>6, <1>7, <1>8, <1>9, PassStepKeeps DEF registryVars

\* A changed credential is read, or its read fails the pass.
LEMMA LoadKeeps ==
    ASSUME Inv, NEW id \in Ids, Load(id)
    PROVE  Inv'
<1>1. UNCHANGED <<streamVars, registryVars, resolver>>  BY DEF Load
<1>2. Worker \in Appliers /\ job \in [Appliers -> Jobs] /\ job[Worker].pc = "idle"
      BY DEF Load, Appliers, Inv, Types, WorkType, Jobs
<1>3. /\ pass \in [pc : {"idle", "pass"}, changed : SUBSET Ids, upto : Nat, failed : BOOLEAN]
      /\ faults \in Nat /\ pass.pc = "pass" /\ pass.changed \ {id} \in SUBSET Ids
      BY DEF Load, Inv, Types, WorkType
<1>4. CursorCoversApplied'
      BY <1>1 DEF CursorCoversApplied, OneOwner, registryVars, streamVars, Inv
<1>5. cursor' <= Len(log') /\ pass.upto <= Len(log') /\ cursor' \in Nat
      BY <1>1 DEF Inv, Types, RegistryType, PassCovers, registryVars, streamVars
<1>6. CASE \E p \in Current(id) :
              /\ job' = [job EXCEPT ![Worker] = Applying(p)]
              /\ pass' = [pass EXCEPT !.changed = pass.changed \ {id}]
              /\ faults' = faults
      <2>1. PICK p \in Current(id) :
                /\ job' = [job EXCEPT ![Worker] = Applying(p)]
                /\ pass' = [pass EXCEPT !.changed = pass.changed \ {id}]
                /\ faults' = faults
            BY <1>6
      <2>2. p \in DOMAIN log /\ log[p].id = id /\ p \in Nat
            BY <2>1, EventFacts DEF Current, Positions, Inv, Types
      <2>3. PICK next : /\ next = Applying(p)
                        /\ job' = [job EXCEPT ![Worker] = next]
            BY <2>1
      <2>4. next \in Jobs /\ next.pc = "apply" /\ next.position = p
            <3>1. next = [pc |-> "apply", position |-> p, affected |-> {}]
                  BY <2>3 DEF Applying, NoJob
            <3>. QED  BY <2>2, <3>1 DEF Jobs
      <2>5. /\ job' \in [Appliers -> Jobs] /\ job'[Worker] = next
            /\ \A a \in Appliers \ {Worker} : job'[a] = job[a]
            BY <1>2, <2>3, <2>4
      <2>6. /\ pass'.changed = pass.changed \ {id} /\ pass'.upto = pass.upto
            /\ pass'.pc = pass.pc /\ pass'.failed = pass.failed
            /\ pass' \in [pc : {"idle", "pass"}, changed : SUBSET Ids, upto : Nat,
                          failed : BOOLEAN]
            BY <1>3, <2>1
      <2>7. WorkType'  BY <1>3, <2>1, <2>5, <2>6 DEF WorkType, Jobs
      <2>8. JobsHold'
            BY <1>1, <2>2, <2>4, <2>5 DEF JobsHold, streamVars, Inv
      <2>9. PassCovers'
            <3>0. OneOwner' = OneOwner /\ pass'.failed = pass.failed /\ pass'.upto = pass.upto
                  BY <1>1, <2>6 DEF OneOwner, streamVars
            <3>1. SUFFICES ASSUME ~pass.failed, OneOwner, NEW p1 \in 1..pass.upto
                           PROVE  Covered(p1)'
                  BY <1>5, <2>6, <3>0 DEF PassCovers
            <3>2. Covered(p1) /\ p1 \in DOMAIN log
                  BY <1>3, <3>1 DEF Inv, Types, StreamType, PassCovers
            <3>3. p1 <= applied[log[p1].id] \/ log[p1].id \in pass.changed
                  BY <1>2, <3>2 DEF Covered
            <3>4. CASE log[p1].id = id
                  <4>1. p1 <= p  BY <2>1, <3>2, <3>4 DEF Current, Positions
                  <4>. QED  BY <1>1, <2>2, <2>4, <2>5, <3>4, <4>1 DEF Covered, streamVars
            <3>5. CASE log[p1].id # id
                  BY <1>1, <2>6, <3>3, <3>5 DEF Covered, registryVars, streamVars
            <3>. QED  BY <3>4, <3>5
      <2>. QED  BY <1>1, <1>4, <1>5, <2>7, <2>8, <2>9, PassStepKeeps DEF registryVars
<1>7. CASE /\ faults' = faults + 1
           /\ pass' = [pass EXCEPT !.changed = pass.changed \ {id}, !.failed = TRUE]
           /\ job' = job
      <2>1. /\ pass' \in [pc : {"idle", "pass"}, changed : SUBSET Ids, upto : Nat,
                          failed : BOOLEAN]
            /\ pass'.failed = TRUE /\ pass'.upto = pass.upto
            BY <1>3, <1>7
      <2>2. WorkType'  BY <1>2, <1>3, <1>7, <2>1 DEF WorkType, Jobs
      <2>3. JobsHold'  BY <1>1, <1>7 DEF JobsHold, streamVars, Inv
      <2>4. PassCovers'  BY <1>5, <2>1 DEF PassCovers
      <2>. QED  BY <1>1, <1>4, <1>5, <2>2, <2>3, <2>4, PassStepKeeps DEF registryVars
<1>. QED  BY <1>6, <1>7 DEF Load, Fault

\* The pass ends, and the cursor is where everything before it is covered.
LEMMA EndPassKeeps ==
    ASSUME Inv, EndPass
    PROVE  Inv'
<1>1. /\ UNCHANGED <<streamVars, table, applied, cache, job, resolver, faults>>
      /\ pass' = NoPass /\ cursor' = AdvancedTo /\ pass.pc = "pass" /\ pass.changed = {}
      /\ job[Worker].pc = "idle"
      BY DEF EndPass
<1>2. /\ cursor \in Nat /\ pass.upto \in Nat /\ Len(log) \in Nat
      /\ cursor <= Len(log) /\ pass.upto <= Len(log)
      BY DEF Inv, Types, StreamType, RegistryType, WorkType, PassCovers
<1>3. \/ cursor' = cursor
      \/ cursor' = pass.upto /\ ~pass.failed
      BY <1>1 DEF AdvancedTo
<1>4. cursor' \in Nat /\ cursor' <= Len(log)  BY <1>2, <1>3
<1>5. WorkType'  BY <1>1 DEF WorkType, NoPass, Inv, Types
<1>6. JobsHold'  BY <1>1 DEF JobsHold, streamVars, Inv
<1>7. CursorCoversApplied'
      <2>1. SUFFICES ASSUME OneOwner, NEW p \in 1..cursor'
                     PROVE  p <= applied[log[p].id]
            BY <1>1 DEF CursorCoversApplied, OneOwner, streamVars
      <2>2. CASE cursor' = cursor
            BY <2>1, <2>2 DEF Inv, CursorCoversApplied
      <2>3. CASE cursor' = pass.upto /\ ~pass.failed
            BY <1>1, <2>1, <2>3 DEF Inv, PassCovers, Covered
      <2>. QED  BY <1>3, <2>2, <2>3
<1>8. PassCovers'  BY <1>1, <1>2, <1>4 DEF PassCovers, NoPass, streamVars
<1>. QED  BY <1>1, <1>4, <1>5, <1>6, <1>7, <1>8, PassStepKeeps

-----------------------------------------------------------------------------
(* The theorems. *)

\* Every step keeps the invariant.
LEMMA NextKeeps ==
    ASSUME Inv, [Next]_vars
    PROVE  Inv'
<1>w. Worker \in Appliers /\ \A h \in Handlers : h \in Appliers  BY DEF Appliers
<1>1. CASE \E id \in Ids : StoreElsewhere(id)  BY <1>1, StoreElsewhereKeeps
<1>2. CASE \E h \in Handlers, id \in Ids : StoreHere(h, id) \/ AnswerHere(h, id)
      BY <1>2, StoreHereKeeps, AnswerHereKeeps
<1>3. CASE \E h \in Handlers : Apply(h) \/ Invalidate(h) \/ DropRequest(h)
      BY <1>w, <1>3, ApplyKeeps, InvalidateKeeps, DropRequestKeeps
<1>4. CASE WorkerStep
      BY <1>w, <1>4, ScanKeeps, LoadKeeps, ApplyKeeps, EvictKeeps, InvalidateKeeps, EndPassKeeps
         DEF WorkerStep
<1>5. CASE \E r \in Resolvers : Resolve(r) \/ CacheGet(r) \/ StoreGet(r) \/ CachePut(r)
      BY <1>5, ResolverKeeps
<1>6. CASE \E ref \in cache : Expire(ref)
      <2>1. /\ UNCHANGED <<streamVars, table, applied, cursor, pass, resolver, job, faults>>
            /\ cache' \subseteq cache
            BY <1>6 DEF Expire
      <2>2. cache' \subseteq Refs  BY <2>1 DEF Inv, Types, RegistryType
      <2>3. ResolverType' /\ ResolverInv'  BY <2>1, SameGrows, ResolversKept
      <2>. QED  BY <2>1, <2>2, <2>3, ResolvingKeeps
<1>7. CASE Restart  BY <1>7, RestartKeeps
<1>8. CASE UNCHANGED vars
      <2>1. /\ UNCHANGED <<streamVars, table, applied, cursor, pass, resolver, job, faults>>
            /\ cache' = cache
            BY <1>8 DEF vars, registryVars
      <2>2. cache' \subseteq Refs  BY <2>1 DEF Inv, Types, RegistryType
      <2>3. ResolverType' /\ ResolverInv'  BY <2>1, SameGrows, ResolversKept
      <2>. QED  BY <2>1, <2>2, <2>3, ResolvingKeeps
<1>. QED  BY <1>1, <1>2, <1>3, <1>4, <1>5, <1>6, <1>7, <1>8 DEF Next

\* The invariant holds throughout.
THEOREM Invariance == Spec => []Inv
BY InitInv, NextKeeps, PTL DEF Spec

\* The type invariant.
THEOREM TypeCorrect == Spec => []TypeOK
<1>1. Inv => TypeOK  BY TypesAreTypeOK DEF Inv
<1>. QED  BY <1>1, Invariance, PTL

\* What is published is what the state last applied says, however handlers and
\* the refresh worker overtake each other.
THEOREM PublishedCorrect == Spec => []PublishedIsApplied
<1>1. Inv => PublishedIsApplied  BY DEF Inv
<1>. QED  BY <1>1, Invariance, PTL

\* A resolve that begins after a revocation was applied serves nothing revoked, as
\* long as no event of the stream brings a revoked version back.
THEOREM RevokedIsNotServed == Spec => []RevokedNotServed
<1>1. Inv => RevokedNotServed  BY DEF Inv, ResolverInv
<1>. QED  BY <1>1, Invariance, PTL

\* The refresh cursor never passes an event the table has not taken in.
THEOREM CursorCovers == Spec => []CursorCoversApplied
<1>1. Inv => CursorCoversApplied  BY DEF Inv
<1>. QED  BY <1>1, Invariance, PTL

\* The states applied to a credential never get older.
THEOREM AppliesForward == Spec => AppliedForward
<1>1. ASSUME Inv, [Next]_vars
      PROVE  applied' = NothingApplied \/ \A id \in Ids : applied'[id] >= applied[id]
      <2>0. /\ \A id \in Ids : applied[id] \in Nat
            /\ Worker \in Appliers /\ \A h \in Handlers : h \in Appliers
            BY <1>1 DEF Inv, Types, RegistryType, Appliers
      <2>1. CASE applied' = applied  BY <2>0, <2>1
      <2>2. CASE \E a \in Appliers : Apply(a)
            BY <1>1, <2>2, ApplyFacts, ApplyForward
      <2>3. CASE Restart  BY <2>3 DEF Restart
      <2>. QED
            BY <1>1, <2>0, <2>1, <2>2, <2>3
               DEF Next, WorkerStep, vars, registryVars, StoreElsewhere, StoreHere, AnswerHere,
                   Evict, Invalidate, DropRequest, Scan, Load, EndPass, Resolve, CacheGet,
                   StoreGet, CachePut, Expire, Resolving
<1>. QED  BY <1>1, Invariance, PTL DEF Spec, AppliedForward

=============================================================================
