---------------------------- MODULE SnapshotStore ----------------------------
(***************************************************************************)
(* Concurrent mutations of one snapshot key: the compare-and-swap loops of *)
(* trogon-decider-nats/src/snapshot_store.rs. A call suspends at each      *)
(* bucket operation; between the read of the entry and the conditional     *)
(* write any other call may run. pc is the bucket operation to make next.  *)
(***************************************************************************)
EXTENDS KvEntry, FiniteSets, FiniteSetsExt

CONSTANTS
    Writers,     \* concurrent callers
    Positions,   \* the snapshot positions they write
    MaxCalls     \* bound: calls made by all writers together

ASSUME StoreAssumption == Positions \subseteq Nat \ {0} /\ MaxCalls \in Nat

NoPosition == 0

VARIABLES
    entry,     \* the key's entry
    call,      \* per writer, its call in progress
    answer,    \* per writer, what its last call returned
    calls,     \* calls begun
    promised   \* history: positions whose upsert returned Ok since the last delete

vars == <<entry, call, answer, calls, promised>>

NoCall == [pc |-> "idle", position |-> NoPosition, seen |-> 0]

Init ==
    /\ entry = NoEntry
    /\ call = [w \in Writers |-> NoCall]
    /\ answer = [w \in Writers |-> "none"]
    /\ calls = 0
    /\ promised = {}

Begin(w, first, position) ==
    /\ call[w].pc = "idle"
    /\ calls < MaxCalls
    /\ calls' = calls + 1
    /\ call' = [call EXCEPT ![w] = [NoCall EXCEPT !.pc = first, !.position = position]]
    /\ answer' = [answer EXCEPT ![w] = "none"]
    /\ UNCHANGED <<entry, promised>>

\* persist_snapshot_change: an upsert carries its position, a delete nothing.
BeginUpsert(w) == \E position \in Positions : Begin(w, "read", position)
BeginDelete(w) == Begin(w, "readForDelete", NoPosition)

Answer(w, result) ==
    /\ call' = [call EXCEPT ![w] = NoCall]
    /\ answer' = [answer EXCEPT ![w] = result]

Continue(w, pc, seen) ==
    /\ call' = [call EXCEPT ![w].pc = pc, ![w].seen = seen]
    /\ UNCHANGED <<entry, answer, promised>>

\* An upsert ends with Ok and its position is covered from now on.
Keep(w) ==
    /\ Answer(w, "done")
    /\ promised' = promised \cup {call[w].position}

-----------------------------------------------------------------------------
(* write_snapshot_value *)

\* Mutant of Covers: only the very same position is left in place.
CoversSame(position) == entry.value = position

\* The stored snapshot makes this one unnecessary.
Covers(position) == entry.value >= position

\* The loop's read: create when there is no value, keep a later snapshot, or
\* replace an earlier one.
ReadEntry(w) ==
    /\ call[w].pc = "read"
    /\ \/ ~IsPut(entry) /\ Continue(w, "create", entry.revision)
       \/ /\ IsPut(entry) /\ Covers(call[w].position)
          /\ Keep(w)
          /\ UNCHANGED entry
       \/ IsPut(entry) /\ ~Covers(call[w].position) /\ Continue(w, "update", entry.revision)
    /\ UNCHANGED calls

\* create_snapshot_value: AlreadyExists goes around the loop again.
CreateEntry(w) ==
    /\ call[w].pc = "create"
    /\ IF Creates(entry)
       THEN entry' = PutValue(entry, call[w].position) /\ Keep(w)
       ELSE Continue(w, "read", 0)
    /\ UNCHANGED calls

\* Mutant of UpdateEntry: the write is not conditional on the revision read.
UpdateBlindly(w) ==
    /\ call[w].pc = "update"
    /\ entry' = PutValue(entry, call[w].position) /\ Keep(w)
    /\ UNCHANGED calls

\* Mutant of UpdateEntry: the retry re-uses the revision it has read before.
UpdateWithoutReread(w) ==
    /\ call[w].pc = "update"
    /\ IF Unchanged(entry, call[w].seen)
       THEN entry' = PutValue(entry, call[w].position) /\ Keep(w)
       ELSE Continue(w, "update", call[w].seen)
    /\ UNCHANGED calls

\* update: WrongLastRevision goes around the loop again.
UpdateEntry(w) ==
    /\ call[w].pc = "update"
    /\ IF Unchanged(entry, call[w].seen)
       THEN entry' = PutValue(entry, call[w].position) /\ Keep(w)
       ELSE Continue(w, "read", 0)
    /\ UNCHANGED calls

-----------------------------------------------------------------------------
(* delete_kv_value *)

ReadForDelete(w) ==
    /\ call[w].pc = "readForDelete"
    /\ IF IsPut(entry)
       THEN Continue(w, "delete", entry.revision)
       ELSE Answer(w, "done") /\ UNCHANGED <<entry, promised>>
    /\ UNCHANGED calls

\* delete_expect_revision: WrongLastRevision goes around the loop again.
DeleteEntry(w) ==
    /\ call[w].pc = "delete"
    /\ IF Unchanged(entry, call[w].seen)
       THEN /\ entry' = DeleteMarker(entry)
            /\ promised' = {}
            /\ Answer(w, "done")
       ELSE Continue(w, "readForDelete", 0)
    /\ UNCHANGED calls

-----------------------------------------------------------------------------

\* Any other bucket error ends the call. The bucket operation did not happen,
\* or it did and only its acknowledgement was lost.
Fail(w) ==
    /\ call[w].pc # "idle"
    /\ Answer(w, "failed")
    /\ \/ UNCHANGED <<entry, promised>>
       \/ /\ \/ call[w].pc = "create" /\ Creates(entry)
             \/ call[w].pc = "update" /\ Unchanged(entry, call[w].seen)
          /\ entry' = PutValue(entry, call[w].position)
          /\ UNCHANGED promised
       \/ /\ call[w].pc = "delete" /\ Unchanged(entry, call[w].seen)
          /\ entry' = DeleteMarker(entry)
          /\ promised' = {}
    /\ UNCHANGED calls

Step(w) ==
    \/ ReadEntry(w) \/ CreateEntry(w) \/ UpdateEntry(w)
    \/ ReadForDelete(w) \/ DeleteEntry(w)

Next == \E w \in Writers : BeginUpsert(w) \/ BeginDelete(w) \/ Step(w) \/ Fail(w)

Spec == Init /\ [][Next]_vars

\* A call in progress is polled until it returns.
FairSpec == Spec /\ \A w \in Writers : WF_vars(Step(w))

-----------------------------------------------------------------------------
(* Properties. *)

Pcs == {"idle", "read", "create", "update", "readForDelete", "delete"}

TypeOK ==
    /\ entry \in [operation : {"None", "Put", "Delete"}, revision : Nat, value : Nat]
    /\ call \in [Writers -> [pc : Pcs, position : Nat, seen : Nat]]
    /\ answer \in [Writers -> {"none", "done", "failed"}]
    /\ calls \in Nat
    /\ promised \subseteq Nat

\* The position readers find, none when there is no value.
Stored == IF IsPut(entry) THEN entry.value ELSE NoPosition

\* No upsert that returned Ok is lost to a concurrent writer: until a delete,
\* readers find its position or a later one.
NoUpsertLost == \A position \in promised : Stored >= position

\* A CAS loop that loses a race goes around again, and only finitely often as
\* long as finitely many calls are made.
CallsReturn == \A w \in Writers : call[w].pc # "idle" ~> call[w].pc = "idle"

\* What the proofs rest on: while the entry still has the revision a call read,
\* it is the very entry it read.
CallInv(w) ==
    /\ call[w].pc \in {"read", "create", "update"} => call[w].position \in Positions
    /\ call[w].seen <= entry.revision
    /\ call[w].pc \in {"update", "delete"} /\ Unchanged(entry, call[w].seen) => IsPut(entry)
    /\ call[w].pc = "update" /\ Unchanged(entry, call[w].seen) => ~Covers(call[w].position)

StoreInv == TypeOK /\ NoUpsertLost /\ \A w \in Writers : CallInv(w)

\* The loops are linearizable: each call is one atomic step of the register.
Register == INSTANCE SnapshotRegister WITH stored <- Stored
ImplementsRegister == Register!Spec

=============================================================================
