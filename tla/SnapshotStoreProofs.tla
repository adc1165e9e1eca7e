-------------------------- MODULE SnapshotStoreProofs --------------------------
(***************************************************************************)
(* For any number of writers and calls: no acknowledged upsert is lost,    *)
(* and the compare-and-swap loops implement SnapshotRegister.              *)
(***************************************************************************)
EXTENDS SnapshotStore, TLAPS

USE StoreAssumption DEF NoPosition

\* Going around a loop, or failing without effect, changes no promise.
LEMMA BeginInv ==
    ASSUME StoreInv, NEW w \in Writers, BeginUpsert(w) \/ BeginDelete(w)
    PROVE  StoreInv'
<1>1. PICK first \in {"read", "readForDelete"}, position \in Nat :
        /\ Begin(w, first, position)
        /\ first = "read" => position \in Positions
  BY DEF BeginUpsert, BeginDelete
<1> DEFINE next == [NoCall EXCEPT !.pc = first, !.position = position]
<1>2. /\ next \in [pc : Pcs, position : Nat, seen : Nat]
      /\ next.pc = first /\ next.position = position /\ next.seen = 0
  BY DEF NoCall, Pcs
<1>3. call' = [call EXCEPT ![w] = next] /\ UNCHANGED <<entry, promised>>
      /\ calls' = calls + 1 /\ answer' = [answer EXCEPT ![w] = "none"]
  BY <1>1 DEF Begin
<1> HIDE DEF next
<1>4. TypeOK' /\ NoUpsertLost'
  BY <1>2, <1>3 DEF StoreInv, TypeOK, NoUpsertLost, Stored, IsPut
<1>5. ASSUME NEW v \in Writers PROVE CallInv(v)'
  BY <1>1, <1>2, <1>3 DEF StoreInv, TypeOK, CallInv, Unchanged, IsPut, Covers
<1> QED BY <1>4, <1>5 DEF StoreInv

\* A call that goes on with what it just read of the unchanged entry.
LEMMA ContinueInv ==
    ASSUME StoreInv, NEW w \in Writers, NEW pc \in Pcs, NEW seen \in Nat,
           Continue(w, pc, seen), UNCHANGED calls, seen <= entry.revision,
           pc \in {"read", "create", "update"} => call[w].position \in Positions,
           pc \in {"update", "delete"} /\ seen = entry.revision => IsPut(entry),
           pc = "update" /\ seen = entry.revision => ~Covers(call[w].position)
    PROVE  StoreInv'
<1> DEFINE next == [call[w] EXCEPT !.pc = pc, !.seen = seen]
<1>1. /\ next \in [pc : Pcs, position : Nat, seen : Nat]
      /\ next.pc = pc /\ next.position = call[w].position /\ next.seen = seen
  BY DEF StoreInv, TypeOK
<1>2. call' = [call EXCEPT ![w] = next] /\ UNCHANGED <<entry, answer, calls, promised>>
  BY DEF Continue
<1> HIDE DEF next
<1>3. TypeOK' /\ NoUpsertLost'
  BY <1>1, <1>2 DEF StoreInv, TypeOK, NoUpsertLost, Stored, IsPut
<1>4. ASSUME NEW v \in Writers PROVE CallInv(v)'
  BY <1>1, <1>2 DEF StoreInv, TypeOK, CallInv, Unchanged, IsPut, Covers
<1> QED BY <1>3, <1>4 DEF StoreInv

\* A call that ends without changing the entry promises nothing that does not
\* hold of it.
LEMMA AnswerInv ==
    ASSUME StoreInv, NEW w \in Writers, NEW result \in {"done", "failed"},
           Answer(w, result), UNCHANGED <<entry, calls>>, promised' \subseteq Nat,
           \A position \in promised' : Stored >= position
    PROVE  StoreInv'
<1>1. NoCall \in [pc : Pcs, position : Nat, seen : Nat] /\ NoCall.pc = "idle" /\ NoCall.seen = 0
  BY DEF NoCall, Pcs
<1>2. call' = [call EXCEPT ![w] = NoCall] /\ answer' = [answer EXCEPT ![w] = result]
  BY DEF Answer
<1>3. TypeOK' /\ NoUpsertLost'
  BY <1>1, <1>2 DEF StoreInv, TypeOK, NoUpsertLost, Stored, IsPut
<1>4. ASSUME NEW v \in Writers PROVE CallInv(v)'
  BY <1>1, <1>2 DEF StoreInv, TypeOK, CallInv, Unchanged, IsPut, Covers
<1> QED BY <1>3, <1>4 DEF StoreInv

\* A call that ends with a conditional write: nobody else's revision is current
\* any more, and everything promised is still covered.
LEMMA WriteInv ==
    ASSUME StoreInv, NEW w \in Writers, NEW result \in {"done", "failed"},
           Answer(w, result), UNCHANGED calls,
           entry' \in [operation : {"Put", "Delete"}, revision : Nat, value : Nat],
           entry'.revision = entry.revision + 1, promised' \subseteq Nat,
           \A position \in promised' : entry'.operation = "Put" /\ entry'.value >= position
    PROVE  StoreInv'
<1>1. NoCall \in [pc : Pcs, position : Nat, seen : Nat] /\ NoCall.pc = "idle" /\ NoCall.seen = 0
  BY DEF NoCall, Pcs
<1>2. call' = [call EXCEPT ![w] = NoCall] /\ answer' = [answer EXCEPT ![w] = result]
  BY DEF Answer
<1>3. TypeOK'
  BY <1>1, <1>2 DEF StoreInv, TypeOK
<1>4. NoUpsertLost'
  BY DEF NoUpsertLost, Stored, IsPut
<1>5. ASSUME NEW v \in Writers PROVE CallInv(v)'
  BY <1>1, <1>2 DEF StoreInv, TypeOK, CallInv, Unchanged, IsPut, Covers
<1> QED BY <1>3, <1>4, <1>5 DEF StoreInv

\* What a put by the writer w does to the entry and to what readers find.
LEMMA PutCovers ==
    ASSUME StoreInv, NEW w \in Writers, entry' = PutValue(entry, call[w].position),
           \/ call[w].pc = "create" /\ Creates(entry)
           \/ call[w].pc = "update" /\ Unchanged(entry, call[w].seen)
    PROVE  /\ entry' \in [operation : {"Put", "Delete"}, revision : Nat, value : Nat]
           /\ entry'.revision = entry.revision + 1
           /\ call[w].position \in Positions
           /\ entry'.operation = "Put" /\ entry'.value = call[w].position
           /\ ~ (Stored >= call[w].position)
           /\ \A position \in promised \cup {call[w].position} : entry'.value >= position
<1>1. call[w].position \in Positions /\ call[w].position \in Nat \ {0}
  BY DEF StoreInv, CallInv
<1>2. ~ (Stored >= call[w].position)
  BY <1>1 DEF StoreInv, TypeOK, CallInv, Stored, IsPut, Creates, Covers
<1>3. Stored \in Nat
  BY DEF StoreInv, TypeOK, Stored
<1>4. \A position \in promised : position \in Nat /\ call[w].position >= position
  BY <1>1, <1>2, <1>3 DEF StoreInv, TypeOK, NoUpsertLost
<1> QED BY <1>1, <1>2, <1>4 DEF StoreInv, TypeOK, PutValue

\* What a delete does to the entry and to what readers find.
LEMMA DeleteEmpties ==
    ASSUME StoreInv, entry' = DeleteMarker(entry)
    PROVE  /\ entry' \in [operation : {"Put", "Delete"}, revision : Nat, value : Nat]
           /\ entry'.revision = entry.revision + 1
           /\ Stored' = NoPosition
BY DEF StoreInv, TypeOK, DeleteMarker, Stored, IsPut

\* Every step of the loops preserves the invariant.
LEMMA InvStep == StoreInv /\ [Next]_vars => StoreInv'
<1> SUFFICES ASSUME StoreInv, [Next]_vars PROVE StoreInv'
  OBVIOUS
<1>1. ASSUME NEW w \in Writers, BeginUpsert(w) \/ BeginDelete(w) PROVE StoreInv'
  BY <1>1, BeginInv
<1>2. ASSUME NEW w \in Writers, ReadEntry(w) PROVE StoreInv'
  <2>1. call[w].position \in Positions /\ call[w].position \in Nat /\ entry.revision \in Nat
    BY <1>2 DEF ReadEntry, StoreInv, TypeOK, CallInv
  <2>2. CASE ~IsPut(entry) /\ Continue(w, "create", entry.revision)
    BY <1>2, <2>1, <2>2, ContinueInv DEF ReadEntry, Pcs
  <2>3. CASE IsPut(entry) /\ Covers(call[w].position) /\ Keep(w) /\ UNCHANGED entry
    <3>1. promised' \subseteq Nat /\ \A position \in promised' : Stored >= position
      BY <2>1, <2>3 DEF Keep, Covers, Stored, StoreInv, TypeOK, NoUpsertLost
    <3> QED BY <1>2, <2>3, <3>1, AnswerInv DEF ReadEntry, Keep
  <2>4. CASE IsPut(entry) /\ ~Covers(call[w].position) /\ Continue(w, "update", entry.revision)
    BY <1>2, <2>1, <2>4, ContinueInv DEF ReadEntry, Pcs
  <2> QED BY <1>2, <2>2, <2>3, <2>4 DEF ReadEntry
<1>3. ASSUME NEW w \in Writers, CreateEntry(w) \/ UpdateEntry(w) PROVE StoreInv'
  <2>1. CASE /\ \/ call[w].pc = "create" /\ Creates(entry)
                \/ call[w].pc = "update" /\ Unchanged(entry, call[w].seen)
             /\ entry' = PutValue(entry, call[w].position) /\ Keep(w)
    <3>1. promised' \subseteq Nat
      BY <2>1, PutCovers DEF Keep, StoreInv, TypeOK
    <3> QED BY <1>3, <2>1, <3>1, PutCovers, WriteInv DEF CreateEntry, UpdateEntry, Keep
  <2>2. CASE call[w].pc \in {"create", "update"} /\ Continue(w, "read", 0)
    <3>1. call[w].position \in Positions /\ 0 <= entry.revision
      BY <2>2 DEF StoreInv, TypeOK, CallInv
    <3> QED BY <1>3, <2>2, <3>1, ContinueInv DEF CreateEntry, UpdateEntry, Pcs
  <2> QED BY <1>3, <2>1, <2>2 DEF CreateEntry, UpdateEntry
<1>4. ASSUME NEW w \in Writers, ReadForDelete(w) PROVE StoreInv'
  <2>1. CASE IsPut(entry) /\ Continue(w, "delete", entry.revision)
    <3>1. entry.revision \in Nat
      BY DEF StoreInv, TypeOK
    <3> QED BY <1>4, <2>1, <3>1, ContinueInv DEF ReadForDelete, Pcs
  <2>2. CASE Answer(w, "done") /\ UNCHANGED <<entry, promised>>
    BY <1>4, <2>2, AnswerInv DEF ReadForDelete, StoreInv, TypeOK, NoUpsertLost
  <2> QED BY <1>4, <2>1, <2>2 DEF ReadForDelete
<1>5. ASSUME NEW w \in Writers, DeleteEntry(w) PROVE StoreInv'
  <2>1. CASE entry' = DeleteMarker(entry) /\ promised' = {} /\ Answer(w, "done")
    BY <1>5, <2>1, DeleteEmpties, WriteInv DEF DeleteEntry
  <2>2. CASE Continue(w, "readForDelete", 0)
    <3>1. 0 <= entry.revision
      BY DEF StoreInv, TypeOK
    <3> QED BY <1>5, <2>2, <3>1, ContinueInv DEF DeleteEntry, Pcs
  <2> QED BY <1>5, <2>1, <2>2 DEF DeleteEntry
<1>6. ASSUME NEW w \in Writers, Fail(w) PROVE StoreInv'
  <2>1. CASE UNCHANGED <<entry, promised>>
    BY <1>6, <2>1, AnswerInv DEF Fail, StoreInv, TypeOK, NoUpsertLost
  <2>2. CASE /\ \/ call[w].pc = "create" /\ Creates(entry)
                \/ call[w].pc = "update" /\ Unchanged(entry, call[w].seen)
             /\ entry' = PutValue(entry, call[w].position) /\ UNCHANGED promised
    BY <1>6, <2>2, PutCovers, WriteInv DEF Fail, StoreInv, TypeOK
  <2>3. CASE entry' = DeleteMarker(entry) /\ promised' = {}
    BY <1>6, <2>3, DeleteEmpties, WriteInv DEF Fail
  <2> QED BY <1>6, <2>1, <2>2, <2>3 DEF Fail
<1>7. CASE UNCHANGED vars
  <2>1. TypeOK' /\ NoUpsertLost'
    BY <1>7 DEF vars, StoreInv, TypeOK, NoUpsertLost, Stored, IsPut
  <2>2. ASSUME NEW v \in Writers PROVE CallInv(v)'
    BY <1>7 DEF vars, StoreInv, CallInv, Unchanged, IsPut, Covers
  <2> QED BY <2>1, <2>2 DEF StoreInv
<1> QED BY <1>1, <1>2, <1>3, <1>4, <1>5, <1>6, <1>7 DEF Next, Step

\* The invariant holds of a key that was never written.
LEMMA InvInit == Init => StoreInv
BY DEF Init, StoreInv, TypeOK, NoUpsertLost, CallInv, NoCall, NoEntry, Pcs, IsPut, Unchanged

\* The invariant of the compare-and-swap loops holds in every reachable state.
THEOREM InvariantHolds == Spec => []StoreInv
BY InvInit, InvStep, PTL DEF Spec

\* No upsert that returned Ok is lost, for any number of callers and calls.
THEOREM UpsertsSurvive == Spec => []NoUpsertLost
<1>1. StoreInv => NoUpsertLost
  BY DEF StoreInv
<1> QED BY <1>1, InvariantHolds, PTL

-----------------------------------------------------------------------------
(* Refinement. *)

\* A call that goes on, or begins, is invisible or reported as pending.
LEMMA SimulatesStep ==
    ASSUME StoreInv, [Next]_vars
    PROVE  [Register!Next]_<<Stored, answer>>
<1>1. ASSUME NEW w \in Writers, BeginUpsert(w) \/ BeginDelete(w) PROVE Register!Next
  <2>1. UNCHANGED Stored /\ answer' = [answer EXCEPT ![w] = "none"]
    BY <1>1 DEF BeginUpsert, BeginDelete, Begin, Stored, IsPut
  <2> QED BY <2>1 DEF Register!Next, Register!Report, Register!Answers
<1>2. ASSUME NEW w \in Writers, NEW pc, NEW seen, Continue(w, pc, seen)
      PROVE  UNCHANGED <<Stored, answer>>
  BY <1>2 DEF Continue, Stored, IsPut
<1>3. ASSUME NEW w \in Writers, NEW result \in {"done", "failed"}, Answer(w, result),
             NEW position \in Positions,
             Stored' = IF Stored >= position THEN Stored ELSE position
      PROVE  Register!Next
  BY <1>3 DEF Answer, Register!Next, Register!Upsert, Register!Answers
<1>4. ASSUME NEW w \in Writers, NEW result \in {"done", "failed"}, Answer(w, result),
             Stored' = NoPosition
      PROVE  Register!Next
  BY <1>4 DEF Answer, Register!Next, Register!Delete, Register!Answers, Register!NoPosition
<1>5. ASSUME NEW w \in Writers, entry' = PutValue(entry, call[w].position),
             \/ call[w].pc = "create" /\ Creates(entry)
             \/ call[w].pc = "update" /\ Unchanged(entry, call[w].seen)
      PROVE  /\ call[w].position \in Positions
             /\ Stored' = IF Stored >= call[w].position THEN Stored ELSE call[w].position
  BY <1>5, PutCovers DEF Stored, IsPut
<1>6. ASSUME NEW w \in Writers, ReadEntry(w)
      PROVE  Register!Next \/ UNCHANGED <<Stored, answer>>
  <2>1. CASE IsPut(entry) /\ Covers(call[w].position) /\ Keep(w) /\ UNCHANGED entry
    <3>1. call[w].position \in Positions
      BY <1>6 DEF ReadEntry, StoreInv, CallInv
    <3>2. Stored' = IF Stored >= call[w].position THEN Stored ELSE call[w].position
      BY <2>1 DEF Stored, Covers, IsPut
    <3> QED BY <1>3, <2>1, <3>1, <3>2 DEF Keep
  <2> QED BY <1>2, <1>6, <2>1 DEF ReadEntry
<1>7. ASSUME NEW w \in Writers, CreateEntry(w) \/ UpdateEntry(w)
      PROVE  Register!Next \/ UNCHANGED <<Stored, answer>>
  BY <1>2, <1>3, <1>5, <1>7 DEF CreateEntry, UpdateEntry, Keep
<1>8. ASSUME entry' = DeleteMarker(entry) PROVE Stored' = NoPosition
  BY <1>8, DeleteEmpties
<1>9. ASSUME NEW w \in Writers, ReadForDelete(w) \/ DeleteEntry(w)
      PROVE  Register!Next \/ UNCHANGED <<Stored, answer>>
  <2>1. CASE ~IsPut(entry) /\ Answer(w, "done") /\ UNCHANGED entry
    BY <1>4, <2>1 DEF Stored, IsPut
  <2> QED BY <1>2, <1>4, <1>8, <1>9, <2>1 DEF ReadForDelete, DeleteEntry
<1>10. ASSUME NEW w \in Writers, Fail(w)
       PROVE  Register!Next
  <2>1. CASE UNCHANGED entry
    BY <1>10, <2>1 DEF Fail, Answer, Stored, IsPut, Register!Next, Register!Report, Register!Answers
  <2> QED BY <1>3, <1>4, <1>5, <1>8, <1>10, <2>1 DEF Fail
<1>11. CASE UNCHANGED vars
  BY <1>11 DEF vars, Stored, IsPut
<1> QED BY <1>1, <1>6, <1>7, <1>9, <1>10, <1>11 DEF Next, Step

\* Every call of the compare-and-swap loops is one atomic step of the register,
\* for any number of callers, positions and calls.
THEOREM LoopsImplementRegister == Spec => ImplementsRegister
<1>1. Init => Register!Init
  BY DEF Init, Register!Init, Stored, IsPut, NoEntry, Register!NoPosition
<1>2. StoreInv /\ [Next]_vars => [Register!Next]_<<Stored, answer>>
  BY SimulatesStep
<1> QED BY <1>1, <1>2, InvariantHolds, PTL DEF Spec, ImplementsRegister, Register!Spec

=============================================================================
