------------------------ MODULE SnapshotTrackerProofs ------------------------
(***************************************************************************)
(* A drain returns only after every write scheduled before it has ended,   *)
(* for any number of writes and callers. The argument: the count is the    *)
(* number of guards held, so a drain that reads zero sees no guard, and a  *)
(* write whose guard is gone has ended.                                    *)
(***************************************************************************)
EXTENDS SnapshotTracker, FiniteSetTheorems, TLAPS

\* The guards held are finitely many.
LEMMA HeldFinite == IsFiniteSet(Held) /\ Cardinality(Held) \in Nat
  BY TrackerAssumption, FS_Subset, FS_CardinalityType DEF Held

\* Taking a slot of one more task counts one more guard.
LEMMA OneMore ==
  ASSUME TypeOK, CountExact, NEW t \in Tasks, guard[t] # "held",
         inFlight' = inFlight + 1, guard' = [guard EXCEPT ![t] = "held"]
  PROVE  CountExact'
  <1>1. Held' = Held \cup {t} /\ t \notin Held
    BY DEF Held, TypeOK
  <1>2. Cardinality(Held') = Cardinality(Held) + 1
    BY <1>1, HeldFinite, FS_AddElement
  <1> QED BY <1>2 DEF CountExact

\* Dropping a guard that was held counts one less, and there was one to drop.
LEMMA OneLess ==
  ASSUME TypeOK, CountExact, NEW t \in Tasks, guard[t] = "held",
         NEW g \in {"last", "dropped"},
         inFlight' = inFlight - 1, guard' = [guard EXCEPT ![t] = g]
  PROVE  CountExact' /\ inFlight' \in Nat
  <1>1. Held' = Held \ {t} /\ t \in Held
    BY DEF Held, TypeOK
  <1>2. Cardinality(Held') = Cardinality(Held) - 1 /\ Cardinality(Held') \in Nat
    <2>1. Cardinality(Held') = Cardinality(Held) - 1
      BY <1>1, HeldFinite, FS_RemoveElement
    <2>2. IsFiniteSet(Held')
      BY <1>1, HeldFinite, FS_RemoveElement
    <2> QED BY <2>1, <2>2, FS_CardinalityType
  <1> QED BY <1>2 DEF CountExact

\* A drain that reads a count of zero has nothing left to wait for.
LEMMA ZeroMeansEnded ==
  ASSUME TrackerInv, inFlight = 0, NEW d \in Drainers, NEW t \in awaited[d]
  PROVE  write[t] = "ended"
  <1>1. t \in Tasks BY DEF TrackerInv, TypeOK
  <1>2. Held = {}
    BY HeldFinite, FS_EmptySet DEF TrackerInv, CountExact
  <1>3. guard[t] \notin {"none", "held"}
    BY <1>1, <1>2 DEF Held, TrackerInv
  <1> QED BY <1>1, <1>3 DEF TrackerInv, TypeOK, GuardedWrites

\* Every step of the tracker preserves its invariant.
LEMMA TrackerInvStep == TrackerInv /\ [Next]_vars => TrackerInv'
  <1> SUFFICES ASSUME TrackerInv, [Next]_vars PROVE TrackerInv' OBVIOUS
  <1> USE DEF TrackerInv, TypeOK
  <1>1. ASSUME NEW t \in Tasks, Schedule(t) PROVE TrackerInv'
    <2>1. CountExact' BY <1>1, OneMore DEF Schedule
    <2> QED BY <1>1, <2>1 DEF Schedule, GuardedWrites, DrainWaitsForScheduled
  <1>2. ASSUME NEW t \in Tasks, WriteEnds(t) PROVE TrackerInv'
    BY <1>2 DEF WriteEnds, GuardedWrites, DrainWaitsForScheduled, CountExact, Held
  <1>3. ASSUME NEW t \in Tasks, Release(t) PROVE TrackerInv'
    <2> DEFINE g == IF inFlight = 1 THEN "last" ELSE "dropped"
    <2>1. g \in {"last", "dropped"} /\ guard[t] = "held"
          /\ inFlight' = inFlight - 1 /\ guard' = [guard EXCEPT ![t] = g]
      BY <1>3 DEF Release
    <2> HIDE DEF g
    <2>2. CountExact' /\ inFlight' \in Nat BY <2>1, OneLess
    <2> QED BY <1>3, <2>1, <2>2 DEF Release, GuardedWrites, DrainWaitsForScheduled
  <1>4. ASSUME NEW t \in Tasks, Notify(t) PROVE TrackerInv'
    <2>1. Held' = Held BY <1>4 DEF Notify, Held
    <2> QED BY <1>4, <2>1 DEF Notify, GuardedWrites, DrainWaitsForScheduled, CountExact
  <1>5. ASSUME NEW d \in Drainers, CallDrain(d) PROVE TrackerInv'
    BY <1>5 DEF CallDrain, GuardedWrites, DrainWaitsForScheduled, CountExact, Held
  <1>6. ASSUME NEW d \in Drainers, Register(d) PROVE TrackerInv'
    BY <1>6 DEF Register, GuardedWrites, DrainWaitsForScheduled, CountExact, Held
  <1>7. ASSUME NEW d \in Drainers, LoadCount(d) PROVE TrackerInv'
    <2>1. DrainWaitsForScheduled'
      BY <1>7, ZeroMeansEnded DEF LoadCount, DrainWaitsForScheduled
    <2> QED BY <1>7, <2>1 DEF LoadCount, GuardedWrites, CountExact, Held
  <1>8. ASSUME NEW d \in Drainers, Await(d) PROVE TrackerInv'
    BY <1>8 DEF Await, GuardedWrites, DrainWaitsForScheduled, CountExact, Held
  <1>9. ASSUME NEW d \in Drainers, Wake(d) PROVE TrackerInv'
    BY <1>9 DEF Wake, GuardedWrites, DrainWaitsForScheduled, CountExact, Held
  <1>10. CASE UNCHANGED vars
    BY <1>10 DEF vars, GuardedWrites, DrainWaitsForScheduled, CountExact, Held
  <1> QED
    BY <1>1, <1>2, <1>3, <1>4, <1>5, <1>6, <1>7, <1>8, <1>9, <1>10 DEF Next, TaskStep, DrainStep

\* The tracker's invariant holds before anything is scheduled.
LEMMA TrackerInvInit == Init => TrackerInv
  <1> SUFFICES ASSUME Init PROVE TrackerInv OBVIOUS
  <1>1. Held = {} BY DEF Init, Held
  <1>2. CountExact BY <1>1, FS_EmptySet DEF Init, CountExact
  <1> QED BY <1>2 DEF Init, TrackerInv, TypeOK, GuardedWrites, DrainWaitsForScheduled

\* The count of writes in flight is exact and a guard outlives its write, for
\* any number of snapshot writes and drains.
THEOREM TrackerCorrect == Spec => []TrackerInv
  BY TrackerInvInit, TrackerInvStep, PTL DEF Spec

\* drain waits for every snapshot write scheduled before it was called.
THEOREM DrainWaits == Spec => []DrainWaitsForScheduled
  <1>1. TrackerInv => DrainWaitsForScheduled BY DEF TrackerInv
  <1> QED BY <1>1, TrackerCorrect, PTL

=============================================================================
