--------------------------- MODULE SnapshotTracker ---------------------------
(***************************************************************************)
(* DrainableSnapshotTaskScheduler (trogon-decider-runtime/src/execution.rs)*)
(* : an atomic count of snapshot writes in flight, decremented by a guard  *)
(* when the write's task ends, and a Notify that wakes the callers of      *)
(* drain. The decrement and the notification are two steps, and so are a   *)
(* drain's registration, its load of the count and its await.              *)
(***************************************************************************)
EXTENDS Naturals, FiniteSets

CONSTANTS
    Tasks,     \* the snapshot writes there are to schedule
    Drainers   \* the callers of drain

ASSUME TrackerAssumption == IsFiniteSet(Tasks)

VARIABLES
    inFlight,   \* SnapshotTaskTracker::in_flight
    write,      \* per task, the scheduled future ("dropped" by the exit of a host)
    guard,      \* per task, its SnapshotTaskGuard
    drain,      \* per drainer, the point of its loop
    notified,   \* the drainers whose Notified future is ready
    awaited     \* history: the tasks scheduled when a drainer called drain

vars == <<inFlight, write, guard, drain, notified, awaited>>

Held == {t \in Tasks : guard[t] = "held"}

Init ==
    /\ inFlight = 0
    /\ write = [t \in Tasks |-> "none"]
    /\ guard = [t \in Tasks |-> "none"]
    /\ drain = [d \in Drainers |-> "idle"]
    /\ notified = {}
    /\ awaited = [d \in Drainers |-> {}]

\* schedule: the slot is reserved before the task is spawned.
Schedule(t) ==
    /\ guard[t] = "none"
    /\ inFlight' = inFlight + 1
    /\ guard' = [guard EXCEPT ![t] = "held"]
    /\ write' = [write EXCEPT ![t] = "running"]
    /\ UNCHANGED <<drain, notified, awaited>>

\* The future completes or panics.
WriteEnds(t) ==
    /\ write[t] = "running"
    /\ write' = [write EXCEPT ![t] = "ended"]
    /\ UNCHANGED <<inFlight, guard, drain, notified, awaited>>

\* Mutant of Release: the guard is dropped without waiting for the future.
ReleaseAtOnce(t) ==
    /\ guard[t] = "held"
    /\ inFlight' = inFlight - 1
    /\ guard' = [guard EXCEPT ![t] = IF inFlight = 1 THEN "last" ELSE "dropped"]
    /\ UNCHANGED <<write, drain, notified, awaited>>

\* The guard's drop decrements the count and learns whether it was the last.
Release(t) ==
    /\ write[t] = "ended" /\ guard[t] = "held"
    /\ inFlight' = inFlight - 1
    /\ guard' = [guard EXCEPT ![t] = IF inFlight = 1 THEN "last" ELSE "dropped"]
    /\ UNCHANGED <<write, drain, notified, awaited>>

\* Mutant of Subscribed: drain creates its Notified after it read the count.
SubscribedLate(d) == drain[d] = "waiting"

\* The Notified of drain's current turn exists.
Subscribed(d) == drain[d] \in {"registered", "loaded", "waiting"}

\* notify_waiters readies every Notified that exists, awaited or not.
Notify(t) ==
    /\ guard[t] = "last"
    /\ guard' = [guard EXCEPT ![t] = "dropped"]
    /\ notified' = notified \cup {d \in Drainers : Subscribed(d)}
    /\ UNCHANGED <<inFlight, write, drain, awaited>>

CallDrain(d) ==
    /\ drain[d] \in {"idle", "returned"}
    /\ drain' = [drain EXCEPT ![d] = "looping"]
    /\ awaited' = [awaited EXCEPT ![d] = {t \in Tasks : guard[t] # "none"}]
    /\ UNCHANGED <<inFlight, write, guard, notified>>

\* The turn's Notified is created ...
Register(d) ==
    /\ drain[d] = "looping"
    /\ drain' = [drain EXCEPT ![d] = "registered"]
    /\ notified' = notified \ {d}
    /\ UNCHANGED <<inFlight, write, guard, awaited>>

\* ... before the count is loaded.
LoadCount(d) ==
    /\ drain[d] = "registered"
    /\ drain' = [drain EXCEPT ![d] = IF inFlight = 0 THEN "returned" ELSE "loaded"]
    /\ UNCHANGED <<inFlight, write, guard, notified, awaited>>

\* Writes were in flight: the Notified is awaited.
Await(d) ==
    /\ drain[d] = "loaded"
    /\ drain' = [drain EXCEPT ![d] = "waiting"]
    /\ UNCHANGED <<inFlight, write, guard, notified, awaited>>

\* Mutant of Wake: a notified drain returns without reading the count again.
WakeReturning(d) ==
    /\ drain[d] = "waiting" /\ d \in notified
    /\ drain' = [drain EXCEPT ![d] = "returned"]
    /\ UNCHANGED <<inFlight, write, guard, notified, awaited>>

\* The await ends and the loop turns.
Wake(d) ==
    /\ drain[d] = "waiting" /\ d \in notified
    /\ drain' = [drain EXCEPT ![d] = "looping"]
    /\ UNCHANGED <<inFlight, write, guard, notified, awaited>>

TaskStep(t) == WriteEnds(t) \/ Release(t) \/ Notify(t)
DrainStep(d) == Register(d) \/ LoadCount(d) \/ Await(d) \/ Wake(d)

Next ==
    \/ \E t \in Tasks : Schedule(t) \/ TaskStep(t)
    \/ \E d \in Drainers : CallDrain(d) \/ DrainStep(d)

Spec == Init /\ [][Next]_vars

-----------------------------------------------------------------------------
TypeOK ==
    /\ inFlight \in Nat
    /\ write \in [Tasks -> {"none", "running", "ended", "dropped"}]
    /\ guard \in [Tasks -> {"none", "held", "last", "dropped"}]
    /\ drain \in [Drainers -> {"idle", "looping", "registered", "loaded", "waiting", "returned"}]
    /\ notified \subseteq Drainers
    /\ awaited \in [Drainers -> SUBSET Tasks]

\* The count is the number of guards held.
CountExact == inFlight = Cardinality(Held)

\* A guard outlives its write.
GuardedWrites == \A t \in Tasks :
    /\ write[t] = "running" => guard[t] = "held"
    /\ guard[t] \in {"last", "dropped"} => write[t] = "ended"

\* Every write a returned drain had to wait for has ended, although later
\* writes may be running.
DrainWaitsForScheduled ==
    \A d \in Drainers : drain[d] = "returned" => \A t \in awaited[d] : write[t] = "ended"

\* The inductive invariant: the count an exact drain relies on.
TrackerInv == TypeOK /\ CountExact /\ GuardedWrites /\ DrainWaitsForScheduled
              /\ \A d \in Drainers : \A t \in awaited[d] : guard[t] # "none"

=============================================================================
