-------------------------- MODULE DeciderHostProofs --------------------------
(***************************************************************************)
(* The exit of a host drops no snapshot write that was scheduled before its*)
(* shutdown, for any number of commands. Every step of the host but Exit is*)
(* a step of the tracker or leaves the tracker alone, so the tracker's     *)
(* invariant carries over; Exit happens only once the drain has returned.  *)
(***************************************************************************)
EXTENDS DeciderHost, SnapshotTrackerProofs

\* The server is the one caller of drain.
LEMMA ServerDrains == Server \in Drainers
  BY ServerAssumption

\* Every step of the host but Exit is one of the tracker, or stutters there.
LEMMA HostStepsTracker == HostNext => [Next]_vars \/ Exit
  <1> SUFFICES ASSUME HostNext, ~Exit PROVE [Next]_vars OBVIOUS
  <1> USE DEF Commands
  <1>1. ASSUME NEW c \in Commands, Receive(c) \/ StoreEvents(c) \/ Reply(c)
        PROVE  UNCHANGED vars
    BY <1>1 DEF Receive, StoreEvents, Reply
  <1>2. ASSUME NEW c \in Commands, ScheduleSnapshot(c) PROVE Next
    BY <1>2 DEF ScheduleSnapshot, Next
  <1>3. ASSUME NEW t \in Tasks, TaskStep(t) PROVE Next
    BY <1>3 DEF Next
  <1>4. ASSUME DrainStep(Server) PROVE Next
    BY <1>4, ServerDrains DEF Next
  <1>5. ASSUME ShutDown PROVE Next
    BY <1>5, ServerDrains DEF ShutDown, Next
  <1>6. ASSUME Stop PROVE UNCHANGED vars
    BY <1>6 DEF Stop
  <1> QED BY <1>1, <1>2, <1>3, <1>4, <1>5, <1>6 DEF HostNext

\* The exit drops only writes that no returned drain was waiting for.
LEMMA ExitKeepsTracker == TrackerInv /\ HostInv /\ Exit => TrackerInv'
  <1> SUFFICES ASSUME TrackerInv, HostInv, Exit PROVE TrackerInv' OBVIOUS
  <1>1. drain[Server] = "returned" /\ Drainers = {Server}
    BY ServerAssumption DEF Exit, HostInv
  <1>2. \A t \in Tasks : write'[t] = IF write[t] = "running" THEN "dropped" ELSE write[t]
    BY DEF Exit
  <1>3. TypeOK'
    BY DEF TrackerInv, TypeOK, Exit
  <1>4. CountExact'
    BY DEF TrackerInv, CountExact, Held, Exit
  <1>5. GuardedWrites'
    BY <1>2 DEF TrackerInv, TypeOK, GuardedWrites, Exit
  <1>6. DrainWaitsForScheduled'
    BY <1>1, <1>2 DEF TrackerInv, TypeOK, DrainWaitsForScheduled, Exit
  <1> QED BY <1>3, <1>4, <1>5, <1>6 DEF TrackerInv, Exit

\* No step of the tracker drops a write.
LEMMA TrackerDropsNothing ==
  ASSUME TypeOK, [Next]_vars, NEW u \in Tasks, write[u] # "dropped"
  PROVE  write'[u] # "dropped"
  <1> USE DEF TypeOK
  <1>1. ASSUME NEW t \in Tasks, Schedule(t) \/ TaskStep(t) PROVE write'[u] # "dropped"
    BY <1>1 DEF Schedule, TaskStep, WriteEnds, Release, Notify
  <1>2. ASSUME NEW d \in Drainers, CallDrain(d) \/ DrainStep(d) PROVE write' = write
    BY <1>2 DEF CallDrain, DrainStep, Register, LoadCount, Await, Wake
  <1>3. CASE UNCHANGED vars
    BY <1>3 DEF vars
  <1> QED BY <1>1, <1>2, <1>3 DEF Next

\* Every step of the host preserves its invariant.
LEMMA HostInvStep == TrackerInv /\ HostInv /\ [HostNext]_hostVars => HostInv'
  <1> SUFFICES ASSUME TrackerInv, HostInv, [HostNext]_hostVars PROVE HostInv' OBVIOUS
  <1> USE DEF Commands, HostInv
  <1>1. CASE Exit
    BY <1>1 DEF Exit
  <1>2. CASE HostNext /\ ~Exit
    <2>1. \A t \in Tasks : write[t] # "dropped" => write'[t] # "dropped"
      BY <1>2, HostStepsTracker, TrackerDropsNothing DEF TrackerInv
    <2>2. ASSUME NEW c \in Commands, Receive(c) \/ StoreEvents(c) \/ Reply(c) PROVE HostInv'
      BY <2>2, <2>1 DEF Receive, StoreEvents, Reply, vars, Running
    <2>3. ASSUME NEW c \in Commands, ScheduleSnapshot(c) PROVE HostInv'
      BY <2>3, <2>1 DEF ScheduleSnapshot, Schedule, Running
    <2>4. ASSUME NEW t \in Tasks, Running, TaskStep(t), UNCHANGED <<handler, host>> PROVE HostInv'
      BY <2>4, <2>1 DEF TaskStep, WriteEnds, Release, Notify, Running
    <2>5. ASSUME Running, DrainStep(Server), UNCHANGED <<handler, host>> PROVE HostInv'
      <3>1. drain[Server] # "returned"
        BY <2>5 DEF DrainStep, Register, LoadCount, Await, Wake
      <3> QED BY <2>5, <2>1, <3>1 DEF Running
    <2>6. ASSUME ShutDown PROVE HostInv'
      BY <2>6, <2>1 DEF ShutDown
    <2>7. ASSUME Stop PROVE HostInv'
      BY <2>7, <2>1 DEF Stop, vars
    <2> QED BY <1>2, <2>2, <2>3, <2>4, <2>5, <2>6, <2>7 DEF HostNext
  <1>3. CASE UNCHANGED hostVars
    BY <1>3 DEF hostVars, vars
  <1> QED BY <1>1, <1>2, <1>3

\* The host's invariant holds when it starts serving.
LEMMA HostInvInit == HostInit => TrackerInv /\ HostInv
  <1> SUFFICES ASSUME HostInit PROVE TrackerInv /\ HostInv OBVIOUS
  <1>1. TrackerInv BY TrackerInvInit DEF HostInit
  <1>2. HostInv BY DEF HostInit, Init, HostInv, Commands
  <1> QED BY <1>1, <1>2

\* The tracker's invariant holds in the host it serves, through its exit.
THEOREM HostCorrect == HostSpec => [](TrackerInv /\ HostInv)
  <1>1. TrackerInv /\ HostInv /\ [HostNext]_hostVars => (TrackerInv /\ HostInv)'
    <2> SUFFICES ASSUME TrackerInv, HostInv, [HostNext]_hostVars PROVE TrackerInv'
      BY HostInvStep
    <2>1. CASE UNCHANGED hostVars
      BY <2>1, TrackerInvStep DEF hostVars
    <2>2. CASE HostNext
      BY <2>2, HostStepsTracker, TrackerInvStep, ExitKeepsTracker
    <2> QED BY <2>1, <2>2
  <1> QED BY <1>1, HostInvInit, PTL DEF HostSpec

\* No write scheduled before the shutdown is dropped by the exit of the host.
THEOREM AnsweredWritesSurvive == HostSpec => []AnsweredWritesKept
  <1>1. TrackerInv /\ HostInv => AnsweredWritesKept
    <2> SUFFICES ASSUME TrackerInv, HostInv, NEW t \in awaited[Server]
                 PROVE  write[t] # "dropped"
      BY DEF AnsweredWritesKept
    <2>1. t \in Tasks
      BY ServerDrains DEF TrackerInv, TypeOK
    <2>2. CASE host # "exited"
      BY <2>1, <2>2 DEF HostInv
    <2>3. CASE host = "exited"
      BY <2>3, ServerDrains DEF HostInv, TrackerInv, DrainWaitsForScheduled
    <2> QED BY <2>2, <2>3
  <1> QED BY <1>1, HostCorrect, PTL

=============================================================================
