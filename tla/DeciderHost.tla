----------------------------- MODULE DeciderHost -----------------------------
(***************************************************************************)
(* Serving and shutdown of trogon-decider-nats-server/src/runtime.rs: every*)
(* delivery is handled on a task of its own whose JoinHandle is dropped, a *)
(* command that stores events may schedule a snapshot write, and shutdown  *)
(* drops the subscription and drains the tracker. When serve returns, main *)
(* returns, and the Tokio runtime drops every task that is still there.    *)
(***************************************************************************)
EXTENDS SnapshotTracker

\* A task of the tracker is the snapshot write of one command.
Commands == Tasks

CONSTANT Server   \* the one caller of drain: serve_until

ASSUME ServerAssumption == Drainers = {Server}

VARIABLES
    handler,   \* per command, its delivery
    host       \* serve_until, then main

hostVars == <<vars, handler, host>>

HostInit ==
    /\ Init
    /\ handler = [c \in Commands |-> "undelivered"]
    /\ host = "serving"

\* The receive loop spawns a handler; a command that arrives after the
\* subscription was dropped is never seen.
Receive(c) ==
    /\ host = "serving" /\ handler[c] = "undelivered"
    /\ handler' = [handler EXCEPT ![c] = "executing"]
    /\ UNCHANGED <<vars, host>>

Running == host # "exited"

\* The execution stores its events.
StoreEvents(c) ==
    /\ Running /\ handler[c] = "executing"
    /\ handler' = [handler EXCEPT ![c] = "stored"]
    /\ UNCHANGED <<vars, host>>

\* maybe_take_snapshot, after the store and before the reply.
ScheduleSnapshot(c) ==
    /\ Running /\ handler[c] = "stored"
    /\ Schedule(c)
    /\ UNCHANGED <<handler, host>>

\* A reply of a decision, or of a refusal that stored nothing.
Reply(c) ==
    /\ Running /\ handler[c] \in {"executing", "stored"}
    /\ handler' = [handler EXCEPT ![c] = "replied"]
    /\ UNCHANGED <<vars, host>>

\* The signal, or the end of the subscription: the ingress is dropped and
\* drain is called.
ShutDown ==
    /\ host = "serving"
    /\ host' = "draining"
    /\ CallDrain(Server)
    /\ UNCHANGED handler

\* drain has returned and serve_until returns.
Stop ==
    /\ host = "draining" /\ drain[Server] = "returned"
    /\ host' = "stopped"
    /\ UNCHANGED <<vars, handler>>

\* main flushes telemetry and returns: handlers and writes are dropped.
Exit ==
    /\ host = "stopped"
    /\ host' = "exited"
    /\ handler' = [c \in Commands |->
                     IF handler[c] \in {"executing", "stored"} THEN "dropped" ELSE handler[c]]
    /\ write' = [t \in Tasks |-> IF write[t] = "running" THEN "dropped" ELSE write[t]]
    /\ UNCHANGED <<inFlight, guard, drain, notified, awaited>>

HostNext ==
    \/ \E c \in Commands : Receive(c) \/ StoreEvents(c) \/ ScheduleSnapshot(c) \/ Reply(c)
    \/ \E t \in Tasks : Running /\ TaskStep(t) /\ UNCHANGED <<handler, host>>
    \/ Running /\ DrainStep(Server) /\ UNCHANGED <<handler, host>>
    \/ ShutDown \/ Stop \/ Exit

HostSpec == HostInit /\ [][HostNext]_hostVars

\* Writes end (each bucket operation has a timeout) and the runtime polls
\* every task that is ready; nothing is assumed of handlers or of the signal.
HostFairness ==
    /\ \A t \in Tasks : WF_hostVars(Running /\ TaskStep(t) /\ UNCHANGED <<handler, host>>)
    /\ WF_hostVars(Running /\ DrainStep(Server) /\ UNCHANGED <<handler, host>>)
    /\ WF_hostVars(Stop \/ Exit)

HostFairSpec == HostSpec /\ HostFairness

-----------------------------------------------------------------------------
\* The variables' types; serve_until has returned only if its drain has, only
\* the exit drops a write, and an exited process runs nothing.
HostInv ==
    /\ handler \in [Commands -> {"undelivered", "executing", "stored", "replied", "dropped"}]
    /\ host \in {"serving", "draining", "stopped", "exited"}
    /\ host \in {"stopped", "exited"} => drain[Server] = "returned"
    /\ host # "exited" => \A t \in Tasks : write[t] # "dropped"
    /\ host = "exited" => \A c \in Commands : handler[c] \notin {"executing", "stored"}

\* A write scheduled before the shutdown, and so the write of every command
\* answered by then, is never dropped by the exit of the process.
AnsweredWritesKept ==
    \A t \in awaited[Server] : write[t] # "dropped"

\* A shutdown that was signalled ends the process although commands still
\* execute and schedule writes.
ShutDownEnds == host = "draining" ~> host = "exited"

=============================================================================
