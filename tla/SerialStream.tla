---------------------------- MODULE SerialStream ----------------------------
(***************************************************************************)
(* What command execution promises of a stream whose commands are guarded  *)
(* transitions or creations: it is as if every delivery of a command that  *)
(* takes effect did so in one step, deciding on the whole history, and     *)
(* only a delivery that took effect is answered with success. Executions,  *)
(* snapshots, chunks, retries and admission are not visible at all.        *)
(***************************************************************************)
EXTENDS EventLog

CONSTANTS Executors, Identified, MaxBatch, MaxDeliveries

VARIABLES log, outcome

Init ==
    /\ log = <<>>
    /\ outcome = [e \in Executors |-> "none"]

\* The identity a delivery gives its events: the command's, or its own.
Keys(e) == IF e \in Identified THEN {0} ELSE 1..MaxDeliveries

Applied(e, key) ==
    \E p \in Decodable(log) : log[p].id[1] = e /\ log[p].id[2] = key

\* The command takes effect, once, and the caller learns of it unless the
\* answer is lost.
Execute(e) ==
    /\ \E key \in Keys(e), n \in 1..MaxBatch :
          /\ ~Applied(e, key)
          /\ log' = log \o Batch([i \in 1..n |-> <<e, key, i>>],
                                 Decodable(log), CurrentPosition(log))
    /\ \E result \in {"succeeded", "failed"} :
          outcome' = [outcome EXCEPT ![e] = result]

\* The command has no effect: it is refused, rejected, or fails.
Reject(e) ==
    /\ \E result \in {"none", "overloaded", "denied", "precondition",
                      "rejected", "limit", "conflict", "failed"} :
          outcome' = [outcome EXCEPT ![e] = result]
    /\ UNCHANGED log

\* Other writers of the stream append when they like.
AppendOther(kind) ==
    /\ log' = Append(log, Other(kind))
    /\ UNCHANGED outcome

Next ==
    \/ \E e \in Executors : Execute(e) \/ Reject(e)
    \/ \E kind \in {"alien", "foreign"} : AppendOther(kind)

Spec == Init /\ [][Next]_<<log, outcome>>

=============================================================================
