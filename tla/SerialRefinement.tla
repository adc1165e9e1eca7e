-------------------------- MODULE SerialRefinement --------------------------
(***************************************************************************)
(* Command execution implements SerialStream: the log and the answers are  *)
(* the abstract state as they are, so the refinement mapping is the        *)
(* identity on both, and a command takes effect where its batch is stored. *)
(***************************************************************************)
EXTENDS CommandExecution

Serial == INSTANCE SerialStream

\* Commands that are decided under an optimistic guard.
OnlyGuarded == \A e \in Executors : Precondition[e] \in {"StreamUnchanged", "NoStream"}

-----------------------------------------------------------------------------
(* The inductive invariants the proofs of CommandExecutionProofs rest on.  *)

\* What an execution knows of the log at each await point.
ExecutionInv(e) ==
    LET x == run[e]
    IN  /\ x.base <= Len(log)
        /\ x.tail \in {NoPosition} \cup OnSubject(log)
        /\ x.pc = "snapshot" => x.base = NoPosition
        /\ x.pc \in {"snapshot", "load"} => x.last = NoPosition /\ x.state = History(log, x.base)
        /\ x.pc = "walk" => /\ ChunkSize # Unset
                            /\ x.last <= x.tail
                            /\ x.state = History(log, x.last)
        /\ x.pc \in {"decide", "publish"} => x.state = History(log, x.tail)
        /\ x.pc = "publish" => x.guard \in 0..x.tail /\ x.batch \in 1..MaxBatch

\* Snapshots, replayed state and stored decisions all agree with the log.
\* Inductive when every command is guarded.
GuardedInv ==
    /\ SnapshotCoversHistory
    /\ \A s \in tasks \cup {snapshot} : s.position <= Len(log)
    /\ DecidedOnExactHistory
    /\ \A e \in Executors : ExecutionInv(e)

\* Event ids are unique in the log, number the events of their batch, and are
\* the command's own when the command is identified.
IdentityInv ==
    /\ \A e \in Executors : Active(e) => delivery[e] # 0
    /\ \A p, q \in Decodable(log) : log[p].id = log[q].id => p = q
    /\ \A p \in Decodable(log) :
          /\ log[p].id[1] \in Identified => log[p].id[2] = 0
          /\ BatchStart(p) \in Decodable(log)
          /\ log[BatchStart(p)].id = <<log[p].id[1], log[p].id[2], 1>>

\* Every step of concurrent, retried, chunked, snapshotted execution is, seen
\* from outside, one whole command or nothing.
ImplementsSerialStream == Serial!Spec

=============================================================================
