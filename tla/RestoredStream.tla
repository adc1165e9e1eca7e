--------------------------- MODULE RestoredStream ---------------------------
(***************************************************************************)
(* Command executions over a stream that lost its tail: the physical       *)
(* stream is deleted and recreated, or restored from an older copy, while  *)
(* the snapshot bucket survives. This is how a snapshot comes to claim a   *)
(* position the stream has not reached, the case ensure_snapshot_not_ahead *)
(* and SnapshotFailurePolicy exist for. Restoring is done with the hosts   *)
(* stopped, so no execution and no snapshot task spans it.                 *)
(***************************************************************************)
EXTENDS CommandExecution

Restore ==
    /\ \A e \in Executors : ~Active(e)
    /\ \E n \in 0..(Len(log) - 1) : log' = SubSeq(log, 1, n)
    /\ tasks' = {}
    /\ UNCHANGED <<snapshot, permits, run, delivery, outcome>>

RestoredNext == Restore \/ Next

RestoredSpec == Init /\ [][RestoredNext]_vars

\* An execution that discarded a snapshot, unreadable or ahead of the stream,
\* and was accepted under its guard decided on the whole surviving history.
DiscardRecovers ==
    [][\A e \in Executors :
         run[e].discarded /\ run[e].pc = "publish" /\ Ids(log') # Ids(log)
            /\ log'[Len(log')].id[1] = e /\ log'[Len(log')].guard # NoGuard
         => run[e].state = Decodable(log)]_vars

\* A snapshot ahead of the stream is never folded into: no execution gets past
\* its load while holding one.
AheadNeverTrusted ==
    \A e \in Executors :
        run[e].pc \in {"walk", "decide", "publish"} => run[e].base <= run[e].tail

=============================================================================
