--------------------------- MODULE SnapshotRegister ---------------------------
(***************************************************************************)
(* What the snapshot store promises of one snapshot key: each upsert and   *)
(* each delete happens at once, an upsert never replaces a later position, *)
(* and a caller that is told it succeeded had its effect.                  *)
(***************************************************************************)
EXTENDS Naturals

CONSTANTS Writers, Positions

VARIABLES stored, answer

NoPosition == 0

Init ==
    /\ stored = NoPosition
    /\ answer = [w \in Writers |-> "none"]

Answers(w, result) == answer' = [answer EXCEPT ![w] = result]

\* The stored snapshot is the later one; a failed call may still have stored.
Upsert(w, position) ==
    /\ stored' = IF stored >= position THEN stored ELSE position
    /\ \E result \in {"done", "failed"} : Answers(w, result)

Delete(w) ==
    /\ stored' = NoPosition
    /\ \E result \in {"done", "failed"} : Answers(w, result)

\* A call begins, or fails without effect.
Report(w) ==
    /\ \E result \in {"none", "failed"} : Answers(w, result)
    /\ UNCHANGED stored

Next ==
    \E w \in Writers :
        \/ \E position \in Positions : Upsert(w, position)
        \/ Delete(w)
        \/ Report(w)

Spec == Init /\ [][Next]_<<stored, answer>>

=============================================================================
