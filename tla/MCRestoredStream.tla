-------------------------- MODULE MCRestoredStream --------------------------
(* Instances of RestoredStream for TLC. *)
EXTENDS RestoredStream

\* Executors named after their preconditions.
ByName ==
    [e \in Executors |->
        CASE e = "create" -> "NoStream"
          [] e = "exists" -> "StreamExists"
          [] OTHER        -> "StreamUnchanged"]

\* Expected revisions: none, or the position after the first entry.
SomeRevisions == {NoPosition, 1}

=============================================================================
