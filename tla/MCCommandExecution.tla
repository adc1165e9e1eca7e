------------------------- MODULE MCCommandExecution -------------------------
(***************************************************************************)
(* Instances of CommandExecution for TLC. An executor is named for the     *)
(* precondition its command declares when that is what a run varies.       *)
(***************************************************************************)
EXTENDS SerialRefinement

\* Executors named after their preconditions.
ByName ==
    [e \in Executors |->
        IF e = "any" THEN "Any" ELSE "StreamUnchanged"]

\* No caller expects a revision.
NoRevisions == {NoPosition}

=============================================================================
