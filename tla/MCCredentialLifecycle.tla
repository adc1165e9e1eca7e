------------------------ MODULE MCCredentialLifecycle ------------------------
(* Instances of CredentialLifecycle for TLC. *)
EXTENDS CredentialLifecycle, TLC

\* All jobs in one process, or one of the requests in a process of its own.
Homes ==
    LET here  == CHOOSE p \in Processes : TRUE
        there == CHOOSE p \in Processes : p # here
        other == CHOOSE j \in Requests : TRUE
    IN  {[j \in Jobs |-> here], [j \in Jobs |-> IF j = other THEN there ELSE here]}

MCInit == Init /\ home \in Homes

\* Bound: jobs that no lock keeps apart get one request or fault less.
MCNext == Next /\ (OneProcess \/ requests' + faults' < Budget)

MCSpec == MCInit /\ [][MCNext]_vars /\ Fairness

=============================================================================
