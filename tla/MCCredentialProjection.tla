----------------------- MODULE MCCredentialProjection -----------------------
(* Instances of CredentialProjection for TLC. *)
EXTENDS CredentialProjection

\* A credential with a past, another one of its owner, and one of another owner
\* who takes its kind.
Old == <<"o1", "k1">>
Contested == {Old, <<"o1", "k2">>, <<"o2", "k1">>}

The(states) == CHOOSE c \in states : TRUE
Requested == The(RequestWrite(InitialCredential))
Active == The(ActivateWrite(Requested, 1, "Active"))
Rotating == The(RequestRotation(Active, 1))
RotationFailed == The(RecordRotationFailure(Rotating, 1))
Revoked == The(Revoke(Active, 1))
Destroying == The(RequestDestroy(Revoked, 1))

\* What the stream holds when the process starts: the credential was written,
\* revoked and destroyed, or it is in use and two rotations failed. Init reaches
\* either by events of other processes and a restart.
Pasts ==
    {<<Requested, Active, Revoked, Destroying, The(CompleteDestroy(Destroying, 1))>>,
     <<Requested, Active, Rotating, RotationFailed, Rotating, RotationFailed>>}

MCInit ==
    \E past \in Pasts :
        /\ log = [p \in DOMAIN past |-> [id |-> Old, state |-> past[p]]]
        /\ credential = [[id \in Ids |-> InitialCredential] EXCEPT ![Old] = past[Len(past)]]
        /\ written = [[id \in Ids |-> 0] EXCEPT ![Old] = 1]
        /\ faults = 0 /\ table = {} /\ cache = {} /\ cursor = 0
        /\ applied = NothingApplied /\ pass = NoPass /\ job = NoJobs /\ resolver = NoResolves

MCSpec == MCInit /\ [][Next]_vars /\ WF_vars(WorkerStep)

=============================================================================
