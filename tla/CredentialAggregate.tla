------------------------- MODULE CredentialAggregate -------------------------
(***************************************************************************)
(* The credential aggregate of the gateway: what each command decides and  *)
(* the state its event leads to. A command is the set of states it may     *)
(* lead to from c: one when it is accepted, none when it is rejected.      *)
(* The credential's reference is abstracted to its version; identity,      *)
(* scope and kind never change within one stream.                          *)
(***************************************************************************)
EXTENDS Integers

NoVersion == 0

Phases == {"Missing", "PendingWrite", "WriteFailed", "Active", "RotationPending",
           "Revoked", "DestroyRequested", "Destroyed", "CleanupFailed"}

\* version is the one the state refers to; destroyed is the one the last
\* Destroyed event named, which a replay of the stream also yields.
Credential == [phase : Phases, version : Nat, destroyed : Nat]

InitialCredential ==
    [phase |-> "Missing", version |-> NoVersion, destroyed |-> NoVersion]

\* The one state c becomes when the command is accepted, at version.
Becomes(c, accepted, phase, version) ==
    {d \in {[phase |-> phase, version |-> version, destroyed |-> c.destroyed]} : accepted}

IsPending(c) == c.phase \in {"PendingWrite", "RotationPending"}

\* The credential can be resolved: a rotation keeps the active version.
IsUsable(c) == c.phase \in {"Active", "RotationPending"}

\* Whether the state refers to exactly this version in one of the phases.
At(c, phases, version) == c.phase \in phases /\ c.version = version

RequestWrite(c) ==
    Becomes(c, c.phase \in {"Missing", "WriteFailed", "Destroyed"}, "PendingWrite", NoVersion)

\* validate_activation_metadata: only the current, readable version activates.
ActivateWrite(c, version, status) ==
    Becomes(c, c.phase = "PendingWrite" /\ status = "Active", "Active", version)

RecordWriteFailure(c) ==
    Becomes(c, c.phase = "PendingWrite", "WriteFailed", NoVersion)

RequestRotation(c, version) ==
    Becomes(c, At(c, {"Active"}, version), "RotationPending", version)

ActivateRotation(c, version, status) ==
    Becomes(c, c.phase = "RotationPending" /\ status = "Active" /\ version > c.version,
            "Active", version)

\* Mutant of RecordRotationFailure: a failed rotation is a state of its own.
RecordRotationFailurePhase(c, version) ==
    Becomes(c, At(c, {"RotationPending"}, version), "RotationFailed", version)

RecordRotationFailure(c, version) ==
    Becomes(c, At(c, {"RotationPending"}, version), "Active", version)

\* RevokeCredential::ensure_revocable
IsRevocable(c, version) == At(c, {"Active", "RotationPending"}, version)

Revoke(c, version) == Becomes(c, IsRevocable(c, version), "Revoked", version)

RequestDestroy(c, version) ==
    Becomes(c, At(c, {"Revoked", "CleanupFailed"}, version), "DestroyRequested", version)

CompleteDestroy(c, version) ==
    {[d EXCEPT !.destroyed = version] :
        d \in Becomes(c, At(c, {"DestroyRequested"}, version), "Destroyed", version)}

RecordDestroyFailure(c, version) ==
    Becomes(c, At(c, {"DestroyRequested"}, version), "CleanupFailed", version)

=============================================================================
