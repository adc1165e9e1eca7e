---------------------------- MODULE SecretVersions ----------------------------
(***************************************************************************)
(* The versions OpenBao keeps at a credential's path: a sequence whose     *)
(* n-th element says whether version n is live, soft-deleted or destroyed. *)
(* A write always makes the next version; soft-deletion and destruction    *)
(* name the versions they apply to.                                        *)
(***************************************************************************)
EXTENDS Integers, Sequences

Versions == Seq({"live", "deleted", "destroyed"})

\* A POST to the data endpoint.
Write(store) == Append(store, "live")

\* OpenBaoMetadata::status
Status(store, n) ==
    IF n \notin DOMAIN store THEN "Missing"
    ELSE CASE store[n] = "destroyed" -> "Destroyed"
           [] store[n] = "deleted"   -> "Revoked"
           [] store[n] = "live"      -> IF n = Len(store) THEN "Active" ELSE "Previous"

\* A POST to the delete endpoint naming versions 1..bound.
DeleteUpTo(store, bound) ==
    [n \in DOMAIN store |-> IF n <= bound /\ store[n] = "live" THEN "deleted" ELSE store[n]]

\* A POST to the destroy endpoint naming versions 1..bound.
DestroyUpTo(store, bound) ==
    [n \in DOMAIN store |-> IF n <= bound THEN "destroyed" ELSE store[n]]

=============================================================================
