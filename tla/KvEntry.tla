------------------------------- MODULE KvEntry -------------------------------
(***************************************************************************)
(* One key of a JetStream Key/Value bucket, as the adapters use it: every  *)
(* write is conditional on the revision of the entry it replaces, and a    *)
(* deleted key keeps its revision under a delete marker. External to the   *)
(* repository; modelled from how trogon-decider-nats calls it.             *)
(***************************************************************************)
EXTENDS Naturals

\* A key that was never written.
NoEntry == [operation |-> "None", revision |-> 0, value |-> 0]

\* kv::Operation::Put: the entry holds a value rather than a delete marker.
IsPut(entry) == entry.operation = "Put"

\* create: fails with AlreadyExists only on an entry that holds a value.
Creates(entry) == ~IsPut(entry)

\* update, delete_expect_revision: fail with WrongLastRevision unless the
\* entry is still the one that was read.
Unchanged(entry, revision) == entry.revision = revision

PutValue(entry, value) ==
    [operation |-> "Put", revision |-> entry.revision + 1, value |-> value]

DeleteMarker(entry) ==
    [operation |-> "Delete", revision |-> entry.revision + 1, value |-> 0]

=============================================================================
