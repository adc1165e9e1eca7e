\* One command of each guarded precondition, with and without expected revisions, on a
\* stream that may lose its tail, behind an admission limit below the callers.
SPECIFICATION RestoredSpec
CONSTANTS
    Executors = {"update", "create", "exists"}
    Precondition <- ByName
    Identified = {}
    Revisions <- SomeRevisions
    RetryLimit = 1
    ReplayLimit = 0
    ChunkSize = 1
    Cadence = 1
    FailurePolicy = "Discard"
    AdmissionLimit = 2
    MaxBatch = 1
    MaxDeliveries = 1
    MaxOthers = 2
CHECK_DEADLOCK FALSE
INVARIANTS
    PermitsConserved
    AheadNeverTrusted
PROPERTIES
    PreconditionHeldAtAppend
    DiscardRecovers
