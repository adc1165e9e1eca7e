\* Two transitions, one identified, with chunked replay under a limit the chunks
\* do not divide, retries, redelivery and another writer of the stream.
SPECIFICATION FairSpec
CONSTANTS
    Executors = {"update", "update2"}
    Precondition <- ByName
    Identified = {"update"}
    Revisions <- NoRevisions
    RetryLimit = 1
    ReplayLimit = 3
    ChunkSize = 2
    Cadence = 3
    FailurePolicy = "Fail"
    AdmissionLimit = 2
    MaxBatch = 2
    MaxDeliveries = 2
    MaxOthers = 1
CHECK_DEADLOCK FALSE
INVARIANTS
    TypeOK
    DecidedOnExactHistory
    IdentifiedOnce
    SnapshotCoversHistory
    ReplayIsExact
PROPERTIES
    LimitIsExact
    ImplementsSerialStream
    ExecutionsEnd
