\* An unguarded command with a snapshot cadence beside an ordinary transition.
SPECIFICATION Spec
CONSTANTS
    Executors = {"update", "any"}
    Precondition <- ByName
    Identified = {}
    Revisions <- NoRevisions
    RetryLimit = 0
    ReplayLimit = 0
    ChunkSize = 0
    Cadence = 1
    FailurePolicy = "Fail"
    AdmissionLimit = 2
    MaxBatch = 1
    MaxDeliveries = 2
    MaxOthers = 0
CHECK_DEADLOCK FALSE
INVARIANTS
    DecidedOnExactHistory
