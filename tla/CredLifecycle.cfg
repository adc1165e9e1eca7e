\* Two requests at a time and the recovery worker, in one process or in two.
SPECIFICATION MCSpec
CONSTANTS
    Requests = {r1, r2}
    Workers = {w}
    Processes = {p, q}
    MaxFaults = 1
    Budget = 4
CHECK_DEADLOCK FALSE
INVARIANTS
    TypeOK
    RevokedUnreadable
    CheckpointCoversPending
    VersionsNotReused
PROPERTIES
    PendingSettles
