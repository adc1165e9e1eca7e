\* A credential with a past and another one: one request of this process, the
\* refresh worker and one resolve at a time.
SPECIFICATION MCSpec
CONSTANTS
    Ids <- Contested
    Worker = w
    Handlers = {h}
    Resolvers = {r}
    MaxEvents = 8
    MaxUsed = 2
    MaxFaults = 2
CHECK_DEADLOCK FALSE
INVARIANTS
    PublishedIsApplied
    RevokedNotServed
    CursorCoversApplied
PROPERTIES
    RegistryConverges
