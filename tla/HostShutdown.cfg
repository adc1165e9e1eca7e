\* Shutdown while three commands are at every point of their handling.
SPECIFICATION HostFairSpec
CONSTANTS
    Tasks = {c1, c2, c3}
    Drainers = {server}
    Server = server
CHECK_DEADLOCK FALSE
INVARIANTS
    TrackerInv
    DrainWaitsForScheduled
    AnsweredWritesKept
PROPERTIES
    ShutDownEnds
