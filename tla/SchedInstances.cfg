\* Two instances of the processor on one durable consumer: a one-shot that is
\* paused, resumed or removed, and a recurrence that is left alone.
SPECIFICATION MCFairSpec
CONSTANTS
    Kinds = {"At", "RRule"}
    Occurrences = 1
    MaxCommands = 1
    RecurrenceCommands = 0
    Instances = {i1, i2}
    Ceiling = 2
    FaultKinds = {"fail", "crash", "early", "ack", "wakeup"}
    MaxFaults = 1
INVARIANTS
    CheckpointInv
    DispatchedOnce
PROPERTIES
    CheckpointNeverRegresses
    EventsSettle
CHECK_DEADLOCK FALSE
