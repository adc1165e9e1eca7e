\* A recurrence that is removed before its creation was applied; no faults.
SPECIFICATION MCFairSpec
CONSTANTS
    Kinds = {"RRule"}
    Occurrences = 1
    MaxCommands = 1
    RecurrenceCommands = 1
    Instances = {i1}
    Ceiling = 2
    FaultKinds = {}
    MaxFaults = 0
PROPERTIES
    EventsSettle
CHECK_DEADLOCK FALSE
