\* One failed call while a recurrence of two instants runs its course.
SPECIFICATION MCSpec
CONSTANTS
    Kinds = {"RRule"}
    Occurrences = 2
    MaxCommands = 0
    RecurrenceCommands = 0
    Instances = {i1}
    Ceiling = 2
    FaultKinds = {"fail"}
    MaxFaults = 1
INVARIANTS
    OccurrencesDispatched
CHECK_DEADLOCK FALSE
