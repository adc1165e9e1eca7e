\* One failed call while an enabled native schedule is applied.
SPECIFICATION MCSpec
CONSTANTS
    Kinds = {"Every"}
    Occurrences = 1
    MaxCommands = 1
    RecurrenceCommands = 0
    Instances = {i1}
    Ceiling = 2
    FaultKinds = {"fail"}
    MaxFaults = 1
INVARIANTS
    OneMessageWhenEnabled
CHECK_DEADLOCK FALSE
