\* One instance of the processor: native schedules and a recurrence of two
\* instants, under every fault of the processor and the broker.
SPECIFICATION MCSpec
CONSTANTS
    Kinds = {"Every", "At", "RRule"}
    Occurrences = 2
    MaxCommands = 3
    RecurrenceCommands = 2
    Instances = {i1}
    Ceiling = 2
    FaultKinds = {"fail", "crash", "early", "ack", "wakeup", "window"}
    MaxFaults = 1
INVARIANTS
    ScheduleInv
    SilentWhenNotEnabled
    OneMessageUnlessDuplicate
    OneShotUnlessDuplicate
    ChangesAccounted
    LostOnlyWhenOvertaken
    RecurrenceAlive
CHECK_DEADLOCK FALSE
