\* One task.
SPECIFICATION Spec
CONSTANTS
    Slots = {s1}
    MaxTag = 3
    MaxChan = 3
INVARIANT AcksOnOwnChannel
CHECK_DEADLOCK FALSE
