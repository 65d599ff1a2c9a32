SPECIFICATION Spec
CONSTANTS
    NSlots = 3
    MemSizes = {3}
    NO_TASK = NO_TASK
INVARIANT BlockedUntilUnblocked
CHECK_DEADLOCK FALSE
