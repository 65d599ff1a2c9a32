SPECIFICATION FairSpec
CONSTANTS
    N = 4
    priority <- MCPriority
    Spinners = {4}
INVARIANTS TypeOK TicksBounded ReadyIsRunnable
PROPERTIES NoStarvation ScheduleEnds
