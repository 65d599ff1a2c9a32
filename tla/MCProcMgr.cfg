SPECIFICATION FairSpec
CONSTANTS
    NSlots = 4
    MemSizes = {3, 4}
    NO_TASK = NO_TASK
INVARIANTS TypeOK ParentsLive NoMissedExit TargetInCall AnswerFindsReceiver
PROPERTIES PmReturns
CHECK_DEADLOCK FALSE
