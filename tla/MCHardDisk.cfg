SPECIFICATION Spec
CONSTANTS
    PRIM = 2
    LOGI = 2
    MINOR_NR_hd1a = 8
    Minors = {0, 2, 9, 10}
    Disks <- MCDisks
    DISK_SIZE = 15
    Positions = {1}
    Counts = {1, 4, 5}
    COUNT_MOD = 4
    LBA_MOD = 16
    HD_TIMEOUT = 2
    MAX_TICKS = 4
    MaxOpens = 2
    MayFail = TRUE
INVARIANTS InStep AnsweredFromPartition
PROPERTIES Served FailureNoticed
CHECK_DEADLOCK FALSE
