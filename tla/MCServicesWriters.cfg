SPECIFICATION ServicesFairSpec
CONSTANTS
    Users = {u1, u2}
    FS = FS
    TTY = TTY
    Procs = {u1, u2, FS, TTY}
    IrqTasks = {TTY}
    ANY = ANY
    INTERRUPT = INTERRUPT
    NO_TASK = NO_TASK
    NULL = NULL
    HW_INT <- MCHwInt
    Bodies <- MCBodies
    OobSending = {FALSE}
    Requests = {"FS_WRITE", "FS_LSEEK"}
    MaxKeys = 1

PROPERTY KeysDrained
CHECK_DEADLOCK FALSE
