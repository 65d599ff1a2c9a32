SPECIFICATION Spec
CONSTANTS
    Procs = {1}
    Boot = 1
    Files = {a, b}
    Devices <- MCDevices
    Installed <- MCInstalled
    NR_FILES = 1
    NR_FILE_DESC = 1
    NR_INODE = 3
    NR_INODES = 4
    ENTRIES = 4
    MaxEntries = 4
    MaxRead = 0
    OpenRoot = FALSE
    MaxLeak = 1
SYMMETRY FileSymmetry
INVARIANTS InodesShared
CHECK_DEADLOCK FALSE
