SPECIFICATION Spec
CONSTANTS
    Procs = {1}
    Boot = 1
    Files = {a, b, c}
    Devices <- MCDevices
    Installed <- MCInstalled
    NR_FILES = 1
    NR_FILE_DESC = 1
    NR_INODE = 3
    NR_INODES = 4
    ENTRIES = 4
    MaxEntries = 4
    MaxRead = 0
    OpenRoot = FALSE
    MaxLeak = 0
SYMMETRY FileSymmetry
INVARIANTS EntryFound
CHECK_DEADLOCK FALSE
