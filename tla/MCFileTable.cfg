SPECIFICATION Spec
CONSTANTS
    Procs = {1, 2}
    Boot = 1
    Files = {a, b}
    Devices <- MCDevices
    Installed <- MCInstalled
    NR_FILES = 2
    NR_FILE_DESC = 2
    NR_INODE = 3
    NR_INODES = 3
    ENTRIES = 2
    MaxEntries = 3
    MaxRead = 1
    OpenRoot = TRUE
    MaxLeak = 1
SYMMETRY FileSymmetry
INVARIANTS DescriptorsShared OpenFilesExist CachedOnce EntriesOwnInodes
PROPERTIES FilesStay
CHECK_DEADLOCK FALSE
