SPECIFICATION Spec
CONSTANTS
    Files = {tar, a, b}
    CmdTar = tar
    Fds = {d1, d2}
    SECTOR_SIZE = 2
    BYTE_BITS = 2
    nr_sect_map_sects = 3
    nr_1st_data_sect = 9
    NR_FILE_SECTS = 2
    INSTALL_START_SECT = 13
    INSTALL_NR_SECTS = 3
    FS_BUF_SECTS = 1
    Offsets <- MCOffsets
    MaxLen = 3
    MaxPos = 4
SYMMETRY Symmetric
INVARIANTS MapMatchesFiles TransferExact
CHECK_DEADLOCK FALSE
