SPECIFICATION Spec
CONSTANTS
    NR_CONSOLES = 2
    VIDEO_MEM_SIZE = 10
    SCR_WIDTH = 2
    SCR_SIZE = 4
    DispPos = 1
    WORD_MOD = 10
PROPERTY PrintAlwaysEnds
CHECK_DEADLOCK FALSE
