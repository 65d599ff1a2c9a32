SPECIFICATION Spec
CONSTANTS
    LEN_KB_IN_BUFFER = 3
    KB_BUF = 1
    Texts <- MCTexts
    NR_CONSOLES = 2
    TTY_QUEUE_SIZE = 2
    Readers = {"sh0", "sh1", "sh2"}
    TtyOf <- MCTtyOf
    Counts = {0, 2}
INVARIANT BytesInBuffer
CHECK_DEADLOCK FALSE
