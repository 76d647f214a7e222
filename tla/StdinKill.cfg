CONSTANTS
    Reader = {r1, r2}
    STDIN_BUFSIZE = 2
    LEN_MAX = 3
    KEYS = 5
SPECIFICATION FairSpec
PROPERTIES
    KilledReaderLeaves
CHECK_DEADLOCK FALSE
