CONSTANTS
    User = {u1, u2}
    Idle = idle
    Init = init
    NULL = NULL
    MAX_PROCESS = 4
    MAX_TIME_SLICE = 1
    SLEEP_MAX = 2
SPECIFICATION FairSpec

PROPERTIES
    KilledExits
