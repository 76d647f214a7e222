CONSTANTS
    User = {u1, u2, u3}
    Idle = idle
    Init = init
    NULL = NULL
    MAX_PROCESS = 5
    MAX_TIME_SLICE = 1
    SLEEP_MAX = 2
SPECIFICATION Spec
SYMMETRY Symmetry
INVARIANTS
    RunQueueExact
    NoMissedExit
    ParentAlive
    WaitersSleep
    TimersExact
    InitEndsAlone
PROPERTIES
    SleepNotCutShort
