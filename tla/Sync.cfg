CONSTANTS
    Thread = {t1, t2, t3, t4}
    Sem = {s}
    PermitCount = 2
    \* Four philosophers, so that two eat at a time.
    SEATS = 4
    MEALS = 1
    \* Two rounds: the second meets the neighbours in every state the first one
    \* leaves behind.
    CV_SEATS = 3
    CV_MEALS = 2
    \* More keys than the buffer holds, and reads longer than the buffer.
    Reader = {r1, r2}
    STDIN_BUFSIZE = 2
    LEN_MAX = 3
    KEYS = 5
SPECIFICATION SyncSpec
INVARIANTS
    QueueExact
    NeighboursExclude
    OneActive
    SignalReaches
    KeysAccounted
    WaitersExact
PROPERTIES
    FirstComeFirstServed
    WaiterGetsIn
    ImplementsPermits
    EveryoneQuits
CHECK_DEADLOCK FALSE
