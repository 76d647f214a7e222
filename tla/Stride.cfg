CONSTANTS
    Proc = {a, b, c}
    NoProc = NoProc
    Boot = a
    Late = {c}
    Sleeper = {c}
    Priority = {0, 2}
    WORD = 3
    MAX_TIME_SLICE = 1
SPECIFICATION ShareSpec
INVARIANTS
    ProportionalShare
PROPERTIES
    EveryoneRuns
