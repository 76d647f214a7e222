CONSTANTS
    Proc = {sh, p1}
    Shell = sh
    Dir = {root, d}
    Plain = {a}
    Root = root
    stdin = stdin
    Screens = {stdout}
    NoNode = NoNode
    FILES_STRUCT_NENTRY = 2
    MaxOpen = 2
    MaxLost = 1
    Thread = {t1, t2, t3}
    Ino = {1}
    NodeId = {n1, n2}
    NoThread = NoThread
    NoInode = NoInode
SPECIFICATION InodesSpec
INVARIANTS
    CountsExact
    HeldOnce
    MarkedKept
PROPERTIES
    EveryoneFinishes
CHECK_DEADLOCK FALSE
