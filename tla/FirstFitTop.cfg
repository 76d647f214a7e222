CONSTANTS
    NPAGE = 7
    Headroom = 0
SPECIFICATION Spec
INVARIANTS
    CheckedFreeList
