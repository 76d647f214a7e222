\* The address spaces have eight pages: two tables of two pages in each of two
\* directories, with the stack in the last table.  The heap has objects of one unit, of
\* several, of the most a page has room for, and of pages.
CONSTANTS
    NPAGE = 6
    Headroom = 1
    Proc = {p, q}
    NFRAME = 16
    NPTE = 2
    NPT = 2
    NPD = 2
    STACK = 2
    STACKMAPPED = 1
    Program <- Programs
    NHEAP = 3
    PAGE_SIZE = 12
    SLOB_UNIT = 2
    Size = {2, 5, 9, 12, 13}
SPECIFICATION MemSpec
VIEW View
INVARIANTS
    FreeListExact
    BlocksPartition
    HeapExact
    FramesSafe
PROPERTIES
    FirstFitPool
    BestFitting
CHECK_DEADLOCK FALSE
