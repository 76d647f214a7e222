CONSTANTS
    File = {f, g}
    Fd = {d1, d2}
    NoFile = NoFile
    Appending = {d2}
    Word = {0, 1}
    NBLOCK = 3
    SFS_NDIRECT = 1
    SFS_BLKSIZE = 3
    SFS_BLK_NENTRY = 2
    IoLen = {1, 5}
    SeekTo = {4, 8}
SYMMETRY Symmetry
VIEW View
SPECIFICATION MCSpec
INVARIANTS
    BlocksExact
PROPERTIES
    ImplementsByteFiles
CHECK_DEADLOCK FALSE
