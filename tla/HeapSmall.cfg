\* Callers that free blocks of fewer than four bytes: dir_get_parent's
\* kmalloc(len + 1) for a path such as "/a" (dir.c:374, freed at 383).
CONSTANTS
    Page = 32
    NodeSz = 8
    SizeT = 4
    Word = 1024
    ListStart = 64
    BlockStart = 512
    Sizes = {3, 12}
    MaxOps = 6
    Entries = 8
    FrameSz = 4096
    UpperStart = 1048576
    MemUpper = 1280
    KernelStart = 1048576
    KernelSize = 65536
    Junk = {}
    MemMap <- MCMemMap
SPECIFICATION Spec
CHECK_DEADLOCK FALSE

PROPERTY ImplementsAlloc
