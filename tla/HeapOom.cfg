\* Heap.cfg with 1152 KiB of upper memory: 544 frames (a multiple of 32),
\* 16 of them free, fewer than six calls can map.  pmm_alloc returns NULL
\* and page.c maps the page to frame 0: FramesBacked is violated.
CONSTANTS
    Page = 32
    NodeSz = 8
    SizeT = 4
    Word = 1024
    ListStart = 64
    BlockStart = 512
    Sizes = {4, 12, 40, 32}
    MaxOps = 6
    Entries = 8
    FrameSz = 4096
    UpperStart = 1048576
    MemUpper = 1152
    KernelStart = 1048576
    KernelSize = 65536
    Junk = {}
    MemMap <- MCMemMap
SPECIFICATION Spec
CHECK_DEADLOCK FALSE
INVARIANT FramesBacked
