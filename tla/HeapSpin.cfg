\* Heap.cfg with 1120 KiB of upper memory: 536 frames, 8 free.  The two
\* bits pmm_setup_bitmap clears past the region lie in the last dword, so
\* with every frame taken pmm_search_free_page never ends: FramesBacked
\* is violated.
CONSTANTS
    Page = 32
    NodeSz = 8
    SizeT = 4
    Word = 1024
    ListStart = 64
    BlockStart = 512
    Sizes = {4, 12, 40, 32}
    MaxOps = 6
    Entries = 8
    FrameSz = 4096
    UpperStart = 1048576
    MemUpper = 1120
    KernelStart = 1048576
    KernelSize = 65536
    Junk = {}
    MemMap <- MCMemMap
SPECIFICATION Spec
CHECK_DEADLOCK FALSE
INVARIANT FramesBacked
