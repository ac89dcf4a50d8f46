\* The kernel heap scaled down: pages of 32 bytes (PAGE_FRAME_SIZE), 10-bit
\* words, the list heap at 64 and the block heap at 512, so that the list
\* heap can grow by thirteen pages, more than six calls can take, before it
\* meets the block heap.  Callers
\* ask for 4, 12 and 40 bytes (a header-sized block, a small object, one
\* that spans pages) and for whole pages.  A page table maps 8 pages (256
\* bytes), so the list heap starts in one table and grows into the next.
\* Physical frames keep their real size: pmm_init's arithmetic is in KiB
\* and 4 KiB frames.  1280 KiB of upper memory, a 64 KiB kernel loaded at
\* 1 MiB: 576 frames, a 72-byte bitmap, frames 528 to 575 free, more
\* than six calls can map.
CONSTANTS
    Page = 32
    NodeSz = 8
    SizeT = 4
    Word = 1024
    ListStart = 64
    BlockStart = 512
    Sizes = {4, 12, 40, 32}
    MaxOps = 6
    Entries = 8
    FrameSz = 4096
    UpperStart = 1048576
    MemUpper = 1280
    KernelStart = 1048576
    KernelSize = 65536
    Junk = {}
    MemMap <- MCMemMap
SPECIFICATION Spec
CHECK_DEADLOCK FALSE
INVARIANTS TypeOK HeapTiled PagesOwnedOnce FramesBacked
PROPERTY ImplementsAlloc
