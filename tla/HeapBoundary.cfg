\* The list heap at 64 and the block heap at 256 (KHEAP_BLOCK_START): five
\* pages apart, so that three kmalloc(40) calls bring kheap_end up to
\* kheap_stack_end.  The growth test lets the list heap take the page at
\* kheap_stack_end as well.
CONSTANTS
    Page = 32
    NodeSz = 8
    SizeT = 4
    Word = 512
    ListStart = 64
    BlockStart = 256
    Sizes = {4, 12, 40, 32}
    MaxOps = 6
    Entries = 8
    FrameSz = 4096
    UpperStart = 1048576
    MemUpper = 1280
    KernelStart = 1048576
    KernelSize = 65536
    Junk = {}
    MemMap <- MCMemMap
SPECIFICATION Spec
CHECK_DEADLOCK FALSE
INVARIANT PagesOwnedOnce
