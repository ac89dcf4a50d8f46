--------------------------------- MODULE Pmm ---------------------------------
(***************************************************************************)
(* The physical page allocator of src/kernel-src/kernel/pmm.c: a bitmap of *)
(* page frames, one bit per frame (set: in use), set up once from the      *)
(* multiboot memory map by pmm_init and searched by pmm_alloc from the     *)
(* frame it returned last, a dword (32 frames) at a time and then bit by   *)
(* bit, wrapping modulo num_of_pages.  Its only caller is page.c, when     *)
(* vmm maps a heap page (see Heap.tla).  pmm_free has no caller.           *)
(*                                                                         *)
(* The allocator's state is a record [clr, last, ret, fault]: clr the set  *)
(* of frames, among those the search can read, whose bit reads as clear,   *)
(* last the static last_alloc, ret the frame number of the last result     *)
(* (NULL is frame 0), fault what went wrong in a call that never returns   *)
(* or reads outside the bitmap.                                            *)
(***************************************************************************)
EXTENDS Integers, FiniteSets, FiniteSetsExt

CONSTANTS
    FrameSz,     \* PAGE_FRAME_SIZE (bytes)
    UpperStart,  \* UPPER_MEMORY_START (bytes)
    MemUpper,    \* mb_info_ptr->mem_upper (KiB)
    MemMap,      \* the multiboot memory map: a sequence of [addr, len, type]
    KernelStart, \* &_kernel_start, a physical address
    KernelSize,  \* _kernel_end - PHY2VIR(_kernel_start)
    Junk         \* the frames past the bitmap's last byte whose bit reads set

\* MULTIBOOT_MEM_AVAILABLE
Available == 1

\* BIT32_MAX, the search's "no free frame" (2^32 - 1, out of TLC's range).
NotFound == -1

\* The bit search wrapped around the whole bitmap without a free frame.
Spin == -2

\* pmm_init: memory_size in KiB, one frame per 4 KiB, one bit per frame.
NumPages == (MemUpper + UpperStart \div 1024) \div 4
BitmapSize == NumPages \div 8

\* total_size: what pmm_setup_bitmap keeps set from UPPER_MEMORY_START on.
TotalSize == BitmapSize + KernelSize + KernelStart

\* mem_bitmap = _kernel_end + 1, as physical bytes.
BitmapAt == KernelStart + KernelSize + 1

\* The frames whose bits the dword search reads: whole dwords, up to the
\* one that holds frame num_of_pages - 1.
Bits == 0 .. ((NumPages - 1) \div 32) * 32 + 31

\* pmm_setup_bitmap, for one entry: upper memory that is AVAILABLE has its
\* frames cleared, from the frame that holds its first byte (past the kernel
\* and bitmap in the entry at UPPER_MEMORY_START) to one past the frame
\* that holds its end, both included.
Cleared(e) ==
    IF e.addr < UpperStart \/ e.type # Available THEN {}
    ELSE LET a == IF e.addr = UpperStart THEN e.addr + TotalSize ELSE e.addr
             s == IF e.addr = UpperStart THEN e.len - TotalSize ELSE e.len
         IN  (a \div FrameSz) .. ((a + s) \div FrameSz + 1)

\* pmm_init: memset sets every bit of bitmap_size bytes; the bits past them
\* are whatever memory held; then pmm_setup_bitmap clears.
PmmInit ==
    [clr   |-> {b \in Bits : b >= 8 * BitmapSize /\ b \notin Junk}
                 \cup (Bits \cap UNION {Cleared(MemMap[i]) : i \in DOMAIN MemMap}),
     last  |-> 0,
     ret   |-> 0,
     fault |-> "none"]

\* pmm_get_dword(i) == BIT32_MAX: no bit of the dword holding frame i is
\* clear.
Full(clr, i) == \A b \in clr : b \div 32 # i \div 32

\* The first loop of pmm_search_free_page: step 32 frames, modulo
\* num_of_pages, while the dword is full; BIT32_MAX once a step comes back
\* to start.
RECURSIVE DwordScan(_, _, _)
DwordScan(clr, last, start) ==
    IF ~Full(clr, last) THEN last
    ELSE LET nx == (last + 32) % NumPages
         IN  IF nx = start THEN NotFound ELSE DwordScan(clr, nx, start)

\* The second loop: step one frame, modulo num_of_pages, while its bit is
\* set.  It stops at the first clear frame at or after last in that
\* cyclic order, and has no other exit: with no clear frame it never ends.
BitScan(clr, last) ==
    LET clear == {i \in clr : i < NumPages}
        ahead == {i \in clear : i >= last}
    IN  IF clear = {} THEN Spin
        ELSE IF ahead # {} THEN Min(ahead) ELSE Min(clear)

\* pmm_search_free_page(last_alloc).
SearchFreePage(clr, last) ==
    LET d == DwordScan(clr, last, last)
    IN  IF d = NotFound THEN NotFound ELSE BitScan(clr, d)

\* A pmm_alloc that returns the frame without setting its bit.
PmmAllocNoMark(p) ==
    LET r == SearchFreePage(p.clr, p.last)
    IN  IF r \in {Spin, NotFound} THEN p ELSE [p EXCEPT !.last = r, !.ret = r]

\* pmm_alloc: last_alloc takes the search's result, BIT32_MAX included;
\* NULL then, or the frame, marked in use.  A search from BIT32_MAX reads
\* the dword 2^27 dwords past the bitmap.
PmmAlloc(p) ==
    LET r == SearchFreePage(p.clr, p.last)
    IN  IF p.last = NotFound THEN [p EXCEPT !.fault = "read past bitmap"]
        ELSE IF r = Spin THEN [p EXCEPT !.fault = "endless search"]
        ELSE IF r = NotFound THEN [p EXCEPT !.last = NotFound, !.ret = 0]
        ELSE [p EXCEPT !.last = r, !.clr = @ \ {r}, !.ret = r]

\* A frame holds no byte of the kernel image or of the bitmap and lies in
\* an AVAILABLE entry of upper memory.
Usable(f) ==
    /\ f * FrameSz >= BitmapAt + BitmapSize \/ (f + 1) * FrameSz <= KernelStart
    /\ \E i \in DOMAIN MemMap :
          /\ MemMap[i].type = Available /\ MemMap[i].addr >= UpperStart
          /\ MemMap[i].addr <= f * FrameSz
          /\ (f + 1) * FrameSz <= MemMap[i].addr + MemMap[i].len
=============================================================================
