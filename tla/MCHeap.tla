------------------------------- MODULE MCHeap --------------------------------
EXTENDS Heap

\* A memory map as QEMU's multiboot loader reports it for a machine with
\* MemUpper KiB of upper memory: lower memory, the EBDA and BIOS areas,
\* upper memory, and the reserved top of RAM.  The BIOS entry at 0xFFFC0000 is
\* left out: it is above TLC's integers and pmm_setup_bitmap skips it.
MCMemMap ==
    << [addr |-> 0,       len |-> 654336,  type |-> 1],
       [addr |-> 654336,  len |-> 1024,    type |-> 2],
       [addr |-> 983040,  len |-> 65536,   type |-> 2],
       [addr |-> 1048576, len |-> MemUpper * 1024, type |-> 1],
       [addr |-> 1048576 + MemUpper * 1024, len |-> 131072, type |-> 2] >>
=============================================================================
