# TLA+ models of the bulbOS file-system core

This directory holds TLA+ models of the parts of bulbOS
(`src/src`, `src/kernel-src`) that hold shared state and
change it step by step: the hash index, the caches built on it, the sleep
locks they use, the ext2 layout code, the pipe and file tables, and the
kernel heap with the physical frame allocator under it, and the PS/2
keyboard driver, whose interrupt handler shares a command queue with the
task that initialises it. Each model is
translated from the C source. The line ranges each definition
stands for are in `PROJECT.json` under `map`.

## The system

| Part | Source | State | Operations |
|---|---|---|---|
| Hash index | `src/src/utils/hashtable.c` | an array of entries (EMPTY, VALID, TOMBSTONE), a size, a capacity and a load factor | `ht_create`, `ht_get`, `ht_set`, `ht_remove`, `ht_resize` |
| Sleep locks | `src/src/kernel/proc/mutex.c` | a semaphore count and a FIFO of waiting tasks; condition variables with a waiter queue | `semaphore_acquire/release`, `mutex_*`, `condvar_wait/signal/broadcast` |
| Block cache | `src/src/kernel/fs/bio.c` | buffers (device, block, refcount, valid, dirty, sleep lock), a hash index by (device, block), an intrusive LRU list of unreferenced buffers, one cache-wide lock | `bio_get`, `bio_release`, `bio_read`, `bio_write`, eviction |
| Inode cache | `src/src/kernel/inode.c` | the same shape as the block cache, keyed by inode number, plus truncation of unlinked inodes on the last release | `inode_get`, `inode_release`, `inode_dup`, `inode_lock`, `dinode_alloc` |
| Directory cache | `src/src/kernel/fs/dir.c` | dentries by path in a hash index, their child tables, refcounts and locks, and a global lock | `dir_get`, `dir_set`, `dir_lock/unlock`, `dir_create`, `dir_unlink` |
| ext2 driver | `src/kernel-src/kernel/filesystem.c` | block and inode bitmaps, group descriptors, inode block pointers, directory records | `ext2_alloc`, `ext2_indblock`, `ext2_truncate`, `ext2_link`, `ext2_unlink`, `ext2_parse_dir` |
| Pipes | `src/src/kernel/fs/pipe.c`, `src/src/kernel/io/stdio_handler.c` | a ring buffer with read and write positions, a lock and condition variables; the stdout pipe is drained by the kernel task `stdout_handler` | `pipe_read`, `pipe_write`, `pipe_close`, `stdout_handler` |
| IDE driver | `src/src/kernel/drivers/ide.c` | one global request (`actual_disk_req`: device and task), one DMA buffer `ide_mem_buffer`, the controller's registers | `ide_read_disk`, `ide_write_disk`, `ide_read_disk_buffer`, `ide_handler` |
| Kernel heap | `src/src/kernel/memory/vmm.c` | a list heap growing up from `KHEAP_LIST_START` (a sorted singly linked list of free nodes; a used block carries its size at -4) and a page stack growing down from `KHEAP_BLOCK_START` (a stack of freed pages) | `vmm_init`, `kmalloc`, `kfree` |
| Physical memory | `src/kernel-src/kernel/pmm.c`, `src/src/kernel/page.c` | a bitmap of 4 KiB frames after the kernel image, set up from the multiboot memory map, and `last_alloc`, where the next search starts; page tables reached through the recursive mapping | `pmm_init`, `pmm_alloc`, `page_get_pt`, `page_get_pt_entry` |
| Keyboard | `src/kernel-src/kernel/keyboard.c`, `src/kernel-src/utils/queue.c` | a ring queue of command bytes (`command_queue`), the driver's `status` (KB_AVAILABLE, CMD_ACKNOW, CMD_RESPONSE) and resend count, the scan code bytes of the key being received (`keycodes`, `len`) and the modifier flags | `keyboard_init`, `keyboard_queuecommand`, `keyboard_handlecode` (IRQ 1) with `keyboard_handlequeue`, `keyboard_handleresponse`, `keyboard_scancode` and `keyboard_handle_keycode` |
| File table | `src/src/kernel/fs/file.c` | open files with refcounts | `file_open`, `file_dup`, `file_close` |

How they interact: a path lookup goes through the directory cache (`dir_get`). On a miss it
reads the parent directory with `ext2_parse_dir`, which calls `dir_set` on every record.
Directory entries hold inodes from the inode cache. The inode cache and the ext2 driver read and write disk blocks through the
block cache. All three caches index their objects with a fixed-size hash table,
keep unreferenced objects on an LRU free list for eviction, and serialise
with the sleep locks of `mutex.c`. A task that finds a lock taken
is queued and scheduled out, and the releasing task hands the lock to the
first waiter.

The keyboard is apart from the rest: `keyboard_init` queues six command bytes while IRQ 1 is already unmasked, and the interrupt handler, which runs with interrupts off, takes each byte the device sends and by the driver's status treats it as a command's answer, a reset's reply or part of a scan code. A decoded key goes to `stdin_send_code`.

The behaviours that make this hard:
- Several tasks interleave inside the caches. Each task may block on a sleep lock, and the releasing task hands the lock directly to the first waiter.
- A buffer is unlinked from the cache index under the cache lock, while its contents are used under the buffer's own lock.
- The hash index's tombstones, duplicate keys and load check only misbehave after a long run of calls.
- The ext2 layout arithmetic has edges at block boundaries and at the direct, indirect and doubly indirect boundaries.

## Modules

| Module | Models | State / actions |
|---|---|---|
| `HashIndex` | `hashtable.c` as pure operators | `HtCreate`, `HtGet`, `HtSet`, `HtRemove` over a record mirroring `hash_table_t`. The FNV hash of a key is abstracted to its home slot. |
| `AbstractMap` | the promise of the hash index: a map from keys to values | `Put`, `Refuse`, `Delete` |
| `HashTable` | one table driven by any sequence of `ht_set` and `ht_remove` calls | variables `table`, `home` (the hash of every key), `call` (the last call and its result); actions `Set`, `Remove` |
| `MCHashTable` | the model-checking instance | restricts `home` to assignments with the first key at slot 0. Shifting every home by the same amount maps behaviours to behaviours, so this loses no behaviour. |
| `AbstractLru` | the promise of a cache free list: a sequence, most recently released first | `Push` at the front, `Take` from anywhere, `EvictTail` |
| `FreeList` | the pointer-level free list of `bio.c` (`lhead`, `ltail`, `next`, `prev`) with the refcounts that move buffers on and off it | `GetHit` (`bio_get` hit and `bio_remove`), `GetMiss` (`bio_alloc` and `bio_evict`), `Release` (`bio_release`) |
| `LruList` | the intrusive free list that `bio.c`, `inode.c` and `dir.c` each repeat, as pure operators | `ListUnlink` (the three cases of `bio_remove`, `inode_remove`, `dir_remove` after their abort checks), `ListPush` (the push of `bio_release`, `inode_release`, `dir_release`), `ListFresh` (fields set to NULL by the allocator) over a record `[next, prev, lhead, ltail]` |
| `BufferCache` | `bio.c` used by concurrent tasks, with the sleep locks of `mutex.c` | per-task `pc`, `want`, `buf`; cache `table`, `lst` (the pointer free list), `blk`, `ref`, `valid`, `live`, `sem`, `content` (whose data a buffer holds); driver and disk `req` (`actual_disk_req.task`), `dma` (`ide_mem_buffer`), `ctl` (commands the controller has not completed), `dsk` (whose data each block holds), `nio`; actions `Start`, `GetHit`, `GetMiss`, `LockBuf`, `Read`, `Copy` (`bio_read`), `Write`, `WriteEnd` (`bio_write`), `Release`, `UnlockBuf`, `IdeHandler`, `IdeHandlerStray` (`ide_handler`) |
| `InodeCache` | `inode.c` used by concurrent tasks, plus the disk inode fields it acts on | per-task `pc`, `want`, `mk` (creating), `ptr`, `nref` (references held); cache `table`, `lst` (the pointer free list), `ino`, `ref`, `valid`, `links`, `live`, `sem`; disk `dused`, `dlinks`, `ddata`; operators `InodeAlloc` (`inode_alloc`), `InodeUpdate` and `Ext2InodeUpdate` (`inode_update` through the registered `ext2_inode_update`, which writes the link count); actions `Start`, `Alloc`, `GetHit`, `GetMiss`, `Lock`, `Load`, `InitNew`, `DirSet`, `Link`, `Unlink`, `WriteData`, `Unlock`, `Dup`, `Release` |
| `MCBufferCache`, `MCInodeCache` | the model-checking instances | first key at home slot 0, and symmetry over tasks and object addresses |
| `DirCache` | `dir.c`'s dentry cache with the ext2 directory parser that fills it (`ext2_parse_root`, `ext2_parse_dir`), used by concurrent tasks | cache `table`, `home`, `lst` (the pointer free list), `path`, `ref`, `sem`, `parent`, `children`, `ctab` (the paths in a dentry's child table), `live`; `head` (the task asleep in `dir_lock` holding `dir_head.mutex`); `iref` (inode references taken by `dir_set`); per-task `pc`, `want`, `ptr`, `cptr`, `ri`; actions `Mount`, `MountRelease`, `InitCwd` (boot), `Start`, `GetHit`, `GetMissParse`, `GetMissNull` (`dir_get`), `ParseLock`, `ParseSet`, `ParseAdd`, `ParseRelease`, `ParseUnlock` (`ext2_parse_dir`), `IterLook` (`dir_iter_get`), `UserLock`, `UserUnlock`, `UserRelease` (`dir_link`'s use of the result) |
| `Ext2File` | `filesystem.c`'s block layer under one regular file, used by concurrent tasks through `file_read`, `file_write` and `file_open(O_TRUNC)` | disk `used` (set bits of the block bitmap), `content` (the 32-bit words of every block); inode `ib` (`inode->blocks`), `isize`; ghost `file` (what the file holds at each index); per-task `pc`, `op`, `idx`, `val`, `blk`; operators `Alloc`, `FreeBlk`, `GetDiv`, `IndBlock`, `IndTrunc`, `TruncFrom` (RECURSIVE where the C recurses); actions `StartWrite`, `StartRead`, `Check`, `AllocSlot`, `Ind`, `ReadCopy` (the copy loop of `ext2_read_content`), `Data` (that of `ext2_write_content`), `Size`, `Truncate` |
| `MCExt2File` | the model-checking instance | symmetry over tasks and data values |
| `Ext2Dir` | the records of one directory as `ext2_link` and `ext2_unlink` write them | `img` (byte offset of every record header -> `[ino, rl, len]`: inode, record length, name length), `size` (`dst->size`), `kids` (the dentry sibling list `ext2_parse_dir` built, head first); history `live` (the inodes the directory should name), `nlinks`, `status` (how a call went wrong: `hang`, `garbage`, `nullread`); operators `Walk` (the record walk of `ext2_link` and `ext2_parse_dir`, RECURSIVE), `WriteContent`, `Put`, `Clear`; actions `Link`, `Unlink` |
| `MCExt2Dir` | the model-checking instance | the root directory as mke2fs writes it, and a directory `dir_create` has just made (size 0) |
| `MCDirCache` | the model-checking instance | the tree `/ -> /a -> {/a/f, /a/g}` plus the missing `/a/x` and `/y`, two hash assignments, symmetry over tasks and addresses |
| `Pipe` | one pipe of `pipe.c` with the mutex and condition variables of `mutex.c`, written by tasks calling `pipe_write` and read by tasks calling `pipe_read` or by `stdout_handler` | pipe `bw`, `br` (`b_write`, `b_read`), `buf`; mutex `sem`; condvar waiters `cv`; per-task `pc`, `after`, `req`, `want`; ghosts `sent`, `got`; operators `Acquire`, `RelSem`, `Signal` (`mutex.c`), `Room`, `CopyLen`; actions `WStart`, `WLoop` (`pipe_write`), `RStart`, `RTest`, `RCopy` (`pipe_read`), `HAcquire`, `HWait`, `HRelease` (`stdout_handler`), `Reacquire` (return from `condvar_wait`) |
| `MCPipe` | the model-checking instance | symmetry over writers and over readers |
| `AbstractAlloc` | the promise of `kmalloc` and `kfree`: a set of held regions that never overlap | `Alloc`, `Free` |
| `Heap` | `vmm.c`: the list allocator and the page stack under one sequence of `kmalloc` and `kfree` calls | one record `heap`: `free` (the free list, as a sequence of nodes `[a, s]`), `blocks` (used list blocks `[p, n]`, with the request and call number as ghosts), `pages` (pages handed out), `stk` (the page stack), `end`, `send` (`kheap_end`, `kheap_stack_end`), `ret`, `wild`; a record `mmu` for the pages it maps: `pmm` (the `Pmm` record), `pt` (directory index to page-table frame) and `pte` (page to frame); operators `GetPt`, `MapPage` (`page.c`), `MapAll`, `NewPages`, `GetNode`, `Merge`, `SortedInsert`, `Grow`, `ListAlloc`, `ListFree`, `KFree`, `BlockAlloc`, `Boot` (RECURSIVE where the C loops); actions `Malloc`, `Free` |
| `Pmm` | `pmm.c`: the frame bitmap and its search, as operators on a record `[bm, last, ret, fault]` that `Heap` keeps in its state | `PmmInit` (`pmm_init` with `Cleared` for `pmm_setup_bitmap`), `DwordScan` and `BitScan` (the two loops of `pmm_search_free_page`), `PmmAlloc`; `Usable`, the frames a correct allocator may hand out |
| `Keyboard` | `keyboard.c` and `queue.c`: `keyboard_init` against the interrupt handler, and the PS/2 device and the user as the environment | driver `drv` (`slot`, `head`, `size` of the queue, `status`, `rep`), `pc`, `i`, `idx` of `keyboard_init`, decoder `dec` (`kc`, `mods`, `hold`), output `typed`; the wire `toDev` and `outbox`, the device's `expectData` and `naks`, the user's `events` and `held`; history `owed`, `garbled`. Actions `QueuePush`, `QueueStore`, `QueueCheck` (`keyboard_queuecommand`), `IrqResponse`, `IrqQueue`, `IrqScancode` (the three statuses of `keyboard_handlecode`), and the environment's `DevRecv`, `Press`, `Release`. `Expected` is the reference decoding of the key events |
| `MCKeyboard` | the model-checking instance | the sets of keys of each cfg |
| `FileTable` | `file.c` with the fd system calls of `syscall.c` (`open`, `close`, `dup`, `pipe`, and `read`, `write`, `fstat` as accesses), from the shell task that `task_user_create_new` makes, with the stdio pipes of `stdio_init` | `fdt` (`open_files`, with index -1 for `current_dir`), `file` (`[ref, kind, pipe]` per `file_t`), `used` and `flist` (`fhead`), `pipe` (`read_open`, `write_open`), `npipes`, `cwdValid`, `status`; initial tables `CreateNewFds` (`task_create_new`, which never writes `open_files`) and `UserFds`; actions `SysOpen`, `SysClose`, `SysDup`, `SysPipe`, `SysAccess` |
| `MCFileTable` | the model-checking instance | paths to a file, a directory and nothing; three flag sets |
| `Namespace` | the path system calls of one task over `dir.c`, with the ext2 directory records they read and write (`ext2_parse_dir`, `ext2_unlink`, `ext2_link`) and the dentry and inode locks they take | `fs`: dentries `dent` (`path`, `ino`, `pino`, `ref`, `held`, `parent`, `children`, `next`, `prev`, `table`, `live`), `index` (`dir_head.table`), `lru`, inode `iref`, `ilock`, `links`, `mode`, directory records `rec`, `cwd` (`current_dir`), `status`; `calls`; one action per call: `dir_link`, `dir_unlink`, `dir_change`, `dir_make`, `syscall_readdir`; helpers named after the C (`DentryAlloc`, `DirSet`, `DirGet`, `IterGet`, `Parse`, `SumPath`, `WriteDir` with `Ext2Link` and `Ext2Unlink`, `RemoveChild`) |
| `MCNamespace` | the model-checking instance | the tree `/ -> {/a -> /a/g, /f}` on inodes 2, 12, 13, 14, a free inode 15, nine absolute and relative paths |
| `MCHeap` | the model-checking instance, with a QEMU-shaped memory map (`MCMemMap`) | none: addresses are ordered, so there is no symmetry |

`HashTable` is shown to implement `AbstractMap` by
`INSTANCE AbstractMap WITH map <- Lookup`, where `Lookup` is the value `ht_get` returns for every key.
`FreeList` is checked against `AbstractLru` by `INSTANCE AbstractLru WITH lru <- Forward`, where `Forward` is the list read by following `next` from `lhead`.
`Heap` is shown to implement `AbstractAlloc` by `INSTANCE AbstractAlloc WITH held <- Held`, where `Held` is the set of blocks and pages the callers hold, each as `[id, lo, len]`.
`BufferCache`, `InodeCache` and `DirCache` keep the free list as the code does, with `LruList`: every hit unlinks through the three cases in turn, every last release pushes and leaves `prev` stale, and each file's own abort checks (`BioRemoveAbort`, `InodeRemoveAbort`, `DirRemoveAbort`) come first. A stale `prev` can make `ltail` name a freed object; eviction then reads freed memory, which is undefined, and the model stops there with the panic "read of freed buffer" (inode, dentry). The runs' invariants say nothing of the list's shape, which the pointer code does not keep (`ImplementsLru` fails, see below); they are about the index and the reference counts, which the list's bugs reach only through these aborts.

How the code maps onto actions:
- Everything `bio_get`, `bio_release`, `inode_get`, `inode_dup` and `inode_release` do under the cache mutex is one atomic action.
  - No task sleeps while holding the cache mutex.
  - Everything these sections touch is read by other tasks only under that mutex.
  - So running them atomically loses no interleaving.
- Taking a buffer's or inode's sleep lock is an action of its own, and so is releasing it.
  - `mutex_acquire` either increments the count or queues the task.
  - `mutex_release` either hands the lock to the first waiter or decrements the `uint32_t` count.
  - A count of 4294967295 is kept as -1.
- A disk request goes through `ide.c`:
  - `Read` is `bio_read`'s test of `valid` and, for a buffer that is not valid, `ide_access_disk`: record the task in `actual_disk_req`, queue the command, block. `Copy` is `ide_read_disk_buffer` and `valid = 1` once the task runs again.
  - `Write` is `ide_write_disk` up to its sleep, with `ide_fill_prd_table`'s copy of the buffer into `ide_mem_buffer`. `WriteEnd` is `valid = 0` after it returns.
  - The controller completes commands in the order issued (`Transfer`). A read DMA fills `ide_mem_buffer` from the disk, and a write DMA stores `ide_mem_buffer` as it is at that moment. `IdeHandler` is that completion with `ide_handler`'s `task_unblock(actual_disk_req.task)`. A task that is not asleep only joins the run list, which the model does not track. A task asleep on a buffer lock would leave `mutex_acquire` without the lock (`IdeHandlerStray`), and the model stops there.
  - Data is abstracted to whose block it is: the disk starts with every block holding its own data, and a task's changes to its own block keep it so.
  - The interrupt is taken to arrive after `task_block`. A DMA is slower than the few instructions in between.
- Memory is an arena of addresses, so `kmalloc` may return an address that was just freed. A task whose object was evicted holds a stale pointer. Its later unlock reaches whatever object now has that address.
- In `FreeList`, a write through NULL lands in page 0, which is identity mapped, and sets a `wild` flag. A read of freed memory returns any value `kfree` may have left there.
- `InodeCache` models callers of the inode API as the directory code calls it:
  - `Start` is `dir_set` naming an inode linked on disk.
  - `Alloc`, `InitNew` and `DirSet` are `dir_create`: `dinode_alloc`, then `dir_set`, then a second `inode_lock`.
  - `Link` and `Unlink` are the link-count updates of `dir_link` and `dir_unlink`, each followed by `inode_update`.
  - `WriteData` is `inode_write` giving the inode data blocks.
- `Load` is `ext2_inode_get`. Like the code, it leaves `valid` at 0.
- The abort paths of `inode_lock`, `inode_unlock` (an unreferenced inode) and `ext2_unlink`'s check of `inode_unlink` (no links left) set `panic`, as every abort does. `Unlink` leaves the task in `unlinked`, which holds the lock like `locked`.
- `GetMiss` leaves the new inode's `prev` as `kmalloc` returned it: any address or NULL. Its `next` is read only after a push writes it.
- `Alloc` is `ext2_inode_alloc`'s first-fit scan of the inode bitmap in the order `InoOrder`, with the abort when no bit is clear. It returns the inode of the bit it sets; the code's numbering (`i + j` from cursor 11) is not modelled (see below).
- In `DirCache`, every section under `dir_head.mutex` is one atomic action guarded by `head = NoTask`, except `dir_lock`:
  - when the dentry mutex is taken, `dir_lock` queues the task and it sleeps still holding `dir_head.mutex` (`head' = t`, pc `waitdlock`);
  - `dir_unlock` must take `dir_head.mutex` first, so it is an action guarded by `head = NoTask`; its hand-off to a waiter is kept as the code has it.
- Boot follows `k_main`: `dir_init` runs `ext2_parse_root` (`Mount` is `dir_set("/")`, then the root is parsed, then `MountRelease`), then `InitCwd` is its `dir_get("/")` that pins the root as the current directory. Tasks start only after that. `shell_main`'s own `dir_get("/")` is one more reference on the pinned root and is left out.
- `dir_set` is `DirSetThen`: `SetResult` is its `ht_set` with the `dir_evict` loop (`EvictLoop`), and the rest is `dentry_alloc`. The caller's own steps are passed in as the conjunct `Then`. An abort sets `panic`, and nothing moves after it.
- `dir_iter_get` is split at the points where it drops `dir_head.mutex` to parse: `GetMissParse` finds the nearest cached ancestor (`Above`; the backward scan never tries the root itself), the parse runs as its own actions, and `IterLook` looks up the next component (`NextOn`). Neither step takes a reference, as in the code.
- `dir_add_child` runs without `dir_head.mutex`. It is one action of its own, so its two `++ref_count` are atomic here (see hazards).
- `dentry_alloc` leaves `parent`, `children` and `table` uninitialised (`kmalloc` does not zero). The model leaves them as the address's earlier dentry left them. `next` and `prev` are set to NULL, as the code does.
- `valid` is never set, so the `dir_release_entries` branches of `dir_evict` are dead and left out. "." and ".." records are not in `Records`: the test image's directories are given by their named entries only.
- `ref_count` is an `int`; a release at 0 gives -1 and pushes nothing.
- In `Ext2File`, a file offset is a block index and a transfer is one whole block, so the byte arithmetic of `ext2_read_content` and `ext2_write_content` reduces to "index past the size". A data block written with value v holds v in every word. An offset is chosen per operation, from the indices a task can reach by reading or writing in sequence.
  - The helpers act on a record `Disk` (bitmap, blocks, inode) and return it with `ret`, as the C functions return a block number; `Apply` writes it back.
  - `inode_read` and `inode_write` take no inode lock. A task's way through `ext2_get_iblock` is split where it can lose the CPU: `Check` reads `inode->blocks[slot]`, `AllocSlot` is `ext2_block_alloc` and the store into the slot (another task may have stored there meanwhile), `Ind` is the descent through the indirect tree, and `Data` is the copy into or out of the block it returned. Every block access is `bio_read` ... `bio_release` under the buffer's sleep lock, nested from the root down, so one descent and one `ext2_alloc` are atomic.
  - `Truncate` is `file_open(O_TRUNC)`: `ext2_truncate` under the inode lock, as one step. That lock keeps out other truncations, not `inode_write`, so the model interleaves writers with it at step boundaries; the sleeps inside `ext2_truncate` are not split further.
  - `ext2_alloc` searches group 0 only (see hazards), so the model has one group: `BlocksPg = TotBlocks`. Bit j of the bitmap is block j, as `ext2_free` reads it.
  - A word that is not a block number (a data value reached as a pointer) stops the model with `panic = "wild block"`: the kernel would read or free a block number out of the disk's range.
- In `Ext2Dir`, a record's name and type byte are left out; a header read at an offset inside another record's bytes is `Garbage`, one in bytes nobody wrote reads as zeros, because `ext2_alloc` zeroes every block it hands out. `size_t` values are integers read modulo 2^32: `ext2_write_content`'s `offset > size` test treats a negative value as the number it wraps to. `ext2_unlink` of a child that is not the head of the sibling list ends with `entry->offset` read through NULL (a word of the identity-mapped page 0) after it has changed only the local buffer and the in-memory dentries, so the model stops there with `status = "nullread"`. Entries that `dir_create` and `dir_link` link are not in the sibling list (neither calls `dir_add_child`), so `Unlink` takes only children of the first parse.
- In `Heap`, each `kmalloc` and `kfree` is one step, the whole call with every helper it runs (growth, merging, the `kfree` of a popped stack node). No caller takes a lock around them (see hazards).
  - Addresses are integers modulo a word (`U`), so `size_t` wrap-around is kept. The word, the page, `sizeof(node_t)` and `sizeof(size_t)` are scaled down together (1024, 32, 8, 4), and the two heap starts with them.
  - A node `[a, s]` is the header at `a` with `s` bytes after it, a block `[p, n]` is the pointer `p` with the size word `n` at `p - 4`. The free list is a sequence in address order, because `vmm_sorted_insert` keeps it so (its walk starts after the head node, which never moves).
  - `ListAlloc` is `vmm_list_alloc`: first fit with `>` (`GetNode`), then `Grow` pages onto the end and `Merge` until a node fits, then the carve from the node's tail, or the whole node with its header when it is not the head (`prev && !node->size`).
  - `kfree` of a page pushes a compound literal that lives in `kfree`'s frame (vmm.c:211). The model pushes a node `Frame` that stands for that dead frame, and keeps the leaked `kmalloc(4)` as a block. Popping a `Frame` reads whatever later calls left there: undefined, so `wild` is set and the model stops.
  - Every page the heap grows into, in `vmm_init`, the enlarging loop of `vmm_list_alloc` and `vmm_block_alloc`'s new page, is mapped by `MapPage` (`page_get_pt_entry`). No heap decision depends on which frame a page gets, so the action applies these calls to `mmu` at the end of the call, in the order the code makes them (`NewPages`, `MapAll`). One `kmalloc` or `kfree` thus stays one step. The directory entry gets a page-table frame from `PmmAlloc` when it has none (`GetPt`), then the page gets its own frame. Neither result is checked, so NULL maps frame 0. A page table maps `Entries` pages, scaled to 8 with the page. The boot code that builds the page directory is not in the repository, so the heap's directory entries start empty.
  - `Pmm` keeps the real frame size: `pmm_init` computes in KiB (`>> 2` is one frame per 4 KiB). The bitmap is the set of frames whose bit reads as set, over every dword the search can read. Bits past the `bitmap_size` bytes that `memset` fills hold whatever memory held, and the constant `Junk` fixes them. `DwordScan` is the first loop, RECURSIVE over dwords. `BitScan` states what the second loop computes, the first clear frame at or after `last` modulo `num_of_pages`, or `Spin` when none is clear and the loop never ends. A search started from `last_alloc = BIT32_MAX`, as a NULL leaves it, reads outside the bitmap, and `fault` stops the model there.
  - The caller is any code that keeps its pointers: `Free` frees a block or page some earlier `Malloc` returned and not yet freed. The request of a block and the call that made it are ghosts for `Held`.

## Runs

| Run | Cfg | Expect | What it shows |
|---|---|---|---|
| hashtable_cache_discipline | `HashTable.cfg` | pass | Four keys, capacity 5 (`ht_create(3, 75)`) and every hash assignment. Callers call `ht_set` only after `ht_get` misses, as `bio_get` and `inode_get` do. Size counts every non-EMPTY slot, some slot stays EMPTY so every probe loop ends, and the table refines a map. |
| buffer_cache | `BufferCache.cfg` | pass | Two tasks read, write and release three blocks through an index that holds two buffers. The index and the live buffers agree (`IndexConsistent`). Each `ref_count` is the number of tasks holding the buffer, and eviction never frees a buffer in use (`RefCountExact`). Disk reads and writes go through the IDE driver's one request slot. The run includes misdirected completions, and it stops at a wake-up of a task asleep on a lock. |
| buffer_use_after_free | `BufferCacheUaf.cfg` | violation | `bio_release` drops the cache mutex (bio.c:160) before it unlocks the buffer (bio.c:161). In between, another task's miss evicts and frees the buffer. The late unlock then releases the lock of a new buffer at the same address, so two tasks use one buffer, or it turns a fresh semaphore's count 0 into 4294967295, so the next locker sleeps forever. |
| inode_cache | `InodeCache.cfg` | pass | Two tasks get, lock, link, unlink, write, unlock, dup and release inodes, and create inodes, through an index of two entries that evicts. Reference counts are exact and eviction never frees an inode in use (`RefCountExact`). One task at a time holds an inode (`InodeMutualExclusion`). A lock holder sees the disk link count (`LinksWrittenThrough`). |
| kernel_heap | `Heap.cfg` | pass | Six `kmalloc` and `kfree` calls of 4, 12, 32 (one page) and 40 bytes in any order, through growth, merging, whole-node takes, the page stack and a page freed onto it. The free nodes and blocks tile the heap exactly (`HeapTiled`), no page is handed out twice or held and free at once (`PagesOwnedOnce`), and the heap implements `AbstractAlloc`: no call returns a region overlapping one still held (`ImplementsAlloc`). Every heap page and page table is backed by a frame of its own that `pmm_alloc` marked in use and that lies in available upper memory clear of the kernel and bitmap, and no search spins (`FramesBacked`). |
| dir_cache | `DirCache.cfg` | pass | Two tasks look up `/a`, `/a/f`, `/a/x` and `/y`, parsing and re-parsing `/a` and evicting. Every index entry names a live dentry of that path (`IndexSound`), through evictions off the pointer free list and its aborts. |
| dir_unlink_freed | `Namespace.cfg` | violation | `unlink("/f")`: `ext2_unlink` frees the entry's dentry through `dir_remove_child`, and `dir_unlink` then unlocks and releases it (dir.c:481). Its count falls to 0 and the freed dentry goes onto the free list, for the next `dir_set` to hand out while it is freed again (`FreedNotListed`, one call). |
| ext2_file | `Ext2File.cfg` | pass | One task writes, reads and truncates a file, up to the second entry of the double-indirect root, on an eleven-block group. Every pointer in `inode->blocks` and in the pointer blocks names a distinct allocated block that is not reserved (`NoBlockShared`), through allocation running out and truncations that leave roots behind. |
| keyboard_init | `Keyboard.cfg` | pass | `keyboard_init`'s six commands against the interrupt handler, a device that may ask once for a resend, and two key events (A, left shift, shift repeating) typed at any moment. The queue stays in its bounds and `keycodes` within its eight bytes (`TypeOK`). Scan codes received whole decode to the keysyms of the keys pressed with the right modifiers (`KeysymsMatch`). Under fairness the queue always drains and `keyboard_init` ends (`InitDrains`), through every race between `queue_push` and the handler, 1713674 states. |
| file_pipe_eof | `FileTable.cfg` | violation | `syscall_pipe`, then `close` of the write fd. `fd_alloc` takes a second reference on top of `file_alloc`'s (file.c:119), so `close` only lowers the count to 1: `pipe_close` never runs, `write_open` stays 1 and a reader of the empty pipe waits for ever (`ClosedEndSignalled`). |
| pipe_stdout | `Pipe.cfg` | pass | Two tasks write the stdout pipe and `stdout_handler` drains it through a two-byte buffer. Through every wait, broadcast and mutex hand-off, the handler receives exactly the bytes written, in order (`FifoDelivery`). |
| ext2_dir_tiling | `Ext2Dir.cfg` | violation | Four links into the root with names of 212, 252 and 255 bytes fill its block; the fourth goes to a new block with record length `BLOCK_SIZE - new_size` (filesystem.c:458), short of the block's end, so the block's lengths no longer sum to 1024 and the walk of the next `ext2_link` or `ext2_parse_dir` reads a length of 0 and never ends (`Tiled`, 5 states). |
- In `Keyboard`, a call of `keyboard_handlecode` is one step: it runs behind an interrupt gate, so nothing else runs inside it. `keyboard_queuecommand` is three steps, the ones an interrupt can fall between: `QueuePush` is `queue_push` up to `++queue->size` (with `idx` computed before it, and the refusal of a full queue, whose -1 is ignored), `QueueStore` is the store into the slot, and `QueueCheck` the `size == 1` test and `keyboard_send_cmd`.
  - The queue's slots start as `Junk`, what the `kmalloc` of `queue_init` left there. `queue_top` on an empty queue reads the slot at `head` whatever it holds.
  - `keyboard.h` is not in the repository, so a key is a name, the tables hold only the entries of the modelled keys (an index past a table reads as `"oob"`), and `COMMAND_QUEUE_CAP` is the constant `Cap`. `stdin_send_code`, which switches to the stdin task, is an append to `typed`.
  - The device (environment, not code) answers every byte with 0xFA, or with 0xFE while `NakBudget` allows; a reset with 0xFA then 0xAA; a command that takes a data byte (0xED, 0xF0) makes it take the next byte as data; a byte it does not know gets 0xFE. A key sends its scan code set 2 bytes in one go; a repeating key sends its make code again while held. `owed` counts bytes written minus answers read, and `garbled` records that a key byte reached the command path or an answer reached the decoder.
- In `FileTable`, each system call is one step: the file-table updates run under `fhead.mutex` or touch only the caller's `open_files`, and one task calls.
  - `open_files[2..15]` are never written by `task_create_new`, so `Init` gives each NULL or `Wild`. The packed `task_info_t` puts `current_dir` just before `open_files`, so fd -1 (what `shell_cat` passes after a failed `open`) is the current directory's dentry, read as a `file_t`.
  - Page 0 is identity-mapped and holds the real-mode interrupt table, so a NULL `file_t` has non-zero operation pointers, and calling one jumps into that table: `status = "crash"`. So does `file_close`'s call of `close` after its `memset` (`LastClose`).
  - `SysOpen` follows `file_open`: a missing path with `O_CREAT` goes to `dir_create`, which waits on its own inode lock (`status = "hang"`); a directory opens only read-only; then `file_alloc` and `fd_alloc`, whose `file_dup` adds a second reference.
  - File contents and pipe traffic are left to `Ext2File` and `Pipe`: here a read, write or fstat only either returns or crashes.
- In `Namespace`, each system call is one step, run to its end: one task (the shell) calls, and `dir.c` takes no lock across calls. Inside the step, the helpers run in the code's order on the state threaded through them, and the first `abort()`, wait on a held lock, NULL read or garbled write stops the model (`status`).
  - `Parse` is `ext2_parse_dir` with its locks; `Walk`, `Start` and `IterGet` are `dir_iter_get`, which never looks up the root key and returns its result without a reference; `DirGet` is `dir_get`, whose relative paths are resolved against `current_dir` (`AbsPath`).
  - `ParentArg` and `NameArg` are `dir_get_parent`: cut at the leading `/`, the parent is `""`, the current directory, and a one-name relative path has the name `path + 1`.
  - `Ext2Unlink` keeps the branches of `ext2_unlink`: a directory is refused, an entry with no next sibling or with a previous one reads through NULL, and otherwise the record before the entry swallows every record after it. When the parent passed is not the directory the entry was parsed from, the offset points into foreign bytes: `dmg` chooses between leaving the content alone and garbling it.
  - `DirCreate` stops at `dir_create`'s `inode_lock` of the inode `dinode_alloc` returned locked (`status = "hang"`); `Readdir` keeps only the `dir_get` of `syscall_readdir`, whose walk writes to kernel memory the caller never sees.
- In `Pipe`, everything between `mutex_acquire(pipe->mutex)` and the next `mutex_release` or `condvar_wait` is one step: nothing touches the pipe without the mutex.
  - `condvar_wait` queues the task and releases the mutex under `task_lock`, so no signal falls between the two; it is part of the step that calls it. The woken task's `mutex_acquire` is `Reacquire`, a step of its own, after which it goes on where it waited (`after`).
  - `condvar_signal` unblocks every waiter of the key (`Signal`); the list of condvars is abstracted to the set of waiters of each key.
  - `WLoop` is one pass of `pipe_unbuf_write`'s loop: it copies until the pipe holds `PIPE_SIZE` bytes, then either signals `b_read` and waits on `b_write`, or finishes with `pipe_write`'s signal and release.
  - `RTest` is the reader's single `if` on an empty pipe; after the wait, `RCopy` copies without testing again. `CopyLen` is `pipe_unbuf_read` (up to `size`) or `pipe_bufchar_read` (up to and including the first `'\0'`).
  - `stdout_handler` reads with `file_read(..., '\0')`, prints, then takes the mutex (`HAcquire`), waits on `b_read` whatever the pipe holds (`HWait`) and releases (`HRelease`).
  - `read_open` and `write_open` stay 1: `pipe_close` is reached only through `file_close`, which calls the `close` pointer after zeroing the file.


Every property of a passing run has a mutant in `PROJECT.json`. A mutant is a plausible bug in one mapped definition, such as a missing reference increment or a missing `inode_update`, and TLC finds the property violated when the mutant is substituted.

## Bounds

- Hash index: capacity 5 is the smallest prime table in which two tombstones, a wrap-around and the load refusal can all occur together. Four keys are enough to reach the refusal threshold, and every hash assignment is explored. The cache-discipline run uses one value, because overwriting is impossible there. The other runs use two, because overwriting matters.
- Caches: two tasks, three keys (blocks or inode numbers) and three object addresses. The index is `ht_create(1, 50)`: capacity 3, refusing a third entry.
  - Three keys over two entries make misses evict.
  - Three addresses let a freed address come back while another object is live.
  - Two tasks are the fewest for which one holds an object while another evicts or waits.
  - The real tables (`ht_create(300, 75)` and `ht_create(50, 75)`) differ only in how many keys it takes to reach the same states.
- Disk: at most two commands (`MaxIo`) in the buffer runs. That is enough for two reads in flight, a read overtaking a write, and a completion that finds its task asleep on a lock. With the pointer free list four commands take 15 minutes.
- Inodes: two of the three numbers are in use at mount and one is free for `dinode_alloc`. Two hash assignments (`MCHomes`): all at slot 0, and one slot each. Link counts are bounded by 2, and each task holds at most two references outside `dir_create`.
- Namespace: the tree has a directory with a child, a file next to it and a file below it, so unlink meets a head entry, a middle entry and a directory; the nine paths are absolute and relative, present and missing, and one-letter (the names `dir_get_parent` loses). Three calls (`MaxCalls`) are enough for a link, an unlink of another name and a check, which is the shortest trace of every finding. `dir_head.table` is `ht_create(50, 75)`, so no eviction happens at these sizes.
- Symmetry: tasks and addresses are symmetric, since nothing in the code depends on which task runs or which address `kmalloc` returns. Keys are not, because the home slots tell them apart; the runs fix the first key at slot 0 instead.

One run assumes fairness. In `keyboard_init`, `Spec` puts weak fairness on the three steps of `keyboard_init`, on taking an interrupt and on the device reading its port: a task that can step is scheduled, an unmasked interrupt is delivered, and a keyboard answers. The user's key events have none. `DirCache`'s `FairSpec` (used by `DirCacheDeadlock.cfg`, no longer a run) puts weak fairness on each task's steps and on `InitCwd`: the round-robin scheduler of `task.c` gives every ready task a time slice, and a task asleep on a mutex is not ready, so its `Step` is disabled, which weak fairness allows. That cfg uses no symmetry, which would be unsound for liveness. The other runs assume no fairness. The kernel stops at `abort()`, and a task waiting on a lock nobody will release waits forever. So the cache runs do not check deadlock. Neither do the pipe runs: writers stop at the byte bound, and the handler then waits on `b_read` for ever, as it does in the kernel when nothing is printed. Waiting forever is stated as the safety property `WaiterHasHolder` of `InodeCache`: a waiting task is queued behind another task that holds the lock. Liveness ("every `bio_read` returns") took longer than 15 minutes on this configuration. It is left for a smaller one.

- ext2 directory: `BLOCK_SIZE` 1024 as `log_block_size` 0 gives, and real name lengths (1, 212, 252, 255) chosen so that four names fill a block, so a link runs into the block's end within five links. The arithmetic is exact: no value is scaled down.
- ext2 file: one direct slot and two pointers per indirect block (`DIRECT_BLOCKS` 12 and `PTR_ENTRY_BLOCKS` 256 scaled down), so indices 1-2 are single-indirect and 3-6 double-indirect. Every branch of `ext2_get_iblock`, `ext2_indblock` (both depths), `ext2_ind_trunc` (including the second entry of a double-indirect block, where its `--times` bug acts) and `ext2_truncate`'s early returns is reached with indices up to 6. Eleven blocks, block 0 reserved, hold a file of seven blocks with its three pointer blocks, so the write of index 6 runs allocation out (`can't alloc a block`). The violation runs use eight blocks, 0 and 1 reserved, and indices up to 2. The pass run has one task: with two, the stale write of `Ext2Stale.cfg` breaks `NoBlockShared` (see below). Nine operations, two values.
- Pipes: `PIPE_SIZE` and `pipe->size` both scaled to 2, two byte values of which one is `'\0'`, writes of one or two bytes, five bytes in all. A two-byte write then fills the pipe, wraps the ring and makes the writer wait with bytes left, and the handler stops at a `'\0'` with bytes still in the pipe. Two writers are the fewest for two tasks queued on the mutex while a third holds it. The stall needs only one writer and four bytes.
- Kernel heap: at most six calls (`MaxOps`), sizes 4 (the smallest size above the 1-3 bug), 12, 40 (more than a page, so the heap grows by two pages and merges them) and 32 (a page). A page of 32 bytes makes a few calls fill a page, so growth, merging and whole-node takes all occur. `BlockStart` is 512 with the list heap at 64: thirteen pages of room, more than six calls can use, so the pass run stays clear of the boundary bug; `HeapBoundary.cfg` puts them two pages apart. The run reaches a stack of two pages and a popped frame node. Physical memory: 1280 KiB of upper memory and a 64 KiB kernel at 1 MiB give 576 frames, a 72-byte bitmap and frames 528 to 575 free. Runs map at most 14 pages and 3 page tables, so memory never runs out and the list heap grows into a second page table. `HeapOom.cfg` and `HeapSpin.cfg` shrink memory until it does.
- Keyboard: the six commands of `keyboard_init`, `Cap` 6 (the real capacity is unknown; six is what `keyboard_init` needs in a burst), one 0xFE from the device, and two key events over A and left shift. That reaches the reset path, a resend, the drop of a command after four 0xFE (through a byte the device does not know), every race of `queue_push` with the handler, key bytes eaten by the command path, and a release decoded through its 0xF0 prefix. Three events, or more keys, take the state space past ten million states.
- File table: four fds (`OPEN_FILES_COUNT` 16 scaled down: two are stdio, so two free slots and two uninitialised ones), eight `file_t` and three pipes, so `fd_alloc` finds the table full, the free list is reused, and `syscall_pipe` fails for want of a second fd.
- Directory cache: two tasks, and the tree `/ -> /a -> {/a/f, /a/g}` with the missing `/a/x` and `/y`.
  - `ht_create(3, 50)` gives capacity 7 and refuses a fifth path. The four existing paths therefore fill the index, and a re-parse of `/a` has to evict.
  - The first hash assignment puts `/a/g` before `/a/f`, so removing `/a/f` empties its slot, and an eviction followed by a re-set is reached. The second assignment puts every path at slot 0, so the paths collide.
  - `/a/x` makes a miss re-parse an already parsed directory, where `dir_add_child` finds the path already present. `/y` has no cached component to parse (`GetMissNull`).
  - At most six `dir_set` calls (`MaxSets`) and seven addresses, so `kmalloc` always succeeds, as it does in the kernel.
  - The deadlock run needs only two targets, five addresses and four `dir_set` calls.

## Plan for the remaining parts

1. `Namespace` with two tasks: the lock order of `dir_lock` against the inode locks of `dir_link` and `dir_unlink`, and the use of a freed dentry after `dir_set` reuses it. Compose it with `InodeCache` so that the references `dir_set` leaks reach the inode index.
2. `Ext2File`: inode allocation, and the leak property that `ext2_ind_trunc`'s `--times` and the writers' race on an empty slot break.
3. `FileTable`: the contents of regular files through `Ext2File`.
4. Liveness of the buffer cache on one task pair and two blocks, under weak fairness of the scheduler.

## Not modelled

- Hardware drivers and interrupt setup: register I/O with no protocol above it. Of paging, `page_identity_map`, `page_init` and `page_get_phys_addr`: boot-time identity maps of device and lower memory, and a lookup. `pmm_free` has no caller.
- `ht_resize`. Only the directory child index uses it, and it reads the uninitialised entries `kmalloc` returns.
- `inode_stat`, and the file offsets kept by `inode_read` and `inode_write`: they change no shared state.
- The numbering of `ext2_alloc(device, 1)`: `InodeCache`'s `Alloc` scans the bitmap first-fit and aborts when it is full, as the code does, but returns the inode of the bit it sets. Read from the code but not checked: the scan starts at the cursor 11, uses it as a block group index (`bg_descrs + 11`), tests bits from 11 and returns `i + j`, 22 for bit 11, after zeroing block 22 with `ext2_zero_block`; `ext2_inode_idx` maps inode n to bit n - 1, and `ext2_free` indexes inode bitmaps by `blocks_pg`. Modelling it needs the group descriptors and the inode table as state, which no run here has room for.
- Formatting, logging and the shell.
- The scheduler (`task.c`): `task_switch` and `enter_ring3` are in assembly files that are not in the repository, and which task states they set decides every property of the run queue.
- In `Namespace`: `dir_create_dot`, which nothing reaches past `dir_create`'s hang; `.` and `..` as path arguments (the shell passes what the user types, and the cache holds both under their own paths); eviction, which needs more than 37 cached paths; the reuse of a freed dentry by a later `dir_set`, which `FreedNotListed` stops before.
- `PIPE_TYPE_BUF_BLOCK` (`pipe_buf_write`, `pipe_bufblock_read`): no `pipe_alloc` call creates such a pipe.

## Seen but not checked by a run

These were confirmed with TLC, but no run of `PROJECT.json` checks them:
- `DirCache`'s `InodeRefPerDentry` (dir.c:351), formerly the run `dir_inode_leak`. `dir_set` takes two inode references (`inode_get`, then `inode_dup` in `dentry_alloc`) and nothing releases them, not even `dir_evict`. Reproduce with `DirCacheLeak.cfg`.
- `Namespace`'s `LinksMatchNames` (filesystem.c:401, dir.c:472). `link("f", "h")` names the new record `""` (a one-name relative path), and `unlink("/f")` then clears `f` and the record after it, so `f`'s inode keeps a count of 1 with no name. Also `cd /a` then `unlink("/f")`: the wrong parent is passed, the count falls to 0 while `/` still names `f`. Reproduce with `NamespaceLinks.cfg`.
- `FreeList`'s `NoSpuriousAbort` (bio.c:38). `bio_remove` takes the only free buffer (next == prev == NULL) for a buffer that is not on the list. So a get, release and get of one block aborts. To reproduce, check `FreeListRefines.cfg` with its invariants replaced by `NoSpuriousAbort` in place of its property. `dir_remove` (dir.c:54) adds `lhead != dentry` to that test, so it does not abort there. It then writes through the NULL `next` instead (dir.c:68).
- `HashTable`'s `ImplementsMap` when any call sequence is allowed (hashtable.c:159). `ht_set` stops at a tombstone in front of an existing entry of the same key and stores a duplicate. Removing the first copy then makes `ht_get` return the old value. `dir_set` calls `ht_set` without looking first. To reproduce, check `HashTable.cfg` with `CallerChecks = FALSE` and two values.
- The directory cache aborts on a re-parse (dir.c:190). The root is pinned by the current directory and every parsed child by its parent's child list, so the four paths of `DirCache.cfg` fill the index with pinned dentries. Looking up `/a/x` re-parses `/a`, whose `dir_set("/a/f")` is refused by the load check before `ht_set` looks for the existing key. It then aborts with "there aren't any free dentries". The `dir_cache` run reaches this state and stops there.
- The same run reaches "can't get any free dentry" (dir.c:366). `ht_remove` of an evicted path leaves a tombstone and keeps `size`, so `ht_set` still refuses and the loop evicts until the free list is empty.

- `DirCache`'s `FreeListWellFormed` and `UnlockFindsNoWaiter`, formerly invariants of `dir_cache`. The first was about the free list kept as a sequence, which the pointer list replaced; the pointer code keeps no such shape (`FreeList`'s `ImplementsLru`). The second followed from the guard of `dir_lock`'s sleep alone.
- `BufferCache`'s `NoSpuriousExhaustion` (bio.c:133). Evictions leave tombstones counted in size, so `bio_get` drains the free list and aborts with one buffer in use. Reproduce with `BufferCache.cfg` with its invariants replaced by `NoSpuriousExhaustion`.
- `InodeCache`'s `OrphanTruncated` (inode.c:167). The loader never sets `valid`, so `inode_release` never truncates an inode whose last link is gone. Reproduce with `InodeCache.cfg` with its invariants replaced by `OrphanTruncated`.
- `InodeCache`'s `WaiterHasHolder` (dir.c:547). `dinode_alloc` returns the inode locked and `dir_create` locks it again, so the first `dir_create` waits on itself. Reproduce with `InodeCache.cfg` with its invariants replaced by `WaiterHasHolder`.
- `FileTable`'s `CallsReturn` (file.c:66). `file_close` clears the file and then calls `file->close` from it, so every last close calls the NULL-page pointer: `close(0)` of stdin, and the clean-up paths of `file_open` and `syscall_pipe` when no fd is free. `shell_cat` of a missing file passes fd -1 to `fstat`, which calls `current_dir->path` as code. Reproduce with `FileTable.cfg` with its invariants replaced by `CallsReturn`.
- `FileTable`'s `RefsCoverHolders` (task.c:127). `task_user_create_new` stores `stdin_read` and `stdout_write` in the shell's table without `file_dup`, so those files count one reference for two holders from the start. Reproduce with `FileTable.cfg` with its invariants replaced by `RefsCoverHolders`.
- `DirCache`'s `DirLockReturns` (dir.c:281), formerly the run `dir_lock_deadlock`. One task holds `/a`'s dentry lock after a hit; another parses `/a` for `/a/f` and sleeps in `dir_lock` holding `dir_head.mutex`; the holder's `dir_unlock` can never take `dir_head.mutex`. Reproduce with `DirCacheDeadlock.cfg` (fair specification, no symmetry).

- The load check of `ht_set` (hashtable.c:149) uses `>` before the insert. A table therefore holds one entry more than the bound `capacity * max_load / 100` of spec section 8: 4 entries at capacity 5 and load 75.
- `Ext2File`'s `ReadReturnsWritten` (filesystem.c:183). At depth 0 `ext2_indblock` returns the first word of the data block, not its number, so every index past the direct blocks reads and writes block 0. A write to index 1, a truncation that keeps the size (`ext2_truncate` returns at the first empty slot, line 285) and a read of index 1 return the old data. Reproduce with `Ext2Content.cfg`.
- `DirCache`'s `DentryHeldLive` (dir.c:274). `dir_iter_get` returns `/a/f` without a reference, and the caller's `dir_release` drops the parent's reference instead. Re-parses of `/a` then evict and free the dentry while a task uses it (41 states). Reproduce with `DirCache.cfg` with its invariants replaced by `DentryHeldLive`.
- `FreeList`'s `ImplementsLru` (bio.c:62). `bio_remove` runs its middle case after the head or tail case, and `bio_release` leaves `prev` stale (bio.c:156). Read A, read B, release A, release B, read A, release A, read A leaves a buffer pointing to itself, and `bio_evict` then reads a stale tail (bio.c:79). The same sequencing writes through a NULL `next` when the tail of a two-buffer list is unlinked. Reproduce with `FreeListRefines.cfg`.
- `Heap`'s `ImplementsAlloc` with a block of 1 to 3 bytes (vmm.c:223). `kfree` makes a node of size `n - sizeof(node_t)` from a block whose size word `n` is `size + 4 < 8`; the size wraps, and the next `kmalloc` carves a region out of a block still held (six steps). `dir_get_parent` allocates `len + 1` bytes for the parent of a path (dir.c:374) and frees them (dir.c:383), so looking up the parent of `"/a"` does it. Reproduce with `HeapSmall.cfg`.
- `Heap`'s `PagesOwnedOnce` at the heap boundary (vmm.c:93). `vmm_list_alloc` stops growing only when `kheap_end > kheap_stack_end`, so at equality it maps the page the stack handed out last; `vmm_block_alloc`'s test (vmm.c:154) lets the stack step onto the list heap the same way. In the kernel this takes 256 MiB of heap. Reproduce with `HeapBoundary.cfg` (284 states).
- `Heap`'s `FramesBacked` when physical memory runs out (page.c:84, pmm.c:194). `pmm_alloc` returns NULL, and `page_get_pt_entry` maps the heap page to frame 0 without a check; every later page aliases it. `last_alloc` is left at `BIT32_MAX`, so the next call reads a dword 512 MiB past the bitmap. Reproduce with `HeapOom.cfg` (1152 KiB of upper memory, 16 free frames).
- `Heap`'s `FramesBacked` through an endless search (pmm.c:126, pmm.c:183). `pmm_setup_bitmap` clears up to `(addr + size) / PAGE + 1` inclusive, two frames past the region. When `num_of_pages` is not a multiple of 32, those bits lie in the last dword, which then never reads full. Once every frame is taken, the dword loop stops there and the bit loop, which has no exit but a clear bit, runs forever instead of returning NULL. Reproduce with `HeapSpin.cfg` (1120 KiB: 536 frames, 8 free).
- `kfree` of a page (vmm.c:211) pushes a node that lives in `kfree`'s own stack frame and leaks the `kmalloc(4)` it made for it. The `kernel_heap` run reaches the pop of such a node and stops there.
- `BufferCache`'s `DiskDataIntact` (ide.c:271). Two tasks read two uncached blocks. Each holds only its own buffer's lock. Both `ide_access_disk` calls store into `actual_disk_req`. The first completion wakes the second task, which copies the first block's data into its buffer and marks it valid. The first task sleeps for ever holding its buffer. A read started after a write can also overwrite `ide_mem_buffer` before the write's DMA, and the disk then stores another block's data. Reproduce with `BufferCache.cfg` with its invariants replaced by `DiskDataIntact` (an 11-state trace).
- `PipeUnbuf.cfg` checks the pipes of `syscall_pipe` and stdin, unbuffered, with two `pipe_read` readers: `FifoDelivery`, `ReaderWaitsOnEmpty` and `WriterHasDrainer` hold (784060 states). A woken reader that finds the pipe drained by the other returns 0 bytes (pipe.c:111). The `syscall.c` pipes have `pipe->size` 1024 below `PIPE_SIZE`, so writes land past the buffer (pipe.c:41); with `Cap` below `PipeSz` `FifoDelivery` fails at once.
- `Ext2File`'s `NoBlockShared` with two tasks (filesystem.c:345). A writer gets block 2 for index 0 and, before it copies, another task's `O_TRUNC` frees it. The size survives (filesystem.c:285), so the other task writes index 1: `ext2_alloc` hands it block 2 as the single-indirect root, and the first writer's data become its pointers. Reproduce with `Ext2Stale.cfg` (the run was retired for `keyboard_init`).
- `Keyboard`'s `OneCommandOutstanding` (keyboard.c:55, queue.c:29). The reset's 0xFA and 0xAA taken between `queue_push`'s `++size` and its store make `keyboard_send_next` write the slot not yet stored; taken between the store and the `size == 1` test, they make 0xED go out twice. Either way two bytes await an answer under one status, and every later 0xFA pops a command that was never sent (ten states). Reproduce with `KeyboardRace.cfg`.
- `Keyboard`'s `KeysymsMatch` with both shift keys (keyboard.c:206). One `hold` serves both: left shift down, right shift down, left shift up, A gives a lowercase A with right shift held. Reproduce with `KeyboardShift.cfg`.
- `Keyboard`'s `KeysymsMatch` with caps lock repeating (keyboard.c:226). Every repeated make code toggles `shift_flag`, so holding caps lock for two repeats and typing A gives a lowercase A. Reproduce with `KeyboardCaps.cfg`.
- `Pipe`'s `WriterHasDrainer` (stdio_handler.c:35). `stdout_handler` waits on `b_read` after every print whatever the pipe holds; a writer that fills the pipe while it prints signals `b_read` with nobody waiting and sleeps on `b_write`, and both sleep for ever (9 states). Reproduce with `PipeStall.cfg` (the run `pipe_stdout_stall` gave its slot to `ext2_dir_tiling`).
- `Ext2Dir`'s `Listed` (filesystem.c:401, 450). `ext2_unlink` of the last parsed entry gives the record before it a length to the end of the block, over every record linked since; and a link into a directory `dir_create` made writes at offset 8 of a file of size 0, which `ext2_write_content` refuses, so the entry is never written though `ext2_link` returns 0. Reproduce with `Ext2Dir.cfg` with its invariants replaced by `Listed`.
- `Ext2Dir`'s `Disjoint` (filesystem.c:448). A name that ends exactly at a block's end puts the next record at the block boundary without a spill, so `size` ends off a block boundary; the next link computes `last_start = size - last->size` inside an earlier record and writes the trimmed record and the new one over other entries (seven links). Reproduce with `Ext2DirBoundary.cfg`.
