----------------------------- MODULE BufferCache -----------------------------
(***************************************************************************)
(* The block buffer cache of src/src/kernel/fs/bio.c used by concurrent    *)
(* tasks, each running the loop of the ext2 driver: bio_read a block, use  *)
(* it, maybe bio_write it, bio_release it.                                 *)
(*                                                                         *)
(* Every step that bio_get and bio_release take under bio_head.mutex is    *)
(* one action: no task blocks while holding that mutex, and everything     *)
(* the sections touch is read by others only under it, so running them     *)
(* atomically loses no behaviour.  What runs outside it is a step of its   *)
(* own: taking the buffer's sleep lock, the disk read of bio_read, the     *)
(* write of bio_write, and the unlock of the buffer at bio.c:161, which    *)
(* comes after the cache mutex is released.                                *)
(*                                                                         *)
(* Sleep locks follow mutex.c: a count and a FIFO of waiting tasks.  An    *)
(* unlock with waiters hands the lock to the first one without changing   *)
(* the count; one without waiters decrements the uint32_t count.           *)
(*                                                                         *)
(* The index is a HashIndex table keyed by block number.  The free list    *)
(* is the pointer list of LruList: bio_head.lhead and ltail and every      *)
(* buffer's next and prev, with bio_remove's two abort checks.  A buffer   *)
(* is an address in the arena Bufs, together with its semaphore:           *)
(* bio_alloc takes any address not in use, so an evicted buffer's memory   *)
(* is reused, and its list fields keep what was written there until        *)
(* bio_alloc sets them to NULL.  A task's pointer is "stale" once the      *)
(* buffer it points to has been evicted.  When bio_evict would read the    *)
(* fields of a freed buffer through ltail, the behaviour is undefined and  *)
(* the model stops, with panic = "read of freed buffer".                   *)
(***************************************************************************)
EXTENDS Integers, Sequences, SequencesExt

CONSTANTS
    Tasks,             \* tasks using the cache
    Blocks,            \* block numbers they read
    Bufs,              \* addresses kmalloc may return for a buffer
    NULL,
    MaxSize, MaxLoad,  \* ht_create(BIO_TABLE_SIZE, BIO_LOAD_FACTOR, 0)
    Homes,             \* hash assignments (block -> home slot) explored
    NoKey, NoVal, Hang,
    MaxIo              \* bound on the disk commands issued

INSTANCE HashIndex
INSTANCE LruList

VARIABLES
    table, home,  \* bio_head.table and the hash of every block
    lst,          \* bio_head.lhead, ltail and every buffer's next, prev
    blk,          \* buf->block
    ref,          \* buf->ref_count
    valid,        \* buf->valid
    live,         \* buffers allocated and not yet kfree'd
    sem,          \* buf->mutex: [count, waiters]
    pc, want, buf, stale,  \* per task: program point, block, pointer
    content,      \* buf->buffer: whose block's data it holds
    dsk,          \* the disk: whose data each block holds
    dma,          \* ide_mem_buffer, the one DMA buffer of the driver
    ctl,          \* the commands the IDE controller has yet to complete
    req,          \* actual_disk_req.task
    nio,          \* disk commands issued so far (bounded by MaxIo)
    panic         \* the message of the abort() that stopped the kernel

cache == <<table, home, lst, blk, ref, valid, live, sem>>
tasks == <<pc, want, buf, stale>>
dev == <<dsk, dma, ctl, req, nio>>
vars == <<cache, tasks, content, dev, panic>>

\* semaphore->current_count is a uint32_t.  TLC's integers are 32-bit, so
\* a count is kept as the signed integer with the same bits: -1 stands for
\* 4294967295, the value --current_count leaves behind a 0.
BelowU32(c, n) == c >= 0 /\ c < n

\* semaphore_create(1) as mutex_create makes it.
NewSem == [count |-> 0, waiters |-> <<>>]

Init ==
    /\ table = HtCreate(MaxSize, MaxLoad)
    /\ home \in Homes
    /\ lst = ListEmpty(Bufs)
    /\ blk = [b \in Bufs |-> NoKey]
    /\ ref = [b \in Bufs |-> 0]
    /\ valid = [b \in Bufs |-> 0]
    /\ live = {}
    /\ sem = [b \in Bufs |-> NewSem]
    /\ pc = [t \in Tasks |-> "idle"]
    /\ want = [t \in Tasks |-> NoKey]
    /\ buf = [t \in Tasks |-> NULL]
    /\ stale = [t \in Tasks |-> FALSE]
    /\ content = [b \in Bufs |-> NoKey]
    /\ dsk = [k \in Blocks |-> k]
    /\ dma = NoKey
    /\ ctl = <<>>
    /\ req = NULL
    /\ nio = 0
    /\ panic = "none"

\* A task calls bio_read(device, k, BLOCK_SIZE).
Start(t, k) ==
    /\ pc[t] = "idle"
    /\ pc' = [pc EXCEPT ![t] = "get"]
    /\ want' = [want EXCEPT ![t] = k]
    /\ UNCHANGED <<cache, buf, stale, content, dev, panic>>

\* The abort() at which bio_remove(buf) stops (bio.c:37-46), or "none".
BioRemoveAbort(l, b) ==
    CASE l.next[b] = NULL /\ l.prev[b] = NULL -> "buffer not part of list"
      [] l.lhead = NULL /\ l.ltail = NULL     -> "removing from empty list"
      [] OTHER                               -> "none"

\* Mutant: the hit path takes the buffer without counting the reference.
GetHitNoRef(t) ==
    LET b == HtGet(table, home[want[t]], want[t])
    IN  /\ pc[t] = "get"
        /\ b \in Bufs
        /\ ref[b] = 0 => BioRemoveAbort(lst, b) = "none"
        /\ lst' = IF ref[b] = 0 THEN ListUnlink(lst, b) ELSE lst
        /\ buf' = [buf EXCEPT ![t] = b]
        /\ stale' = [stale EXCEPT ![t] = FALSE]
        /\ pc' = [pc EXCEPT ![t] = "lockbuf"]
        /\ UNCHANGED <<table, home, blk, ref, valid, live, sem, want, content, dev, panic>>

\* Mutant: the hit path sets ref_count to 1 instead of incrementing it.
GetHitSetRef(t) ==
    LET b == HtGet(table, home[want[t]], want[t])
    IN  /\ pc[t] = "get"
        /\ b \in Bufs
        /\ ref[b] = 0 => BioRemoveAbort(lst, b) = "none"
        /\ ref' = [ref EXCEPT ![b] = 1]
        /\ lst' = IF ref[b] = 0 THEN ListUnlink(lst, b) ELSE lst
        /\ buf' = [buf EXCEPT ![t] = b]
        /\ stale' = [stale EXCEPT ![t] = FALSE]
        /\ pc' = [pc EXCEPT ![t] = "lockbuf"]
        /\ UNCHANGED <<table, home, blk, valid, live, sem, want, content, dev, panic>>

\* bio_get, hit: ht_get finds the block's buffer; take a reference and,
\* if it was the first, bio_remove the buffer from the free list, which
\* aborts when the buffer has neither neighbour or the list is empty;
\* release the cache mutex.
GetHit(t) ==
    LET b   == HtGet(table, home[want[t]], want[t])
        why == IF ref[b] = 0 THEN BioRemoveAbort(lst, b) ELSE "none"
    IN  /\ pc[t] = "get"
        /\ b \in Bufs
        /\ IF why # "none"
             THEN /\ panic' = why
                  /\ UNCHANGED <<cache, tasks, content, dev>>
             ELSE /\ ref' = [ref EXCEPT ![b] = @ + 1]
                  /\ lst' = IF ref[b] = 0 THEN ListUnlink(lst, b) ELSE lst
                  /\ buf' = [buf EXCEPT ![t] = b]
                  /\ stale' = [stale EXCEPT ![t] = FALSE]
                  /\ pc' = [pc EXCEPT ![t] = "lockbuf"]
                  /\ UNCHANGED <<table, home, blk, valid, live, sem, want, content, dev, panic>>

RECURSIVE EvictLoopNoFree(_, _, _)
\* Mutant: bio_evict unlinks and unindexes the tail but never frees it.
EvictLoopNoFree(s, k, b) ==
    LET old == s.lst.ltail
        key == IF old = b THEN k ELSE blk[old]
        e   == [s EXCEPT !.table = HtRemove(@, home[key], key),
                         !.lst   = ListUnlink(@, old)]
    IN  CASE old = NULL            -> [s EXCEPT !.panic = "there aren't any free bufs"]
          [] old \notin s.live     -> [s EXCEPT !.panic = "read of freed buffer"]
          [] old = b \/ ref[old] # 0 -> [s EXCEPT !.panic = "buf shouldn't be already free"]
          [] ~HtRemoveFinds(s.table, home[key], key)
                                   -> [s EXCEPT !.panic = "buf can't free'd in hash table"]
          [] BioRemoveAbort(s.lst, old) # "none"
                                   -> [s EXCEPT !.panic = BioRemoveAbort(s.lst, old)]
          [] ~HtSetRefused(e.table) -> [e EXCEPT !.table = HtSet(@, home[k], k, b)]
          [] e.lst.ltail # NULL    -> EvictLoopNoFree(e, k, b)
          [] OTHER                 -> [e EXCEPT !.panic = "can't get any free buffer"]

\* The eviction loop of bio_get for the new buffer b of block k, from the
\* state s = [table, lst, live, gone, panic] of the cache: do {
\* bio_evict(); ret = ht_set(..) } while (ret && ltail).  bio_evict aborts
\* on an empty list, on a referenced tail and when ht_remove misses the
\* tail's key; otherwise it removes the key, bio_removes the tail and
\* frees it.  The loop ends with b indexed, or aborts when the list runs
\* out first.  b itself has ref_count 1 and block k.
RECURSIVE EvictLoop(_, _, _)
EvictLoop(s, k, b) ==
    LET old == s.lst.ltail
        key == IF old = b THEN k ELSE blk[old]
        e   == [s EXCEPT !.table = HtRemove(@, home[key], key),
                         !.lst   = ListUnlink(@, old),
                         !.live  = @ \ {old},
                         !.gone  = @ \cup {old}]
    IN  CASE old = NULL            -> [s EXCEPT !.panic = "there aren't any free bufs"]
          [] old \notin s.live     -> [s EXCEPT !.panic = "read of freed buffer"]
          [] old = b \/ ref[old] # 0 -> [s EXCEPT !.panic = "buf shouldn't be already free"]
          [] ~HtRemoveFinds(s.table, home[key], key)
                                   -> [s EXCEPT !.panic = "buf can't free'd in hash table"]
          [] BioRemoveAbort(s.lst, old) # "none"
                                   -> [s EXCEPT !.panic = BioRemoveAbort(s.lst, old)]
          [] ~HtSetRefused(e.table) -> [e EXCEPT !.table = HtSet(@, home[k], k, b)]
          [] e.lst.ltail # NULL    -> EvictLoop(e, k, b)
          [] OTHER                 -> [e EXCEPT !.panic = "can't get any free buffer"]

\* bio_get, miss: bio_alloc a buffer b for block k (ref_count 1, not valid,
\* a new semaphore) and index it with ht_set, evicting when the index
\* refuses; then release the cache mutex.  Tasks holding a pointer to an
\* evicted buffer now hold a stale one.  The block, data and semaphore of
\* freed memory are reset: nothing reads them before bio_alloc writes
\* them again, except a stale unlock, which finds no waiters either way.
\* Its list fields are kept, since list writes still reach them.
GetMiss(t) ==
    LET k == want[t]
    IN
    /\ pc[t] = "get"
    /\ HtGet(table, home[k], k) = NoVal
    /\ \E b \in Bufs \ live :
         LET s0 == [table |-> table, lst |-> ListFresh(lst, b), live |-> live \cup {b},
                    gone |-> {}, panic |-> "none"]
             s  == IF HtSetRefused(table) THEN EvictLoop(s0, k, b)
                   ELSE [s0 EXCEPT !.table = HtSet(@, home[k], k, b)]
         IN  IF s.panic # "none"
               THEN /\ panic' = s.panic
                    /\ UNCHANGED <<cache, tasks, content, dev>>
               ELSE /\ table' = s.table
                    /\ lst' = s.lst
                    /\ live' = s.live
                    /\ blk' = [x \in Bufs |-> IF x = b THEN k
                                             ELSE IF x \in s.gone THEN NoKey ELSE blk[x]]
                    /\ ref' = [ref EXCEPT ![b] = 1]
                    /\ valid' = [x \in Bufs |-> IF x \in s.gone \cup {b} THEN 0 ELSE valid[x]]
                    /\ sem' = [x \in Bufs |-> IF x \in s.gone \cup {b} THEN NewSem ELSE sem[x]]
                    /\ content' = [x \in Bufs |-> IF x \in s.gone \cup {b} THEN NoKey ELSE content[x]]
                    /\ buf' = [buf EXCEPT ![t] = b]
                    /\ stale' = [u \in Tasks |->
                                   IF u = t THEN FALSE ELSE stale[u] \/ buf[u] \in s.gone]
                    /\ pc' = [pc EXCEPT ![t] = "lockbuf"]
                    /\ UNCHANGED <<home, want, dev, panic>>

\* mutex_acquire(buf->mutex) at the end of bio_get: take the lock if the
\* count is below 1, otherwise queue and block.
LockBuf(t) ==
    LET b == buf[t]
    IN  /\ pc[t] = "lockbuf"
        /\ IF BelowU32(sem[b].count, 1)
             THEN /\ sem' = [sem EXCEPT ![b].count = @ + 1]
                  /\ pc' = [pc EXCEPT ![t] = "read"]
             ELSE /\ sem' = [sem EXCEPT ![b].waiters = Append(@, t)]
                  /\ pc' = [pc EXCEPT ![t] = "waitbuf"]
        /\ UNCHANGED <<table, home, lst, blk, ref, valid, live, want, buf, stale, content, dev, panic>>

\* bio_read after bio_get returned: a valid buffer is used as it is.  One
\* that is not is read with ide_read_disk: ide_access_disk records the
\* task in the one global actual_disk_req, starts the DMA of block k into
\* ide_mem_buffer and blocks (IO_REQUEST).  Nothing serialises callers:
\* each holds only its own buffer's lock.
Read(t) ==
    LET b == buf[t]
    IN  /\ pc[t] = "read"
        /\ IF valid[b] = 1
             THEN /\ pc' = [pc EXCEPT ![t] = "use"]
                  /\ UNCHANGED <<ctl, req, nio>>
             ELSE /\ nio < MaxIo
                  /\ nio' = nio + 1
                  /\ ctl' = Append(ctl, [op |-> "r", k |-> want[t]])
                  /\ req' = t
                  /\ pc' = [pc EXCEPT ![t] = "ioread"]
        /\ UNCHANGED <<cache, want, buf, stale, content, dsk, dma, panic>>

\* bio_read after ide_read_disk returned: ide_read_disk_buffer copies
\* ide_mem_buffer into the buffer, which is then valid.
Copy(t) ==
    LET b == buf[t]
    IN  /\ pc[t] = "copy"
        /\ content' = [content EXCEPT ![b] = dma]
        /\ valid' = [valid EXCEPT ![b] = 1]
        /\ pc' = [pc EXCEPT ![t] = "use"]
        /\ UNCHANGED <<table, home, lst, blk, ref, live, sem, want, buf, stale, dev, panic>>

\* bio_write(buf) up to the sleep: ide_write_disk, whose
\* ide_fill_prd_table copies the buffer into ide_mem_buffer; then the
\* command and task_block, as for a read.
Write(t) ==
    LET b == buf[t]
    IN  /\ pc[t] = "use"
        /\ nio < MaxIo
        /\ nio' = nio + 1
        /\ dma' = content[b]
        /\ ctl' = Append(ctl, [op |-> "w", k |-> blk[b]])
        /\ req' = t
        /\ pc' = [pc EXCEPT ![t] = "iowrite"]
        /\ UNCHANGED <<cache, want, buf, stale, content, dsk, panic>>

\* The rest of bio_write once the task runs again: mark the buffer not
\* valid.
WriteEnd(t) ==
    LET b == buf[t]
    IN  /\ pc[t] = "wdone"
        /\ valid' = [valid EXCEPT ![b] = 0]
        /\ pc' = [pc EXCEPT ![t] = "written"]
        /\ UNCHANGED <<table, home, lst, blk, ref, live, sem, want, buf, stale, content, dev, panic>>

\* The controller completes the oldest command it was given: a read fills
\* ide_mem_buffer from the disk, a write stores ide_mem_buffer, as it is
\* by then, to the disk.
Transfer(c) ==
    /\ dma' = IF c.op = "r" THEN dsk[c.k] ELSE dma
    /\ dsk' = IF c.op = "w" THEN [dsk EXCEPT ![c.k] = dma] ELSE dsk

\* Where task_unblock sends a task asleep in ide_access_disk.
IoWake == [ioread |-> "copy", iowrite |-> "wdone"]

\* The completion interrupt: ide_handler acknowledges it and calls
\* task_unblock(actual_disk_req.task), whichever task that now is.  A task
\* not blocked is only put on the run list, which changes nothing here.
IdeHandler ==
    /\ ctl # <<>>
    /\ pc[req] # "waitbuf"
    /\ Transfer(Head(ctl))
    /\ ctl' = Tail(ctl)
    /\ pc' = IF pc[req] \in DOMAIN IoWake THEN [pc EXCEPT ![req] = IoWake[pc[req]]] ELSE pc
    /\ UNCHANGED <<cache, want, buf, stale, content, req, nio, panic>>

\* The same interrupt when actual_disk_req.task is asleep on a buffer's
\* lock: it would return from mutex_acquire without the lock, while still
\* queued on it.  The model stops there.
IdeHandlerStray ==
    /\ ctl # <<>>
    /\ pc[req] = "waitbuf"
    /\ Transfer(Head(ctl))
    /\ ctl' = Tail(ctl)
    /\ panic' = "stray wake-up"
    /\ UNCHANGED <<cache, tasks, content, req, nio>>

\* bio_release(buf) up to bio.c:160: drop the reference and, if it was the
\* last, push the buffer at the head of the free list; release the cache
\* mutex.
Release(t) ==
    LET b == buf[t]
    IN  /\ pc[t] \in {"use", "written"}
        /\ ref' = [ref EXCEPT ![b] = @ - 1]
        /\ lst' = IF ref[b] = 1 THEN ListPush(lst, b) ELSE lst
        /\ pc' = [pc EXCEPT ![t] = "unlockbuf"]
        /\ UNCHANGED <<table, home, blk, valid, live, sem, want, buf, stale, content, dev, panic>>

\* bio.c:161, mutex_release(buf->mutex), through the pointer the task still
\* holds: hand the lock to the first waiter, or decrement the count when
\* nobody waits.  If the buffer was evicted meanwhile, this is the
\* semaphore of whatever buffer now has that address.  bio_release returns
\* and its pointer is gone.
UnlockBuf(t) ==
    LET b == buf[t]
        q == sem[b].waiters
    IN  /\ pc[t] = "unlockbuf"
        /\ IF q = <<>>
             THEN /\ sem' = [sem EXCEPT ![b].count = @ - 1]
                  /\ pc' = [pc EXCEPT ![t] = "idle"]
             ELSE /\ sem' = [sem EXCEPT ![b].waiters = Tail(q)]
                  /\ pc' = [pc EXCEPT ![t] = "idle", ![Head(q)] = "read"]
        /\ want' = [want EXCEPT ![t] = NoKey]
        /\ buf' = [buf EXCEPT ![t] = NULL]
        /\ stale' = [stale EXCEPT ![t] = FALSE]
        /\ UNCHANGED <<table, home, lst, blk, ref, valid, live, content, dev, panic>>

Next ==
    /\ panic = "none"
    /\ \/ \E t \in Tasks :
            \/ \E k \in Blocks : Start(t, k)
            \/ GetHit(t) \/ GetMiss(t) \/ LockBuf(t)
            \/ Read(t) \/ Copy(t) \/ Write(t) \/ WriteEnd(t)
            \/ Release(t) \/ UnlockBuf(t)
       \/ IdeHandler
       \/ IdeHandlerStray

Spec == Init /\ [][Next]_vars

-----------------------------------------------------------------------------
TypeOK ==
    /\ lst \in ListType(Bufs)
    /\ blk \in [Bufs -> Blocks \cup {NoKey}]
    /\ ref \in [Bufs -> 0..Cardinality(Tasks)]
    /\ valid \in [Bufs -> {0, 1}]
    /\ live \subseteq Bufs
    /\ \A b \in Bufs : sem[b].count \in -Cardinality(Tasks)..1 /\ sem[b].waiters \in Seq(Tasks)
    /\ pc \in [Tasks -> {"idle", "get", "lockbuf", "waitbuf", "read", "ioread",
                         "copy", "use", "iowrite", "wdone", "written", "unlockbuf"}]
    /\ content \in [Bufs -> Blocks \cup {NoKey}]
    /\ dsk \in [Blocks -> Blocks \cup {NoKey}]
    /\ dma \in Blocks \cup {NoKey}
    /\ ctl \in Seq([op : {"r", "w"}, k : Blocks])
    /\ Len(ctl) <= Cardinality(Tasks)
    /\ req \in Tasks \cup {NULL}
    /\ nio \in 0..MaxIo
    /\ want \in [Tasks -> Blocks \cup {NoKey}]
    /\ buf \in [Tasks -> Bufs \cup {NULL}]
    /\ stale \in [Tasks -> BOOLEAN]

\* Program points at which a task holds a reference counted in ref_count.
Referencing == {"lockbuf", "waitbuf", "read", "ioread", "copy", "use", "iowrite",
                "wdone", "written"}

\* The index, the buffers and the free list agree while the kernel runs:
\* ht_get of a block finds the one live buffer of that block or nothing,
\* and every live buffer is found under its block.  bio_get's hit path
\* hands out what ht_get finds on the strength of this, and bio_evict
\* removes the tail's key and frees it.
IndexConsistent ==
    panic = "none" =>
    /\ \A k \in Blocks :
         LET f == HtGet(table, home[k], k)
         IN  \/ f \in live /\ blk[f] = k
             \/ f = NoVal /\ \A b \in live : blk[b] # k
    /\ \A b \in live : HtGet(table, home[blk[b]], blk[b]) = b

\* ref_count counts exactly the tasks between bio_get and bio_release that
\* point at the buffer, and none of them has had it evicted under it: the
\* eviction loop of bio_get never frees a buffer in use.
RefCountExact ==
    \A b \in live :
        ref[b] = Cardinality({t \in Tasks : pc[t] \in Referencing /\ buf[t] = b /\ ~stale[t]})
    /\ \A t \in Tasks : pc[t] \in Referencing => buf[t] \in live /\ ~stale[t]

\* No task unlocks a buffer through a pointer to memory that bio_evict has
\* freed: bio_release drops the cache mutex (bio.c:160) before it unlocks
\* the buffer (bio.c:161).
NoUseAfterFree == \A t \in Tasks : pc[t] = "unlockbuf" => ~stale[t]

\* Every block on disk holds its own data, and every valid buffer holds
\* the data of its block: bio_read and bio_write of different blocks by
\* different tasks, each under its own buffer's lock, share
\* actual_disk_req and ide_mem_buffer in ide.c with nothing to order them.
DiskDataIntact ==
    /\ \A k \in Blocks : dsk[k] = k
    /\ \A b \in live : valid[b] = 1 => content[b] = blk[b]

\* The most buffers the index takes: ht_set refuses once size * 100 >
\* capacity * max_load.
MaxEntries ==
    LET c == HtCreate(MaxSize, MaxLoad)
    IN  CHOOSE n \in 0..c.capacity :
            (n - 1) * 100 =< c.capacity * c.maxLoad /\ n * 100 > c.capacity * c.maxLoad

\* bio_get aborts for want of a buffer only when the index is full of
\* buffers that tasks reference.
NoSpuriousExhaustion ==
    panic \in {"there aren't any free bufs", "can't get any free buffer"}
        => Cardinality({b \in live : ref[b] > 0}) >= MaxEntries

=============================================================================
