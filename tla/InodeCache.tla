----------------------------- MODULE InodeCache ------------------------------
(***************************************************************************)
(* The inode cache of src/src/kernel/inode.c used by concurrent tasks.     *)
(* Each task calls the inode API the way the directory and file code       *)
(* does: inode_get an inode named by a directory record, inode_lock it,    *)
(* change its link count (dir_link, dir_unlink) or write its data          *)
(* (inode_write), inode_unlock it, maybe inode_dup it, and inode_release   *)
(* every reference.  dir_create makes a new inode with dinode_alloc and     *)
(* then names it with dir_set and locks it.                                *)
(*                                                                         *)
(* As in BufferCache, the sections under ihead.mutex are atomic actions    *)
(* and the per-inode sleep locks follow mutex.c.  The index is a HashIndex *)
(* table keyed by inode number, the free list the pointer list of LruList *)
(* with inode_remove's abort checks, and an inode an address in the arena  *)
(* Addrs, reused after inode_evict frees it.  inode_alloc does not set the *)
(* list fields of the memory kmalloc returns: they hold whatever is there, *)
(* taken to be NULL or an address of the arena.  When inode_evict would    *)
(* read a freed inode through ltail, the behaviour is undefined and the    *)
(* model stops, with panic = "read of freed inode".  The disk side is the part of an ext2 inode the cache acts on: its  *)
(* bit in the inode bitmap, its link count and whether it owns data        *)
(* blocks.  ext2_inode_get is the registered loader; it copies the disk    *)
(* inode into the cache and, like the code, does not set inode->valid.     *)
(***************************************************************************)
EXTENDS Integers, Sequences, SequencesExt

CONSTANTS
    Tasks,             \* tasks using the cache
    Inos,              \* inode numbers on the device
    Addrs,             \* addresses kmalloc may return for an inode_t
    NULL,
    MaxSize, MaxLoad,  \* ht_create(INODE_TABLE_SIZE, INODE_LOAD_FACTOR, 0)
    Homes,             \* hash assignments (inode number -> home slot)
    InitUsed,          \* inodes in use on the disk at mount, one link each
    MaxLinks,          \* bound on hard_links_count
    NoKey, NoVal, Hang,
    InoOrder           \* Inos in the order ext2_alloc's bitmap scan meets them

ASSUME InitUsed \subseteq Inos /\ MaxLinks \in 1..3 /\ ToSet(InoOrder) = Inos

INSTANCE HashIndex
INSTANCE LruList

VARIABLES
    table, home,  \* ihead.table and the hash of every inode number
    lst,          \* ihead.lhead, ltail and every inode's next, prev
    ino,          \* inode->n
    ref,          \* inode->ref_count
    valid,        \* inode->valid
    links,        \* inode->hard_links_count
    live,         \* inodes allocated and not yet kfree'd
    sem,          \* inode->mutex: [count, waiters]
    dused,        \* the inode bitmap
    dlinks,       \* hard_links_count of the disk inode
    ddata,        \* the disk inode owns data blocks
    pc, want, mk, ptr, nref, stale,  \* per task
    panic

cache == <<table, home, lst, ino, ref, valid, links, live, sem>>
disk == <<dused, dlinks, ddata>>
tasks == <<pc, want, mk, ptr, nref, stale>>
vars == <<cache, disk, tasks, panic>>

\* semaphore->current_count is a uint32_t kept with its bits as a signed
\* integer, as in BufferCache.
BelowU32(c, n) == c >= 0 /\ c < n

NewSem == [count |-> 0, waiters |-> <<>>]

\* Program points at which a task holds an inode's sleep lock.
Holding == {"load", "init", "created", "relock", "locked", "unlinked"}

Init ==
    /\ table = HtCreate(MaxSize, MaxLoad)
    /\ home \in Homes
    /\ lst = ListEmpty(Addrs)
    /\ ino = [a \in Addrs |-> NoKey]
    /\ ref = [a \in Addrs |-> 0]
    /\ valid = [a \in Addrs |-> 0]
    /\ links = [a \in Addrs |-> 0]
    /\ live = {}
    /\ sem = [a \in Addrs |-> NewSem]
    /\ dused = [n \in Inos |-> n \in InitUsed]
    /\ dlinks = [n \in Inos |-> IF n \in InitUsed THEN 1 ELSE 0]
    /\ ddata = [n \in Inos |-> FALSE]
    /\ pc = [t \in Tasks |-> "idle"]
    /\ want = [t \in Tasks |-> NoKey]
    /\ mk = [t \in Tasks |-> FALSE]
    /\ ptr = [t \in Tasks |-> NULL]
    /\ nref = [t \in Tasks |-> 0]
    /\ stale = [t \in Tasks |-> FALSE]
    /\ panic = "none"

\* A task resolves a name to inode k, which a directory record links.
Start(t, k) ==
    /\ pc[t] = "idle"
    /\ dused[k] /\ dlinks[k] > 0
    /\ pc' = [pc EXCEPT ![t] = "get"]
    /\ want' = [want EXCEPT ![t] = k]
    /\ UNCHANGED <<cache, disk, mk, ptr, nref, stale, panic>>

\* ext2_alloc(device, 1): the first clear bit of the inode bitmap in the
\* order of its scan, or "none" when every bit is set.
Ext2InodeAlloc ==
    LET free == SelectInSeq(InoOrder, LAMBDA k : ~dused[k])
    IN  IF free = 0 THEN "none" ELSE InoOrder[free]

\* dinode_alloc(device, mode): ext2_inode_alloc takes the first clear bit
\* of the inode bitmap and sets it, or aborts when there is none; then
\* inode_get(device, k).
Alloc(t) ==
    LET k == Ext2InodeAlloc
    IN  /\ pc[t] = "idle"
        /\ IF k = "none"
             THEN /\ panic' = "can't alloc a block"
                  /\ UNCHANGED <<cache, disk, tasks>>
             ELSE /\ dused' = [dused EXCEPT ![k] = TRUE]
                  /\ pc' = [pc EXCEPT ![t] = "get"]
                  /\ want' = [want EXCEPT ![t] = k]
                  /\ mk' = [mk EXCEPT ![t] = TRUE]
                  /\ UNCHANGED <<cache, dlinks, ddata, ptr, nref, stale, panic>>

\* The abort() at which inode_remove(inode) stops (inode.c:43-51), or
\* "none".
InodeRemoveAbort(l, a) ==
    CASE l.next[a] = NULL /\ l.prev[a] = NULL -> "inode not part of list"
      [] l.lhead = NULL /\ l.ltail = NULL     -> "removing from empty list"
      [] OTHER                               -> "none"

\* Mutant: the hit path takes the inode without counting the reference.
GetHitNoRef(t) ==
    LET a == HtGet(table, home[want[t]], want[t])
    IN  /\ pc[t] = "get"
        /\ a \in Addrs
        /\ ref[a] = 0 => InodeRemoveAbort(lst, a) = "none"
        /\ lst' = IF ref[a] = 0 THEN ListUnlink(lst, a) ELSE lst
        /\ ptr' = [ptr EXCEPT ![t] = a]
        /\ nref' = [nref EXCEPT ![t] = 1]
        /\ pc' = [pc EXCEPT ![t] = "lock"]
        /\ UNCHANGED <<table, home, ino, ref, valid, links, live, sem, disk,
                       want, mk, stale, panic>>

\* inode_get, hit: take a reference and, if it was the first,
\* inode_remove the inode from the free list, which aborts when the inode
\* has neither neighbour or the list is empty.
GetHit(t) ==
    LET a   == HtGet(table, home[want[t]], want[t])
        why == IF ref[a] = 0 THEN InodeRemoveAbort(lst, a) ELSE "none"
    IN  /\ pc[t] = "get"
        /\ a \in Addrs
        /\ IF why # "none"
             THEN /\ panic' = why
                  /\ UNCHANGED <<cache, disk, tasks>>
             ELSE /\ ref' = [ref EXCEPT ![a] = @ + 1]
                  /\ lst' = IF ref[a] = 0 THEN ListUnlink(lst, a) ELSE lst
                  /\ ptr' = [ptr EXCEPT ![t] = a]
                  /\ nref' = [nref EXCEPT ![t] = 1]
                  /\ pc' = [pc EXCEPT ![t] = "lock"]
                  /\ UNCHANGED <<table, home, ino, valid, links, live, sem, disk,
                                 want, mk, stale, panic>>

\* The loop do { inode_evict(); ret = ht_set(..) } while (ret && ltail)
\* of inode_get for the new inode a of number k, from s = [table, lst,
\* live, gone, panic]: inode_evict aborts on an empty list, a referenced
\* tail or a key ht_remove misses, and otherwise removes the tail's key,
\* inode_removes it and frees it.  a itself has ref_count 1 and number k.
RECURSIVE EvictLoop(_, _, _)
EvictLoop(s, k, a) ==
    LET old == s.lst.ltail
        key == IF old = a THEN k ELSE ino[old]
        e   == [s EXCEPT !.table = HtRemove(@, home[key], key),
                         !.lst   = ListUnlink(@, old),
                         !.live  = @ \ {old},
                         !.gone  = @ \cup {old}]
    IN  CASE old = NULL            -> [s EXCEPT !.panic = "there aren't any free inodes"]
          [] old \notin s.live     -> [s EXCEPT !.panic = "read of freed inode"]
          [] old = a \/ ref[old] # 0 -> [s EXCEPT !.panic = "inode shouldn't be already free"]
          [] ~HtRemoveFinds(s.table, home[key], key)
                                   -> [s EXCEPT !.panic = "inode can't free'd in hash table"]
          [] InodeRemoveAbort(s.lst, old) # "none"
                                   -> [s EXCEPT !.panic = InodeRemoveAbort(s.lst, old)]
          [] ~HtSetRefused(e.table) -> [e EXCEPT !.table = HtSet(@, home[k], k, a)]
          [] e.lst.ltail # NULL    -> EvictLoop(e, k, a)
          [] OTHER                 -> [e EXCEPT !.panic = "can't get any free inode"]

\* inode_alloc(device, k): a kmalloc'd inode numbered k, with ref_count 1,
\* not valid and a new mutex; inode_lock fills in the rest.
InodeAlloc(k) == [n |-> k, ref |-> 1, valid |-> 0, sem |-> NewSem]

\* inode_get, miss: inode_alloc an inode a for k and index it, evicting
\* while ht_set refuses.  The fields of freed inodes other than the list
\* fields are reset: nothing reads them again.  a's prev field is whatever
\* the memory held; its next field is read only after inode_release has
\* written it, so the model leaves it as it was.
GetMiss(t) ==
    LET k == want[t]
    IN
    /\ pc[t] = "get"
    /\ HtGet(table, home[k], k) = NoVal
    /\ \E a \in Addrs \ live, pv \in Addrs \cup {NULL} :
         LET l0 == [lst EXCEPT !.prev[a] = pv]
             s0 == [table |-> table, lst |-> l0, live |-> live \cup {a},
                    gone |-> {}, panic |-> "none"]
             s  == IF HtSetRefused(table) THEN EvictLoop(s0, k, a)
                   ELSE [s0 EXCEPT !.table = HtSet(@, home[k], k, a)]
             reset == s.gone \cup {a}
             new   == InodeAlloc(k)
         IN  IF s.panic # "none"
               THEN /\ panic' = s.panic
                    /\ UNCHANGED <<cache, disk, tasks>>
               ELSE /\ table' = s.table
                    /\ lst' = s.lst
                    /\ live' = s.live
                    /\ ino' = [x \in Addrs |-> IF x = a THEN new.n
                                              ELSE IF x \in s.gone THEN NoKey ELSE ino[x]]
                    /\ ref' = [ref EXCEPT ![a] = new.ref]
                    /\ valid' = [x \in Addrs |-> IF x = a THEN new.valid
                                                ELSE IF x \in s.gone THEN 0 ELSE valid[x]]
                    /\ links' = [x \in Addrs |-> IF x \in reset THEN 0 ELSE links[x]]
                    /\ sem' = [x \in Addrs |-> IF x = a THEN new.sem
                                              ELSE IF x \in s.gone THEN NewSem ELSE sem[x]]
                    /\ ptr' = [ptr EXCEPT ![t] = a]
                    /\ nref' = [nref EXCEPT ![t] = 1]
                    /\ stale' = [u \in Tasks |-> u # t /\ (stale[u] \/ ptr[u] \in s.gone)]
                    /\ pc' = [pc EXCEPT ![t] = "lock"]
                    /\ UNCHANGED <<home, disk, want, mk, panic>>

\* inode_lock(inode): it aborts when the inode is not referenced; then
\* mutex_acquire(inode->mutex), queueing when the count is not below 1.  dir_create calls it a second time (pc "relock")
\* on the inode that dinode_alloc returned locked.
Lock(t) ==
    LET a == ptr[t]
    IN  /\ pc[t] \in {"lock", "relock"}
        /\ CASE ref[a] = 0 ->
                  /\ panic' = "inode in wrong state"
                  /\ UNCHANGED <<cache, disk, tasks>>
              [] BelowU32(sem[a].count, 1) ->
                  /\ sem' = [sem EXCEPT ![a].count = @ + 1]
                  /\ pc' = [pc EXCEPT ![t] = "load"]
                  /\ UNCHANGED <<table, home, lst, ino, ref, valid, links, live,
                                 disk, want, mk, ptr, nref, stale, panic>>
              [] OTHER ->
                  /\ sem' = [sem EXCEPT ![a].waiters = Append(@, t)]
                  /\ pc' = [pc EXCEPT ![t] = "waitlock"]
                  /\ UNCHANGED <<table, home, lst, ino, ref, valid, links, live,
                                 disk, want, mk, ptr, nref, stale, panic>>

\* ext2_inode_update: the disk inode read with ext2_read_inode, the
\* in-memory fields copied over it (of those modelled, the link count n of
\* inode number k) and the block written back.
Ext2InodeUpdate(k, n) == dlinks' = [dlinks EXCEPT ![k] = n]

\* inode_update: the device's registered inode_update, ext2_inode_update.
InodeUpdate(k, n) == Ext2InodeUpdate(k, n)

\* The rest of inode_lock once the mutex is held: if !inode->valid, the
\* loader ext2_inode_get copies the disk inode in, leaving valid as it
\* was.  dinode_alloc goes on to initialise the new inode.
Load(t) ==
    LET a == ptr[t]
    IN  /\ pc[t] = "load"
        /\ links' = IF valid[a] = 0 THEN [links EXCEPT ![a] = dlinks[want[t]]]
                    ELSE links
        /\ pc' = [pc EXCEPT ![t] = IF mk[t] THEN "init" ELSE "locked"]
        /\ UNCHANGED <<table, home, lst, ino, ref, valid, live, sem, disk,
                       want, mk, ptr, nref, stale, panic>>

\* dinode_alloc after inode_lock: hard_links_count = 1 (with mode, size
\* and sectors) and inode_update writes the inode to disk; it returns the
\* inode locked.
InitNew(t) ==
    LET a == ptr[t]
    IN  /\ pc[t] = "init"
        /\ links' = [links EXCEPT ![a] = 1]
        /\ InodeUpdate(want[t], 1)
        /\ pc' = [pc EXCEPT ![t] = "created"]
        /\ UNCHANGED <<table, home, lst, ino, ref, valid, live, sem, dused,
                       ddata, want, mk, ptr, nref, stale, panic>>

\* dir_create after dinode_alloc: dir_set calls inode_get on the new
\* inode's number (a hit, the task references it) and dentry_alloc
\* inode_dup's it; then dir_create calls inode_lock(entry->inode).
DirSet(t) ==
    LET a == ptr[t]
    IN  /\ pc[t] = "created"
        /\ ref' = [ref EXCEPT ![a] = @ + 2]
        /\ nref' = [nref EXCEPT ![t] = @ + 2]
        /\ pc' = [pc EXCEPT ![t] = "relock"]
        /\ UNCHANGED <<table, home, lst, ino, valid, links, live, sem, disk,
                       want, mk, ptr, stale, panic>>

\* dir_link on a locked inode: ++hard_links_count; inode_update.
Link(t) ==
    LET a == ptr[t]
    IN  /\ pc[t] = "locked"
        /\ links[a] < MaxLinks
        /\ links' = [links EXCEPT ![a] = @ + 1]
        /\ InodeUpdate(want[t], links[a] + 1)
        /\ UNCHANGED <<table, home, lst, ino, ref, valid, live, sem, dused,
                       ddata, tasks, panic>>

\* Mutant: dir_unlink drops the link in memory without inode_update.
UnlinkNoUpdate(t) ==
    LET a == ptr[t]
    IN  /\ pc[t] = "locked"
        /\ IF links[a] = 0
             THEN /\ panic' = "inode don't have any links"
                  /\ UNCHANGED <<cache, disk, tasks>>
             ELSE /\ links' = [links EXCEPT ![a] = @ - 1]
                  /\ pc' = [pc EXCEPT ![t] = "unlinked"]
                  /\ UNCHANGED <<table, home, lst, ino, ref, valid, live, sem, disk,
                                 want, mk, ptr, nref, stale, panic>>

\* Mutant: the link count is dropped without the check of ext2_unlink.
UnlinkNoCheck(t) ==
    LET a == ptr[t]
    IN  /\ pc[t] = "locked"
        /\ links' = [links EXCEPT ![a] = @ - 1]
        /\ InodeUpdate(want[t], links[a] - 1)
        /\ pc' = [pc EXCEPT ![t] = "unlinked"]
        /\ UNCHANGED <<table, home, lst, ino, ref, valid, live, sem, dused,
                       ddata, want, mk, ptr, nref, stale, panic>>

\* dir_unlink of the name the task resolved, on its locked inode:
\* ext2_unlink aborts when the inode has no links left, which happens when
\* another task unlinked the same name after this one looked it up;
\* otherwise --hard_links_count and inode_update.
Unlink(t) ==
    LET a == ptr[t]
    IN  /\ pc[t] = "locked"
        /\ IF links[a] = 0
             THEN /\ panic' = "inode don't have any links"
                  /\ UNCHANGED <<cache, disk, tasks>>
             ELSE /\ links' = [links EXCEPT ![a] = @ - 1]
                  /\ InodeUpdate(want[t], links[a] - 1)
                  /\ pc' = [pc EXCEPT ![t] = "unlinked"]
                  /\ UNCHANGED <<table, home, lst, ino, ref, valid, live, sem, dused,
                                 ddata, want, mk, ptr, nref, stale, panic>>

\* inode_write by a task holding the inode lock: ext2_write_content gives it
\* data blocks.  inode_write takes no lock; its races with truncation and
\* with other writers are Ext2File's.
WriteData(t) ==
    /\ pc[t] = "locked"
    /\ ddata' = [ddata EXCEPT ![want[t]] = TRUE]
    /\ UNCHANGED <<cache, dused, dlinks, tasks, panic>>

\* Mutant: inode_unlock hands the lock to the first waiter and still
\* decrements the count.
UnlockDecAlways(t) ==
    LET a == ptr[t]
        q == sem[a].waiters
    IN  /\ pc[t] \in {"locked", "unlinked"}
        /\ CASE ref[a] = 0 ->
                  /\ panic' = "inode in wrong state"
                  /\ UNCHANGED <<cache, disk, tasks>>
              [] q = <<>> ->
                  /\ sem' = [sem EXCEPT ![a].count = @ - 1]
                  /\ pc' = [pc EXCEPT ![t] = "held"]
                  /\ UNCHANGED <<table, home, lst, ino, ref, valid, links, live,
                                 disk, want, mk, ptr, nref, stale, panic>>
              [] OTHER ->
                  /\ sem' = [sem EXCEPT ![a].waiters = Tail(q), ![a].count = @ - 1]
                  /\ pc' = [pc EXCEPT ![t] = "held", ![Head(q)] = "load"]
                  /\ UNCHANGED <<table, home, lst, ino, ref, valid, links, live,
                                 disk, want, mk, ptr, nref, stale, panic>>

\* inode_unlock(inode): the same reference check and abort as inode_lock,
\* then mutex_release, handing the lock to the first waiter if there is
\* one.
Unlock(t) ==
    LET a == ptr[t]
        q == sem[a].waiters
    IN  /\ pc[t] \in {"locked", "unlinked"}
        /\ CASE ref[a] = 0 ->
                  /\ panic' = "inode in wrong state"
                  /\ UNCHANGED <<cache, disk, tasks>>
              [] q = <<>> ->
                  /\ sem' = [sem EXCEPT ![a].count = @ - 1]
                  /\ pc' = [pc EXCEPT ![t] = "held"]
                  /\ UNCHANGED <<table, home, lst, ino, ref, valid, links, live,
                                 disk, want, mk, ptr, nref, stale, panic>>
              [] OTHER ->
                  /\ sem' = [sem EXCEPT ![a].waiters = Tail(q)]
                  /\ pc' = [pc EXCEPT ![t] = "held", ![Head(q)] = "load"]
                  /\ UNCHANGED <<table, home, lst, ino, ref, valid, links, live,
                                 disk, want, mk, ptr, nref, stale, panic>>

\* inode_dup(inode): one more reference, as dentry_alloc takes.
Dup(t) ==
    LET a == ptr[t]
    IN  /\ pc[t] = "held"
        /\ nref[t] < 2
        /\ ref' = [ref EXCEPT ![a] = @ + 1]
        /\ nref' = [nref EXCEPT ![t] = @ + 1]
        /\ UNCHANGED <<table, home, lst, ino, valid, links, live, sem, disk,
                       pc, want, mk, ptr, stale, panic>>

\* inode_release(inode): drop a reference; on the last, push the inode at
\* the head of the free list and, if it is valid and has no links,
\* inode_trunc frees its blocks and valid is cleared.  The task's pointer
\* goes with its last reference.
Release(t) ==
    LET a    == ptr[t]
        last == ref[a] = 1
        trunc == last /\ valid[a] # 0 /\ links[a] = 0
    IN  /\ pc[t] = "held"
        /\ ref' = [ref EXCEPT ![a] = @ - 1]
        /\ lst' = IF last THEN ListPush(lst, a) ELSE lst
        /\ ddata' = IF trunc THEN [ddata EXCEPT ![ino[a]] = FALSE] ELSE ddata
        /\ valid' = IF trunc THEN [valid EXCEPT ![a] = 0] ELSE valid
        /\ IF nref[t] = 1
             THEN /\ pc' = [pc EXCEPT ![t] = "idle"]
                  /\ want' = [want EXCEPT ![t] = NoKey]
                  /\ mk' = [mk EXCEPT ![t] = FALSE]
                  /\ ptr' = [ptr EXCEPT ![t] = NULL]
                  /\ stale' = [stale EXCEPT ![t] = FALSE]
             ELSE UNCHANGED <<pc, want, mk, ptr, stale>>
        /\ nref' = [nref EXCEPT ![t] = @ - 1]
        /\ UNCHANGED <<table, home, ino, links, live, sem, dused, dlinks, panic>>

Next ==
    /\ panic = "none"
    /\ \E t \in Tasks :
         \/ \E k \in Inos : Start(t, k)
         \/ Alloc(t)
         \/ GetHit(t) \/ GetMiss(t) \/ Lock(t) \/ Load(t) \/ InitNew(t)
         \/ DirSet(t) \/ Link(t) \/ Unlink(t) \/ WriteData(t)
         \/ Unlock(t) \/ Dup(t) \/ Release(t)

Spec == Init /\ [][Next]_vars

-----------------------------------------------------------------------------
TypeOK ==
    /\ lst \in ListType(Addrs)
    /\ ino \in [Addrs -> Inos \cup {NoKey}]
    /\ ref \in [Addrs -> 0..3 * Cardinality(Tasks)]
    /\ valid \in [Addrs -> {0, 1}]
    /\ links \in [Addrs -> 0..MaxLinks]
    /\ live \subseteq Addrs
    /\ \A a \in Addrs : sem[a].count \in -Cardinality(Tasks)..1
                        /\ sem[a].waiters \in Seq(Tasks)
    /\ dused \in [Inos -> BOOLEAN]
    /\ dlinks \in [Inos -> 0..MaxLinks]
    /\ ddata \in [Inos -> BOOLEAN]
    /\ pc \in [Tasks -> {"idle", "get", "lock", "waitlock", "held"} \cup Holding]
    /\ nref \in [Tasks -> 0..3]
    /\ ptr \in [Tasks -> Addrs \cup {NULL}]

\* Program points at which a task holds references counted in ref_count.
Referencing == {"lock", "waitlock", "held"} \cup Holding

\* ref_count of every cached inode is the sum of the references tasks hold
\* on it, and no task's inode has been evicted under it: inode_get's
\* eviction loop frees only inodes nobody references.
RefCountExact ==
    /\ \A a \in live :
         ref[a] = MapThenSumSet(LAMBDA t : nref[t],
                                {t \in Tasks : pc[t] \in Referencing /\ ptr[t] = a})
    /\ \A t \in Tasks : pc[t] \in Referencing => ptr[t] \in live /\ ~stale[t]

\* At most one task holds an inode's sleep lock, counting the hand-off of
\* inode_unlock to a waiter.
InodeMutualExclusion ==
    \A t, u \in Tasks :
        (t # u /\ pc[t] \in Holding /\ pc[u] \in Holding) => ptr[t] # ptr[u]

\* The link count a lock holder sees is the one on disk: every change
\* dir_link and dir_unlink make is written by inode_update before the lock
\* is dropped, and inode_lock loads the disk inode into an inode that is
\* not valid.
LinksWrittenThrough ==
    \A t \in Tasks :
        pc[t] \in {"locked", "unlinked", "created"} => links[ptr[t]] = dlinks[want[t]]

\* An inode whose last link is gone loses its data blocks when its last
\* reference is released (inode_release truncates an inode that is valid
\* and has no links): no inode sits unreferenced with no links and data.
OrphanTruncated ==
    \A a \in live :
        (ref[a] = 0 /\ dlinks[ino[a]] = 0) => ~ddata[ino[a]]

\* A task waiting for an inode's sleep lock waits behind another task that
\* holds it and will unlock it.
WaiterHasHolder ==
    \A t \in Tasks : pc[t] = "waitlock" =>
        \E u \in Tasks \ {t} : pc[u] \in Holding /\ ptr[u] = ptr[t]
=============================================================================
