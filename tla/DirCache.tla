------------------------------ MODULE DirCache -------------------------------
(***************************************************************************)
(* The directory entry cache of src/src/kernel/fs/dir.c, with the ext2     *)
(* directory parser that fills it (ext2_parse_dir, ext2_parse_root of      *)
(* src/kernel-src/kernel/filesystem.c), used by concurrent tasks.          *)
(*                                                                         *)
(* dir_init mounts the root: dir_set("/") and a parse of the root          *)
(* directory.  Tasks then resolve paths with dir_get: a hit takes a        *)
(* reference; a miss walks dir_iter_get, which parses the nearest cached   *)
(* ancestor (dir_lock it, dir_set and dir_add_child every record, dir_     *)
(* release each child, dir_unlock) and looks the next component up.  A     *)
(* task that gets a dentry uses it the way dir_link does: dir_lock,        *)
(* dir_unlock, dir_release.                                                *)
(*                                                                         *)
(* Sections under dir_head.mutex are atomic actions, as in InodeCache,     *)
(* except in dir_lock, which keeps dir_head.mutex while it sleeps on the   *)
(* dentry mutex: "head" is the task that holds it there.  The index is a   *)
(* HashIndex table keyed by path, the free list the pointer list of       *)
(* LruList with dir_remove's abort checks, a dentry an address of the      *)
(* arena Addrs.  The fields dentry_alloc does not set (parent, children    *)
(* and table) keep what the memory held: the fields of the dentry freed    *)
(* at that address, or nothing in memory the heap never handed out.  When *)
(* dir_evict would read a freed dentry through ltail, the behaviour is    *)
(* undefined and the model stops, with panic = "read of freed dentry".    *)
(* The inode side is the count of references dir_set takes on the inode a *)
(* path's record names.                                                    *)
(***************************************************************************)
EXTENDS Integers, Sequences, SequencesExt

CONSTANTS
    Tasks,             \* tasks calling into the cache
    Paths,             \* path names, each naming one directory record
    Root,              \* "/"
    Parent,            \* the path a path is a component of
    Records,           \* the records of a directory, in on-disk order
    Targets,           \* the paths tasks look up (some may not exist)
    Addrs,             \* addresses kmalloc may return for a dentry_t
    NULL, NoTask,
    MaxSize, MaxLoad,  \* ht_create(DIR_TABLE_SIZE, DIR_LOAD_FACTOR, ..)
    Homes,             \* hash assignments (path -> home slot)
    MaxSets,           \* bound on the dir_set calls lookups start
    NoKey, NoVal, Hang

ASSUME /\ Root \in Paths /\ Targets \subseteq Paths \ {Root}
       /\ Parent \in [Paths \ {Root} -> Paths]
       /\ Records \in [Paths -> Seq(Paths)]

INSTANCE HashIndex
INSTANCE LruList

VARIABLES
    boot,         \* "no", "running" (ext2_parse_root), "mounted" or "done"
    table, home,  \* dir_head.table and the hash of every path
    lst,          \* dir_head.lhead, ltail and every dentry's next, prev
    path,         \* dentry->path
    ref,          \* dentry->ref_count
    sem,          \* dentry->mutex: [count, waiters]
    parent,       \* dentry->parent
    children,     \* dentry->children .. next_sib
    ctab,         \* the paths in dentry->table
    live,         \* dentries allocated and not yet kfree'd
    head,         \* the task sleeping in dir_lock with dir_head.mutex held
    iref,         \* inode references dir_set took, by the path's inode
    nsets,        \* dir_set calls so far
    pc, want, ptr, cptr, ri,  \* per task
    panic

cache == <<table, home, lst, path, ref, sem, parent, children, ctab, live>>
tasks == <<pc, want, ptr, cptr, ri>>
vars == <<boot, cache, head, iref, nsets, tasks, panic>>

BelowU32(c, n) == c >= 0 /\ c < n

NewSem == [count |-> 0, waiters |-> <<>>]

\* The components dir_iter_get tries, nearest first: the strict ancestors of
\* p above the root.  Its backward scan stops at len 0 and looks up the
\* empty string, which no dentry has, so the root itself is never tried.
RECURSIVE Above(_)
Above(p) ==
    IF p = Root \/ Parent[p] = Root THEN <<>> ELSE <<Parent[p]>> \o Above(Parent[p])

\* The component of p one level below the cached directory q.
RECURSIVE NextOn(_, _)
NextOn(q, p) == IF Parent[p] = q THEN p ELSE NextOn(q, Parent[p])

Lookup(p) == HtGet(table, home[p], p)

Init ==
    /\ boot = "no"
    /\ table = HtCreate(MaxSize, MaxLoad)
    /\ home \in Homes
    /\ lst = ListEmpty(Addrs)
    /\ path = [a \in Addrs |-> NoKey]
    /\ ref = [a \in Addrs |-> 0]
    /\ sem = [a \in Addrs |-> NewSem]
    /\ parent = [a \in Addrs |-> NULL]
    /\ children = [a \in Addrs |-> <<>>]
    /\ ctab = [a \in Addrs |-> {}]
    /\ live = {}
    /\ head = NoTask
    /\ iref = [p \in Paths |-> 0]
    /\ nsets = 0
    /\ pc = [t \in Tasks |-> "idle"]
    /\ want = [t \in Tasks |-> NoKey]
    /\ ptr = [t \in Tasks |-> NULL]
    /\ cptr = [t \in Tasks |-> NULL]
    /\ ri = [t \in Tasks |-> 0]
    /\ panic = "none"

\* The abort() at which dir_remove(dentry) stops (dir.c:54-64), or "none".
\* Unlike bio_remove it lets through a dentry with no neighbours that is
\* lhead.
DirRemoveAbort(l, a) ==
    CASE l.next[a] = NULL /\ l.prev[a] = NULL /\ l.lhead # a
                                          -> "dentry not part of list"
      [] l.lhead = NULL /\ l.ltail = NULL -> "removing from empty list"
      [] OTHER                           -> "none"

\* dir_evict, repeated by dir_set while ht_set refuses and ltail is not
\* NULL, from s = [table, lst, live, panic], for the new dentry a of path
\* p (ref_count 1).  dir_evict aborts on an empty list, a referenced tail
\* or a path ht_remove misses; otherwise it removes the tail's path from
\* the index, dir_removes it and frees it.  The branch for a valid dentry
\* is dead: nothing sets dentry->valid.
RECURSIVE EvictLoop(_, _, _)
EvictLoop(s, p, a) ==
    LET old == s.lst.ltail
        key == IF old = a THEN p ELSE path[old]
        e   == [s EXCEPT !.table = HtRemove(@, home[key], key),
                         !.lst   = ListUnlink(@, old),
                         !.live  = @ \ {old}]
    IN  CASE old = NULL            -> [s EXCEPT !.panic = "there aren't any free dentries"]
          [] old \notin s.live     -> [s EXCEPT !.panic = "read of freed dentry"]
          [] old = a \/ ref[old] # 0 -> [s EXCEPT !.panic = "dentry shouldn't be already free"]
          [] ~HtRemoveFinds(s.table, home[key], key)
                                   -> [s EXCEPT !.panic = "dentry can't free'd in hash table"]
          [] DirRemoveAbort(s.lst, old) # "none"
                                   -> [s EXCEPT !.panic = DirRemoveAbort(s.lst, old)]
          [] ~HtSetRefused(e.table) -> [e EXCEPT !.table = HtSet(@, home[p], p, a)]
          [] e.lst.ltail # NULL    -> EvictLoop(e, p, a)
          [] OTHER                 -> [e EXCEPT !.panic = "can't get any free dentry"]

\* The index, free list and arena after dir_set(p) puts a new dentry at a.
SetResult(p, a) ==
    LET s0 == [table |-> table, lst |-> ListFresh(lst, a), live |-> live \cup {a},
               panic |-> "none"]
    IN  IF HtSetRefused(table) THEN EvictLoop(s0, p, a)
        ELSE [s0 EXCEPT !.table = HtSet(@, home[p], p, a)]

\* Mutant: dentry_alloc does not copy the path into the new dentry, which
\* keeps whatever path the address had before.
DirSetThenStalePath(p, a, Then) ==
    LET s == SetResult(p, a)
    IN  IF s.panic # "none"
          THEN /\ panic' = s.panic
               /\ UNCHANGED <<boot, cache, head, iref, nsets, tasks>>
          ELSE /\ table' = s.table
               /\ lst' = s.lst
               /\ live' = s.live
               /\ ref' = [ref EXCEPT ![a] = 1]
               /\ sem' = [sem EXCEPT ![a] = NewSem]
               /\ iref' = [iref EXCEPT ![p] = @ + 2]
               /\ nsets' = nsets + 1
               /\ Then
               /\ UNCHANGED <<home, head, panic, path, parent, children, ctab>>

\* dir_set(device, p, inode_n, offset) under dir_head.mutex: inode_get
\* takes a reference on the inode, dentry_alloc another with inode_dup and
\* makes the dentry (ref_count 1, a new mutex), and ht_set indexes it,
\* overwriting an entry of the same path, evicting while it refuses.  The
\* fields dentry_alloc leaves uninitialised keep what the memory held.
\* The caller's own steps are the conjunct Then, over the task variables.
DirSetThen(p, a, Then) ==
    LET s == SetResult(p, a)
    IN  IF s.panic # "none"
          THEN /\ panic' = s.panic
               /\ UNCHANGED <<boot, cache, head, iref, nsets, tasks>>
          ELSE /\ table' = s.table
               /\ lst' = s.lst
               /\ live' = s.live
               /\ path' = [path EXCEPT ![a] = p]
               /\ ref' = [ref EXCEPT ![a] = 1]
               /\ sem' = [sem EXCEPT ![a] = NewSem]
               /\ iref' = [iref EXCEPT ![p] = @ + 2]
               /\ nsets' = nsets + 1
               /\ Then
               /\ UNCHANGED <<home, head, panic, parent, children, ctab>>

\* _dir_release (under dir_head.mutex): --ref_count, and on 0 the dentry
\* goes to the head of the free list.  The count is an int: a release at 0
\* gives -1 and pushes nothing.
ReleaseRef(a) ==
    /\ ref' = [ref EXCEPT ![a] = @ - 1]
    /\ lst' = IF ref[a] - 1 = 0 THEN ListPush(lst, a) ELSE lst

\* Mutant: dir_lock takes the dentry mutex without looking at its count.
DirLockNoWait(t, a, next) ==
    /\ head = NoTask
    /\ sem' = [sem EXCEPT ![a].count = @ + 1]
    /\ pc' = [pc EXCEPT ![t] = next]
    /\ UNCHANGED head

\* dir_lock(a): mutex_acquire(dir_head.mutex), then mutex_acquire of the
\* dentry mutex; if that sleeps, the task sleeps holding dir_head.mutex.
DirLock(t, a, next) ==
    /\ head = NoTask
    /\ \/ /\ BelowU32(sem[a].count, 1)
          /\ sem' = [sem EXCEPT ![a].count = @ + 1]
          /\ pc' = [pc EXCEPT ![t] = next]
          /\ UNCHANGED head
       \/ /\ ~BelowU32(sem[a].count, 1)
          /\ sem' = [sem EXCEPT ![a].waiters = Append(@, t)]
          /\ head' = t
          /\ pc' = [pc EXCEPT ![t] = "waitdlock"]

\* dir_unlock(a): mutex_acquire(dir_head.mutex), mutex_release of the
\* dentry mutex, mutex_release(dir_head.mutex).  A task waits on a dentry
\* mutex only inside dir_lock, holding dir_head.mutex until it wakes, so
\* once dir_unlock has dir_head.mutex the release finds no waiter and only
\* decrements.
DirUnlock(t, a, next) ==
    /\ head = NoTask
    /\ sem' = [sem EXCEPT ![a].count = @ - 1]
    /\ pc' = [pc EXCEPT ![t] = next]

\* ext2_parse_root, run by dir_init before any task: dir_set("/") and a
\* parse of the root directory.
Mount(t) ==
    /\ boot = "no"
    /\ \E a \in Addrs \ live :
         DirSetThen(Root, a,
            /\ boot' = "running"
            /\ pc' = [pc EXCEPT ![t] = "pdlock"]
            /\ want' = [want EXCEPT ![t] = Root]
            /\ ptr' = [ptr EXCEPT ![t] = a]
            /\ UNCHANGED <<cptr, ri>>)

\* The hit path of dir_get on a: if ref_count was 0, dir_remove, which
\* stops at the abort this names, or "none".
HitAbort(a) == IF ref[a] = 0 THEN DirRemoveAbort(lst, a) ELSE "none"

\* The rest of the hit path: ++ref_count and the removal from the free list.
TakeRef(a) ==
    /\ ref' = [ref EXCEPT ![a] = @ + 1]
    /\ lst' = IF ref[a] = 0 THEN ListUnlink(lst, a) ELSE lst

\* dir_init, after the roots are parsed, sets the boot task's current
\* directory to dir_get("/") (a hit) and keeps that reference.  shell_main
\* later does the same: one more reference on a dentry already pinned.
InitCwd ==
    LET a == Lookup(Root)
    IN  /\ boot = "mounted" /\ head = NoTask
        /\ a \in Addrs
        /\ IF HitAbort(a) # "none"
             THEN /\ panic' = HitAbort(a)
                  /\ UNCHANGED <<boot, cache, head, iref, nsets, tasks>>
             ELSE /\ TakeRef(a)
                  /\ boot' = "done"
                  /\ UNCHANGED <<table, home, path, sem, parent, children, ctab, live,
                                 head, iref, nsets, tasks, panic>>

\* A task calls dir_get(p) with an absolute path.
Start(t, p) ==
    /\ boot = "done" /\ pc[t] = "idle"
    /\ nsets < MaxSets
    /\ pc' = [pc EXCEPT ![t] = "get"]
    /\ want' = [want EXCEPT ![t] = p]
    /\ UNCHANGED <<boot, cache, head, iref, nsets, ptr, cptr, ri, panic>>

\* dir_get, hit: ++ref_count, and dir_remove from the free list if it was 0.
GetHit(t) ==
    LET a == Lookup(want[t])
    IN  /\ pc[t] = "get" /\ head = NoTask
        /\ a \in Addrs
        /\ IF HitAbort(a) # "none"
             THEN /\ panic' = HitAbort(a)
                  /\ UNCHANGED <<boot, cache, head, iref, nsets, tasks>>
             ELSE /\ TakeRef(a)
                  /\ ptr' = [ptr EXCEPT ![t] = a]
                  /\ pc' = [pc EXCEPT ![t] = "use"]
                  /\ UNCHANGED <<boot, table, home, path, sem, parent, children, ctab,
                                 live, head, iref, nsets, want, cptr, ri, panic>>

\* dir_get, miss: dir_iter_get finds the nearest cached component and
\* parses it, without taking a reference on it.
GetMissParse(t) ==
    LET found == SelectSeq(Above(want[t]), LAMBDA q : Lookup(q) \in Addrs)
    IN  /\ pc[t] = "get" /\ head = NoTask
        /\ Lookup(want[t]) = NoVal
        /\ found # <<>>
        /\ ptr' = [ptr EXCEPT ![t] = Lookup(Head(found))]
        /\ pc' = [pc EXCEPT ![t] = "pdlock"]
        /\ UNCHANGED <<boot, cache, head, iref, nsets, want, cptr, ri, panic>>

\* dir_get, miss with no cached component: dir_iter_get returns NULL.
GetMissNull(t) ==
    /\ pc[t] = "get" /\ head = NoTask
    /\ Lookup(want[t]) = NoVal
    /\ \A q \in ToSet(Above(want[t])) : Lookup(q) = NoVal
    /\ pc' = [pc EXCEPT ![t] = "idle"]
    /\ UNCHANGED <<boot, cache, head, iref, nsets, want, ptr, cptr, ri, panic>>

\* ext2_parse_dir(dir): dir_lock(dir).  Reading the directory under its
\* inode lock is the interleaving between this step and the next.
ParseLock(t) ==
    /\ pc[t] = "pdlock"
    /\ DirLock(t, ptr[t], "pset")
    /\ ri' = [ri EXCEPT ![t] = 1]
    /\ UNCHANGED <<boot, table, home, lst, path, ref, parent, children, ctab,
                   live, iref, nsets, want, ptr, cptr, panic>>

\* ext2_parse_dir: dir_set(child path, record's inode, offset) for the
\* next record.
ParseSet(t) ==
    LET recs == Records[path[ptr[t]]]
    IN  /\ pc[t] = "pset" /\ head = NoTask
        /\ ri[t] <= Len(recs)
        /\ \E a \in Addrs \ live :
             DirSetThen(recs[ri[t]], a,
                /\ pc' = [pc EXCEPT ![t] = "padd"]
                /\ cptr' = [cptr EXCEPT ![t] = a]
                /\ UNCHANGED <<boot, want, ptr, ri>>)

\* dir_add_child(dir, child), called without dir_head.mutex: nothing if
\* the child's path is in dir->table; otherwise index it there, point the
\* child at its parent and push it on the sibling list, taking a
\* reference on each (_dir_dup).
ParseAdd(t) ==
    LET q == ptr[t]
        c == cptr[t]
    IN  /\ pc[t] = "padd"
        /\ IF path[c] \in ctab[q]
             THEN UNCHANGED <<ref, parent, children, ctab>>
             ELSE /\ ctab' = [ctab EXCEPT ![q] = @ \cup {path[c]}]
                  /\ parent' = [parent EXCEPT ![c] = q]
                  /\ children' = [children EXCEPT ![q] = <<c>> \o @]
                  /\ ref' = [ref EXCEPT ![q] = @ + 1, ![c] = @ + 1]
        /\ pc' = [pc EXCEPT ![t] = "prel"]
        /\ UNCHANGED <<boot, table, home, lst, path, sem, live, head, iref,
                       nsets, want, ptr, cptr, ri, panic>>

\* ext2_parse_dir: dir_release(child).
ParseRelease(t) ==
    /\ pc[t] = "prel" /\ head = NoTask
    /\ ReleaseRef(cptr[t])
    /\ pc' = [pc EXCEPT ![t] = "pset"]
    /\ ri' = [ri EXCEPT ![t] = @ + 1]
    /\ UNCHANGED <<boot, table, home, path, sem, parent, children, ctab, live,
                   head, iref, nsets, want, ptr, cptr, panic>>

\* ext2_parse_dir after the last record: inode_unlock, dir_unlock(dir).
\* The root's parse returns to ext2_parse_root, any other to dir_iter_get.
ParseUnlock(t) ==
    /\ pc[t] = "pset"
    /\ ri[t] > Len(Records[path[ptr[t]]])
    /\ DirUnlock(t, ptr[t], IF want[t] = Root THEN "mrel" ELSE "look")
    /\ UNCHANGED <<boot, table, home, lst, path, ref, parent, children, ctab,
                   live, head, iref, nsets, want, ptr, cptr, ri, panic>>

\* dir_iter_get after a parse: mutex_acquire(dir_head.mutex), look the next
\* component up; a miss returns NULL ("not existing dentry"); a hit is
\* returned if it is the whole path, else parsed in turn, in both cases
\* without a reference.
IterLook(t) ==
    LET n == NextOn(path[ptr[t]], want[t])
        c == Lookup(n)
    IN  /\ pc[t] = "look" /\ head = NoTask
        /\ c # Hang
        /\ IF c = NoVal
             THEN /\ pc' = [pc EXCEPT ![t] = "idle"]
                  /\ UNCHANGED ptr
             ELSE /\ ptr' = [ptr EXCEPT ![t] = c]
                  /\ pc' = [pc EXCEPT ![t] = IF n = want[t] THEN "use" ELSE "pdlock"]
        /\ UNCHANGED <<boot, cache, head, iref, nsets, want, cptr, ri, panic>>

\* ext2_parse_root: dir_release(root).
MountRelease(t) ==
    /\ pc[t] = "mrel" /\ head = NoTask
    /\ ReleaseRef(ptr[t])
    /\ boot' = "mounted"
    /\ pc' = [pc EXCEPT ![t] = "idle"]
    /\ UNCHANGED <<table, home, path, sem, parent, children, ctab, live, head,
                   iref, nsets, want, ptr, cptr, ri, panic>>

\* A caller of dir_get (dir_link): dir_lock the dentry ...
UserLock(t) ==
    /\ pc[t] = "use"
    /\ DirLock(t, ptr[t], "uheld")
    /\ UNCHANGED <<boot, table, home, lst, path, ref, parent, children, ctab,
                   live, iref, nsets, want, ptr, cptr, ri, panic>>

\* ... dir_unlock it ...
UserUnlock(t) ==
    /\ pc[t] = "uheld"
    /\ DirUnlock(t, ptr[t], "urel")
    /\ UNCHANGED <<boot, table, home, lst, path, ref, parent, children, ctab,
                   live, head, iref, nsets, want, ptr, cptr, ri, panic>>

\* ... and dir_release it.
UserRelease(t) ==
    /\ pc[t] = "urel" /\ head = NoTask
    /\ ReleaseRef(ptr[t])
    /\ pc' = [pc EXCEPT ![t] = "idle"]
    /\ ptr' = [ptr EXCEPT ![t] = NULL]
    /\ UNCHANGED <<boot, table, home, path, sem, parent, children, ctab, live,
                   head, iref, nsets, want, cptr, ri, panic>>

Step(t) ==
    \/ Mount(t) \/ \E p \in Targets : Start(t, p)
    \/ GetHit(t) \/ GetMissParse(t) \/ GetMissNull(t)
    \/ ParseLock(t) \/ ParseSet(t) \/ ParseAdd(t) \/ ParseRelease(t)
    \/ ParseUnlock(t) \/ IterLook(t) \/ MountRelease(t)
    \/ UserLock(t) \/ UserUnlock(t) \/ UserRelease(t)

Next == panic = "none" /\ (InitCwd \/ \E t \in Tasks : Step(t))

Spec == Init /\ [][Next]_vars

\* The round-robin scheduler of task.c runs every ready task again within
\* a time slice per task: a task that can take a step eventually does.
FairSpec == Spec /\ WF_vars(InitCwd) /\ \A t \in Tasks : WF_vars(Step(t))

-----------------------------------------------------------------------------
TypeOK ==
    /\ boot \in {"no", "running", "mounted", "done"}
    /\ lst \in ListType(Addrs)
    /\ path \in [Addrs -> Paths \cup {NoKey}]
    /\ ref \in [Addrs -> -Cardinality(Tasks)..MaxSets + 2]
    /\ \A a \in Addrs : sem[a].count \in 0..1 /\ sem[a].waiters \in Seq(Tasks)
    /\ live \subseteq Addrs
    /\ head \in Tasks \cup {NoTask}
    /\ pc \in [Tasks -> {"idle", "get", "pdlock", "waitdlock", "pset", "padd",
                         "prel", "look", "mrel", "use", "uheld", "urel"}]
    /\ ptr \in [Tasks -> Addrs \cup {NULL}]

\* Every entry of dir_head.table names an allocated dentry with that path:
\* dir_evict takes the evicted path out of the index before it frees the
\* dentry, even when dir_set has since re-indexed the path to a newer one.
IndexSound ==
    \A i \in DOMAIN table.slot :
        table.slot[i].st = HT_VALID =>
            /\ table.slot[i].val \in live
            /\ path[table.slot[i].val] = table.slot[i].key

\* Every inode reference dir_set takes is held by the dentry it makes, as
\* dentry->inode, and goes with it: the inode a path's record names has as
\* many references from the cache as there are allocated dentries of it.
InodeRefPerDentry ==
    \A p \in Paths : iref[p] = Cardinality({a \in live : path[a] = p})

\* A dentry a task got from dir_get stays allocated until the task calls
\* dir_release on it: a reference the caller holds keeps dir_evict away.
DentryHeldLive ==
    \A t \in Tasks : pc[t] \in {"use", "uheld", "urel"} => ptr[t] \in live

\* Every dir_lock that sleeps returns: the task holding the dentry mutex
\* gets to dir_unlock it.
DirLockReturns ==
    \A t \in Tasks : pc[t] = "waitdlock" ~> pc[t] # "waitdlock"
=============================================================================
