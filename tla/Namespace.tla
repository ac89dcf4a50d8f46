------------------------------ MODULE Namespace ------------------------------
(***************************************************************************)
(* The directory system calls of src/src/kernel/usr/syscall.c (link,       *)
(* unlink, chdir, mkdir, readdir) as src/src/kernel/fs/dir.c carries them  *)
(* out, called by the one user task, over the dentry cache that            *)
(* ext2_parse_root and ext2_parse_dir (src/kernel-src/kernel/filesystem.c) *)
(* fill.                                                                   *)
(*                                                                         *)
(* A path is a sequence of names, "/" being << >>; an argument is          *)
(* [abs, seq], relative when abs is FALSE.  Names are one character, so    *)
(* the name dir_get_parent returns for a relative one-name path (it skips  *)
(* the first character) is "".  A dentry is a record numbered in the      *)
(* order dentry_alloc made it; pino is the directory inode whose records   *)
(* it was read from (its offset is an offset into that content).  Disk     *)
(* content is rec: inode -> its directory records [name, ino] in disk      *)
(* order; the byte layout of a record is Ext2Dir's business, and           *)
(* ext2_link is an append here.  The dentry free list is a sequence, head  *)
(* first (FreeList checks the pointer code).  The index has room for every *)
(* dentry these bounds make (ht_create(50, 75)), so dir_evict never runs;  *)
(* valid is never set, so inode_lock reloads from disk and the in-memory   *)
(* inode is the disk inode.  A freed dentry is not handed out again.       *)
(*                                                                         *)
(* Each call is one step: one task calls, and every helper runs to its     *)
(* end before the next call.  A step threads the state, a record s whose   *)
(* field r is the dentry the last dir_get returned (0 for NULL), through   *)
(* the helpers in the order the code calls them; a helper does nothing     *)
(* once the status is not "ok".                                            *)
(***************************************************************************)
EXTENDS Integers, Sequences, SequencesExt, FiniteSets, Functions

CONSTANTS
    RootIno,    \* EXT2_ROOT_INODE
    Rec0,       \* directory inode -> its records on disk, "." and ".." first
    Mode0,      \* inode -> "dir" or "file"
    Links0,     \* inode -> hard_links_count on disk
    NewIno,     \* the inode ext2_inode_alloc hands out
    Args,       \* the path arguments of the calls
    MaxCalls    \* bound on the calls

VARIABLES
    fs,     \* [dent, index, lru, iref, ilock, rec, links, mode, cwd, r, status]
    calls   \* calls made so far

vars == <<fs, calls>>

Ok(s) == s.status = "ok"

\* F applied to the value of e, computed once: every state below is passed
\* on as a bound value, never as an expression evaluated again at each use.
Then(e, F(_)) == CHOOSE r \in {F(v) : v \in {e}} : TRUE
Stop(s, why) == [s EXCEPT !.status = why]

\* dentry_alloc(path, inode, offset): ref_count 1, no list links, and
\* inode_dup of the inode.  The offset is a record of the directory pino.
DentryAlloc(p, ino, pino) ==
    [path |-> p, ino |-> ino, pino |-> pino, ref |-> 1, held |-> FALSE,
     parent |-> 0, children |-> 0, next |-> 0, prev |-> 0, table |-> {},
     live |-> TRUE]

\* dir_set: inode_get, then dentry_alloc (its inode_dup is the second
\* reference), and the index entry for the path set.
DirSet(s, p, ino, pino) ==
    LET n == Len(s.dent) + 1
    IN  [s EXCEPT !.dent  = Append(@, DentryAlloc(p, ino, pino)),
                  !.iref[ino] = @ + 2,
                  !.index = (p :> n) @@ @,
                  !.r = n]

\* _dir_release: the last reference puts the dentry at the head of the list.
Release(s, d) ==
    IF s.dent[d].ref = 1
    THEN [s EXCEPT !.dent[d].ref = 0, !.lru = <<d>> \o @]
    ELSE [s EXCEPT !.dent[d].ref = @ - 1]

\* dir_add_child: nothing when the child table has the path already.
AddChild(s, d, c) ==
    LET h == s.dent[d].children
        s1 == IF h # 0 THEN [s EXCEPT !.dent[h].prev = c] ELSE s
    IN  IF s.dent[c].path \in s.dent[d].table THEN s
        ELSE [s1 EXCEPT !.dent[d].table = @ \cup {s.dent[c].path},
                        !.dent[d].ref = @ + 1, !.dent[d].children = c,
                        !.dent[c].parent = d, !.dent[c].next = h,
                        !.dent[c].prev = 0, !.dent[c].ref = @ + 1]

DLock(s, d) ==
    IF ~Ok(s) THEN s
    ELSE IF s.dent[d].held THEN Stop(s, "hang") ELSE [s EXCEPT !.dent[d].held = TRUE]
DUnlock(s, d) == IF ~Ok(s) THEN s ELSE [s EXCEPT !.dent[d].held = FALSE]
DRelease(s, d) == IF ~Ok(s) THEN s ELSE Release(s, d)

\* inode_lock and inode_unlock abort on an inode nobody references.
ILock(s, i) ==
    IF ~Ok(s) THEN s
    ELSE IF s.iref[i] = 0 THEN Stop(s, "abort")
    ELSE IF i \in s.ilock THEN Stop(s, "hang") ELSE [s EXCEPT !.ilock = @ \cup {i}]
IUnlock(s, i) ==
    IF ~Ok(s) THEN s
    ELSE IF s.iref[i] = 0 THEN Stop(s, "abort") ELSE [s EXCEPT !.ilock = @ \ {i}]
IRelease(s, i) == IF ~Ok(s) THEN s ELSE [s EXCEPT !.iref[i] = @ - 1]

\* ext2_parse_dir: under the dentry and inode locks, a dentry for every
\* record, added as a child and released.  Read as records, the data of a
\* regular file (every file of the model holds data) give garbage.
\* ext2_sum_path: the directory's path and the name joined by one '/',
\* none added after the root's: with paths as name sequences, an append.
SumPath(p, name) == Append(p, name)

RECURSIVE ParseFrom(_, _, _)
ParseFrom(s, d, k) ==
    IF k > Len(s.rec[s.dent[d].ino]) THEN s
    ELSE LET rc == s.rec[s.dent[d].ino][k]
         IN  Then(DirSet(s, SumPath(s.dent[d].path, rc.name), rc.ino, s.dent[d].ino),
               LAMBDA s1 : Then(AddChild(s1, d, s1.r),
               LAMBDA s2 : Then(Release(s2, s1.r),
               LAMBDA s3 : ParseFrom(s3, d, k + 1))))

Parse(s, d) ==
    LET ino == s.dent[d].ino
    IN  Then(DLock(s, d), LAMBDA s0 : Then(ILock(s0, ino), LAMBDA s1 :
            IF ~Ok(s1) THEN s1
            ELSE IF s1.mode[ino] # "dir" THEN Stop(s1, "garbled")
            ELSE Then(ParseFrom(s1, d, 1), LAMBDA s2 :
                 Then(IUnlock(s2, ino), LAMBDA s3 : DUnlock(s3, d)))))

\* dir_iter_get past its first lookup: parse the dentry found, look up the
\* next component; a missing one gives NULL.  No reference is taken.
RECURSIVE Walk(_, _, _)
Walk(s, q, k) ==
    IF ~Ok(s) \/ k = Len(q) THEN s
    ELSE Then(Parse(s, s.r), LAMBDA s1 :
            LET nxt == SubSeq(q, 1, k + 1)
            IN  IF ~Ok(s1) THEN s1
                ELSE IF nxt \notin DOMAIN s1.index THEN [s1 EXCEPT !.r = 0]
                ELSE Then([s1 EXCEPT !.r = s1.index[nxt]], LAMBDA s2 : Walk(s2, q, k + 1)))

\* The backward scan of dir_iter_get: the longest cached proper prefix of
\* the path; the empty prefix ("", not "/") is never in the index.
Start(s, q) == {k \in 1 .. Len(q) - 1 : SubSeq(q, 1, k) \in DOMAIN s.index}

IterGet(s, q) ==
    IF Start(s, q) = {} THEN [s EXCEPT !.r = 0]
    ELSE LET k == Max(Start(s, q))
         IN  Then([s EXCEPT !.r = s.index[SubSeq(q, 1, k)]], LAMBDA s1 : Walk(s1, q, k))

\* dir_remove: abort when the dentry is not on the list.
DirRemove(s, d) ==
    IF s.lru = << >> \/ d \notin Range(s.lru) THEN Stop(s, "abort")
    ELSE [s EXCEPT !.lru = SelectSeq(@, LAMBDA x : x # d)]

\* dir_sum_path with the current directory for a relative path.
AbsPath(s, p) == IF p.abs THEN p.seq ELSE s.dent[s.cwd].path \o p.seq

\* dir_get: a hit takes a reference (off the free list at 0), a miss
\* is dir_iter_get.
DirGet(s, p) ==
    LET q == AbsPath(s, p)
        d == s.index[q]
    IN  IF ~Ok(s) THEN s
        ELSE IF q \notin DOMAIN s.index THEN IterGet(s, q)
        ELSE Then(IF s.dent[d].ref = 0 THEN DirRemove(s, d) ELSE s,
                  LAMBDA s1 : [s1 EXCEPT !.dent[d].ref = @ + 1, !.r = d])

\* dir_get_parent: the path cut at its last '/'.  Cut at the leading '/'
\* the rest is "", a relative path: the current directory.
ParentArg(p) ==
    IF Len(p.seq) = 1 THEN [abs |-> FALSE, seq |-> << >>]
    ELSE [p EXCEPT !.seq = Front(@)]
NameArg(p) == IF ~p.abs /\ Len(p.seq) = 1 THEN "" ELSE Last(p.seq)

-----------------------------------------------------------------------------

\* dir_remove_child: unlink from the sibling list, release the parent and
\* the entry, drop the path from the index (abort if it is not there) and
\* free the dentry.
RemoveChild(s, dir, e) ==
    LET en == s.dent[e]
        s1 == IF en.prev # 0 THEN [s EXCEPT !.dent[en.prev].next = en.next]
              ELSE [s EXCEPT !.dent[dir].children = en.next]
    IN  Then(IF en.next # 0 THEN [s1 EXCEPT !.dent[en.next].prev = 0] ELSE s1,
        LAMBDA s2 : Then(Release([s2 EXCEPT !.dent[e].prev = 0, !.dent[e].next = 0], en.parent),
        LAMBDA s3 : Then(Release(s3, e),
        LAMBDA s4 : IF en.path \notin DOMAIN s4.index THEN Stop(s4, "abort")
                    ELSE [s4 EXCEPT !.dent[e].parent = 0, !.dent[e].live = FALSE,
                                    !.index = Restrict(@, DOMAIN @ \ {en.path})])))

\* ext2_unlink(dir, e).  A directory is refused: its size is a block, never
\* EMPTY_DIR_SIZE.  A dentry with no next sibling is read through NULL
\* (rem_entry->next_sib->offset), one with a previous sibling sends the
\* compaction loop past "." through NULL (Ext2Dir): "nullread".  Otherwise
\* the record at the entry's offset is cleared in dir's content and the
\* records after it, the ones linked since the parse, are swallowed by
\* the record before it.  When dir is not the directory the entry was read
\* from, the offset lands in foreign bytes: dir's content is left alone or
\* garbled (dmg), and the entry's record stays where it is.
Ext2Unlink(s, dir, e, dmg) ==
    LET en  == s.dent[e]
        ino == s.dent[dir].ino
        ks  == {k \in 1 .. Len(s.rec[ino]) :
                  s.rec[ino][k] = [name |-> Last(en.path), ino |-> en.ino]}
    IN  IF s.links[en.ino] = 0 THEN Stop(s, "abort")
        ELSE IF s.mode[en.ino] = "dir" THEN [s EXCEPT !.r = -1]
        ELSE IF en.next = 0 \/ en.prev # 0 THEN Stop(s, "nullread")
        ELSE Then(RemoveChild(s, dir, e), LAMBDA s1 :
                IF en.pino = ino /\ ks # {}
                THEN [s1 EXCEPT !.rec[ino] = SubSeq(@, 1, Min(ks) - 1), !.r = 0]
                ELSE IF dmg THEN Stop(s1, "garbled")
                ELSE [s1 EXCEPT !.r = 0])

-----------------------------------------------------------------------------

\* ext2_link(dir, entry, name): a record [name, entry's inode] after the
\* last one of dir's content.  A dir that is not a directory has its data
\* taken for records and overwritten: "garbled".
Ext2Link(s, dir, e, name) ==
    LET j == s.dent[dir].ino
    IN  IF s.mode[j] # "dir" THEN Stop(s, "garbled")
        ELSE [s EXCEPT !.rec[j] = Append(@, [name |-> name, ino |-> s.dent[e].ino]),
                       !.r = 0]

\* ext2_write_dir, the write_dir of dir_head.dir_itfs: link or unlink.
WriteDir(s, dir, e, name, link, dmg) ==
    IF link THEN Ext2Link(s, dir, e, name) ELSE Ext2Unlink(s, dir, e, dmg)

\* The end of dir_link once the file dentry d (inode i) is locked: the new
\* parent looked up, locked, the record written there by ext2_link and the
\* link count raised; then every lock and reference given back.
LinkTo(s, d, i, new) ==
    Then(DirGet(s, ParentArg(new)), LAMBDA s1 :
      LET dst == s1.r
          j   == s1.dent[dst].ino
      IN  IF ~Ok(s1) THEN s1
          ELSE IF dst = 0
          THEN Then(IUnlock(s1, i), LAMBDA s2 : Then(IRelease(s2, i), LAMBDA s3 :
               Then(DUnlock(s3, d), LAMBDA s4 : DRelease(s4, d))))
          ELSE Then(DLock(s1, dst), LAMBDA s2 : Then(ILock(s2, j), LAMBDA s3 :
               Then(IF ~Ok(s3) THEN s3 ELSE WriteDir(s3, dst, d, NameArg(new), TRUE, FALSE),
               LAMBDA s3a : Then(IF Ok(s3a) THEN [s3a EXCEPT !.links[i] = @ + 1] ELSE s3a,
               LAMBDA s4 : Then(IUnlock(s4, j), LAMBDA s5 : Then(IUnlock(s5, i), LAMBDA s6 :
               Then(DUnlock(s6, dst), LAMBDA s7 : Then(DRelease(s7, dst), LAMBDA s8 :
               Then(DUnlock(s8, d), LAMBDA s9 : DRelease(s9, d)))))))))))

\* dir_link(old, new): the file locked, then LinkTo.  A path that is not a
\* file, or (in LinkTo) a missing parent, returns -1 after an inode_release
\* the call never matched with an inode_get.
DirLink(s, old, new) ==
    Then(DirGet(s, old), LAMBDA s1 :
      LET d == s1.r
          i == s1.dent[d].ino
      IN  IF ~Ok(s1) \/ d = 0 THEN s1
          ELSE Then(DLock(s1, d), LAMBDA s2 : Then(ILock(s2, i), LAMBDA s3 :
               IF ~Ok(s3) THEN s3
               ELSE IF s3.mode[i] # "file"
               THEN Then(IUnlock(s3, i), LAMBDA s4 : Then(IRelease(s4, i), LAMBDA s5 :
                    Then(DUnlock(s5, d), LAMBDA s6 : DRelease(s6, d))))
               ELSE LinkTo(s3, d, i, new))))

\* The end of dir_unlink once both dentries and both inodes are locked:
\* ext2_unlink, the link count lowered, then everything unlocked and
\* released, the entry ext2_unlink freed included.
UnlinkLocked(s, dd, e, di, ei, dmg) ==
    Then(WriteDir(s, dd, e, "", FALSE, dmg), LAMBDA s1 :
    Then(IF Ok(s1) /\ s1.r = 0
         THEN [s1 EXCEPT !.links[ei] = @ - (IF s1.mode[ei] = "dir" THEN 2 ELSE 1)]
         ELSE s1, LAMBDA s2 :
    Then(DUnlock(s2, dd), LAMBDA s3 : Then(DRelease(s3, dd), LAMBDA s4 :
    Then(DUnlock(s4, e), LAMBDA s5 : Then(DRelease(s5, e), LAMBDA s6 :
    Then(IUnlock(s6, di), LAMBDA s7 : IUnlock(s7, ei))))))))

\* dir_unlink(path): parent and entry looked up, then dir_lock and
\* inode_lock of the parent, then of the entry.
DirUnlink(s, p, dmg) ==
    Then(DirGet(s, ParentArg(p)), LAMBDA s1 :
      LET dd == s1.r
      IN  IF ~Ok(s1) \/ dd = 0 \/ NameArg(p) \in {".", ".."} THEN s1
          ELSE Then(DirGet(s1, p), LAMBDA s2 :
               LET e  == s2.r
                   di == s2.dent[dd].ino
                   ei == s2.dent[e].ino
               IN  IF ~Ok(s2) THEN s2
                   ELSE IF e = 0 THEN DRelease(s2, dd)
                   ELSE Then(DLock(s2, dd), LAMBDA s3 : Then(ILock(s3, di), LAMBDA s4 :
                        Then(DLock(s4, e), LAMBDA s5 : Then(ILock(s5, ei), LAMBDA s6 :
                        IF ~Ok(s6) THEN s6 ELSE UnlinkLocked(s6, dd, e, di, ei, dmg)))))))

\* dir_change(path): a directory becomes current_dir and the old one is
\* released; a path that is not a directory returns -1 keeping the
\* reference dir_get took.
DirChange(s, p) ==
    Then(DirGet(s, p), LAMBDA s1 :
      LET d == s1.r
          i == s1.dent[d].ino
      IN  IF ~Ok(s1) \/ d = 0 THEN s1
          ELSE Then(ILock(s1, i), LAMBDA s2 : Then(IUnlock(s2, i), LAMBDA s3 :
               IF ~Ok(s3) \/ s3.mode[i] # "dir" THEN s3
               ELSE Then(DRelease(s3, s3.cwd), LAMBDA s4 : [s4 EXCEPT !.cwd = d]))))

\* dir_create: dinode_alloc gets the new inode, locks it and writes mode
\* and one link; dir_create's own inode_lock of it, after dir_set and
\* dir_get_parent, never returns.
DirCreate(s) ==
    [s EXCEPT !.mode[NewIno] = "dir", !.links[NewIno] = 1,
              !.iref[NewIno] = @ + 1, !.ilock = @ \cup {NewIno}, !.status = "hang"]

\* dir_make: dir_create, then a dir_release it never reaches.
DirMake(s) == DirCreate(s)

\* syscall_readdir(&entries, path): dir_get, and the walk of the children,
\* which fills kmalloc'd nodes; the reference is never released.
Readdir(s, p) == DirGet(s, p)

-----------------------------------------------------------------------------

\* Boot: ext2_parse_root (dir_set("/"), the parse, dir_release), then
\* dir_init's and shell_main's dir_get("/"), each stored in current_dir.
Boot ==
    LET s0 == [dent |-> << >>, index |-> << >>, lru |-> << >>,
               iref |-> [i \in DOMAIN Mode0 |-> 0], ilock |-> {},
               rec |-> Rec0, links |-> Links0, mode |-> Mode0,
               cwd |-> 0, r |-> 0, status |-> "ok"]
        Root == [abs |-> TRUE, seq |-> << >>]
    IN  Then(DirSet(s0, << >>, RootIno, 0), LAMBDA s1 : Then(Parse(s1, 1), LAMBDA s2 :
        Then(Release(s2, 1), LAMBDA s3 : Then(DirGet(s3, Root), LAMBDA s4 :
        Then(DirGet([s4 EXCEPT !.cwd = s4.r], Root), LAMBDA s5 : [s5 EXCEPT !.cwd = s5.r])))))

Init == fs = Boot /\ calls = 0

Call(s) ==
    /\ Ok(fs)
    /\ calls < MaxCalls
    /\ calls' = calls + 1
    /\ fs' = s

Next ==
    \/ \E p, q \in Args : Call(DirLink(fs, p, q))
    \/ \E p \in Args, dmg \in BOOLEAN : Call(DirUnlink(fs, p, dmg))
    \/ \E p \in Args : Call(DirChange(fs, p))
    \/ Call(DirMake(fs))
    \/ Call(Readdir(fs, [abs |-> FALSE, seq |-> << >>]))

Spec == Init /\ [][Next]_vars

-----------------------------------------------------------------------------

TypeOK ==
    /\ fs.status \in {"ok", "abort", "hang", "nullread", "garbled"}
    /\ fs.mode \in [DOMAIN Mode0 -> {"dir", "file", "free"}]
    /\ fs.cwd \in 1 .. Len(fs.dent)
    /\ calls \in 0 .. MaxCalls

\* The files whose records a directory content holds.
Names(i) == Cardinality({<<j, k>> \in UNION {{j} \X DOMAIN fs.rec[j] : j \in DOMAIN fs.rec} :
                             fs.rec[j][k].ino = i})

\* Every regular file's hard_links_count is the number of directory records
\* that name it, after every link and unlink that returned (dir_link,
\* dir_unlink, ext2_unlink).
LinksMatchNames ==
    Ok(fs) => \A i \in DOMAIN fs.mode : fs.mode[i] = "file" => fs.links[i] = Names(i)

\* No dentry on the free list has been freed: dir_unlink releases the entry
\* after ext2_unlink's dir_remove_child freed it.
FreedNotListed == \A k \in 1 .. Len(fs.lru) : fs.dent[fs.lru[k]].live
====
