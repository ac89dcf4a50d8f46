------------------------------- MODULE Ext2Dir -------------------------------
(***************************************************************************)
(* The content of one ext2 directory as src/kernel-src/kernel/filesystem.c *)
(* writes it: ext2_link appends a record, ext2_unlink removes one and      *)
(* compacts the rest, and the record walk that ext2_link and              *)
(* ext2_parse_dir share (i += rec_len from 0 while i < size).              *)
(*                                                                         *)
(* A record is [ino, rl, len]: the inode number, the record length (the    *)
(* uint16_t "size" of ext2_dir_t) and the name length; the name itself and *)
(* the type byte are left out, no property tells names apart beyond ino.   *)
(* The directory image img maps the byte offset of every record header to  *)
(* the record.  A header is DIR_ENTRY_SIZE(len) = 8 + len bytes long; an   *)
(* offset inside those bytes of another record reads as Garbage, one in no *)
(* record reads as zeros (blocks are zeroed when ext2_alloc hands them     *)
(* out).  Offsets are size_t: values are kept as integers, read modulo     *)
(* 2^32, and a comparison with a size treats a negative value as the huge  *)
(* number it wraps to.                                                     *)
(*                                                                         *)
(* kids is the dentry sibling list of the directory, head first, as        *)
(* dir_add_child built it when ext2_parse_dir read the directory: the last *)
(* record on disk is the head, "." the tail.  dir_create and dir_link do   *)
(* not add the entries they link to it.                                    *)
(***************************************************************************)
EXTENDS Integers, Sequences, SequencesExt

CONSTANTS
    B,          \* BLOCK_SIZE (1024 << log_block_size)
    Lens,       \* the name lengths of the entries linked (strlen(name))
    MaxLinks,   \* bound on the links made
    Dirs        \* the directories the model starts from: [img, size]

VARIABLES
    img,     \* record header offset -> record
    size,    \* dst->size of the directory inode
    kids,    \* the sibling list: a sequence of [ino, off], head first
    live,    \* the inode numbers the directory should name (history)
    nlinks,  \* links made so far (the new entries get inode 100 + nlinks)
    status   \* "ok", or how a call went wrong: "hang", "garbage", "nullread"

vars == <<img, size, kids, live, nlinks, status>>

Zero == [ino |-> 0, rl |-> 0, len |-> 0]

\* The header read inside the name bytes of another record.
Garbage == [ino |-> -1, rl |-> -1, len |-> 0]

\* DIR_ENTRY_SIZE(length)
EntrySize(len) == 8 + len

\* ALIGN_ADDR(a, 4) of memory.h: (a + 3) & ~3.
Align4(a) == ((a + 3) \div 4) * 4

\* An unsigned comparison of a size_t value with a size.
UGt(x, y) == x < 0 \/ x > y

Covered(m, i) == \E o \in DOMAIN m : o < i /\ i < o + EntrySize(m[o].len)

\* The record header a pointer buffer + i reads.
At(m, i) ==
    IF i \in DOMAIN m THEN m[i] ELSE IF Covered(m, i) THEN Garbage ELSE Zero

\* Bytes of a record written at off: headers they cover are overwritten.
Put(m, off, r) ==
    LET keep == {o \in DOMAIN m : ~(off < o /\ o < off + EntrySize(r.len))}
    IN  [o \in keep \cup {off} |-> IF o = off THEN r ELSE m[o]]

\* memset(p, 0, n) at off.
Clear(m, off, n) == [o \in {o \in DOMAIN m : ~(off <= o /\ o < off + n)} |-> m[o]]

\* The walk of ext2_link and ext2_parse_dir: the header offsets it visits,
\* and how it ends: "hang" when a record length of zero makes i += 0
\* loop forever, "garbage" when it reads a header out of a name.
RECURSIVE WalkFrom(_, _, _, _)
WalkFrom(m, sz, i, acc) ==
    IF ~(i < sz) THEN [end |-> "ok", offs |-> acc]
    ELSE LET r == At(m, i)
         IN  IF r = Garbage THEN [end |-> "garbage", offs |-> acc]
             ELSE IF r.rl = 0 THEN [end |-> "hang", offs |-> acc]
             ELSE WalkFrom(m, sz, i + r.rl, Append(acc, i))

Walk(m, sz) == WalkFrom(m, sz, 0, << >>)

\* ext2_write_content of n bytes holding record r at off: refused past the
\* end of the file, else the size grows to cover the bytes written.
WriteContent(d, off, r, n) ==
    IF UGt(off, d.size) THEN d
    ELSE [img |-> Put(d.img, off, r),
          size |-> IF off + n > d.size THEN off + n ELSE d.size]

\* The inode numbers of the records a walk lists, "." and ".." included.
Named(m, w) == {m[o].ino : o \in ToSet(w)}

-----------------------------------------------------------------------------

Init ==
    /\ \E d \in Dirs :
          /\ img = d.img
          /\ size = d.size
          /\ LET w == Walk(d.img, d.size).offs
             IN  /\ kids = [k \in 1 .. Len(w) |->
                               [ino |-> d.img[w[Len(w) + 1 - k]].ino,
                                off |-> w[Len(w) + 1 - k]]]
                 /\ live = {d.img[w[k]].ino : k \in 3 .. Len(w)}
    /\ nlinks = 0
    /\ status = "ok"

\* ext2_link(dir, entry, name) with strlen(name) = len, for a new inode.
\* The walk finds the last record; its start is taken to be size minus
\* its record length; it is trimmed to its own bytes and written back at
\* that start; the new record goes after it, filling the block, or at
\* the start of the next block, when it does not fit, with size grown by
\* a block.  A walk that meets a zero record length never returns.
Link(len) ==
    /\ status = "ok"
    /\ nlinks < MaxLinks
    /\ nlinks' = nlinks + 1
    /\ LET wk == Walk(img, size)
           w  == wk.offs
       IN  IF wk.end # "ok"
           THEN /\ status' = wk.end
                /\ UNCHANGED <<img, size, kids, live>>
           ELSE LET last      == IF w = << >> THEN Zero ELSE img[Last(w)]
                    lastStart == size - last.rl
                    lastNew   == EntrySize(last.len)
                    start0    == Align4(lastStart + lastNew)
                    rem0      == B - (start0 % B)
                    newSize   == EntrySize(len)
                    spill     == newSize > rem0
                    newStart  == IF spill THEN (start0 \div B + 1) * B ELSE start0
                    rem       == IF spill THEN B - newSize ELSE rem0
                    d0 == [img |-> img, size |-> size]
                    d1 == IF spill THEN [d0 EXCEPT !.size = @ + B]
                          ELSE IF w # << >>
                          THEN WriteContent(d0, lastStart,
                                   [last EXCEPT !.rl = Align4(lastNew)],
                                   Align4(lastNew))
                          ELSE d0
                    ino == 100 + nlinks
                    d2 == WriteContent(d1, newStart,
                                       [ino |-> ino, rl |-> rem, len |-> len],
                                       newSize)
                IN  /\ img' = d2.img
                    /\ size' = d2.size
                    /\ live' = live \cup {ino}
                    /\ status' = "ok"
                    /\ UNCHANGED kids

\* ext2_unlink(dir, entry) for the k-th child of the sibling list ("." and
\* ".." excepted: dir_unlink refuses them).  The record is zeroed; the
\* compaction loop starts from entry->prev_sib, the child after it on
\* disk, and follows next_sib, toward the start of the directory, so a
\* child that is not the head reaches "." and then reads entry->offset
\* through NULL: a word of low memory, with the buffer written back from
\* it.  The head has no prev_sib: the child before it on disk is given a
\* record length to the end of its block and the size is cut after the
\* block of the removed record.
Unlink(k) ==
    /\ status = "ok"
    /\ k <= Len(kids) - 2
    /\ UNCHANGED <<nlinks>>
    /\ live' = live \ {kids[k].ino}
    /\ kids' = RemoveAt(kids, k)
    /\ LET o == kids[k].off
           r == At(img, o)
           p == kids[k + 1].off
       IN  IF k > 1 \/ r = Garbage
           THEN /\ status' = IF k > 1 THEN "nullread" ELSE "garbage"
                /\ UNCHANGED <<img, size>>
           ELSE LET m == Clear(img, o, r.rl)
                IN  /\ img' = IF p \in DOMAIN m
                               THEN [m EXCEPT ![p].rl = B - (p % B)]
                               ELSE Put(m, p, [Zero EXCEPT !.rl = B - (p % B)])
                    /\ size' = (o \div B + 1) * B
                    /\ status' = "ok"

Next == (\E len \in Lens : Link(len)) \/ (\E k \in 1 .. Len(kids) : Unlink(k))

Spec == Init /\ [][Next]_vars

TypeOK ==
    /\ DOMAIN img \subseteq Int
    /\ \A o \in DOMAIN img : img[o].rl \in 0 .. 65535 /\ img[o].len \in 0 .. 255
    /\ size \in Nat
    /\ status \in {"ok", "hang", "garbage", "nullread"}

\* The invariant spec.md gives the directory format ("spans in one block
\* always sum to block size"): after every ext2_link and ext2_unlink that
\* returned, the record walk of ext2_parse_dir ends at the size, and in
\* each block of the content the record lengths of the records that start
\* in it add up to BLOCK_SIZE.
Tiled ==
    LET w == Walk(img, size)
        S == ToSet(w.offs)
    IN  status = "ok" =>
            /\ w.end = "ok"
            /\ \A k \in 0 .. (size - 1) \div B :
                  MapThenSumSet(LAMBDA o : img[o].rl, {o \in S : o \div B = k}) = B

\* Every entry linked into the directory, or found in it, and not unlinked
\* since is still listed by the walk: ext2_unlink's compaction keeps the
\* records it does not remove.
Listed ==
    status = "ok" =>
        LET w == Walk(img, size)
        IN  w.end = "ok" /\ live \subseteq Named(img, w.offs)

\* No bytes of two records overlap: ext2_link writes the trimmed last record
\* and the new one where no other record lies.
Disjoint ==
    \A o1, o2 \in DOMAIN img :
        o1 < o2 => o1 + EntrySize(img[o1].len) <= o2
====
