------------------------------ MODULE Ext2File -------------------------------
(***************************************************************************)
(* The block layer of the ext2 driver (src/kernel-src/kernel/filesystem.c) *)
(* under one regular file: the block bitmap (ext2_alloc, ext2_free), the   *)
(* inode's block array with its indirect trees (ext2_get_iblock,           *)
(* ext2_indblock), truncation (ext2_truncate, ext2_ind_trunc) and the      *)
(* content paths (ext2_write_content, ext2_read_content) that tasks reach  *)
(* through file_write / file_read and file_open(O_TRUNC).                  *)
(*                                                                         *)
(* Every block access is bio_read .. bio_release under the buffer's sleep  *)
(* lock, nested from a tree's root down, and the bitmap block is released  *)
(* before the new block is zeroed: one descent of ext2_indblock, one       *)
(* ext2_alloc and one block copy are atomic steps.  inode_read and         *)
(* inode_write do not take the inode lock, so a task's way through         *)
(* ext2_get_iblock interleaves with the other tasks' at the reads and      *)
(* writes of inode->blocks.  File offsets are block indices (a transfer is *)
(* one whole block) and a block's content is its Ptrs 32-bit words; a data *)
(* block written with v holds v in every word.                             *)
(***************************************************************************)
EXTENDS Integers, FiniteSets, FiniteSetsExt

CONSTANTS
    Tasks,
    Direct,     \* DIRECT_BLOCKS
    Ptrs,       \* PTR_ENTRY_BLOCKS: pointers in an indirect block
    BlocksPg,   \* sblock->blocks_pg
    TotBlocks,  \* sblock->total_blocks
    Reserved,   \* blocks whose bits mkfs set: boot block, metadata
    Vals,       \* data words tasks write
    MaxIdx,     \* the largest block index tasks read or write
    MaxOps      \* bound on the operations tasks start

Blocks == 0..TotBlocks-1
Words  == 0..Ptrs-1

\* inode->blocks[]: Direct direct slots, then IND1_IDX, IND2_IDX, IND3_IDX.
IND1 == Direct
IND3 == Direct + 2
Slots == 0..IND3

Ind1Limit == Direct + Ptrs
Ind2Limit == Ind1Limit + Ptrs * Ptrs
Ind3Limit == Ind2Limit + Ptrs * Ptrs * Ptrs

ASSUME /\ Direct \in Nat \ {0} /\ Ptrs \in Nat \ {0}
       /\ TotBlocks % BlocksPg = 0
       /\ 0 \in Reserved /\ Reserved \subseteq Blocks
       /\ Vals \cap Blocks = {}
       /\ MaxIdx < Ind3Limit

Zeros == [i \in Words |-> 0]

VARIABLES
    used,      \* the bits set in the block bitmaps
    content,   \* the words of every block
    ib,        \* inode->blocks
    isize,     \* inode->size, in blocks
    file,      \* what the file holds at each index: the last word written
    pc, op, idx, val, blk,  \* per task
    nops,
    panic

vars == <<used, content, ib, isize, file, pc, op, idx, val, blk, nops, panic>>

\* The part of the state the ext2 helpers act on, with the block they
\* return in ret.
Disk == [used |-> used, content |-> content, ib |-> ib, size |-> isize,
         ret |-> 0, panic |-> "none"]

Init ==
    /\ used = Reserved
    /\ content = [b \in Blocks |-> Zeros]
    /\ ib = [s \in Slots |-> 0]
    /\ isize = 0
    /\ file = [i \in 0..MaxIdx |-> 0]
    /\ pc = [t \in Tasks |-> "idle"]
    /\ op = [t \in Tasks |-> "r"]
    /\ idx = [t \in Tasks |-> 0]
    /\ val = [t \in Tasks |-> 0]
    /\ blk = [t \in Tasks |-> 0]
    /\ nops = 0
    /\ panic = "none"

\* The scan bound taken as j <= blocks_pg.
AllocPastGroup(s) ==
    LET free == {j \in 0..BlocksPg : j \notin s.used}
    IN  IF free = {} THEN [s EXCEPT !.panic = "can't alloc a block"]
        ELSE [s EXCEPT !.used = @ \cup {Min(free)},
                       !.content[Min(free)] = Zeros,
                       !.ret = Min(free)]

\* ext2_alloc(device, 0) with ext2_zero_block: the scan starts at the
\* cursor last_allocs[device] = 0, which nothing advances, and tests bits
\* j = i .. blocks_pg - 1 of group i, i a block number; for every group
\* after the first j starts past blocks_pg, so only group 0 is searched
\* before the loop comes back to 0 and aborts.
Alloc(s) ==
    LET free == {j \in 0..BlocksPg-1 : j < TotBlocks /\ j \notin s.used}
    IN  IF free = {} THEN [s EXCEPT !.panic = "can't alloc a block"]
        ELSE [s EXCEPT !.used = @ \cup {Min(free)},
                       !.content[Min(free)] = Zeros,
                       !.ret = Min(free)]

\* ext2_free(device, n, 0): abort on a clear bit, else clear it.
FreeBlk(s, n) ==
    IF n \notin s.used THEN [s EXCEPT !.panic = "freeing free block"]
    ELSE [s EXCEPT !.used = @ \ {n}]

\* ext2_get_div.
GetDiv(times) == CASE times = 0 -> 1 [] times = 1 -> Ptrs [] times = 2 -> Ptrs * Ptrs

\* ext2_indblock(ind, i, times) on the indirect block b: allocate entry
\* i \div div if it is 0, then read the block it names; "if (!block)" tests
\* the buffer pointer, never NULL, so the entry n of that block is not
\* allocated here.  ret is word n of that block, and one level lower the
\* recursion's result.  At times 0 that block is the data block, and ret
\* is its first word.
RECURSIVE IndBlock(_, _, _, _)
IndBlock(s, b, i, times) ==
    LET r  == i \div GetDiv(times)
        n  == i % GetDiv(times)
        a  == Alloc(s)
        s1 == IF s.content[b][r] # 0 THEN s
              ELSE IF a.panic # "none" THEN a
              ELSE [a EXCEPT !.content[b][r] = a.ret]
        c  == s1.content[b][r]
    IN  CASE s1.panic # "none" -> s1
          [] c \notin Blocks   -> [s1 EXCEPT !.panic = "wild block"]
          [] times = 0         -> [s1 EXCEPT !.ret = s1.content[c][n]]
          [] OTHER             -> IndBlock(s1, c, n, times - 1)

\* The slot of inode->blocks ext2_get_iblock starts from for index i, the
\* index relative to that tree, and the tree's depth below its root.
SlotOf(i)  == IF i < Direct THEN i
              ELSE IF i < Ind1Limit THEN IND1
              ELSE IF i < Ind2Limit THEN IND1 + 1 ELSE IND3
RelIdx(i)  == IF i < Ind1Limit THEN i - Direct
              ELSE IF i < Ind2Limit THEN i - Ind1Limit ELSE i - Ind2Limit
TimesOf(i) == SlotOf(i) - IND1

\* A leaf freed without clearing its entry.
RECURSIVE IndTruncKeepEntry(_, _, _, _)
IndTruncKeepEntry(s, b, i, times) ==
    LET c == s.content[b][i]
    IN  CASE s.panic # "none" \/ i >= Ptrs \/ c = 0 -> s
          [] c \notin Blocks -> [s EXCEPT !.panic = "wild block"]
          [] times > 0 -> IndTruncKeepEntry(IndTruncKeepEntry(s, c, 0, times - 1), b, i + 1, times - 1)
          [] OTHER     -> IndTruncKeepEntry(FreeBlk(s, c), b, i + 1, times)

\* ext2_ind_trunc(block b, times) from entry i: stop at a 0 entry; free a
\* leaf and clear its entry; recurse below an inner entry with --times,
\* which also lowers times for the entries after it.
RECURSIVE IndTrunc(_, _, _, _)
IndTrunc(s, b, i, times) ==
    LET c == s.content[b][i]
    IN  CASE s.panic # "none" \/ i >= Ptrs \/ c = 0 -> s
          [] c \notin Blocks -> [s EXCEPT !.panic = "wild block"]
          [] times > 0 -> IndTrunc(IndTrunc(s, c, 0, times - 1), b, i + 1, times - 1)
          [] OTHER     -> IndTrunc([FreeBlk(s, c) EXCEPT !.content[b][i] = 0],
                                   b, i + 1, times)

\* ext2_truncate from slot i: free direct blocks until a 0 slot, which
\* returns; then truncate each indirect tree until a 0 root, which
\* returns; only past the last root are size reset and the inode written.
\* The roots themselves stay allocated and in inode->blocks.
RECURSIVE TruncFrom(_, _)
TruncFrom(s, i) ==
    CASE s.panic # "none" -> s
      [] i > IND3         -> [s EXCEPT !.size = 0]
      [] s.ib[i] = 0      -> s
      [] i < Direct       -> TruncFrom([FreeBlk(s, s.ib[i]) EXCEPT !.ib[i] = 0], i + 1)
      [] OTHER            -> TruncFrom(IndTrunc(s, s.ib[i], 0, i - IND1), i + 1)

\* Sets the variables the helpers act on from s.
Apply(s) ==
    /\ used' = s.used
    /\ content' = s.content
    /\ ib' = s.ib
    /\ isize' = s.size
    /\ panic' = s.panic

-----------------------------------------------------------------------------
\* file_write(fd, v) at block index i: inode_write -> ext2_write_content.
StartWrite(t, i, v) ==
    /\ pc[t] = "idle" /\ nops < MaxOps
    /\ pc' = [pc EXCEPT ![t] = "check"]
    /\ op' = [op EXCEPT ![t] = "w"]
    /\ idx' = [idx EXCEPT ![t] = i]
    /\ val' = [val EXCEPT ![t] = v]
    /\ nops' = nops + 1
    /\ UNCHANGED <<used, content, ib, isize, file, blk, panic>>

\* file_read(fd) at block index i: inode_read -> ext2_read_content.
StartRead(t, i) ==
    /\ pc[t] = "idle" /\ nops < MaxOps
    /\ pc' = [pc EXCEPT ![t] = "check"]
    /\ op' = [op EXCEPT ![t] = "r"]
    /\ idx' = [idx EXCEPT ![t] = i]
    /\ nops' = nops + 1
    /\ UNCHANGED <<used, content, ib, isize, file, val, blk, panic>>

\* The size checks of ext2_write_content (offset > size: -1) and of
\* ext2_read_content (offset > size: 0; offset = size: nothing to copy),
\* then ext2_get_iblock's test of inode->blocks[slot].
Check(t) ==
    LET i == idx[t]
        s == SlotOf(i)
    IN  /\ pc[t] = "check"
        /\ pc' = [pc EXCEPT ![t] =
                    CASE (op[t] = "w" /\ i > isize) \/ (op[t] = "r" /\ i >= isize) -> "idle"
                      [] ib[s] = 0    -> "alloc"
                      [] i < Direct   -> "data"
                      [] OTHER        -> "ind"]
        /\ blk' = [blk EXCEPT ![t] = ib[s]]
        /\ UNCHANGED <<used, content, ib, isize, file, op, idx, val, nops, panic>>

\* inode->blocks[slot] = ext2_block_alloc(device), over whatever another
\* task stored there meanwhile; a direct block is then the result.
AllocSlot(t) ==
    LET s == SlotOf(idx[t])
        a == Alloc(Disk)
    IN  /\ pc[t] = "alloc"
        /\ Apply(IF a.panic # "none" THEN a ELSE [a EXCEPT !.ib[s] = a.ret])
        /\ pc' = [pc EXCEPT ![t] = IF idx[t] < Direct THEN "data" ELSE "ind"]
        /\ blk' = [blk EXCEPT ![t] = a.ret]
        /\ UNCHANGED <<file, op, idx, val, nops>>

\* bio_read(inode->blocks[slot]), ext2_indblock down the tree, bio_write,
\* bio_release: the block ext2_get_iblock returns.
Ind(t) ==
    LET i == idx[t]
        s == IndBlock(Disk, ib[SlotOf(i)], RelIdx(i), TimesOf(i))
    IN  /\ pc[t] = "ind"
        /\ Apply(IF s.ret \in Blocks THEN s ELSE [s EXCEPT !.panic = "wild block"])
        /\ pc' = [pc EXCEPT ![t] = "data"]
        /\ blk' = [blk EXCEPT ![t] = IF s.ret \in Blocks THEN s.ret ELSE 0]
        /\ UNCHANGED <<file, op, idx, val, nops>>

\* The loop of ext2_read_content: bio_read of the block, memcpy out of it,
\* bio_release; the read returns.
ReadCopy(t) ==
    /\ pc[t] = "data" /\ op[t] = "r"
    /\ pc' = [pc EXCEPT ![t] = "idle"]
    /\ UNCHANGED <<used, content, ib, isize, file, op, idx, val, blk, nops, panic>>

\* The loop of ext2_write_content: bio_read of the block, memcpy into it,
\* bio_write, bio_release; then the size update.
Data(t) ==
    /\ pc[t] = "data" /\ op[t] = "w"
    /\ content' = [content EXCEPT ![blk[t]] = [w \in Words |-> val[t]]]
    /\ file' = [file EXCEPT ![idx[t]] = val[t]]
    /\ pc' = [pc EXCEPT ![t] = "size"]
    /\ UNCHANGED <<used, ib, isize, op, idx, val, blk, nops, panic>>

\* ext2_write_content: if (offset > inode->size) inode->size = offset,
\* then ext2_inode_update.
Size(t) ==
    /\ pc[t] = "size"
    /\ isize' = Max({isize, idx[t] + 1})
    /\ pc' = [pc EXCEPT ![t] = "idle"]
    /\ UNCHANGED <<used, content, ib, file, op, idx, val, blk, nops, panic>>

\* file_open(path, O_TRUNC) of the file: inode_lock, ext2_truncate,
\* inode_unlock.  The file is then empty.
Truncate(t) ==
    /\ pc[t] = "idle" /\ nops < MaxOps
    /\ Apply(TruncFrom(Disk, 0))
    /\ file' = [i \in 0..MaxIdx |-> 0]
    /\ nops' = nops + 1
    /\ UNCHANGED <<pc, op, idx, val, blk>>

Next ==
    /\ panic = "none"
    /\ \E t \in Tasks :
         \/ \E i \in 0..MaxIdx, v \in Vals : StartWrite(t, i, v)
         \/ \E i \in 0..MaxIdx : StartRead(t, i)
         \/ Check(t) \/ AllocSlot(t) \/ Ind(t) \/ ReadCopy(t) \/ Data(t) \/ Size(t)
         \/ Truncate(t)

Spec == Init /\ [][Next]_vars

-----------------------------------------------------------------------------
TypeOK ==
    /\ used \subseteq Blocks
    /\ content \in [Blocks -> [Words -> Blocks \cup Vals]]
    /\ ib \in [Slots -> Blocks]
    /\ isize \in 0..MaxIdx + 1
    /\ pc \in [Tasks -> {"idle", "check", "alloc", "ind", "data", "size"}]
    /\ blk \in [Tasks -> Blocks]

\* The pointer blocks of the file's trees, with their height above the
\* data blocks (0: their entries are data blocks).
RECURSIVE Inner(_, _)
Inner(b, h) == {<<b, h>>} \cup
    IF h = 0 THEN {}
    ELSE UNION {Inner(content[b][w], h - 1) : w \in {w \in Words : content[b][w] \in Blocks \ {0}}}
PtrBlocks == UNION {Inner(ib[s], s - IND1) : s \in {s \in IND1..IND3 : ib[s] # 0}}

\* Every non-zero pointer of the file: a slot of inode->blocks (-1, s) or
\* an entry of a pointer block (b, w), and the block it names.
Edges == {<<-1, s>> : s \in {s \in Slots : ib[s] # 0}}
         \cup UNION {{<<p[1], w>> : w \in {w \in Words : content[p[1]][w] # 0}} : p \in PtrBlocks}
Target(e) == IF e[1] = -1 THEN ib[e[2]] ELSE content[e[1]][e[2]]

\* No block is pointed to twice or is free or reserved, and no pointer is
\* a data word: ext2_alloc hands out only clear bits, every path that
\* clears a bit (ext2_truncate, ext2_ind_trunc) clears the pointer with
\* it, and ext2_write_content copies only into the data block
\* ext2_get_iblock returned, which must still be that data block.
NoBlockShared ==
    /\ \A e \in Edges : Target(e) \in used \ Reserved
    /\ \A e1, e2 \in Edges : e1 # e2 => Target(e1) # Target(e2)

\* A read copies what the file holds at its index: the last data written
\* there since the last truncation (spec: writing N bytes at 0 and reading
\* them back yields the same bytes, for N into the indirect blocks).  About
\* the block ext2_get_iblock hands ext2_read_content.
ReadReturnsWritten ==
    \A t \in Tasks : pc[t] = "data" /\ op[t] = "r" => content[blk[t]][0] = file[idx[t]]
=============================================================================
