------------------------------ MODULE MCExt2Dir ------------------------------
(***************************************************************************)
(* Ext2Dir for TLC: BLOCK_SIZE 1024 (log_block_size 0) and the two kinds   *)
(* of directory the kernel links into: the root as mke2fs writes it, and a *)
(* directory dir_create has just made, whose inode dinode_alloc gave size  *)
(* 0.                                                                      *)
(***************************************************************************)
EXTENDS Ext2Dir, TLC

\* ".", "..", "lost+found" (inode 11), one block.
MCRoot ==
    [img  |-> (0 :> [ino |-> 2, rl |-> 12, len |-> 1])
              @@ (12 :> [ino |-> 2, rl |-> 12, len |-> 2])
              @@ (24 :> [ino |-> 11, rl |-> 1000, len |-> 10]),
     size |-> 1024]

MCNewDir == [img |-> [o \in {} |-> Zero], size |-> 0]

MCDirs == {MCRoot, MCNewDir}
====
