---------------------------- MODULE MCInodeCache -----------------------------
(***************************************************************************)
(* InodeCache instantiated for TLC.  Two hash assignments are explored:   *)
(* every inode number in its own slot, and all of them in slot 0, where   *)
(* every lookup probes past the others (HashTable checks the probing in   *)
(* general).  Tasks and inode addresses are interchangeable.  Inode numbers are not: some are in use at mount and   *)
(* the others are free for dinode_alloc.                                   *)
(***************************************************************************)
EXTENDS InodeCache, TLC

MCHomes ==
    LET order == SetToSeq(Inos)
    IN  {[k \in Inos |-> 0],
         [k \in Inos |-> (CHOOSE i \in DOMAIN order : order[i] = k) - 1]}

\* The scan order of ext2_alloc: the inode numbers in some fixed order.
MCInoOrder == SetToSeq(Inos)

Symmetry == Permutations(Tasks) \cup Permutations(Addrs)
=============================================================================
