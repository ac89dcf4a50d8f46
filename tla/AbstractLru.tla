----------------------------- MODULE AbstractLru -----------------------------
(***************************************************************************)
(* What the free list of the block cache (bio_head.lhead/ltail in          *)
(* src/src/kernel/fs/bio.c) and of the inode cache is meant to be: the     *)
(* unreferenced cached objects, most recently released first.  A release   *)
(* of the last reference puts the object at the front, a new reference     *)
(* takes it out wherever it is, and eviction takes the back.               *)
(***************************************************************************)
EXTENDS Naturals, Sequences, SequencesExt

CONSTANT Bufs

VARIABLE lru

Init == lru = <<>>

Push(b) ==
    /\ b \notin ToSet(lru)
    /\ lru' = Cons(b, lru)

Take(b) ==
    /\ b \in ToSet(lru)
    /\ lru' = Remove(lru, b)

EvictTail ==
    /\ lru # <<>>
    /\ lru' = Front(lru)

Next == \E b \in Bufs : Push(b) \/ Take(b) \/ EvictTail

Spec == Init /\ [][Next]_lru
=============================================================================
