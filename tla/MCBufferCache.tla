---------------------------- MODULE MCBufferCache ----------------------------
(***************************************************************************)
(* BufferCache instantiated for TLC.  Shifting every block's home slot by  *)
(* the same amount maps behaviours onto behaviours (linear probing only    *)
(* sees differences of slots), so the first block is fixed at slot 0.      *)
(* Tasks and buffer addresses are interchangeable: nothing in the code     *)
(* depends on which task runs or which address kmalloc returns.            *)
(***************************************************************************)
EXTENDS BufferCache, TLC

MCHomes ==
    LET anchor == CHOOSE k \in Blocks : TRUE
        Slots  == 0..HtCreate(MaxSize, MaxLoad).capacity - 1
    IN  {h \in [Blocks -> Slots] : h[anchor] = 0}

Symmetry == Permutations(Tasks) \cup Permutations(Bufs)
=============================================================================
