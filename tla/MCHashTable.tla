---------------------------- MODULE MCHashTable ----------------------------
(***************************************************************************)
(* Model-checking instance of HashTable with ht_create(3, 75), the load    *)
(* factor every cache of the kernel uses: a five-slot table that refuses   *)
(* a write once four slots are used, so collisions, wrap-around,           *)
(* tombstones and refusals all occur.                                      *)
(***************************************************************************)
EXTENDS HashTable

\* Linear probing treats the slots as a ring, so rotating every home slot
\* by the same amount gives an equivalent behaviour: it suffices to explore
\* the hash assignments that put one chosen key in slot 0.
MCHomes ==
    LET anchor == CHOOSE k \in Keys : TRUE
    IN  {h \in [Keys -> Slots] : h[anchor] = 0}
=============================================================================
