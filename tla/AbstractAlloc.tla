--------------------------- MODULE AbstractAlloc -----------------------------
(***************************************************************************)
(* What kmalloc and kfree promise their callers: kmalloc(size) hands out   *)
(* a new region of size bytes that overlaps no region still held, or       *)
(* NULL; kfree gives one held region back.  A region is [id, lo, len]; id  *)
(* tells apart two regions handed out at the same place.                   *)
(***************************************************************************)
EXTENDS Integers

CONSTANTS Sizes

VARIABLE held

Disjoint(r, q) == r.lo + r.len <= q.lo \/ q.lo + q.len <= r.lo

\* One region more, of a size asked for, clear of every region held.
Alloc == \E r \in held' \ held :
            /\ held' = held \cup {r}
            /\ r.len \in Sizes
            /\ \A q \in held : Disjoint(r, q)

\* One region fewer.
Free == \E r \in held : held' = held \ {r}

Spec == held = {} /\ [][Alloc \/ Free]_held
=============================================================================
