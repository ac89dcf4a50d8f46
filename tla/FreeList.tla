------------------------------ MODULE FreeList ------------------------------
(***************************************************************************)
(* The free list of the block cache at pointer level: bio_head.lhead and   *)
(* ltail and the next and prev fields of every bio_buf_t                   *)
(* (src/src/kernel/fs/bio.c), with the reference counts that decide when   *)
(* a buffer enters and leaves it.  Every action is the list part of one    *)
(* call made under bio_head.mutex, so each is atomic.                      *)
(*                                                                         *)
(* Buffers are addresses in an arena Bufs: kmalloc returns any address     *)
(* not in use, so a freed buffer's address comes back.  The hash index is  *)
(* abstracted to its capacity MaxCached: a miss evicts when that many      *)
(* buffers are cached.  A write through a NULL field lands in page 0,      *)
(* which is identity mapped (page.c:149) and not a buffer, so it leaves    *)
(* the buffers unchanged.  A read of a field of a freed buffer returns     *)
(* whatever kfree left there (vmm.c:221), which the model leaves open.     *)
(***************************************************************************)
EXTENDS Naturals, Sequences, SequencesExt

CONSTANTS
    Bufs,       \* the addresses kmalloc may return for a bio_buf_t
    NULL,
    MaxCached,  \* buffers the index holds before ht_set fails
    MaxRef      \* bound on ref_count, to keep the model finite

ASSUME MaxCached \in 1..Cardinality(Bufs) - 1 /\ MaxRef \in 1..3

VARIABLES
    next, prev,    \* the list fields of every buffer
    lhead, ltail,  \* bio_head.lhead, bio_head.ltail
    ref,           \* ref_count of every buffer
    live,          \* buffers allocated and not yet kfree'd
    panic          \* the message of the abort() that stopped the kernel

vars == <<next, prev, lhead, ltail, ref, live, panic>>

Ptr == Bufs \cup {NULL}

\* The list fields and roots as one record, for the sequential bodies below.
L == [next |-> next, prev |-> prev, lhead |-> lhead, ltail |-> ltail]

\* c->f = v for the field f of the object at address c.
WriteField(f, c, v) == IF c = NULL THEN f ELSE [f EXCEPT ![c] = v]

\* bio_remove(buf) after its two abort checks: the three cases run in turn,
\* each testing lhead and ltail as the previous case left them.
Unlink(l, b) ==
    LET s1 == IF b = l.lhead
                THEN [l EXCEPT !.lhead = l.next[b],
                               !.prev  = WriteField(@, l.next[b], NULL)]
                ELSE l
        s2 == IF b = s1.ltail
                THEN [s1 EXCEPT !.ltail = s1.prev[b],
                                !.next  = WriteField(@, s1.prev[b], NULL)]
                ELSE s1
        n3 == WriteField(s2.next, s2.prev[b], s2.next[b])
    IN  IF b # s2.ltail /\ b # s2.lhead
          THEN [s2 EXCEPT !.next = n3,
                          !.prev = WriteField(@, n3[b], s2.prev[b])]
          ELSE s2

\* The message bio_remove(buf) aborts with, or "none".
RemoveAbort(l, b) ==
    CASE l.next[b] = NULL /\ l.prev[b] = NULL   -> "buffer not part of list"
      [] l.lhead = NULL /\ l.ltail = NULL       -> "removing from empty list"
      [] OTHER                                  -> "none"

\* The list part of bio_release when ref_count drops to 0: push at lhead;
\* buf->prev is left as it was.
Push(l, b) ==
    [l EXCEPT !.ltail = IF l.lhead = NULL THEN b ELSE @,
              !.prev  = IF l.lhead = NULL THEN @ ELSE [@ EXCEPT ![l.lhead] = b],
              !.next  = [@ EXCEPT ![b] = l.lhead],
              !.lhead = b]

SetList(l) ==
    /\ next' = l.next
    /\ prev' = l.prev
    /\ lhead' = l.lhead
    /\ ltail' = l.ltail

Init ==
    /\ next = [b \in Bufs |-> NULL]
    /\ prev = [b \in Bufs |-> NULL]
    /\ lhead = NULL
    /\ ltail = NULL
    /\ ref = [b \in Bufs |-> 0]
    /\ live = {}
    /\ panic = "none"

\* bio_get on a cached buffer b (ht_get hit): take a reference and, if it
\* was the first, unlink b from the free list.
GetHit(b) ==
    /\ b \in live
    /\ ref[b] < MaxRef
    /\ ref' = [ref EXCEPT ![b] = @ + 1]
    /\ IF ref[b] = 0
         THEN IF RemoveAbort(L, b) # "none"
                THEN /\ panic' = RemoveAbort(L, b)
                     /\ UNCHANGED <<next, prev, lhead, ltail>>
                ELSE /\ SetList(Unlink(L, b))
                     /\ UNCHANGED panic
         ELSE UNCHANGED <<next, prev, lhead, ltail, panic>>
    /\ UNCHANGED live

\* What bio_evict reads as old->ref_count: the field of a live buffer, or
\* whatever kfree left in freed memory.
RefSeen(old) == IF old \in live THEN {ref[old]} ELSE {0, 1}

\* Whether ht_remove finds old's key: always for a live buffer; for freed
\* memory the key read is arbitrary.
KeyFound(old) == IF old \in live THEN {TRUE} ELSE {TRUE, FALSE}

\* bio_get on an uncached block: bio_alloc a buffer b (ref_count 1, list
\* fields NULL) and index it.  When the index is full, bio_evict runs first:
\* abort if there is no free buffer or the tail is referenced, remove the
\* tail's key (abort if ht_remove misses), unlink and kfree the tail.
GetMiss(b) ==
    LET fresh == [L EXCEPT !.next = [@ EXCEPT ![b] = NULL],
                           !.prev = [@ EXCEPT ![b] = NULL]]
        old   == ltail
        Abort(msg) == /\ panic' = msg
                      /\ UNCHANGED <<next, prev, lhead, ltail, ref, live>>
    IN
    /\ b \notin live
    /\ \/ /\ Cardinality(live) < MaxCached
          /\ SetList(fresh)
          /\ ref' = [ref EXCEPT ![b] = 1]
          /\ live' = live \cup {b}
          /\ UNCHANGED panic
       \/ /\ Cardinality(live) >= MaxCached
          /\ \/ old = NULL /\ Abort("there aren't any free bufs")
             \/ /\ old # NULL
                /\ \E seen \in RefSeen(old) \ {0} : Abort("buf shouldn't be already free")
             \/ /\ old # NULL /\ 0 \in RefSeen(old)
                /\ FALSE \in KeyFound(old)
                /\ Abort("buf can't free'd in hash table")
             \/ /\ old # NULL /\ 0 \in RefSeen(old) /\ TRUE \in KeyFound(old)
                /\ RemoveAbort(fresh, old) # "none"
                /\ Abort(RemoveAbort(fresh, old))
             \/ /\ old # NULL /\ 0 \in RefSeen(old) /\ TRUE \in KeyFound(old)
                /\ RemoveAbort(fresh, old) = "none"
                /\ SetList(Unlink(fresh, old))
                /\ ref' = [ref EXCEPT ![b] = 1]
                /\ live' = (live \cup {b}) \ {old}
                /\ UNCHANGED panic

\* bio_release(buf): drop a reference and push the buffer when it was the
\* last one.
Release(b) ==
    /\ b \in live
    /\ ref[b] > 0
    /\ ref' = [ref EXCEPT ![b] = @ - 1]
    /\ IF ref[b] = 1 THEN SetList(Push(L, b))
                     ELSE UNCHANGED <<next, prev, lhead, ltail>>
    /\ UNCHANGED <<live, panic>>

Next ==
    /\ panic = "none"
    /\ \E b \in Bufs : GetHit(b) \/ GetMiss(b) \/ Release(b)

Spec == Init /\ [][Next]_vars

-----------------------------------------------------------------------------
TypeOK ==
    /\ next \in [Bufs -> Ptr] /\ prev \in [Bufs -> Ptr]
    /\ lhead \in Ptr /\ ltail \in Ptr
    /\ ref \in [Bufs -> 0..MaxRef]
    /\ live \subseteq Bufs

\* The buffers met following next from c, for at most n steps: a walk that
\* is longer than Bufs has gone round a cycle.
RECURSIVE WalkFrom(_, _, _)
WalkFrom(f, c, n) ==
    IF c = NULL \/ n = 0 THEN <<>> ELSE <<c>> \o WalkFrom(f, f[c], n - 1)

Forward  == WalkFrom(next, lhead, Cardinality(Bufs) + 1)
Backward == WalkFrom(prev, ltail, Cardinality(Bufs) + 1)

\* The free list is exactly the cached buffers nobody references, linked
\* the same way forward from lhead and backward from ltail.  bio_evict
\* frees ltail on the strength of this, and bio_get unlinks a buffer
\* whose ref_count was 0 on the strength of it.
FreeListExact ==
    panic = "none" =>
       /\ ToSet(Forward) = {b \in live : ref[b] = 0}
       /\ Len(Forward) = Cardinality({b \in live : ref[b] = 0})
       /\ Backward = Reverse(Forward)

\* bio_remove aborts only when its buffer is really not on the list: a
\* buffer bio_get finds unreferenced is always on it.
NoSpuriousAbort ==
    panic \notin {"buffer not part of list", "removing from empty list"}

\* The pointer list implements the LRU list: following next from lhead,
\* the buffers are pushed at the front by bio_release, taken out by
\* bio_get and evicted from the back by bio_evict.
LRU == INSTANCE AbstractLru WITH lru <- Forward

ImplementsLru == LRU!Spec
=============================================================================
