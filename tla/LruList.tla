------------------------------- MODULE LruList -------------------------------
(***************************************************************************)
(* The intrusive free list that bio.c, inode.c and dir.c each keep: a     *)
(* head and a tail root and a next and a prev field in every object.  The *)
(* three files repeat the same removal and push code, translated here     *)
(* once; each cache module adds its own abort checks and eviction.         *)
(*                                                                         *)
(* A list is a record [next, prev, lhead, ltail] over the addresses of    *)
(* the objects.  A write through a NULL field lands in page 0, which is   *)
(* identity mapped (page.c:149) and holds no object, so it leaves the     *)
(* objects unchanged.                                                      *)
(***************************************************************************)
CONSTANT NULL

\* An empty list whose objects' fields hold NULL.
ListEmpty(Objs) ==
    [next |-> [o \in Objs |-> NULL], prev |-> [o \in Objs |-> NULL],
     lhead |-> NULL, ltail |-> NULL]

\* c->f = v for the field f of the object at address c.
ListWrite(f, c, v) == IF c = NULL THEN f ELSE [f EXCEPT ![c] = v]

\* The removal after its abort checks: the head case, the tail case and
\* the middle case run in turn, each testing lhead and ltail as the one
\* before left them.
ListUnlink(l, b) ==
    LET s1 == IF b = l.lhead
                THEN [l EXCEPT !.lhead = l.next[b],
                               !.prev  = ListWrite(@, l.next[b], NULL)]
                ELSE l
        s2 == IF b = s1.ltail
                THEN [s1 EXCEPT !.ltail = s1.prev[b],
                                !.next  = ListWrite(@, s1.prev[b], NULL)]
                ELSE s1
        n3 == ListWrite(s2.next, s2.prev[b], s2.next[b])
    IN  IF b # s2.ltail /\ b # s2.lhead
          THEN [s2 EXCEPT !.next = n3,
                          !.prev = ListWrite(@, n3[b], s2.prev[b])]
          ELSE s2

\* The push of a released object at lhead: if the list was empty it also
\* becomes ltail, otherwise the old head's prev points at it; its own prev
\* is left as it was.
ListPush(l, b) ==
    [l EXCEPT !.ltail = IF l.lhead = NULL THEN b ELSE @,
              !.prev  = ListWrite(@, l.lhead, b),
              !.next  = [@ EXCEPT ![b] = l.lhead],
              !.lhead = b]

\* The object's fields set to NULL, as the allocators of bio.c and dir.c
\* do.
ListFresh(l, b) ==
    [l EXCEPT !.next = [@ EXCEPT ![b] = NULL], !.prev = [@ EXCEPT ![b] = NULL]]

\* The lists over Objs.
ListType(Objs) ==
    [next : [Objs -> Objs \cup {NULL}], prev : [Objs -> Objs \cup {NULL}],
     lhead : Objs \cup {NULL}, ltail : Objs \cup {NULL}]
=============================================================================
