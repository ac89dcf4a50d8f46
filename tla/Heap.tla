-------------------------------- MODULE Heap ---------------------------------
(***************************************************************************)
(* The kernel heap of src/src/kernel/memory/vmm.c: kmalloc and kfree over  *)
(* the list allocator (a first-fit free list of node_t headers, sorted by  *)
(* address and coalesced on free, growing page by page from               *)
(* KHEAP_LIST_START) and the block allocator (whole pages, taken downward  *)
(* from KHEAP_BLOCK_START, freed pages kept on a stack of nodes).          *)
(*                                                                         *)
(* Addresses and sizes are uintptr_t and size_t words: arithmetic is       *)
(* modulo Word.  A node at address a with size s spans [a, a + NodeSz +    *)
(* s); an allocated list block starts with its size_t header, which holds  *)
(* the block's length n, and the caller gets the address after it.  The    *)
(* helpers act on a record of the allocator's state and return it, as the  *)
(* C functions change it; one kmalloc or kfree call is one step.           *)
(*                                                                         *)
(* Each page the heap grows into is mapped by page_get_pt_entry (page.c),  *)
(* which takes the frame, and the page table's frame when the directory    *)
(* entry is empty, from pmm_alloc (Pmm.tla).  No heap decision depends on  *)
(* the frame a page gets, so mmu, the pmm state and the mappings, is       *)
(* brought up to date at the end of the call, for the pages the call grew  *)
(* into in the order it mapped them.                                       *)
(***************************************************************************)
EXTENDS Integers, Sequences, SequencesExt, FiniteSets, FiniteSetsExt, Pmm

CONSTANTS
    Page,       \* PAGE_FRAME_SIZE
    NodeSz,     \* sizeof(node_t)
    SizeT,      \* sizeof(size_t)
    Word,       \* 2^(bits of uintptr_t)
    ListStart,  \* KHEAP_LIST_START
    BlockStart, \* KHEAP_BLOCK_START
    Sizes,      \* sizes the kernel passes to kmalloc
    Entries,    \* NUM_OF_ENTRIES: pages one page table maps
    MaxOps

ASSUME /\ ListStart + Page <= BlockStart /\ BlockStart + Page < Word
       /\ ListStart % Page = 0 /\ BlockStart % Page = 0
       /\ Sizes \subseteq 1..Word-1

\* kheap_stack_start: pointers at or above it are not the heap's.
StackTop == BlockStart + Page

\* The node of a dead stack frame pushed by kfree (see KFree).
Frame == -1

U(x) == x % Word

VARIABLES
    heap,  \* [free, blocks, pages, stk, end, send, ret, wild]
    mmu,   \* [pmm, pt, pte]: pmm_alloc's state, page tables and pages mapped
    nops

vars == <<heap, mmu, nops>>

\* The node a block in use turns back into, and the span of a node.
NodeEnd(f) == f.a + NodeSz + f.s

-----------------------------------------------------------------------------
\* page_get_pt(page_directory, va, PAGE_ALLOC): a directory entry that is
\* not present gets a page table in a frame from pmm_alloc, unchecked.
\* pt maps directory index to frame.
GetPt(m, va) ==
    LET d == va \div (Entries * Page)
        p == PmmAlloc(m.pmm)
    IN  IF d \in DOMAIN m.pt THEN m
        ELSE [m EXCEPT !.pmm = p, !.pt = (d :> p.ret) @@ @]

\* page_get_pt_entry(page_directory, va, PAGE_ALLOC): a page that is not
\* present is mapped to a frame from pmm_alloc, unchecked (NULL maps it to
\* frame 0).  pte maps page address to frame.
MapPage(m, va) ==
    LET m1 == GetPt(m, va)
        p  == PmmAlloc(m1.pmm)
    IN  IF va \in DOMAIN m1.pte THEN m1
        ELSE [m1 EXCEPT !.pmm = p, !.pte = (va :> p.ret) @@ @]

\* The page_get_pt_entry calls of one kmalloc or kfree, in order.
RECURSIVE MapAll(_, _)
MapAll(m, s) == IF s = <<>> THEN m ELSE MapAll(MapPage(m, Head(s)), Tail(s))

\* The pages a call grew into: the list heap's new pages from the old
\* kheap_end up (the enlarging loop maps each before it appends it), and
\* the page vmm_block_alloc took below kheap_stack_end.
NewPages(h, h2) ==
    [i \in 1 .. (h2.end - h.end) \div Page |-> h.end + (i - 1) * Page]
    \o (IF h2.send < h.send THEN <<h2.send>> ELSE <<>>)

\* vmm_get_node: the first node whose size is above size, or 0.
GetNode(l, sz) ==
    IF \E i \in DOMAIN l : l[i].s > sz
    THEN Min({i \in DOMAIN l : l[i].s > sz}) ELSE 0

\* A merge that forgets the absorbed node's header.
RECURSIVE MergeNoHeader(_)
MergeNoHeader(l) ==
    IF Len(l) < 2 THEN l
    ELSE IF U(NodeEnd(l[1])) = l[2].a
         THEN MergeNoHeader(<<[l[1] EXCEPT !.s = U(@ + l[2].s)]>> \o Tail(Tail(l)))
         ELSE <<l[1]>> \o MergeNoHeader(Tail(l))

\* vmm_merge_free_block from the head: a node that ends where the next
\* begins absorbs it and is tested again.
RECURSIVE Merge(_)
Merge(l) ==
    IF Len(l) < 2 THEN l
    ELSE IF U(NodeEnd(l[1])) = l[2].a
         THEN Merge(<<[l[1] EXCEPT !.s = U(@ + l[2].s + NodeSz)]>> \o Tail(Tail(l)))
         ELSE <<l[1]>> \o Merge(Tail(l))

\* vmm_sorted_insert: after the last node, from the head on, whose next
\* node lies above it.
SortedInsert(l, nd) ==
    LET above == {j \in 2..Len(l) : l[j].a > nd.a}
    IN  InsertAt(l, IF above = {} THEN Len(l) + 1 ELSE Min(above), nd)

\* The enlarging loop of vmm_list_alloc: while no node fits, map the page
\* at kheap_end, append it as a node, merge; NULL (ret 0) once the list
\* heap has passed the block heap.
RECURSIVE Grow(_, _)
Grow(h, sz) ==
    IF GetNode(h.free, sz) # 0 THEN [h EXCEPT !.ret = 1]
    ELSE IF h.end > h.send THEN [h EXCEPT !.ret = 0]
    ELSE Grow([h EXCEPT !.free = Merge(Append(@, [a |-> h.end, s |-> Page - NodeSz])),
                        !.end  = @ + Page], sz)

\* vmm_list_alloc(size): the block is cut from the end of the first node
\* that fits.  req is the size a caller asked for (0: the heap's own use),
\* k tells allocations apart.
ListAlloc(h, size, req, k) ==
    LET sz == U(size + SizeT)
        g  == Grow(h, sz)
        i  == GetNode(g.free, sz)
        s1 == U(g.free[i].s - sz)
        \* prev is set by every scan that passed a node, and kept by the
        \* scan after the heap grew
        drop == (i > 1 \/ g.end # h.end) /\ s1 = 0
        hp == IF drop THEN U(g.free[i].a + NodeSz + s1 - NodeSz)
              ELSE U(g.free[i].a + NodeSz + s1)
        n  == IF drop THEN U(sz + NodeSz) ELSE sz
    IN  IF g.ret = 0 THEN g
        ELSE [g EXCEPT !.free   = IF drop THEN RemoveAt(@, i) ELSE [@ EXCEPT ![i].s = s1],
                       !.blocks = @ \cup {[p |-> U(hp + SizeT), n |-> n, req |-> req, k |-> k]},
                       !.ret    = U(hp + SizeT)]

\* A node that keeps the whole block length as its size.
HeaderNodeWhole(ptr, n) == [a |-> U(ptr - SizeT), s |-> n]

\* kfree: the block's size_t header, at ptr - sizeof(size_t), becomes a
\* node of size n - sizeof(node_t).
HeaderNode(ptr, n) == [a |-> U(ptr - SizeT), s |-> U(n - NodeSz)]

\* kfree of a list block: its node is inserted by address and merged.
ListFree(h, ptr) ==
    LET b == CHOOSE b \in h.blocks : b.p = ptr
    IN  [h EXCEPT !.free   = Merge(SortedInsert(@, HeaderNode(ptr, b.n))),
                  !.blocks = @ \ {b}]

\* kfree(ptr).  A page of the block heap is pushed through a node that
\* is a compound literal in kfree's own frame: the node kmalloc'd just
\* before is overwritten and leaked, and kheap_stack_last is left pointing
\* into a frame that is gone once kfree returns.
KFree(h, ptr) ==
    IF ptr < ListStart \/ ptr >= StackTop THEN h
    ELSE IF ptr > h.end
    THEN LET h1 == ListAlloc(h, SizeT, 0, -1)
         IN  [h1 EXCEPT !.stk   = <<[node |-> Frame, addr |-> ptr - (ptr % Page)]>> \o @,
                        !.pages = {g \in @ : g.p # ptr}]
    ELSE ListFree(h, ptr)

\* A pop that leaves kheap_stack_last where it was.
PopPageKeep(h) == h

\* vmm_block_alloc: kheap_stack_last = kheap_stack_last->next.
PopPage(h) == [h EXCEPT !.stk = Tail(@)]

\* A page stack that grows upward.
NewPageUp(h) == h.send + Page

\* vmm_block_alloc: the page below kheap_stack_end.
NewPage(h) == h.send - Page

\* vmm_block_alloc: pop a node of the page stack (and kfree it), or take
\* the page below kheap_stack_end.  A node in a dead frame is read after
\* other calls have reused that stack: what it holds is undefined (wild).
BlockAlloc(h, k) ==
    IF h.send < h.end THEN [h EXCEPT !.ret = 0]
    ELSE IF h.stk # <<>>
    THEN LET top == Head(h.stk)
         IN  IF top.node = Frame THEN [h EXCEPT !.wild = TRUE]
             ELSE [KFree(PopPage(h), top.node) EXCEPT
                        !.pages = @ \cup {[p |-> top.addr, k |-> k]},
                        !.ret   = top.addr]
    ELSE [h EXCEPT !.send  = NewPage(h),
                   !.pages = @ \cup {[p |-> NewPage(h), k |-> k]},
                   !.ret   = NewPage(h)]

-----------------------------------------------------------------------------
\* vmm_init, after pmm_init: vmm_kheap_list_init maps the page at
\* KHEAP_LIST_START, vmm_kheap_stack_init maps the page at
\* KHEAP_BLOCK_START and kmallocs the node that holds it.
Boot ==
    LET h0 == [free   |-> <<[a |-> ListStart, s |-> Page - NodeSz]>>,
               blocks |-> {}, pages |-> {}, stk |-> <<>>,
               end    |-> ListStart + Page, send |-> BlockStart,
               ret    |-> 0, wild |-> FALSE]
        h1 == ListAlloc(h0, NodeSz, 0, -1)
    IN  [h1 EXCEPT !.stk = <<[node |-> h1.ret, addr |-> BlockStart]>>]

\* pmm_init runs before vmm_init maps KHEAP_LIST_START, then
\* KHEAP_BLOCK_START.
Init ==
    /\ heap = Boot
    /\ mmu = MapAll([pmm |-> PmmInit, pt |-> <<>>, pte |-> <<>>],
                    <<ListStart, BlockStart>> \o NewPages([end |-> ListStart + Page, send |-> BlockStart], Boot))
    /\ nops = 0

\* kmalloc(size): size PAGE_FRAME_SIZE goes to the block allocator.
Malloc(size) ==
    /\ nops < MaxOps
    /\ heap' = IF size = Page THEN BlockAlloc(heap, nops) ELSE ListAlloc(heap, size, size, nops)
    /\ mmu' = MapAll(mmu, NewPages(heap, heap'))
    /\ nops' = nops + 1

\* The regions callers hold: list blocks kmalloc returned to them, and
\* pages.
UserPtrs == {b.p : b \in {x \in heap.blocks : x.req > 0}} \cup {g.p : g \in heap.pages}

\* kfree(ptr) by the caller that holds ptr.
Free(ptr) ==
    /\ nops < MaxOps
    /\ heap' = KFree(heap, ptr)
    /\ mmu' = MapAll(mmu, NewPages(heap, heap'))
    /\ nops' = nops + 1

Next ==
    /\ ~heap.wild /\ mmu.pmm.fault = "none"
    /\ \/ \E size \in Sizes : Malloc(size)
       \/ \E ptr \in UserPtrs : Free(ptr)

Spec == Init /\ [][Next]_vars

-----------------------------------------------------------------------------
TypeOK ==
    /\ heap.free \in Seq([a : 0..Word-1, s : 0..Word-1])
    /\ \A b \in heap.blocks : b.p \in 0..Word-1 /\ b.n \in 0..Word-1
    /\ heap.end \in ListStart..StackTop /\ heap.send \in ListStart..StackTop
    /\ heap.wild \in BOOLEAN /\ nops \in 0..MaxOps
    /\ mmu.pmm.clr \subseteq Bits /\ mmu.pmm.last \in {NotFound} \cup 0 .. NumPages - 1

\* The list heap [KHEAP_LIST_START, kheap_end) is tiled by the free nodes
\* and the blocks in use, with no gap and no overlap: the sizes written
\* into headers by vmm_list_alloc, turned back into nodes by kfree and
\* added up by vmm_merge_free_block account for every byte, whatever the
\* order of calls.
HeapTiled ==
    LET ext == {[lo |-> f.a, hi |-> NodeEnd(f)] : f \in Range(heap.free)}
               \cup {[lo |-> b.p - SizeT, hi |-> b.p - SizeT + b.n] : b \in heap.blocks}
    IN  /\ Cardinality(ext) = Len(heap.free) + Cardinality(heap.blocks)
        /\ \A x \in ext : ListStart <= x.lo /\ x.hi <= heap.end
        /\ \A x, y \in ext : x # y => x.hi <= y.lo \/ y.hi <= x.lo
        /\ MapThenSumSet(LAMBDA x : x.hi - x.lo, ext) = heap.end - ListStart

\* Every page of the block heap is held once or on the free stack once,
\* and the block heap, growing down, stays above the list heap, growing
\* up: vmm_block_alloc and vmm_list_alloc test the other's end before
\* they take a page.
PagesOwnedOnce ==
    LET onStack == {heap.stk[i].addr : i \in DOMAIN heap.stk}
    IN  /\ heap.end <= heap.send
        /\ \A g1, g2 \in heap.pages : g1 # g2 => g1.p # g2.p
        /\ Cardinality(onStack) = Len(heap.stk)
        /\ \A g \in heap.pages : g.p \notin onStack
        /\ \A a \in {g.p : g \in heap.pages} \cup onStack : heap.send <= a /\ a < StackTop

\* Every heap page vmm has mapped, and every page table page.c added for
\* it, is backed by a frame of its own that pmm_alloc marked in use and
\* took from an AVAILABLE entry of the memory map, clear of the kernel
\* image and the bitmap; and no pmm_alloc call spins or reads past the
\* bitmap.  pmm_init's setup from the memory map, the wrapping two-loop
\* search and the unchecked results in page.c and vmm all bear on it.
FramesBacked ==
    LET fs == Range(mmu.pt) \cup Range(mmu.pte)
    IN  /\ mmu.pmm.fault = "none"
        /\ Cardinality(fs) = Cardinality(DOMAIN mmu.pt) + Cardinality(DOMAIN mmu.pte)
        /\ \A f \in fs : Usable(f) /\ f \notin mmu.pmm.clr

\* What callers hold, as regions of AbstractAlloc: list blocks from the
\* address kmalloc returned, for the size asked, and whole pages.
Held == {[id |-> b.k, lo |-> b.p, len |-> b.req] : b \in {x \in heap.blocks : x.req > 0}}
        \cup {[id |-> g.k, lo |-> g.p, len |-> Page] : g \in heap.pages}

A == INSTANCE AbstractAlloc WITH held <- Held

\* kmalloc and kfree implement the allocator callers rely on: each kmalloc
\* returns a region of the size asked that overlaps nothing a caller still
\* holds, and each kfree gives back exactly the region freed.
ImplementsAlloc == A!Spec
=============================================================================
