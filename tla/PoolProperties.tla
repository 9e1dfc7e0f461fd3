---------------------------- MODULE PoolProperties ----------------------------
(***************************************************************************)
(* What makes the pool correct.                                            *)
(***************************************************************************)
EXTENDS Pool

Word == {Number(n) : n \in Size \cup {0}} \cup {Data(v) : v \in Value}
          \cup {Link(b) : b \in Address \cup {NULL}}

HeapType == [bump       : 0..PAGES,
             page_class : [Page -> Kind \cup {UNASSIGNED}],
             lists      : [Kind -> List(Address)],
             chains     : [Kind -> Seq(Address)],
             mem        : [Address -> Word],
             total      : [Page -> Nat]]

\* Type invariant: bump stays in the region, and every word of the memory was
\* written by a push, by the header of a large block or by the program.
TypeOK == /\ heap \in HeapType
          /\ held \in [Address -> Size]
          /\ content \in [Address -> Word]
          /\ stats \in [allocs : 0..COUNTER-1, frees : 0..COUNTER-1,
                        bytes : 0..COUNTER-1]

-------------------------------------------------------------------------------
(* Blocks: an address of a size class is its own block. *)

BlockAt(h, ptr) == IF h.page_class[ptr[1]] = LARGE THEN BlockOf(ptr) ELSE ptr

HeldBlocks == {BlockAt(heap, a) : a \in Held}

FreeBlocks(h, k) == FreeOf(h.lists[k], h.chains[k])

AllFree(h) == UNION {FreeBlocks(h, k) : k \in Kind}

\* The pages a block taken from the region at page p covers, and the blocks
\* they are cut into.
SpanOf(h, p) == IF h.page_class[p] = LARGE THEN h.total[p]
                                           ELSE PagesOf(h.page_class[p])
CutInto(h, p) == IF h.page_class[p] = LARGE THEN 1
                                            ELSE BlocksOf(h.page_class[p])

\* Every free list is intact, holds blocks of its own class only, and none of
\* them is in use: no sequence of frees, spills into a chain and reuses hands
\* a block out twice, or through the list of another class.
ListsIntact ==
    \A k \in Kind :
        /\ IsList(heap.lists[k], heap.mem, heap.chains[k])
        /\ \A b \in FreeBlocks(heap, k) : heap.page_class[b[1]] = k
        /\ FreeBlocks(heap, k) \cap HeldBlocks = {}

\* Every page handed out by bump_raw belongs to exactly one block or page of
\* blocks, and every one of those blocks is free or in use: carving a page,
\* or putting back a large block that does not fit, loses nothing.
Heads == {b[1] : b \in {x \in HeldBlocks \cup AllFree(heap) : x[2] = 0}}

RegionAccounted ==
    /\ \A p \in Page :
           /\ (p < heap.bump) = (heap.page_class[p] # UNASSIGNED)
           /\ p < heap.bump =>
                \E s \in Heads : p \in s .. s + SpanOf(heap, s) - 1
    /\ \A s \in Heads :
           /\ s + SpanOf(heap, s) <= heap.bump
           /\ \A t \in Heads : t > s => t >= s + SpanOf(heap, s)
           /\ \A p \in s .. s + SpanOf(heap, s) - 1 :
                  heap.page_class[p] = heap.page_class[s]
           /\ \A i \in 0 .. CutInto(heap, s) - 1 :
                  <<s, i>> \in HeldBlocks \cup AllFree(heap)
           /\ \A i \in CutInto(heap, s) .. SLOTS - 1 :
                  <<s, i>> \notin HeldBlocks \cup AllFree(heap)

\* The word at every pointer the program holds is the one it last wrote, or
\* found: no call writes in a block in use, neither a link nor a header, and
\* a reallocation that moves a block copies it before it frees it.
ContentKept == \A a \in Held : heap.mem[a] = content[a]

\* The header of a large block in use records the size last asked for.
LargeSizesKept ==
    \A a \in Held : heap.page_class[a[1]] = LARGE =>
        /\ heap.mem[BlockOf(a)] = Number(held[a])
        /\ LargePages(held[a]) <= heap.total[a[1]]

\* The statistics agree with what the program holds, whichever way its blocks
\* were allocated, moved or resized: pool_alloc_count less pool_free_count
\* is the number of blocks in use, pool_active_bytes what they are charged.
HeldCharge == FoldFunctionOnSet(LAMBDA size, sum : Charge(size) + sum,
                                0, held, Held)

StatsExact ==
    IF TRACKING
    THEN /\ (stats.allocs - stats.frees) % COUNTER
              = Cardinality(Held) % COUNTER
         /\ stats.bytes = HeldCharge % COUNTER
    ELSE stats = [allocs |-> 0, frees |-> 0, bytes |-> 0]

\* pool_allocate of a size class fails only when every block of the class is
\* in use and the region has no room for another page of them.
SmallFailsOnlyWhenFull ==
    \A size \in Size \ {0} : LET c == SizeClass(size) IN
        c \in Class /\ PoolAllocate(heap, size).ptr = NULL
        => /\ heap.bump + PagesOf(c) > PAGES
           /\ \A p \in Heads : heap.page_class[p] = c =>
                 \A i \in 0 .. BlocksOf(c)-1 : <<p, i>> \in Held

-------------------------------------------------------------------------------
(* What a step may never do. *)

\* A page never changes class once it has one, and bump never moves back:
\* pool_free and pool_reallocate find the class of a block in page_class as
\* it was when the block was carved, however long ago.
PagesNeverChangeClass ==
    [][/\ heap'.bump >= heap.bump
       /\ \A p \in Page : heap.page_class[p] # UNASSIGNED =>
             heap'.page_class[p] = heap.page_class[p]]_vars

-------------------------------------------------------------------------------
(***************************************************************************)
(* The pool implements its contract: the allocation behind a pointer is    *)
(* the range of the size asked for at its byte address in the region.      *)
(***************************************************************************)
ByteOf(ptr) ==
    LET k == heap.page_class[ptr[1]] IN
    ptr[1] * PAGE_SIZE + IF k = LARGE THEN META_SIZE ELSE ptr[2] * ClassSizes[k]

\* Of a word the contract tells only what the program wrote.
Written == {Data(v) : v \in Value}
Shown(word) == IF word \in Written THEN word ELSE Number(0)

Allocations == {[at |-> ByteOf(a), size |-> held[a],
                 data |-> Shown(heap.mem[a])] : a \in Held}

Contract == INSTANCE PoolContract WITH
    REGION <- PAGES * PAGE_SIZE,
    Datum  <- Written \cup {Number(0)},
    live   <- Allocations

KeepsContract == Contract!Spec

\* A test of the pool: a request larger than the region fails.
LargeBeyondRegionFails ==
    [][\A size \in Size : Allocate(size) /\ size > PAGES * PAGE_SIZE
                             => held' = held]_vars
===============================================================================
