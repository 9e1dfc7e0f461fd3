--------------------------------- MODULE Pool ---------------------------------
(***************************************************************************)
(* The pool of a context: pool_allocate, pool_reallocate and pool_free     *)
(* over one region of PAGES pages, and the program that calls them.        *)
(*                                                                         *)
(* The region is seen at the granularity its owner uses: pages are carved  *)
(* from it in order, a page of a size class is cut into blocks, a large    *)
(* block is a run of pages behind a header.  An address is <<page, slot>>: *)
(* the slot-th block of the page, and in a large block <<page, 0>> is the  *)
(* header and <<page, 1>> the first byte of the user.  Of the memory only  *)
(* the first word at each address is kept: it is the one that free-list    *)
(* links, the user_size of a large block and the data of the user share.   *)
(***************************************************************************)
EXTENDS FreeList

CONSTANTS NUM_CLASSES,  \* number of size classes, 19 in the code
          SHIFT,        \* log2 of the smallest class, 4 in the code
          PAGE_SIZE,
          META_SIZE,    \* BC_ALLOCATORS_LARGE_META_SIZE
          PAGES,        \* region.total_size, in pages
          SLOTS,        \* addresses kept in a page
          WRAP_PAGES,   \* 2^64 / PAGE_SIZE: where size_t wraps, in pages
          COUNTER,      \* where the counters of the statistics wrap
          TRACKING,     \* tracking_enabled
          Size,         \* the sizes the program asks for, 0 among them
          Value         \* what the program writes

LARGE == 254            \* BC_ALLOCATORS_PAGE_CLASS_LARGE
UNASSIGNED == 255       \* BC_ALLOCATORS_PAGE_CLASS_UNASSIGNED

Class == 0 .. NUM_CLASSES-1
Kind == Class \cup {LARGE}
Page == 0 .. PAGES-1
Slot == 0 .. SLOTS-1
Address == Page \X Slot

ClassSizes == [c \in Class |-> 2^(SHIFT + c)]

\* 64 less the leading zeros of n, which is below the largest class.
Bits(n) == Cardinality({k \in 0 .. SHIFT+NUM_CLASSES : 2^k <= n})

\* size_class_for_size; its -1 is LARGE here.
SizeClass(size) ==
    IF size > ClassSizes[NUM_CLASSES-1] THEN LARGE
    ELSE IF size <= ClassSizes[0] THEN 0
    ELSE Bits(size - 1) - SHIFT

\* How bump_allocate_class carves for class c: pages taken, blocks cut.
PagesOf(c) == (ClassSizes[c] + PAGE_SIZE - 1) \div PAGE_SIZE
BlocksOf(c) == (PagesOf(c) * PAGE_SIZE) \div ClassSizes[c]

\* total_aligned of allocate_large, in pages; the two checked additions fail
\* exactly when it reaches WRAP_PAGES.  A slip: no room for the header.
LargePagesBare(size) == (size + PAGE_SIZE - 1) \div PAGE_SIZE
LargePages(size) == (META_SIZE + size + PAGE_SIZE - 1) \div PAGE_SIZE

ASSUME GeometryAssumption ==
    /\ NUM_CLASSES \in 1..LARGE /\ SHIFT \in Nat
    /\ PAGE_SIZE \in Nat \ {0} /\ META_SIZE \in Nat \ {0}
    /\ PAGES \in Nat \ {0} /\ WRAP_PAGES \in Nat /\ PAGES < WRAP_PAGES
    /\ SLOTS \in Nat /\ SLOTS > 1
    /\ \A c \in Class : /\ ClassSizes[c] \in Nat \ {0}
                        /\ PagesOf(c) + PAGES < WRAP_PAGES
                        /\ BlocksOf(c) \in 1..SLOTS

ASSUME SizeAssumption ==
    /\ Size \subseteq Nat /\ 0 \in Size
    /\ \A s \in Size : \/ SizeClass(s) = LARGE
                       \/ SizeClass(s) \in Class /\ s <= ClassSizes[SizeClass(s)]

ASSUME OtherAssumption ==
    /\ COUNTER \in Nat \ {0} /\ TRACKING \in BOOLEAN
    /\ NULL \notin Address

\* No request passes the checked additions of allocate_large whose pages and
\* the region together wrap.
NoWrap == \A s \in Size : \/ LargePages(s) + PAGES < WRAP_PAGES
                          \/ LargePages(s) >= WRAP_PAGES

-------------------------------------------------------------------------------
(***************************************************************************)
(* The heap: region.bump, region.page_class, pools[] and large_pool (in    *)
(* `lists`, their chains in `chains`), the memory, and the total_size      *)
(* field of the header of each large block.                                *)
(***************************************************************************)
InitHeap == [bump       |-> 0,
             page_class |-> [p \in Page |-> UNASSIGNED],
             lists      |-> [k \in Kind |-> EmptyList],
             chains     |-> [k \in Kind |-> <<>>],
             mem        |-> [a \in Address |-> Number(0)],
             total      |-> [p \in Page |-> 0]]

SetWord(h, a, word) == [h EXCEPT !.mem = [h.mem EXCEPT ![a] = word]]

\* A slip: the block stays in its list.
PopFromPeeks(h, k) == h
PopFrom(h, k) ==
    [h EXCEPT !.lists  = [h.lists EXCEPT ![k] = Popped(h.lists[k], h.mem)],
              !.chains = [h.chains EXCEPT
                             ![k] = PoppedChain(h.lists[k], h.chains[k])]]

PushTo(h, k, b) ==
    [h EXCEPT !.lists  = [h.lists EXCEPT ![k] = Push(h.lists[k], b)],
              !.mem    = PushMem(h.lists[k], h.mem, b),
              !.chains = [h.chains EXCEPT
                             ![k] = PushChain(h.lists[k], h.chains[k], b)]]

\* A slip: the bump does not move.
BumpStays(h, n) == h.bump
AfterBump(h, n) == (h.bump + n) % WRAP_PAGES

\* bump_raw: the sum wraps before it is compared.  A slip: the last page of
\* the region is never used.
BumpFitsStrictly(h, n) == AfterBump(h, n) < PAGES
BumpFits(h, n) == AfterBump(h, n) <= PAGES

\* tag_page_class.  A slip: one page too many.
TaggedAndNext(h, n) == {p \in Page : h.bump <= p /\ p <= h.bump + n}
Tagged(h, n) == {p \in Page : /\ h.bump <= p
                              /\ p <= (h.bump + n - 1) % WRAP_PAGES}

\* bump_raw, then the class k on the n pages taken.
Bump(h, n, k) ==
    [h EXCEPT !.bump       = AfterBump(h, n),
              !.page_class = [p \in Page |->
                  IF p \in Tagged(h, n) THEN k ELSE h.page_class[p]]]

\* A slip: the loop runs once too often.
RestAndOne(p, c) == [i \in 1 .. BlocksOf(c) |-> <<p, i>>]

\* The blocks a page of class c is cut into, but the one handed out.
Rest(p, c) == [i \in 1 .. BlocksOf(c)-1 |-> <<p, i>>]

\* bump_allocate_class: the list of the class is empty when it is called.
Carve(h, c) == LET bs == Rest(h.bump, c)
                   l == h.lists[c] IN
    [Bump(h, PagesOf(c), c) EXCEPT
        !.lists  = [h.lists EXCEPT ![c] = PushAll(l, bs)],
        !.mem    = PushAllMem(l, h.mem, bs),
        !.chains = [h.chains EXCEPT ![c] = PushAllChain(l, h.chains[c], bs)]]

AllocateSmall(h, c) == LET top == Top(h.lists[c]) IN
    IF top # NULL THEN [heap |-> PopFrom(h, c), ptr |-> top]
    ELSE IF BumpFits(h, PagesOf(c))
    THEN [heap |-> Carve(h, c), ptr |-> <<h.bump, 0>>]
    ELSE [heap |-> h, ptr |-> NULL]

\* The user pointer of a large block, and the block of a large user pointer.
UserOf(b) == <<b[1], 1>>
BlockOf(ptr) == <<ptr[1], 0>>

\* The user_size of the header at b.  A slip: it is not written.
SetUserSizeNot(h, b, size) == h
SetUserSize(h, b, size) == SetWord(h, b, Number(size))

\* A new large block of n pages, and its header.
NewLarge(h, n, size) ==
    [SetUserSize(Bump(h, n, LARGE), <<h.bump, 0>>, size) EXCEPT
        !.total = [h.total EXCEPT ![h.bump] = n]]

\* allocate_large looks at one free block only, and puts it back if it is too
\* small: it may move from the chain to the magazine.  A slip: it is dropped.
FreeLargeFits(h, n) == LET top == Top(h.lists[LARGE]) IN
    top # NULL /\ h.total[top[1]] >= n

Dropped(h) == PopFrom(h, LARGE)
PutBack(h) == LET top == Top(h.lists[LARGE]) IN
    IF top = NULL THEN h ELSE PushTo(PopFrom(h, LARGE), LARGE, top)

AllocateLarge(h, size) ==
    LET n    == LargePages(size)
        top  == Top(h.lists[LARGE])
        kept == PutBack(h)
    IN  IF n >= WRAP_PAGES THEN [heap |-> h, ptr |-> NULL]
        ELSE IF FreeLargeFits(h, n)
        THEN [heap |-> SetUserSize(PopFrom(h, LARGE), top, size),
              ptr  |-> UserOf(top)]
        ELSE IF BumpFits(kept, n)
        THEN [heap |-> NewLarge(kept, n, size), ptr |-> UserOf(<<kept.bump, 0>>)]
        ELSE [heap |-> kept, ptr |-> NULL]

\* Past a wrap of bump_raw the tags, or the block itself, can fall outside
\* the region: the process does not survive such a call.
Faults(h, size) == LET n == LargePages(size) IN
    /\ SizeClass(size) = LARGE /\ n < WRAP_PAGES
    /\ ~FreeLargeFits(h, n) /\ BumpFits(h, n)
    /\ h.bump \notin Page \/ (h.bump + n) % WRAP_PAGES = 0

PoolAllocate(h, size) ==
    IF size = 0 THEN [heap |-> h, ptr |-> NULL]
    ELSE IF SizeClass(size) = LARGE THEN AllocateLarge(h, size)
    ELSE AllocateSmall(h, SizeClass(size))

PoolFree(h, ptr) ==
    IF ptr \notin Address THEN h                       \* ptr_in_region
    ELSE LET k == h.page_class[ptr[1]] IN
         IF k \in Class THEN PushTo(h, k, ptr)
         ELSE IF k = LARGE
         THEN PushTo(SetUserSize(h, BlockOf(ptr), 0), LARGE, BlockOf(ptr))
         ELSE h

\* get_usable_size
Usable(h, ptr) == LET k == h.page_class[ptr[1]] IN
    IF k \in Class THEN ClassSizes[k] ELSE Target(h.mem[BlockOf(ptr)])

-------------------------------------------------------------------------------
VARIABLES heap,
          stats,     \* pool_alloc_count, pool_free_count, pool_active_bytes
          held,      \* the program: the size asked for at each pointer, or 0
          content    \* the program: the word it expects at each pointer

vars == <<heap, stats, held, content>>

NoContent == Number(0)

Held == {a \in Address : held[a] > 0}

Init == /\ heap = InitHeap
        /\ stats = [allocs |-> 0, frees |-> 0, bytes |-> 0]
        /\ held = [a \in Address |-> 0]
        /\ content = [a \in Address |-> NoContent]

\* What a block for size is charged to pool_active_bytes.
Charge(size) == IF SizeClass(size) = LARGE THEN size
                                           ELSE ClassSizes[SizeClass(size)]

TrackAlloc(st, n) == IF ~TRACKING THEN st ELSE
    [st EXCEPT !.allocs = (st.allocs + 1) % COUNTER,
               !.bytes  = (st.bytes + n) % COUNTER]

TrackFree(st, n) == IF ~TRACKING THEN st ELSE
    [st EXCEPT !.frees = (st.frees + 1) % COUNTER,
               !.bytes = (st.bytes - n) % COUNTER]

\* A large block resized in place.  A slip: the statistics keep the old size.
RechargeNot(st, old, new) == st
Recharge(st, old, new) == IF ~TRACKING THEN st ELSE
    [st EXCEPT !.bytes = (st.bytes - old + new) % COUNTER]

Allocate(size) == LET r == PoolAllocate(heap, size) IN
    /\ ~Faults(heap, size)
    /\ heap' = r.heap
    /\ IF r.ptr = NULL THEN UNCHANGED <<stats, held, content>>
       ELSE /\ stats' = TrackAlloc(stats, Charge(size))
            /\ held' = [held EXCEPT ![r.ptr] = size]
            /\ content' = [content EXCEPT ![r.ptr] = r.heap.mem[r.ptr]]

Free(ptr) ==
    /\ ptr \in Held \cup {NULL}
    /\ heap' = PoolFree(heap, ptr)
    /\ IF ptr = NULL THEN UNCHANGED <<stats, held, content>>
       ELSE /\ stats' = TrackFree(stats, Usable(heap, ptr))
            /\ held' = [held EXCEPT ![ptr] = 0]
            /\ content' = [content EXCEPT ![ptr] = NoContent]

\* A large block asked to hold a size whose header or alignment overflows.
LargeOverflows(ptr, size) ==
    /\ heap.page_class[ptr[1]] = LARGE /\ SizeClass(size) = LARGE
    /\ LargePages(size) >= WRAP_PAGES

\* The early returns of pool_reallocate.
ReallocateRefused(ptr, size) == /\ ptr \in Held
                                /\ size = 0 \/ LargeOverflows(ptr, size)
                                /\ UNCHANGED vars

ReallocateSameClass(ptr, size) ==
    /\ ptr \in Held /\ size > 0
    /\ heap.page_class[ptr[1]] \in Class
    /\ heap.page_class[ptr[1]] = SizeClass(size)
    /\ held' = [held EXCEPT ![ptr] = size]
    /\ UNCHANGED <<heap, stats, content>>

\* Both sizes large and the pages suffice: only user_size changes.
LargeFitsInPlace(ptr, size) ==
    /\ heap.page_class[ptr[1]] = LARGE /\ SizeClass(size) = LARGE
    /\ LargePages(size) <= heap.total[ptr[1]]

ReallocateLargeInPlace(ptr, size) ==
    /\ ptr \in Held /\ size > 0
    /\ ~LargeOverflows(ptr, size) /\ LargeFitsInPlace(ptr, size)
    /\ heap' = SetUserSize(heap, BlockOf(ptr), size)
    /\ stats' = Recharge(stats, Usable(heap, ptr), size)
    /\ held' = [held EXCEPT ![ptr] = size]
    /\ UNCHANGED content

\* bc_core_copy, then pool_free.  The word copied stands for the
\* min(old_usable, new_size) bytes copied.  A slip: the free comes first.
CopyWord(h, from, to) == SetWord(h, to, h.mem[from])
MoveFreesFirst(h, from, to) == CopyWord(PoolFree(h, from), from, to)
Move(h, from, to) == PoolFree(CopyWord(h, from, to), from)

ReallocateMove(ptr, size) == LET r == PoolAllocate(heap, size) IN
    /\ ptr \in Held /\ size > 0
    /\ heap.page_class[ptr[1]] # SizeClass(size) \/ SizeClass(size) = LARGE
    /\ ~LargeOverflows(ptr, size) /\ ~LargeFitsInPlace(ptr, size)
    /\ ~Faults(heap, size)
    /\ IF r.ptr = NULL
       THEN heap' = r.heap /\ UNCHANGED <<stats, held, content>>
       ELSE /\ heap' = Move(r.heap, ptr, r.ptr)
            /\ stats' = TrackFree(TrackAlloc(stats, Charge(size)),
                                  Usable(r.heap, ptr))
            /\ held' = [held EXCEPT ![ptr] = 0, ![r.ptr] = size]
            /\ content' = [content EXCEPT ![ptr] = NoContent,
                                          ![r.ptr] = content[ptr]]

\* reallocate of NULL is allocate.
Reallocate(ptr, size) == \/ ReallocateRefused(ptr, size)
                         \/ ReallocateSameClass(ptr, size)
                         \/ ReallocateLargeInPlace(ptr, size)
                         \/ ReallocateMove(ptr, size)
                         \/ ptr = NULL /\ Allocate(size)

\* The program writes through a pointer it holds.
Write(ptr, v) ==
    /\ ptr \in Held
    /\ heap' = SetWord(heap, ptr, Data(v))
    /\ content' = [content EXCEPT ![ptr] = Data(v)]
    /\ UNCHANGED <<stats, held>>

Next == \/ \E size \in Size : Allocate(size)
        \/ \E ptr \in Address \cup {NULL} : Free(ptr)
        \/ \E ptr \in Address \cup {NULL}, size \in Size : Reallocate(ptr, size)
        \/ \E ptr \in Address, v \in Value : Write(ptr, v)

Spec == Init /\ [][Next]_vars
===============================================================================
