-------------------------------- MODULE Arena ---------------------------------
(***************************************************************************)
(* The arenas of one context: creation, allocation by bumping, growth by   *)
(* chaining chunks, reset, destruction, the cache of mapped blocks they    *)
(* share, and the kernel that maps and unmaps.                             *)
(*                                                                         *)
(* An arena is named by its first block, where its header lies.  A block   *)
(* is named by its first page; a chunk is the use an arena makes of one.   *)
(* The chain first_chunk, next, ..., current_chunk is a sequence: the code *)
(* links a chunk behind the current one only, and cuts the chain only      *)
(* behind the first.  ChunkChain has it as the pointers in memory.         *)
(***************************************************************************)
EXTENDS Integers, Sequences, SequencesExt, FiniteSets

CONSTANTS PAGE_SIZE,
          ARENA_HEADER,   \* BC_ALLOCATORS_ARENA_HEADER_ALIGNED
          CHUNK_HEADER,   \* BC_ALLOCATORS_CHUNK_HEADER_ALIGNED
          CACHE_SIZE,     \* BC_ALLOCATORS_ARENA_CACHE_SIZE
          WRAP,           \* where size_t wraps
          SPACE,          \* pages the process may map
          TRACKING,       \* tracking_enabled
          CONTENT,        \* whether `dirty` is followed
          Size,           \* capacities and sizes asked for
          Alignment,      \* alignments asked for
          Limit           \* max_chunk_size of growable arenas, 0 for none

Page == 1 .. SPACE

ASSUME ArenaAssumption ==
    /\ PAGE_SIZE \in Nat \ {0} /\ ARENA_HEADER \in Nat
    /\ CHUNK_HEADER \in Nat \ {0}
    /\ CACHE_SIZE \in Nat /\ SPACE \in Nat /\ TRACKING \in BOOLEAN
    /\ CONTENT \in BOOLEAN
    /\ WRAP \in Nat /\ (SPACE + 1) * PAGE_SIZE < WRAP
    /\ Size \subseteq 0 .. WRAP-1 /\ Alignment \subseteq 0 .. WRAP-1
    /\ Limit \subseteq 0 .. WRAP-1

AlignUp(x, a) == ((x + a - 1) \div a) * a

\* The pages for n bytes; WRAP and more is the overflow the code checks for.
PagesFor(n) == AlignUp(n, PAGE_SIZE) \div PAGE_SIZE
Overflows(n) == AlignUp(n, PAGE_SIZE) >= WRAP

PowerOfTwo(a) == \E k \in 0..a : a = 2^k

-------------------------------------------------------------------------------
VARIABLES arenas,   \* the live arenas, [first block -> arena]
          cache,    \* arena_cache, its first arena_cache_count entries
          mapped,   \* the kernel: [first page of a mapping -> its pages]
          stats,    \* the arena counters of the context, bytes in pages
          dirty,    \* the bytes that still hold what the program wrote
          held      \* the program: the allocations it may use, and fills

vars == <<arenas, cache, mapped, stats, dirty, held>>

Init == /\ arenas = <<>>
        /\ cache = <<>>
        /\ mapped = <<>>
        /\ stats = [live |-> 0, arena |-> 0, total |-> 0, peak |-> 0]
        /\ dirty = {}
        /\ held = {}

-------------------------------------------------------------------------------
(* The blocks. *)

Span(b, n) == b .. b + n - 1

BytesOf(c) == Span(c.block * PAGE_SIZE, c.pages * PAGE_SIZE)

\* Where the kernel may map n pages.
Unused(n) == {b \in Page : /\ b + n - 1 \in Page
                           /\ \A a \in DOMAIN mapped :
                                 Span(a, mapped[a]) \cap Span(b, n) = {}}

\* The entry i is overwritten by the last one.  A slip: it is not.
WithoutLast(seq, i) == Front(seq)
Without(seq, i) == [j \in 1 .. Len(seq)-1 |-> IF j = i THEN Last(seq) ELSE seq[j]]

\* bc_allocators_arena_map_block: the ways it may succeed.  It may fail when
\* the cache has no block of the size: the kernel may refuse at any time.
Cached(n) == {i \in DOMAIN cache : cache[i].pages = n}

FromCache(n) == LET i == CHOOSE i \in Cached(n) : \A j \in Cached(n) : i <= j IN
    {[block |-> cache[i].block, cache |-> Without(cache, i), mapped |-> mapped]}

FromKernel(n) == {[block |-> b, cache |-> cache,
                   mapped |-> [a \in DOMAIN mapped \cup {b} |->
                                  IF a = b THEN n ELSE mapped[a]]] :
                      b \in Unused(n)}

MapMayFail(n) == Cached(n) = {}
MapBlock(n) == IF Cached(n) # {} THEN FromCache(n) ELSE FromKernel(n)

\* bc_allocators_arena_release_block, for each chunk of the sequence cs: the
\* cache takes what it has room for, the rest is unmapped.
\* A slip: the cache takes everything.
KeptAll(cs) == Len(cs)
Kept(cs) == LET room == CACHE_SIZE - Len(cache) IN
    IF Len(cs) < room THEN Len(cs) ELSE room

Entries(cs) == [i \in DOMAIN cs |-> [block |-> cs[i].block, pages |-> cs[i].pages]]

Unmapped(cs) == {cs[i] : i \in Kept(cs)+1 .. Len(cs)}

\* `left` is what is dirty before the blocks are released.
Release(cs, left) ==
    /\ cache' = cache \o SubSeq(Entries(cs), 1, Kept(cs))
    /\ mapped' = [b \in DOMAIN mapped \ {c.block : c \in Unmapped(cs)} |->
                      mapped[b]]
    /\ dirty' = left \ UNION {BytesOf(c) : c \in Unmapped(cs)}

PagesIn(cs) == FoldSeq(LAMBDA c, n : c.pages + n, 0, cs)

TrackMapped(st, n) == IF ~TRACKING THEN st ELSE
    LET total == st.total + n IN
    [st EXCEPT !.arena = st.arena + n, !.total = total,
               !.peak = IF total > st.peak THEN total ELSE st.peak]

\* A slip: total_mapped_bytes is not lowered.
TrackReleasedPart(st, n) == [st EXCEPT !.arena = st.arena - n]
TrackReleased(st, n) == IF ~TRACKING THEN st ELSE
    [st EXCEPT !.arena = st.arena - n, !.total = st.total - n]

\* arena_create_count less arena_destroy_count.
TrackLive(st, d) == IF ~TRACKING THEN st ELSE [st EXCEPT !.live = st.live + d]

-------------------------------------------------------------------------------
(* The chunks. *)

Chunk(b, n, header) == [block |-> b, pages |-> n, header |-> header, used |-> 0]

MemoryStart(c) == c.block * PAGE_SIZE + c.header
Capacity(c) == c.pages * PAGE_SIZE - c.header
HeaderOf(c) == Span(c.block * PAGE_SIZE, c.header)

\* What bc_core_zero_secure wipes, and what MADV_DONTNEED drops: madvise
\* refuses a range that does not start at a page.
Wiped(c) == Span(MemoryStart(c), c.used)
Dropped(c) == IF MemoryStart(c) % PAGE_SIZE # 0 THEN {}
              ELSE Span(MemoryStart(c), AlignUp(Capacity(c), PAGE_SIZE))

\* bc_allocators_arena_try_alloc_in_chunk: where the allocation would start
\* and end in the chunk, and whether it fits there.
Start(c, alignment) ==
    AlignUp(MemoryStart(c) + c.used, alignment) - MemoryStart(c)
End(c, size, alignment) == Start(c, alignment) + size

\* Slips: the end is compared with the whole block; the end wraps.
FitsBlock(c, size, alignment) == End(c, size, alignment) <= c.pages * PAGE_SIZE
FitsWrapped(c, size, alignment) == End(c, size, alignment) % WRAP <= Capacity(c)

Fits(c, size, alignment) ==
    /\ AlignUp(MemoryStart(c) + c.used, alignment) < WRAP
    /\ End(c, size, alignment) < WRAP
    /\ End(c, size, alignment) <= Capacity(c)

\* The capacity bc_allocators_arena_grow asks for.
AtLeast(n, min) == IF n < min THEN min ELSE n
AtMost(n, max) == IF max # 0 /\ n > max THEN max ELSE n
Target(arena, min) ==
    LET doubled == (Capacity(Last(arena.chunks)) * 2) % WRAP IN
    AtLeast(AtMost(AtLeast(doubled, min), arena.max), min)

-------------------------------------------------------------------------------
(* The operations. *)

\* bc_allocators_arena_make_first.
FirstSize(capacity) == ARENA_HEADER + CHUNK_HEADER + capacity

MakeFirst(capacity, max, growable) ==
    LET n == PagesFor(FirstSize(capacity)) IN
    /\ capacity > 0 /\ ~Overflows(FirstSize(capacity))
    /\ \E m \in MapBlock(n) :
         LET new == Chunk(m.block, n, ARENA_HEADER + CHUNK_HEADER) IN
         /\ arenas' = [a \in DOMAIN arenas \cup {m.block} |->
                          IF a = m.block
                          THEN [chunks |-> <<new>>, max |-> max,
                                growable |-> growable, count |-> 0]
                          ELSE arenas[a]]
         /\ dirty' = dirty \ HeaderOf(new)
         /\ cache' = m.cache /\ mapped' = m.mapped
         /\ stats' = TrackLive(TrackMapped(stats, n), 1)
         /\ UNCHANGED held

Create(capacity) == MakeFirst(capacity, capacity, FALSE)

CreateGrowable(initial, max) ==
    /\ max = 0 \/ max >= initial
    /\ MakeFirst(initial, max, TRUE)

CreateFails(capacity, max) ==
    /\ \/ capacity = 0 \/ (max # 0 /\ max < capacity)
       \/ Overflows(FirstSize(capacity))
       \/ MapMayFail(PagesFor(FirstSize(capacity)))
    /\ UNCHANGED vars

\* The allocation of size bytes in the last of the chunks cs of arena a.
AllocateIn(a, cs, size, alignment) == LET c == Last(cs) IN
    /\ arenas' = [arenas EXCEPT
           ![a].chunks = Append(Front(cs),
                             [c EXCEPT !.used = End(c, size, alignment)]),
           ![a].count  = arenas[a].count + 1]
    /\ LET at == MemoryStart(c) + Start(c, alignment) IN
       /\ held' = held \cup {[arena |-> a, at |-> at, size |-> size,
                              alignment |-> alignment]}
       /\ dirty' = IF CONTENT THEN (dirty \ HeaderOf(c)) \cup Span(at, size)
                              ELSE dirty

Asked(size, alignment) == size > 0 /\ alignment > 0 /\ PowerOfTwo(alignment)

FitsInCurrent(a, size, alignment) ==
    Fits(Last(arenas[a].chunks), size, alignment)

Bump(a, size, alignment) ==
    /\ Asked(size, alignment) /\ FitsInCurrent(a, size, alignment)
    /\ AllocateIn(a, arenas[a].chunks, size, alignment)
    /\ UNCHANGED <<cache, mapped, stats>>

\* The sum of size and alignment may wrap; a chunk mapped for nothing stays in
\* the arena.
\* A slip: no allowance for the alignment.
GrownSizeTight(a, size, alignment) == CHUNK_HEADER + Target(arenas[a], size)
GrownSize(a, size, alignment) ==
    CHUNK_HEADER + Target(arenas[a], (size + alignment) % WRAP)

Grow(a, size, alignment) == LET n == PagesFor(GrownSize(a, size, alignment)) IN
    /\ Asked(size, alignment) /\ ~FitsInCurrent(a, size, alignment)
    /\ arenas[a].growable /\ ~Overflows(GrownSize(a, size, alignment))
    /\ \E m \in MapBlock(n) :
         LET new == Chunk(m.block, n, CHUNK_HEADER)
             cs  == Append(arenas[a].chunks, new) IN
         /\ cache' = m.cache /\ mapped' = m.mapped
         /\ stats' = TrackMapped(stats, n)
         /\ IF Fits(new, size, alignment) THEN AllocateIn(a, cs, size, alignment)
            ELSE /\ arenas' = [arenas EXCEPT ![a].chunks = cs]
                 /\ dirty' = dirty \ HeaderOf(new)
                 /\ UNCHANGED held

AllocateFails(a, size, alignment) ==
    /\ Asked(size, alignment) =>
         /\ ~FitsInCurrent(a, size, alignment)
         /\ \/ ~arenas[a].growable
            \/ Overflows(GrownSize(a, size, alignment))
            \/ MapMayFail(PagesFor(GrownSize(a, size, alignment)))
    /\ UNCHANGED vars

Allocate(a, size, alignment) == \/ Bump(a, size, alignment)
                                \/ Grow(a, size, alignment)
                                \/ AllocateFails(a, size, alignment)

\* bc_allocators_arena_copy_string of a string of len bytes.
CopyString(a, len) == Allocate(a, len + 1, 1)

Chunks(a) == ToSet(arenas[a].chunks)

\* bc_allocators_arena_reset, `left` being dirty when it is called.
ResetFrom(a, left) == LET cs == arenas[a].chunks IN
    /\ Release(Tail(cs), left)
    /\ arenas' = [arenas EXCEPT ![a].chunks = <<[Head(cs) EXCEPT !.used = 0]>>,
                                ![a].count = 0]
    /\ stats' = TrackReleased(stats, PagesIn(Tail(cs)))
    /\ held' = {x \in held : x.arena # a}

Reset(a) == ResetFrom(a, dirty)

\* A slip: only the first chunk is wiped.
ResetSecureFirst(a) == ResetFrom(a, dirty \ Wiped(Head(arenas[a].chunks)))
ResetSecure(a) ==
    ResetFrom(a, dirty \ UNION {Wiped(c) \cup Dropped(c) : c \in Chunks(a)})

\* bc_allocators_arena_release_pages, and what it leaves.
AfterReleasePages(a) == dirty \ UNION {Dropped(c) : c \in Chunks(a)}

ReleasePages(a) ==
    /\ dirty' = AfterReleasePages(a)
    /\ UNCHANGED <<arenas, cache, mapped, stats, held>>

\* bc_allocators_arena_destroy: the block of the arena itself goes last.
Destroy(a) ==
    LET cs == Append(Tail(arenas[a].chunks), Head(arenas[a].chunks)) IN
    /\ Release(cs, dirty)
    /\ arenas' = [b \in DOMAIN arenas \ {a} |-> arenas[b]]
    /\ stats' = TrackLive(TrackReleased(stats, PagesIn(cs)), -1)
    /\ held' = {x \in held : x.arena # a}

Next == \/ \E capacity \in Size : Create(capacity) \/ CreateFails(capacity, 0)
        \/ \E initial \in Size, max \in Limit : \/ CreateGrowable(initial, max)
                                               \/ CreateFails(initial, max)
        \/ \E a \in DOMAIN arenas :
              \/ \E size \in Size, alignment \in Alignment :
                    Allocate(a, size, alignment)
              \/ \E size \in Size \ {0} : CopyString(a, size - 1)
              \/ Reset(a) \/ ResetSecure(a) \/ ReleasePages(a)
              \/ Destroy(a)

Spec == Init /\ [][Next]_vars
===============================================================================
