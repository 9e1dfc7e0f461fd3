# bc-allocators in TLA+

A specification of the memory allocators of bc-allocators, checked with TLC and
proved with TLAPS. Paths are relative to the
repository; `pool.c` is `src/pool/bc_allocators_pool.c`, `arena.c` is
`src/arena/bc_allocators_arena.c`, and so on.

## The system

| component | state | operations | interacts with |
|---|---|---|---|
| context (`context.c`) | page size, region, page-class table, free lists, cache of blocks, counters | create, destroy, queries, statistics | owns what pool and arenas share; maps and unmaps through the platform |
| pool (`pool.c`) | `region.bump`, `region.page_class`, `pools[19]`, `large_pool`, the headers of large blocks, three counters | allocate, reallocate, free | called by the program, the slab and the typed array |
| arena (`arena.c`) | a chain of chunks per arena; `arena_cache` and the mapping counters in the context | create, create_growable, allocate, copy_string, reset, reset_secure, release_pages, destroy, get_stats | maps and unmaps; arenas of one context share its cache |
| slab (`slab.c`) | pages of objects, an intrusive free list, two counters | create, allocate, free, destroy, get_stats | pool |
| typed array (`typed_array.h`) | data, length, capacity | reserve, push, append_bulk, clear, destroy | pool |
| platform (`platform_linux.c`) | none | map, unmap, advise, page and cache line size | kernel |
| aligned and huge-page helpers (`context.h`) | none | allocate, free | libc, kernel |

bc-core (checked arithmetic, copy, fill, leading zeros) is an external library.

Nothing in the library waits, and nothing calls back but the leak callback of the
destruction of a context. What is hard is sequential and long: a block changes
its owner many times, its first word is in turn data, a link and a header, and a
mistake shows many calls later. The exceptions are the failures of the kernel,
which may come at any map, and threads that share a context.

What makes each component correct:

* **pool**: no block is in two places (held twice, held and free, free in two
  lists) and none is lost; no call writes a block in use; the class tagged on a
  page stays; a small request fails only when nothing is left; a reallocation
  keeps the contents or changes nothing; the counters agree with what is held.
* **arena**: every mapping is one chunk of one arena or one cache entry;
  allocations are disjoint, aligned and inside a chunk; growing suffices for the
  request that caused it; the counters agree with the chains.
* **context**: a failed creation leaves nothing mapped, a destruction unmaps all
  that is the context's; every kind of leak is told; a secure reset leaves nothing
  of what it ends anywhere in memory.
* **slab**, **typed array**: a failed growth changes nothing; no arithmetic
  wraps; counters agree with what is held.

## Modules

| module | models | role |
|---|---|---|
| `FreeSet` | - | abstract: a set of free blocks |
| `FreeList` | `free_list_push`, `free_list_pop`, the loop of `bump_allocate_class` | operators, no state |
| `FreeListSpec` | one free list, what the pool carves into it and the program that uses it | implements `FreeSet` |
| `PoolContract` | - | abstract: malloc, realloc, free over a range of bytes |
| `Pool`, `PoolProperties` | `pool.c` | implements `PoolContract` |
| `ArenaContract` | - | abstract: allocations that end with their arena |
| `Arena`, `ArenaProperties` | `arena.c`, the kernel | implements `ArenaContract` |
| `ChunkChain` | creation, growth, reset, reset_secure and destroy of `arena.c`, as far as they touch `next`, `mmap_size`, `current_chunk` and the cache | the chains as pointers in memory, a statement of a loop at a time |
| `ArenaThreads` | `map_block` and `release_block`, one access at a time | threads |
| `Context` | `context.c`, the kernel, around `Arena` | composes creation and destruction with the arenas |
| `SlabContract` | - | abstract: objects in use, and how many |
| `Slab` | `slab.c`, over an abstract pool, with the list of `FreeList` | implements `SlabContract` |
| `ArrayContract` | - | abstract: a sequence |
| `TypedArray` | `typed_array.h`, over an abstract pool | implements `ArrayContract` |
| `MCFreeList`, `MCPool`, `MCArena`, `MCTypedArray` | - | instances for TLC |
| `FreeListTheorems` | - | lemmas about the operators of `FreeList` |
| `SumTheorems` | - | lemmas about sums over finite sets: induction, counting a union, the extremes of a set, recursion on numbers |
| `FreeListProofs`, `PoolProofs`, `ContextProofs`, `SlabProofs`, `TypedArrayProofs`, `ArenaThreadsProofs` | - | the theorems; `ContextProofs` has those of `Arena` and of `Context` |

Definitions whose comment calls them a slip are no part of the model: each is a
definition with a mistake the code could have made, and shows that a property
notices it.

### Pool

The region is a row of pages. An address is `<<page, slot>>`: the slot-th block
of a page of a size class; in a large block slot 0 is the header and slot 1 the
first byte of the user. Of the memory the model keeps the first word at each
address, since that is the word that several owners share: the links of a
chain, `user_size` of a large block (the first field of its header) and the data
of the program. A word says who wrote it, and only a link is followed. The
second field of the header, `total_size`, is kept apart: a link never reaches
it. `heap` is one record, so that an operation is a function from heaps to
heaps, composed as the calls of the code are: `allocate_large` is `PopFrom`,
`PutBack`, `NewLarge`; `pool_reallocate` is `PoolAllocate`, then `Move`.

The chain of a free list is in memory; `chains` records the same blocks as a
sequence. The code keeps no such sequence and no operation reads it: it is the
witness by which `IsList` says that the links in memory form a list. `held` and
`content` belong to the program: what it asked for at each pointer, and the word
it expects there.

The classes are powers of two from `2^SHIFT` on, and the class of a size is
computed as the code does, from the leading zeros of the size less one.

Sizes are counted in bytes and pages. `bump_raw` adds before it compares: the
sum is taken modulo `WRAP_PAGES`, and the page tags of a block past the wrap go
where the code puts them. A call whose tags or header would lie outside the
region kills the process; it is no step (`Faults`).

The program is well-behaved: it frees, reallocates and writes only pointers it
holds. Its word-sized data stands for the contents of a block: the word copied in
`Move` stands for the bytes copied.

### Arena

A block is named by its first page, an arena by its first block (its header lies
there). The kernel maps any free run of pages, or refuses. `arena_cache` is the
sequence of its first `arena_cache_count` entries; `Without` is the removal by
overwriting with the last entry. The chunks of an arena are a sequence: the code
links a chunk only behind the current one, and cuts the chain only behind the
first. `ChunkChain`, below, has them as the code does. Addresses are absolute, for
alignments larger than a page. `dirty` is the set of bytes that still hold what the program wrote, in use or not; it is
followed only in the runs that need it (`CONTENT`). Failing calls are steps that
change nothing, except for `Grow` when size plus alignment wrapped: the chunk
mapped for nothing stays.

### Chains in memory

`ChunkChain` has what `Arena` abstracts from: the chain is what the `next` pointers
say, `header` is the memory they lie in, and a block that is unmapped has none. The
loops of reset and destroy are followed a statement at a time (`Turn`, in the order of
the code: next is read, then the size, then the block is given away), so that a read
behind the release, a first chunk that is not cut off, or an arena that goes on
pointing to a chunk it gave away would be seen. During such a loop the first chunk and
the arena do point to blocks that are gone, which is why `ChainsConserved` says what
it says of a chain from the second chunk on until the loop ends. `chain` is history,
the witness by which the pointers are said to form a list. Sizes are any and nothing is
allocated in the chunks: that is the matter of `Arena`.

### Context

`Context` puts a life around `Arena`: a context is created, one mapping a step,
each of which the kernel may refuse; it is used; and it is destroyed. `parts` are
the mappings of the context itself, in the order they were made. The leak
callback is a call into the program, so the destruction stops there: in the
phases `pool_report` and `arena_report` the program may do with the context whatever it
may do before, create arenas and take blocks too, and the test for leaked arenas comes
after the first report. (To destroy the context once more from within would be a
misuse.) `late` counts the blocks it takes then: the count of the pool is read once,
before, so that these may go untold. The pool is seen from outside, by the number of
blocks the program holds: the pool takes its memory from the region and maps nothing.
Contexts follow one another, so that what one leaves behind (`lost`) is there for
the next. `remains` is history as well: the bytes in which something is left of
allocations that ended in another way than by a `reset_secure`. Such bytes there are: a
plain reset wipes nothing, and what it leaves in the first chunk survives a later
`reset_secure`, which wipes up to `used` only, and that was set to zero. The counters
that `create` sets to zero are set back by `TearDown`.

### Slab

The pool is abstract: it hands out a block or refuses, and a block given back
holds nothing any more, since the pool may chain it. That makes the order of the
destruction visible: next and objects are read from a page that still exists.
The blocks of the pool that are not taken are alike, so the first one stands for
any. The free list is the operators of `FreeList` with a magazine of size zero:
the intrusive list of `free_list_internal.h`. As in the pool, `chain` and `trail`
are history by which the links are said to form lists.

### Typed array

A block is a sequence of elements, as long as the bytes asked for allow. The pool
may refuse, extend in place or move. All calls are one step but the `append_bulk`
that has to grow: its loop is followed turn by turn, because its end is in
question. `length`, `capacity` and the doubling wrap at `WRAP`.

### Threads

`ArenaThreads` runs the two functions that touch `arena_cache`, one access to an
entry or to the count per step, for threads that each use arenas of their own. All
arenas have one size, so that the two stores of an entry (`arena.c:43`, `arena.c:44`)
are one step. The interleavings are sequentially consistent. Both makes them fewer than
the data race permits: what is violated here is violated in the program.

## Runs

| run | question | result |
|---|---|---|
| `free_list` | does one list lose or double a block, pushed, carved or popped: 5 blocks and a magazine of 2; `FreeSet` | holds |
| `pool_mixed` | classes of 2 blocks a page and of 1, and large blocks, over 2 pages: carving until nothing is left, moves between the classes, program writes, `PoolContract`; statistics off | holds |
| `pool_large` | large blocks of 3 and 4 pages beside a class of 2 pages per block, over 8: reuse, put back, resize in place, moves between small and large, `PoolContract`, counters modulo 7 | holds |
| `pool_wrap` | a request close to the top of `size_t` | violated |
| `arena_grow` | arenas of both kinds over 4 pages, with up to three grown chunks, a cache of 2, alignments beyond a page, a request for which size plus alignment wraps; `ArenaContract` | holds |
| `chunk_chain` | chains of up to 5 chunks of 2 sizes as pointers in memory, a cache of 2, the loops a statement at a time | holds |
| `arena_release` | does `release_pages` release | violated |
| `context` | contexts one after the other over 5 pages, with refused mappings, leaks and a callback that may call anything; what `reset_secure` leaves behind | holds |
| `arena_threads_locked` | two threads, a lock of the context around each operation | holds |
| `arena_threads` | two threads with arenas of their own, no lock | violated |
| `slab` | slabs of 1 or 2 objects a page over 6 blocks, a pool that refuses; `SlabContract` | holds |
| `typed_array` | an array of up to 8 elements, size_t of 5 bits; `ArrayContract`, and that `append_bulk` returns | holds |

Bounds. Pages have four units and headers one or two, so that every remainder of a
page occurs. A magazine of two against five blocks, or of one against the four of
`pool_mixed`, makes every push and pop cross from magazine to chain and back. A page cut
into more blocks than the magazine holds is in `free_list`, whose `DoCarve` pushes up to
five at once. Two classes suffice for a block to change
class, one with several blocks in a page and one with a page per block. Two large
sizes that differ in pages suffice for a free block to fit, to be too small, and
to be larger than needed, and for a block to shrink and grow in place. Five
pages leave two beside the smallest context: two arenas, an arena that grows, or
one and a cached block; the headers of that run are such that a grown chunk fits a
page. A request of 8 in `pool_mixed` fills the region to the byte, and its header pushes it
past the end; its smallest large block takes both pages, so that small and large blocks
coexist, and move to one another, only in `pool_large`, where a small block, a free one and
a large one have room together and a request of 12 needs one more page for its header.
Six blocks are two slabs of a page, or one slab of two. Eight elements are
three doublings from a first capacity of two. The state spaces close by themselves:
the region, the address space and the sizes are finite. The one counter that does
not is counted modulo `COUNTER`, which divides no size that is charged. Five blocks of
two sizes let one arena have four grown chunks, or two arenas have two and one, with
more blocks to give away than the cache has room for. No symmetry is used but that of
the blocks in `free_list`.

Fairness and liveness. Every operation of the library is a sequence of its own
steps that waits for nothing, and all but one are loops over something finite. The
exception is the loop of `append_bulk`, which doubles a capacity until it
suffices. `TypedArray` assumes weak fairness of its turns and of what follows it:
a call that was made runs on. It returns (`AppendReturns`) when the elements asked
for are at most half of what `size_t` counts; beyond, the doubling reaches zero and
never ends. No program can reach that with elements that exist in memory, so it is a
condition of the property, not a finding. Nothing is assumed of the program.

## Where code and documents disagree

* `pool_wrap`: `bump_raw` (`pool.c:74`) compares a sum that may have wrapped.
  Once something is allocated, a request close to the top of `size_t` succeeds,
  moves `bump` back into blocks in use, and the next allocation overlaps them.
* `arena_threads`: arenas that are each used by one thread share the cache of
  their context, so external synchronization has to cover the context.
* `arena_release`: `memory_start` lies behind the headers, never at a page;
  `madvise` refuses the range and `release_pages` reports success. The same holds
  for the `madvise` in `reset_secure`. What is in use then it has wiped by hand; what
  an earlier plain reset left behind `used` it would have dropped, and stays.

## Proofs

All proofs are for every value of the constants that satisfies the named
assumptions. What those say that is more than a type is said here, with each part.
Every safety property a passing run checks is proved, the pool's under `NoWrap`, but
those of `ChunkChain`.

`FreeListTheorems` has the lemmas about the operators: `PushIsList`, `PopIsList`,
`PushAllIsList` (an operation on an intact list leaves an intact list, with
exactly the block added or removed, and writes no other word), `ListFrame` (a
write outside the chain leaves a list intact), and `PushAllOneMore` (the closed form
of the carving loop takes a block more as a push does).

`SumTheorems` has what the recursions need. The statistics are sums over sets and the
loops are folds, that is, recursive functions on the subsets of a finite set. The
theorems of induction of the library take an operator, which no prover here can
instantiate; so a claim is made of a set (the numbers, or the subsets, for which it
holds), and the induction is the minimal element of a well-founded relation
(`NatSet`, `FiniteSet`). With these a recursion has a solution (`SumExists`,
`NatRecursion`), a sum does not depend on the order in which a fold takes its elements
(`SumTake`), changes with one number (`SumReplace`), and counts a union of disjoint
sets (`UnionCount`).

`FreeListProofs` proves, of `FreeListSpec`, `TypeCorrect`, `NothingIsLost`
and `ImplementsFreeSet`, for finitely many blocks, as the batches of `DoCarve` are
sequences. `NothingLost` with the types is inductive:
that the links form a list, without a block twice and without a block the program
holds, is what a pop needs in order to return a free block, and a write in order to
hit no link. The lemma `RepeatedPush` says nothing of the code, but of the model: the
closed form of the loop of `bump_allocate_class`, by which the pool is modelled, is the
loop.

### The pool

`PoolProofs` proves `TypeCorrect`, `ListsStayIntact`, `ContentIsKept`,
`LargeSizesAreKept`, `RegionIsAccounted`, `SmallFailsWhenFull`, `ClassesAreFixed`,
`StatisticsStayExact` and the refinement, `ImplementsContract`. Each has the
hypothesis `NoWrap`: no size passes the checked additions of `allocate_large` and
still wraps the sum of `bump_raw`. Without it none of them holds, as the run
`pool_wrap` shows; the runs `pool_mixed` and `pool_large` satisfy it.
`SizeAssumption` states what the proofs use of the class computed from leading
zeros, that it is large enough; powers of two are beyond the prover, and TLC
evaluates the assumption in every run.

None of the invariants is inductive alone. A pop returns a block in use as soon as
some list is not intact, an intact list is destroyed by a write through a pointer
whose block is free, and a large block goes to the list of the wrong class if a page
lost its tag. `IInv` is therefore

* `Owned`: the lists are intact, hold blocks of their class and none in use
  (`Sound`); every pointer in use is on a page of the class of its size and finds
  its content there; a large one has its header in front of it, with its size and
  with pages enough;
* `Tiled` and `Headed`: the blocks, held and free, tile the pages up to `bump`, and
  exactly those pages are tagged, so that what `bump` hands out is nobody's.

The operations are functions on heaps, composed as the calls of the code are. The
lemmas follow them: what `PopFrom`, `bump_raw`, `bump_allocate_class`,
`allocate_large` and the frees leave (`Taken`, `LargeTaken`, `Regrown`, `HandedOut`,
`Declined`), then `PoolAllocate`, then `PoolReallocate`. `SInv` adds `Tally`: the
counters differ from the number and the sizes of the blocks in use by a multiple of
`COUNTER`, however often they wrapped. For the contract a pointer is the byte where
it lies (`Byte`): that the blocks in use are disjoint ranges of the region is
`Tiled`.

### Arenas and contexts

`ContextProofs` proves of the arenas `TypeCorrect`, `BlocksAreConserved`,
`AllocationsLieInChunks`, `StatisticsAreExact`, `GrowthServes` and
`ImplementsContract`, and of a context around them `ContextTypeCorrect`,
`LeaksAreTold`, `NothingOutlastsSecureReset` and `MappingsAreOwned`.

The invariant of the arenas, `FullInv`, is

* `Struct`: mappings lie apart (`Kernel`), and each is one chunk, one entry of the
  cache, or in a set `L` of blocks that neither names (`Ledger`). `L` is what makes
  the lemmas fit more than one place: a block between its removal from the cache and
  its chunk, the blocks of an arena that is being taken down, and in a context the
  mappings that are not of arenas;
* `Program`: every allocation lies in the used part of a chunk of its arena, and the
  arena counts them. It is needed for the contract, since a reset gives all of them
  up at once;
* `Counted`: the counters are the sums over the chains.

`GrowthServes` is about the request that caused the growth. It rests on `AlignUp`
adding less than the alignment, and on the guard of the code against sums that wrap.

`CInv` is the same with `L` the parts of the context and what earlier contexts lost
(`Memory`), with what each phase of a life promises (`Life`) and with what the callback
was told while it runs (`Telling`), and with where something of what the program wrote
may be (`Wiping`). For that, only an allocation makes a byte dirty, one in use
(`NextDirties`), and a secure reset wipes all it ends, since that lies in the used part
of some chunk of the arena (`ResetSecureWipes`, from `Program`). The loops that unmap the cache and the parts are
folds: `UnmapAllIs` says that they leave exactly the other mappings.

### Slabs

`SlabProofs` proves `TypeCorrect`, `ObjectsAreAccounted`, `BlocksAreOwned`,
`StatisticsAreExact` and `ImplementsContract`. The lemmas about lists are those of
`FreeListTheorems` with a magazine of size zero. `IInv` says that every slab is
`Sound` and that no block is for two purposes, of one slab or of two. In a sound slab
the words of the pages lead from the last page to the first and to their objects
(`Linked`), the links of the free objects form a list (`Chained`) of just the objects
the program does not hold, and the two counters agree with them (`Counts`). That is
what the destruction needs: it reads next and objects from a page and then gives both
blocks back, whose words are worth nothing from then on. `WalkStep` says that a turn
of its loop stands one page further from the end, `DestroyIs` that the loop reaches
the first page with all blocks given back. `CountFits` takes from `Faults` and
`SlabAssumption` that the objects of a page fit its block. `NullAssumption` says that
NULL is the address of no object.

### The typed array

`TypedArrayProofs` proves `TypeCorrect`, `StaysInBlock`, `OwnsItsBlock`,
`GrowthIsAmortized` and, of its refinement, `ImplementsSequence`. The invariants are not
inductive as they stand; `Inv` adds what the code relies on without a test. The
capacity in bytes is at most `MEMORY`, because the pool allocated it, and
`ArrayAssumption` says that no pool allocates half of what `size_t` counts in
elements: so the doubling in `push` cannot wrap. And an `append_bulk` in its loop
asks for a sum that did not wrap, more than the capacity (`Pending`, from
`SumExact`): so a capacity the loop ends with holds what is stored, even when the
loop passed through a doubling that wrapped. `ReservedFits` and `StoreFits` say what
the two functions that every growth is made of leave behind, of the block and of the
elements; each action is one or both of them. `GrowthIsAmortized` adds `Rising`: the
first doubling of that loop does not wrap, so when a later one does, the sum asked for
is more than twice the capacity, and the loop does not end below it.

### Threads

`ArenaThreadsProofs` proves, of `ArenaThreads` with `LOCKED`, `LockedTypes`,
`LockedExclusive` and `LockedConserved`: for any threads, blocks and cache, the lock
of the context is enough. `Inv` says that the lock is held by whoever is inside an
operation, and gives for each line what the memory is then (`At`): between the move
of the last entry and the new count, that entry is there twice and counts once; from
the store of an entry to the new count, it counts as the block in transit. `Kept` is
what all lines share, and the lemmas `TakeOut` to `CountIt` are the ways a block moves.
The argument needs the other threads to be idle, and without the lock the run
`arena_threads` shows why.

### Only model-checked

`AppendReturns`, which is liveness: the prover does not reach it. The properties of
`ChunkChain`. And the three violations.

## Not modelled

* The aligned and huge-page helpers: they have no state. Reading them shows one
  thing the models do not: `huge_page_free` (`context.h:117`) unmaps with the size
  asked for, which `munmap` refuses on a mapping of huge pages unless the size is a
  multiple of a huge page; the result is dropped and the mapping stays.
* The queries (`page_size`, `cache_line_size`, `context_get_stats`) and
  `compute_alloc_size`, which change no state. Advice about transparent huge pages.
* The alignment of the objects of a slab: `slab.h:25` promises the next power of
  two of their size, but they lie `object_size` apart.
* Misuse: double frees, pointers of others, `append_bulk` from the array itself,
  and a slab whose page size in bytes wraps (`Faults`).
* bc-core, except for what its functions return; tests, benchmarks and fuzzers.

## Plan

1. `Slab` over `Pool` itself in place of the abstract pool, and what a pool and its
   slabs promise together.
2. `AppendReturns` has a safety part, that the loop of `append_bulk` gets closer to its
   end with every turn: as an action property it could be proved.
3. `ChainsConserved` is meant to be inductive: it says where every pointer leads at each
   statement of a loop. A proof would make the sequence of `Arena` and the pointers of
   `ChunkChain` one thing for every number of chunks.
