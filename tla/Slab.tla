--------------------------------- MODULE Slab ---------------------------------
(***************************************************************************)
(* The slabs of one context, over a pool that hands out blocks, may refuse *)
(* at any time, and writes in the blocks that are given back to it.        *)
(*                                                                         *)
(* A slab is named by the block of its struct.  A page is a block with two *)
(* words, objects and next, in slots 0 and 1; the objects of a page are    *)
(* cut from a second block, slot i being the i-th.  Of the memory the      *)
(* model keeps one word at each address, as in FreeList: the free list of  *)
(* a slab is the chain of that module, behind a magazine of size zero.     *)
(***************************************************************************)
EXTENDS Integers, Sequences, SequencesExt, FiniteSets, FiniteSetsExt

CONSTANTS BLOCKS,     \* bound: blocks the pool has for slabs
          SLOTS,      \* words of a block the model keeps
          POINTER,    \* sizeof(void*)
          WRAP,       \* where size_t wraps
          Size,       \* object sizes asked for
          Count,      \* objects per page asked for
          Value,      \* what the program writes in an object
          NULL

ASSUME SlabAssumption ==
    /\ BLOCKS \in Nat /\ SLOTS \in Nat /\ SLOTS >= 2
    /\ POINTER \in Nat \ {0} /\ WRAP \in Nat \ {0}
    /\ Size \subseteq 0 .. WRAP-1 /\ Count \subseteq 0 .. WRAP-1
    /\ \A size \in Size, count \in Count :
          size >= POINTER /\ size * count < WRAP => count <= SLOTS

L == INSTANCE FreeList WITH MAG_SIZE <- 0

Block == 1 .. BLOCKS
Address == Block \X (0 .. SLOTS-1)

ASSUME NullAssumption == NULL \notin Block /\ NULL \notin Address

\* The pointer to a block.
At(b) == <<b, 0>>

VARIABLES pool,    \* the pool: the blocks taken from it, and the memory
          slabs,   \* the live slabs, [block -> slab]
          held     \* the program: the objects it holds, [slab, at]

vars == <<pool, slabs, held>>

\* The word of an address nobody has written since the pool had it.
Unknown == L!Number(0)

Init == /\ pool = [taken |-> {}, mem |-> [a \in Address |-> Unknown]]
        /\ slabs = <<>>
        /\ held = {}

-------------------------------------------------------------------------------
(* The pool. *)

\* The ways pool_allocate may return.  Blocks that are not taken are alike:
\* the first one stands for any.
PoolAllocate(p, size) ==
    {[pool |-> p, ptr |-> NULL]}
    \cup IF size = 0 \/ p.taken = Block THEN {}
         ELSE LET b == Min(Block \ p.taken) IN
              {[pool |-> [p EXCEPT !.taken = p.taken \cup {b}], ptr |-> b]}

\* A block given back holds nothing its former owner can rely on: the pool
\* may chain it, or hand it out again.
PoolFree(p, b) ==
    [taken |-> p.taken \ {b},
     mem   |-> [a \in Address |-> IF a[1] = b THEN Unknown ELSE p.mem[a]]]

-------------------------------------------------------------------------------
(* A new page. *)

\* The product is not checked.
ObjectBytes(slab) == (slab.objects_per_slab * slab.object_size) % WRAP

\* The objects of a page, in the order they are pushed.  Slips: one too many;
\* the first one is forgotten.
ObjectsAndOne(o, n) == [i \in 1 .. n+1 |-> <<o, i-1>>]
ObjectsButFirst(o, n) == [i \in 1 .. n-1 |-> <<o, i>>]
Objects(o, n) == [i \in 1 .. n |-> <<o, i-1>>]

\* A slip: the page is not counted.
CountedNot(slab_count) == slab_count
Counted(slab_count) == slab_count + 1

WithPage(slab, page, o) == LET bs == Objects(o, slab.objects_per_slab) IN
    [slab EXCEPT !.pages = At(page), !.slab_count = Counted(slab.slab_count),
                 !.list = L!PushAll(slab.list, bs),
                 !.chain = L!PushAllChain(slab.list, slab.chain, bs),
                 !.trail = Append(slab.trail, <<page, o>>)]

WithPageMem(mem, slab, page, o) ==
    L!PushAllMem(slab.list,
                 [mem EXCEPT ![<<page, 0>>] = L!Link(At(o)),
                             ![<<page, 1>>] = L!Link(slab.pages)],
                 Objects(o, slab.objects_per_slab))

\* The objects are refused: the page goes back.  A slip: it does not.
AfterRefusalKept(p, page) == p
AfterRefusal(p, page) == PoolFree(p, page)

\* allocate_new_page: the ways it may return.
NewPage(p, slab) == UNION {
    IF g.ptr = NULL THEN {[ok |-> FALSE, pool |-> p, slab |-> slab]}
    ELSE {IF o.ptr = NULL
          THEN [ok |-> FALSE, pool |-> AfterRefusal(o.pool, g.ptr), slab |-> slab]
          ELSE [ok |-> TRUE, slab |-> WithPage(slab, g.ptr, o.ptr),
                pool |-> [o.pool EXCEPT
                             !.mem = WithPageMem(@, slab, g.ptr, o.ptr)]] :
             o \in PoolAllocate(g.pool, ObjectBytes(slab))} :
    g \in PoolAllocate(p, 2 * POINTER)}

-------------------------------------------------------------------------------
(***************************************************************************)
(* The operations.  `chain` and `trail` are history, of the free list and  *)
(* of the list of pages: the code keeps no such sequences.                 *)
(***************************************************************************)
NewSlab(size, count) ==
    [object_size |-> size, objects_per_slab |-> count, list |-> L!EmptyList,
     pages |-> NULL, slab_count |-> 0, used_objects |-> 0,
     chain |-> <<>>, trail |-> <<>>]

\* A product that wraps, but not to zero, would have the slab write its links
\* behind a block too small: such a call is no step.
Faults(size, count) == size * count >= WRAP /\ (size * count) % WRAP # 0

Create(size, count) ==
    /\ size >= POINTER /\ count # 0 /\ ~Faults(size, count)
    /\ \E g \in PoolAllocate(pool, 7 * POINTER) :
          IF g.ptr = NULL THEN UNCHANGED vars
          ELSE \E n \in NewPage(g.pool, NewSlab(size, count)) :
               /\ pool' = IF n.ok THEN n.pool ELSE PoolFree(n.pool, g.ptr)
               /\ slabs' = IF ~n.ok THEN slabs ELSE
                     [s \in DOMAIN slabs \cup {g.ptr} |->
                         IF s = g.ptr THEN n.slab ELSE slabs[s]]
               /\ UNCHANGED held

CreateRefused(size, count) == /\ size < POINTER \/ count = 0
                              /\ UNCHANGED vars

\* What an allocation pops from.
Stocked(s) ==
    IF slabs[s].list.head = NULL THEN NewPage(pool, slabs[s])
    ELSE {[ok |-> TRUE, pool |-> pool, slab |-> slabs[s]]}

Allocate(s) == \E n \in Stocked(s) :
    /\ pool' = n.pool
    /\ IF ~n.ok THEN UNCHANGED <<slabs, held>> ELSE
       /\ held' = held \cup {[slab |-> s, at |-> L!Top(n.slab.list)]}
       /\ slabs' = [slabs EXCEPT ![s] =
              [n.slab EXCEPT !.list = L!Popped(n.slab.list, n.pool.mem),
                             !.chain = L!PoppedChain(n.slab.list, n.slab.chain),
                             !.used_objects = n.slab.used_objects + 1]]

Free(x) == LET slab == slabs[x.slab] IN
    /\ pool' = [pool EXCEPT !.mem = L!PushMem(slab.list, pool.mem, x.at)]
    /\ slabs' = [slabs EXCEPT ![x.slab] =
           [slab EXCEPT !.list = L!Push(slab.list, x.at),
                        !.chain = L!PushChain(slab.list, slab.chain, x.at),
                        !.used_objects = slab.used_objects - 1]]
    /\ held' = held \ {x}

Write(x, v) == /\ pool' = [pool EXCEPT !.mem[x.at] = L!Data(v)]
               /\ UNCHANGED <<slabs, held>>

\* One turn of the loop of bc_allocators_slab_destroy; w.page is its variable.
FreePage(w, turn) ==
    IF w.page = NULL THEN w
    ELSE LET page == w.page[1]
             objects == L!Target(w.pool.mem[<<page, 0>>])
         IN  [page |-> L!Target(w.pool.mem[<<page, 1>>]),
              pool |-> PoolFree(PoolFree(w.pool, objects[1]), page)]

Destroy(s) ==
    /\ pool' = PoolFree(FoldLeft(FreePage,
                                 [page |-> slabs[s].pages, pool |-> pool],
                                 [turn \in Block |-> turn]).pool, s)
    /\ slabs' = [b \in DOMAIN slabs \ {s} |-> slabs[b]]
    /\ held' = {x \in held : x.slab # s}

\* bc_allocators_slab_get_stats.
TotalObjects(slab) == slab.slab_count * slab.objects_per_slab
FreeObjects(slab) == TotalObjects(slab) - slab.used_objects

Next == \/ \E size \in Size, count \in Count : \/ Create(size, count)
                                               \/ CreateRefused(size, count)
        \/ \E s \in DOMAIN slabs : Allocate(s) \/ Destroy(s)
        \/ \E x \in held : Free(x) \/ \E v \in Value : Write(x, v)

Spec == Init /\ [][Next]_vars

-------------------------------------------------------------------------------
(* Properties *)

Word == {Unknown} \cup {L!Data(v) : v \in Value}
          \cup {L!Link(a) : a \in Address \cup {NULL}}

SlabType ==
    [object_size : Size, objects_per_slab : Count, list : L!List(Address),
     pages : Address \cup {NULL}, slab_count : Nat, used_objects : Nat,
     chain : Seq(Address), trail : Seq(Block \X Block)]

\* Type invariant: free lists lead into the blocks of objects, and
\* used_objects never goes below zero.
TypeOK == /\ pool.taken \subseteq Block /\ pool.mem \in [Address -> Word]
          /\ DOMAIN slabs \subseteq Block
          /\ \A s \in DOMAIN slabs : slabs[s] \in SlabType
          /\ held \subseteq [slab : DOMAIN slabs, at : Address]

HeldOf(s) == {x.at : x \in {y \in held : y.slab = s}}

ObjectsOf(s) == UNION {ToSet(Objects(t[2], slabs[s].objects_per_slab)) :
                          t \in ToSet(slabs[s].trail)}

\* Every object of every page of a slab is either in use or in its free list,
\* once, and the links that run through the free objects and the pages are
\* intact: no sequence of growths, frees and writes loses an object or puts
\* one in the list that somebody holds.
ObjectsAccounted == \A s \in DOMAIN slabs : LET slab == slabs[s] IN
    /\ L!IsList(slab.list, pool.mem, slab.chain)
    /\ ToSet(slab.chain) = ObjectsOf(s) \ HeldOf(s)
    /\ HeldOf(s) \subseteq ObjectsOf(s)
    /\ slab.pages = IF slab.trail = <<>> THEN NULL
                    ELSE At(Last(slab.trail)[1])
    /\ \A i \in DOMAIN slab.trail : LET page == slab.trail[i][1] IN
          /\ pool.mem[<<page, 0>>] = L!Link(At(slab.trail[i][2]))
          /\ pool.mem[<<page, 1>>]
               = L!Link(IF i = 1 THEN NULL ELSE At(slab.trail[i-1][1]))

\* The blocks taken from the pool are the structs of the live slabs, their
\* pages and the objects of these, each block for one purpose: a creation or a
\* growth that fails half-way gives back what it took, and a destruction
\* gives back everything.
BlocksOf(s) == {s} \cup UNION {{t[1], t[2]} : t \in ToSet(slabs[s].trail)}

BlocksOwned ==
    /\ pool.taken = UNION {BlocksOf(s) : s \in DOMAIN slabs}
    /\ Cardinality(pool.taken)
         = FoldSet(LAMBDA s, n : 1 + 2 * Len(slabs[s].trail) + n, 0, DOMAIN slabs)

\* The free objects a slab reports, which it computes and never counts, are
\* those an allocation can still return without a new page.
StatsExact ==
    \A s \in DOMAIN slabs : FreeObjects(slabs[s]) = Len(slabs[s].chain)

\* The slabs implement their contract.
Shown(word) == IF word \in {L!Data(v) : v \in Value} THEN word ELSE Unknown

Contract == INSTANCE SlabContract WITH
    Name <- Block, Datum <- {Shown(w) : w \in Word},
    used <- [s \in DOMAIN slabs |-> slabs[s].used_objects],
    live <- {[slab |-> x.slab, at |-> x.at, data |-> Shown(pool.mem[x.at])] :
                x \in held}

KeepsContract == Contract!Spec
===============================================================================
