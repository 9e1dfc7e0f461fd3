------------------------------- MODULE Context --------------------------------
(***************************************************************************)
(* The life of a context around its arenas: creation, which maps three     *)
(* blocks one after the other, use, and destruction, which first tells the *)
(* program of what it leaked and then unmaps.  Contexts follow one another *)
(* in one process: what one leaks, the next one does not find.             *)
(*                                                                         *)
(* The pool is seen from outside: `out` is pool_alloc_count less           *)
(* pool_free_count, the number of blocks the program holds.                *)
(***************************************************************************)
EXTENDS ArenaProperties

CONSTANTS CONTEXT_SIZE,   \* sizeof(struct bc_allocators_context)
          DEFAULT_MAX,    \* BC_ALLOCATORS_DEFAULT_MAX
          MaxMemory,      \* values of max_pool_memory, 0 for the default
          POOL_BLOCKS     \* bound: blocks of the pool the program holds

ASSUME ContextAssumption ==
    /\ CONTEXT_SIZE \in Nat \ {0} /\ DEFAULT_MAX \in Nat \ {0}
    /\ MaxMemory \subseteq 0 .. WRAP-1 /\ POOL_BLOCKS \in Nat

VARIABLES phase,      \* where the context is in its life
          parts,      \* context, region and page_class: what is mapped of them
          sizes,      \* their sizes in pages, as computed
          callback,   \* whether there is a leak_callback
          told,       \* the leaks the callback was told of
          out,        \* the blocks of the pool the program holds
          late,       \* history: those of them taken while the callback runs
          lost,       \* history: the blocks of arenas that outlived a context
          remains     \* history: what allocations that ended in another way
                      \* than a reset_secure have left in memory

own == <<phase, parts, sizes, callback, told, out, late, lost>>
allVars == <<vars, own, remains>>

ContextInit == /\ Init
               /\ phase = "none" /\ parts = <<>> /\ sizes = <<>>
               /\ callback = FALSE /\ told = {} /\ out = 0 /\ late = 0
               /\ lost = {} /\ remains = {}

-------------------------------------------------------------------------------
(* Creation. *)

\* The sizes of the context, the region and the class of each of its pages.
Computed(max) ==
    LET region == PagesFor(IF max = 0 THEN DEFAULT_MAX ELSE max) IN
    <<PagesFor(CONTEXT_SIZE), region, PagesFor(region)>>

CreateContext(max, reports) ==
    /\ phase = "none"
    /\ IF Overflows(max) THEN UNCHANGED own
       ELSE /\ phase' = "mapping" /\ sizes' = Computed(max)
            /\ callback' = reports /\ told' = {}
            /\ UNCHANGED <<parts, out, late, lost>>
    /\ UNCHANGED <<vars, remains>>

MapPart ==
    /\ phase = "mapping"
    /\ LET n == sizes[Len(parts) + 1] IN
       \E m \in FromKernel(n) :
          /\ mapped' = m.mapped
          /\ parts' = Append(parts, [block |-> m.block, pages |-> n])
    /\ phase' = IF Len(parts') = 3 THEN "live" ELSE "mapping"
    /\ UNCHANGED <<arenas, cache, stats, dirty, held, sizes, callback, told, out,
                   late, lost, remains>>

\* munmap of the first pages of a mapping leaves the others mapped.
Unmap(m, c) == LET rest == m[c.block] - c.pages IN
    [b \in (DOMAIN m \ {c.block})
             \cup (IF rest > 0 THEN {c.block + c.pages} ELSE {}) |->
        IF rest > 0 /\ b = c.block + c.pages THEN rest ELSE m[b]]
UnmapAll(m, cs) == FoldLeft(Unmap, m, cs)

\* What a refused mapping makes the creation unmap, each at its size.  A slip:
\* the region is left behind.
UnwoundFirst(ps) == SelectSeq(ps, LAMBDA c : c = Head(ps))
Unwound(ps) == Reverse(ps)

\* The kernel refuses the next mapping.  A slip: nobody looks at the result.
MapPartFailsUnseen ==
    /\ phase = "mapping" /\ phase' = "live"
    /\ UNCHANGED <<vars, parts, sizes, callback, told, out, late, lost, remains>>
MapPartFails ==
    /\ phase = "mapping"
    /\ mapped' = UnmapAll(mapped, Unwound(parts))
    /\ phase' = "none" /\ parts' = <<>>
    /\ UNCHANGED <<arenas, cache, stats, dirty, held, sizes, callback, told, out,
                   late, lost, remains>>

-------------------------------------------------------------------------------
(* Use, by the program and by its callback, which is handed the context in  *)
(* full working order.                                                      *)

Reporting == phase \in {"pool_report", "arena_report"}

HeldBytes == UNION {Span(x.at, x.size) : x \in held}

\* What allocations leave behind when they end, in this step by a secure reset
\* or otherwise.
Leave(secure) ==
    remains' = ((IF secure THEN remains ELSE remains \cup HeldBytes) \cap dirty') \ HeldBytes'

UseArenas == /\ phase = "live" \/ Reporting
             /\ Next
             /\ Leave(\E a \in DOMAIN arenas : ResetSecure(a))
             /\ UNCHANGED own

PoolAllocated == /\ phase = "live" \/ Reporting
                 /\ out < POOL_BLOCKS /\ out' = out + 1
                 /\ late' = IF Reporting THEN late + 1 ELSE late
                 /\ UNCHANGED <<vars, phase, parts, sizes, callback, told, lost, remains>>

PoolFreed == /\ phase = "live" \/ Reporting
             /\ out > 0 /\ out' = out - 1
             /\ late' \in {late, late - 1} \cap 0 .. out'
             /\ UNCHANGED <<vars, phase, parts, sizes, callback, told, lost, remains>>

-------------------------------------------------------------------------------
(* Destruction. *)

\* What is unmapped: the cache, the classes of the pages, the region, and the
\* context itself.
TornDown == cache \o Reverse(parts)

\* The arenas the program did not destroy stay mapped, and are of no use.
Leaked == UNION {{[block |-> c.block, pages |-> c.pages] : c \in Chunks(a)} :
                    a \in DOMAIN arenas}

TearDown ==
    /\ mapped' = UnmapAll(mapped, TornDown)
    /\ dirty' = {x \in dirty : \E c \in Leaked \cup lost : x \in BytesOf(c)}
    /\ lost' = lost \cup Leaked
    /\ arenas' = <<>> /\ cache' = <<>> /\ held' = {}
    /\ Leave(FALSE)
    /\ stats' = [live |-> 0, arena |-> 0, total |-> 0, peak |-> 0]
    /\ phase' = "none" /\ parts' = <<>> /\ out' = 0 /\ late' = 0

Reports(leak) == TRACKING /\ callback /\ leak

\* The second test of the destruction, after what it told of the pool.  A
\* slip: it is made only when nothing was told of the pool.
ArenaLeaksOrPool(soFar) == Reports(stats.live # 0) /\ soFar = {}
ArenaLeaks(soFar) == Reports(stats.live # 0)

ReportArenas(soFar) ==
    IF ArenaLeaks(soFar)
    THEN /\ phase' = "arena_report" /\ told' = soFar \cup {"arena"}
         /\ UNCHANGED <<vars, parts, out, late, lost, remains>>
    ELSE TearDown /\ told' = soFar

DestroyContext ==
    /\ phase = "live"
    /\ IF Reports(out # 0)
       THEN /\ phase' = "pool_report" /\ told' = {"pool"}
            /\ UNCHANGED <<vars, parts, out, late, lost, remains>>
       ELSE ReportArenas({})
    /\ UNCHANGED <<sizes, callback>>

\* The callback returns.
PoolReported == /\ phase = "pool_report" /\ ReportArenas(told)
                /\ UNCHANGED <<sizes, callback>>
ArenaReported == /\ phase = "arena_report" /\ TearDown
                 /\ UNCHANGED <<sizes, callback, told>>

ContextNext ==
    \/ \E max \in MaxMemory, reports \in BOOLEAN : CreateContext(max, reports)
    \/ MapPart \/ MapPartFails
    \/ UseArenas \/ PoolAllocated \/ PoolFreed
    \/ DestroyContext \/ PoolReported \/ ArenaReported

ContextSpec == ContextInit /\ [][ContextNext]_allVars

-------------------------------------------------------------------------------
(* Properties *)

\* Type invariant: the parts mapped so far have the sizes computed for them.
ContextTypeOK ==
    /\ TypeOK
    /\ phase \in {"none", "mapping", "live", "pool_report", "arena_report"}
    /\ callback \in BOOLEAN /\ told \subseteq {"pool", "arena"}
    /\ out \in 0 .. POOL_BLOCKS /\ late \in 0 .. out
    /\ lost \subseteq Block /\ remains \subseteq dirty
    /\ parts \in Seq(Block) /\ sizes \in Seq(Nat)
    /\ phase # "mapping" => Len(parts) \in {0, 3}
    /\ \A i \in DOMAIN parts : parts[i].pages = sizes[i]

\* Every mapping of the process is a part of the context, a chunk of a live
\* arena, an entry of the cache, or a chunk of an arena the program leaked, one
\* of these only, and at its full size: a creation that fails half-way and a
\* destruction with arenas alive or blocks in the cache unmap exactly what is
\* the context's, and a refused mapping leaves nothing.
Blocks == ToSet(parts) \cup ToSet(cache) \cup Leaked \cup lost

OnlyOwnedMapped ==
    /\ mapped = [b \in {c.block : c \in Blocks} |->
                    (CHOOSE c \in Blocks : c.block = b).pages]
    /\ Cardinality(DOMAIN mapped)
         = Len(parts) + Len(cache) + Cardinality(lost)
             + FoldSet(LAMBDA a, n : Len(arenas[a].chunks) + n, 0, DOMAIN arenas)

\* When a context with a callback is gone, the program was told of every kind
\* of thing it leaked, both kinds when it leaked both, whatever it did while it
\* was told of the first.  Of the pool this is said of the blocks that were
\* taken before: the count is read once, before the callback first runs.
LeaksTold ==
    [][(Reporting \/ phase = "live") /\ phase' = "none" /\ TRACKING /\ callback
       => /\ out > late => "pool" \in told'
          /\ DOMAIN arenas # {} => "arena" \in told']_allVars

\* A byte that still holds what the program wrote belongs to an allocation in
\* use, or to one that ended in another way than by a reset_secure, and was not
\* allocated since: wherever the blocks of a securely reset arena went, to the
\* cache, to other arenas, or with a leaked arena beyond the context, nothing of
\* what was allocated in it is there.
SecureResetsWipe == dirty \subseteq HeldBytes \cup remains
===============================================================================
