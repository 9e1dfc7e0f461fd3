------------------------------ MODULE ChunkChain ------------------------------
(***************************************************************************)
(* The chains of chunks as they lie in memory, and the loops of reset,     *)
(* reset_secure and destroy that follow them while they give the blocks    *)
(* away, a statement a step.  Arena has a chain as a sequence; here it is  *)
(* what the next pointers say.                                             *)
(*                                                                         *)
(* An arena is named by its first block, which holds its header and that   *)
(* of its first chunk.  A block that is unmapped has no header to read; one *)
(* in the cache still has the header it had.  Sizes are any: Arena         *)
(* computes them.                                                          *)
(***************************************************************************)
EXTENDS Integers, Sequences, SequencesExt, FiniteSets

CONSTANTS Block,        \* what the kernel may map
          Size,         \* sizes of blocks
          CACHE_SIZE,   \* BC_ALLOCATORS_ARENA_CACHE_SIZE
          NULL

ASSUME ChainAssumption == NULL \notin Block /\ CACHE_SIZE \in Nat

VARIABLES mapped,    \* the kernel: [mapped block -> its size]
          header,    \* the memory: [mapped block -> its next and mmap_size]
          current,   \* [arena -> current_chunk]
          cache,     \* arena_cache, its first arena_cache_count entries
          walk,      \* the loop under way and its locals
          chain      \* history: [arena -> its chunks not yet given away]

vars == <<mapped, header, current, cache, walk, chain>>

\* Of a walk, `at` is the statement of the turn that comes next, 0 behind the
\* loop.
NotWalking == [op |-> "none", arena |-> NULL, at |-> 0,
               chunk |-> NULL, next |-> NULL, size |-> 0]

Init == /\ mapped = <<>> /\ header = <<>> /\ current = <<>>
        /\ cache = <<>> /\ walk = NotWalking /\ chain = <<>>

With(f, k, v) == [x \in DOMAIN f \cup {k} |-> IF x = k THEN v ELSE f[x]]
Drop(f, k) == [x \in DOMAIN f \ {k} |-> f[x]]

-------------------------------------------------------------------------------
(* Creation and growth. *)

\* bc_allocators_arena_map_block.
Cached(n) == {i \in DOMAIN cache : cache[i].size = n}
Without(i) == [j \in 1 .. Len(cache)-1 |-> IF j = i THEN Last(cache) ELSE cache[j]]

MapBlock(n) ==
    IF Cached(n) = {} THEN {[block |-> b, cache |-> cache] : b \in Block \ DOMAIN mapped}
    ELSE LET i == CHOOSE i \in Cached(n) : \A j \in Cached(n) : i <= j IN
         {[block |-> cache[i].block, cache |-> Without(i)]}

Fresh(n) == [next |-> NULL, size |-> n]

\* bc_allocators_arena_make_first.
Create(n) ==
    /\ walk = NotWalking
    /\ \E m \in MapBlock(n) :
         /\ mapped' = With(mapped, m.block, n)
         /\ header' = With(header, m.block, Fresh(n))
         /\ current' = With(current, m.block, m.block)
         /\ chain' = With(chain, m.block, <<m.block>>)
         /\ cache' = m.cache
    /\ UNCHANGED walk

\* bc_allocators_arena_grow.
Grow(a, n) ==
    /\ walk = NotWalking
    /\ \E m \in MapBlock(n) :
         /\ mapped' = With(mapped, m.block, n)
         /\ header' = [With(header, m.block, Fresh(n))
                          EXCEPT ![current[a]].next = m.block]
         /\ current' = [current EXCEPT ![a] = m.block]
         /\ chain' = [chain EXCEPT ![a] = Append(chain[a], m.block)]
         /\ cache' = m.cache
    /\ UNCHANGED walk

-------------------------------------------------------------------------------
(* The loop of bc_allocators_arena_reset and bc_allocators_arena_destroy. *)

\* The statements of a turn, in their order.  A slip: next is read when the
\* block is given away already.
TurnLate == <<"size", "release", "next">>
Turn == <<"next", "size", "release">>

Stands(w, b) == [w EXCEPT !.chunk = b, !.at = IF b = NULL THEN 0 ELSE 1]
Advanced(w) == IF w.at = Len(Turn) THEN Stands(w, w.next)
                                   ELSE [w EXCEPT !.at = w.at + 1]

\* chunk = first_chunk->next.
Walking(op, a) == Stands([NotWalking EXCEPT !.op = op, !.arena = a], header[a].next)

StartWalk(op, a) == /\ walk = NotWalking
                    /\ walk' = Walking(op, a)
                    /\ UNCHANGED <<mapped, header, current, cache, chain>>

InLoop == walk.op \in {"reset", "destroy"} /\ walk.at # 0

Reads == /\ InLoop
         /\ \/ /\ Turn[walk.at] = "next"
               /\ walk' = Advanced([walk EXCEPT !.next = header[walk.chunk].next])
            \/ /\ Turn[walk.at] = "size"
               /\ walk' = Advanced([walk EXCEPT !.size = header[walk.chunk].size])
         /\ UNCHANGED <<mapped, header, current, cache, chain>>

\* bc_allocators_arena_release_block.  A slip: the cache takes everything.
ReleaseKept(b, n) == /\ cache' = Append(cache, [block |-> b, size |-> n])
                     /\ UNCHANGED <<mapped, header>>
Release(b, n) ==
    IF Len(cache) < CACHE_SIZE
    THEN /\ cache' = Append(cache, [block |-> b, size |-> n])
         /\ UNCHANGED <<mapped, header>>
    ELSE /\ mapped' = Drop(mapped, b) /\ header' = Drop(header, b)
         /\ UNCHANGED cache

Releases == /\ InLoop /\ Turn[walk.at] = "release"
            /\ Release(walk.chunk, walk.size)
            /\ chain' = [chain EXCEPT ![walk.arena] = Remove(chain[walk.arena], walk.chunk)]
            /\ walk' = Advanced(walk)
            /\ UNCHANGED current

\* Behind the loop.  A slip: first_chunk->next keeps its value.
CutNot(a) == header
Cut(a) == [header EXCEPT ![a].next = NULL]

ResetEnds == /\ walk.op = "reset" /\ walk.at = 0
             /\ header' = Cut(walk.arena)
             /\ current' = [current EXCEPT ![walk.arena] = walk.arena]
             /\ walk' = NotWalking
             /\ UNCHANGED <<mapped, cache, chain>>

DestroyEnds == /\ walk.op = "destroy" /\ walk.at = 0
               /\ Release(walk.arena, header[walk.arena].size)
               /\ current' = Drop(current, walk.arena)
               /\ chain' = Drop(chain, walk.arena)
               /\ walk' = NotWalking

\* The loop of bc_allocators_arena_reset_secure before the reset it ends with.
StartWipe(a) == /\ walk = NotWalking
                /\ walk' = Stands([NotWalking EXCEPT !.op = "wipe", !.arena = a], a)
                /\ UNCHANGED <<mapped, header, current, cache, chain>>

Wipes == /\ walk.op = "wipe"
         /\ LET next == header[walk.chunk].next IN
            walk' = IF next = NULL THEN Walking("reset", walk.arena)
                                   ELSE Stands(walk, next)
         /\ UNCHANGED <<mapped, header, current, cache, chain>>

Next == \/ \E n \in Size : Create(n)
        \/ \E a \in DOMAIN chain :
              \/ \E n \in Size : Grow(a, n)
              \/ StartWalk("reset", a) \/ StartWalk("destroy", a) \/ StartWipe(a)
        \/ Reads \/ Releases \/ ResetEnds \/ DestroyEnds \/ Wipes

Spec == Init /\ [][Next]_vars

-------------------------------------------------------------------------------
(* Properties *)

\* Type invariant: each mapped block has a header, the cache fits its array, and
\* next, current and the loop name blocks or nothing.
TypeOK ==
    /\ DOMAIN mapped \subseteq Block /\ \A b \in DOMAIN mapped : mapped[b] \in Size
    /\ header \in [DOMAIN mapped -> [next : Block \cup {NULL}, size : Size]]
    /\ current \in [DOMAIN chain -> Block]
    /\ \A a \in DOMAIN chain : chain[a] \in Seq(DOMAIN mapped) \ {<<>>}
    /\ cache \in Seq([block : Block, size : Size]) /\ Len(cache) <= CACHE_SIZE
    /\ walk.op \in {"none", "reset", "destroy", "wipe"}
    /\ walk.op # "none" => walk.arena \in DOMAIN chain
    /\ walk.at \in 0 .. Len(Turn)

\* A loop over a chain reads, wipes and gives away blocks the arena still has
\* only, and the block of the arena itself never inside the loop: none is touched
\* that the kernel has back, that lies in the cache, or that is given away already.
WalkStaysInChain ==
    walk.at # 0 => /\ walk.chunk \in ToSet(chain[walk.arena])
                   /\ InLoop => walk.chunk # walk.arena

\* In memory, the next pointers lead from the first chunk of an arena through all
\* that it has, in order, to the current one and end there; while a loop gives
\* chunks away they do so from the second on.  Each mapped block is, at its true
\* size, one chunk of one arena or one entry of the cache: growth behind a reset
\* finds no chunk that was given away, and a chain that is destroyed loses none.
Whole(a) == walk.arena # a \/ walk.op = "wipe"

Leads(a) == LET s == chain[a] IN
    /\ s[1] = a
    /\ \A i \in DOMAIN s :
          /\ header[s[i]].size = mapped[s[i]]
          /\ i > 1 \/ Whole(a) =>
                header[s[i]].next = IF i = Len(s) THEN NULL ELSE s[i + 1]
    /\ Whole(a) => current[a] = Last(s)

ChainsConserved ==
    /\ \A a \in DOMAIN chain : Leads(a)
    /\ \A i \in DOMAIN cache : cache[i].size = mapped[cache[i].block]
    /\ DOMAIN mapped = UNION {ToSet(chain[a]) : a \in DOMAIN chain}
                         \cup {cache[i].block : i \in DOMAIN cache}
    /\ Cardinality(DOMAIN mapped)
         = Len(cache) + Cardinality(UNION {{a} \X DOMAIN chain[a] : a \in DOMAIN chain})
===============================================================================
