--------------------------- MODULE ArenaProperties ----------------------------
(***************************************************************************)
(* What makes the arenas correct.                                          *)
(***************************************************************************)
EXTENDS Arena

Block == [block : Page, pages : Page]

ChunkType == [block : Page, pages : Page, used : Nat,
              header : {CHUNK_HEADER, ARENA_HEADER + CHUNK_HEADER}]

ArenaType == [chunks : Seq(ChunkType) \ {<<>>}, max : Nat,
              growable : BOOLEAN, count : Nat]

\* Type invariant: every arena has a chunk, the cache fits its array, and the
\* counters never go below zero.
TypeOK ==
    /\ DOMAIN arenas \subseteq Page
    /\ \A a \in DOMAIN arenas : arenas[a] \in ArenaType
    /\ cache \in Seq(Block) /\ Len(cache) <= CACHE_SIZE
    /\ DOMAIN mapped \subseteq Page
    /\ \A b \in DOMAIN mapped : mapped[b] \in Page
    /\ dirty \subseteq PAGE_SIZE .. (SPACE + 1) * PAGE_SIZE - 1
    /\ stats \in [live : Nat, arena : Nat, total : Nat, peak : Nat]

\* Every mapping of the kernel is one chunk of one arena, or one entry of the
\* cache, at its full size: growth, reset, destruction and reuse from the
\* cache neither leak a block nor give it to two arenas, and what is unmapped
\* is no longer named anywhere.
Owner == (UNION {{a} \X DOMAIN arenas[a].chunks : a \in DOMAIN arenas})
         \cup {0} \X DOMAIN cache

Owned(o) == IF o[1] = 0 THEN cache[o[2]] ELSE arenas[o[1]].chunks[o[2]]

BlocksConserved ==
    /\ \A o \in Owner : /\ Owned(o).block \in DOMAIN mapped
                        /\ Owned(o).pages = mapped[Owned(o).block]
    /\ \A o, p \in Owner : Owned(o).block = Owned(p).block => o = p
    /\ \A b \in DOMAIN mapped : \E o \in Owner : Owned(o).block = b
    /\ \A a \in DOMAIN arenas : arenas[a].chunks[1].block = a

\* Every allocation in use lies in the used part of a chunk of its own arena,
\* behind the headers, at the alignment asked for; allocation_count counts
\* them.
HeldInChunks ==
    /\ \A x \in held :
         /\ x.at % x.alignment = 0
         /\ \E i \in DOMAIN arenas[x.arena].chunks :
               LET c == arenas[x.arena].chunks[i] IN
               /\ MemoryStart(c) <= x.at
               /\ x.at + x.size <= MemoryStart(c) + c.used
               /\ c.used <= Capacity(c)
    /\ \A a \in DOMAIN arenas :
         arenas[a].count = Cardinality({x \in held : x.arena = a})

\* The counters of the context agree with what the arenas report: the active
\* arenas, the bytes they reserve (total_reserved of get_stats), and a peak
\* that no moment exceeded.
Reserved == FoldFunctionOnSet(LAMBDA arena, n : PagesIn(arena.chunks) + n,
                              0, arenas, DOMAIN arenas)

StatsExact == TRACKING =>
    /\ stats.live = Cardinality(DOMAIN arenas)
    /\ stats.arena = Reserved /\ stats.total = Reserved
    /\ stats.peak >= Reserved

\* A chunk mapped for an allocation holds it: an allocation that grew its
\* arena does not fail, whatever the alignment and wherever the chunk landed,
\* as long as size plus alignment does not wrap.
GrownChunkFits ==
    [][\A a \in DOMAIN arenas \cap DOMAIN arenas' :
          (/\ Len(arenas'[a].chunks) > Len(arenas[a].chunks)
           /\ arenas'[a].count = arenas[a].count)
          => \A size \in Size, alignment \in Alignment \cup {1} :
                Grow(a, size, alignment) => size + alignment >= WRAP]_vars

\* The arenas implement their contract.
Contract == INSTANCE ArenaContract WITH
    Name <- Page, Byte <- PAGE_SIZE .. (SPACE + 1) * PAGE_SIZE - 1,
    Size <- Size, Alignment <- (Alignment \cup {1}) \ {0},
    open <- DOMAIN arenas, live <- held

KeepsContract == Contract!Spec

-------------------------------------------------------------------------------
(* What the documentation says, and the code does not do. *)

\* CHANGELOG.md lists a "page-release" of arenas: whenever release_pages is
\* called, the pages that only the memory of the arena covers are given back.
WholePages(c) ==
    {i \in BytesOf(c) : (i \div PAGE_SIZE) * PAGE_SIZE >= MemoryStart(c)}

ReleasePagesReleases ==
    \A a \in DOMAIN arenas : \A c \in Chunks(a) :
        WholePages(c) \cap AfterReleasePages(a) = {}
===============================================================================
