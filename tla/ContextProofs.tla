---------------------------- MODULE ContextProofs -----------------------------
(***************************************************************************)
(* Proofs about the arenas of a context, for every page size, every size   *)
(* of the headers and of the cache, every address space and every set of   *)
(* sizes and alignments; and about the life of the context around them,    *)
(* for every size of it and whatever its arenas are used for.              *)
(***************************************************************************)
EXTENDS Context, SumTheorems, SequenceTheorems

-------------------------------------------------------------------------------
(***************************************************************************)
(* The arenas.                                                             *)
(***************************************************************************)
(* Arithmetic. *)

\* Products of natural numbers are monotone.
LEMMA MulMono ==
    ASSUME NEW x \in Nat, NEW y \in Nat, NEW z \in Nat, x <= y
    PROVE  x * z <= y * z /\ x * z \in Nat /\ y * z \in Nat
  OBVIOUS

\* Distribution.
LEMMA MulAdd ==
    ASSUME NEW x \in Nat, NEW y \in Nat, NEW z \in Nat
    PROVE  (x + y) * z = x * z + y * z
  OBVIOUS

\* Rounding up: the next multiple of a.
LEMMA AlignUpFacts ==
    ASSUME NEW x \in Nat, NEW a \in Nat \ {0}
    PROVE  /\ AlignUp(x, a) \in Nat /\ x <= AlignUp(x, a) /\ AlignUp(x, a) < x + a
           /\ AlignUp(x, a) % a = 0
<1> DEFINE q == (x + a - 1) \div a
<1>1. q \in Nat
  OBVIOUS
<1>2. x <= q * a
  OBVIOUS
<1>3. q * a < x + a
  OBVIOUS
<1> HIDE DEF q
<1>4. (q * a) % a = 0 /\ q * a \in Nat
  BY <1>1
<1>5. AlignUp(x, a) = q * a
  BY DEF AlignUp, q
<1> QED
  BY <1>2, <1>3, <1>4, <1>5

\* The pages for n bytes hold them.
LEMMA PagesForFacts ==
    ASSUME NEW n \in Nat \ {0}
    PROVE  PagesFor(n) \in Nat \ {0} /\ n <= PagesFor(n) * PAGE_SIZE
<1> DEFINE q == (n + PAGE_SIZE - 1) \div PAGE_SIZE
<1>1. PAGE_SIZE \in Nat \ {0}
  BY ArenaAssumption
<1>2. q \in Nat \ {0} /\ n <= q * PAGE_SIZE
  BY <1>1
<1>3. AlignUp(n, PAGE_SIZE) = q * PAGE_SIZE
  BY DEF AlignUp
<1> HIDE DEF q
<1>4. (q * PAGE_SIZE) \div PAGE_SIZE = q
  BY <1>1, <1>2
<1>5. PagesFor(n) = q
  BY <1>3, <1>4 DEF PagesFor
<1> QED
  BY <1>2, <1>5

-------------------------------------------------------------------------------
(***************************************************************************)
(* Sequences of blocks: the chunks of an arena, the entries of the cache.  *)
(***************************************************************************)
BlocksIn(s) == {s[i].block : i \in DOMAIN s}

\* The blocks of s are distinct mappings of mp, at their full size.
Tidy(s, mp) ==
    /\ \A i, j \in DOMAIN s : s[i].block = s[j].block => i = j
    /\ \A i \in DOMAIN s : s[i].block \in DOMAIN mp /\ s[i].pages = mp[s[i].block]

\* One element more.
LEMMA TidyAppend ==
    ASSUME NEW T, NEW s \in Seq(T), NEW c \in T, NEW mp, Tidy(s, mp),
           c.block \in DOMAIN mp, c.pages = mp[c.block], c.block \notin BlocksIn(s)
    PROVE  /\ Append(s, c) \in Seq(T) /\ Append(s, c) # <<>>
           /\ Tidy(Append(s, c), mp)
           /\ BlocksIn(Append(s, c)) = BlocksIn(s) \cup {c.block}
           /\ Len(Append(s, c)) = Len(s) + 1
<1> DEFINE t == Append(s, c)
           n == Len(s)
<1>1. /\ t \in Seq(T) /\ Len(t) = n + 1 /\ n \in Nat /\ DOMAIN s = 1 .. n
      /\ DOMAIN t = 1 .. n+1 /\ t[n+1] = c /\ \A i \in 1 .. n : t[i] = s[i]
  OBVIOUS
<1>2. t # <<>>
  BY <1>1
<1> HIDE DEF t, n
<1>3. \A i \in DOMAIN t : i \in DOMAIN s \/ i = n+1
  BY <1>1
<1>4. \A i \in DOMAIN s : i \in DOMAIN t /\ t[i] = s[i]
  BY <1>1
<1>5. BlocksIn(t) = BlocksIn(s) \cup {c.block}
  BY <1>1, <1>3, <1>4 DEF BlocksIn
<1>6. Tidy(t, mp)
  BY <1>1, <1>3, <1>4 DEF Tidy, BlocksIn
<1> QED
  BY <1>1, <1>2, <1>5, <1>6 DEF t, n

\* An element of the cache is taken out.
LEMMA TidyWithout ==
    ASSUME NEW T, NEW s \in Seq(T), NEW mp, Tidy(s, mp), NEW i \in DOMAIN s
    PROVE  /\ Without(s, i) \in Seq(T) /\ Tidy(Without(s, i), mp)
           /\ BlocksIn(Without(s, i)) = BlocksIn(s) \ {s[i].block}
           /\ Len(Without(s, i)) = Len(s) - 1
<1> DEFINE t == Without(s, i)
           n == Len(s)
<1>1. n \in Nat \ {0} /\ DOMAIN s = 1 .. n /\ i \in 1 .. n /\ Last(s) = s[n]
  BY DEF Last
<1>2. t = [j \in 1 .. n-1 |-> IF j = i THEN s[n] ELSE s[j]]
  BY <1>1 DEF Without
<1>3. \A j \in 1 .. n : s[j] \in T
  BY <1>1
<1>4. n-1 \in Nat /\ \A j \in 1 .. n-1 : j \in 1 .. n
  BY <1>1
<1> HIDE DEF n
<1>5. t \in Seq(T) /\ Len(t) = n-1 /\ DOMAIN t = 1 .. n-1
  BY <1>1, <1>2, <1>3, <1>4
<1> HIDE DEF t
<1>6. \A j \in DOMAIN t : t[j] = IF j = i THEN s[n] ELSE s[j]
  BY <1>2, <1>5
<1>7. \A j \in DOMAIN t : \E k \in DOMAIN s : k # i /\ t[j] = s[k]
  BY <1>1, <1>5, <1>6
<1>8. \A k \in DOMAIN s : k # i => \E j \in DOMAIN t : t[j] = s[k]
  <2> SUFFICES ASSUME NEW k \in DOMAIN s, k # i PROVE \E j \in DOMAIN t : t[j] = s[k]
    OBVIOUS
  <2>1. CASE k = n
    <3>1. i \in DOMAIN t /\ t[i] = s[k]
      BY <1>1, <1>5, <1>6, <2>1
    <3> QED
      BY <3>1
  <2>2. CASE k # n
    <3>1. k \in DOMAIN t /\ t[k] = s[k]
      BY <1>1, <1>5, <1>6, <2>2
    <3> QED
      BY <3>1
  <2> QED
    BY <2>1, <2>2
<1>9. BlocksIn(t) = BlocksIn(s) \ {s[i].block}
  BY <1>7, <1>8 DEF BlocksIn, Tidy
<1>10. \A j, k \in DOMAIN t : t[j].block = t[k].block => j = k
  <2> SUFFICES ASSUME NEW j \in DOMAIN t, NEW k \in DOMAIN t, t[j].block = t[k].block
               PROVE  j = k
    OBVIOUS
  <2>1. \A x, y \in 1 .. n : s[x].block = s[y].block => x = y
    BY <1>1 DEF Tidy
  <2>2. j \in 1 .. n-1 /\ k \in 1 .. n-1
    BY <1>5
  <2> QED
    BY <1>1, <1>6, <2>1, <2>2
<1>11. Tidy(t, mp)
  BY <1>7, <1>10 DEF Tidy
<1> QED
  BY <1>5, <1>9, <1>11 DEF t, n

\* The first chunk, and the others.
LEMMA TidyTail ==
    ASSUME NEW T, NEW s \in Seq(T), s # <<>>, NEW mp, Tidy(s, mp)
    PROVE  /\ Head(s) = s[1] /\ 1 \in DOMAIN s /\ s[1] \in T
           /\ Tail(s) \in Seq(T) /\ Len(Tail(s)) = Len(s) - 1 /\ Tidy(Tail(s), mp)
           /\ \A i \in DOMAIN Tail(s) : i+1 \in DOMAIN s /\ Tail(s)[i] = s[i+1]
           /\ BlocksIn(Tail(s)) = BlocksIn(s) \ {s[1].block}
<1> DEFINE t == Tail(s)
           n == Len(s)
<1>1. /\ n \in Nat \ {0} /\ DOMAIN s = 1 .. n /\ t \in Seq(T) /\ Len(t) = n-1
      /\ DOMAIN t = 1 .. n-1 /\ \A i \in 1 .. n-1 : t[i] = s[i+1]
      /\ Head(s) = s[1] /\ 1 \in DOMAIN s /\ s[1] \in T
  OBVIOUS
<1> HIDE DEF t, n
<1>2. \A i \in DOMAIN t : i+1 \in DOMAIN s /\ i+1 # 1 /\ t[i] = s[i+1]
  BY <1>1
<1>3. \A k \in DOMAIN s : k # 1 => k-1 \in DOMAIN t /\ t[k-1] = s[k]
  BY <1>1
<1>4. BlocksIn(t) = BlocksIn(s) \ {s[1].block}
  <2>1. ASSUME NEW b \in BlocksIn(t) PROVE b \in BlocksIn(s) \ {s[1].block}
    <3>1. PICK i \in DOMAIN t : b = t[i].block
      BY <2>1 DEF BlocksIn
    <3> QED
      BY <1>1, <1>2, <3>1 DEF BlocksIn, Tidy
  <2>2. ASSUME NEW b \in BlocksIn(s) \ {s[1].block} PROVE b \in BlocksIn(t)
    <3>1. PICK k \in DOMAIN s : b = s[k].block /\ k # 1
      BY <2>2 DEF BlocksIn
    <3> QED
      BY <1>3, <3>1 DEF BlocksIn
  <2> QED
    BY <2>1, <2>2
<1>5. Tidy(t, mp)
  <2>1. \A i \in DOMAIN t : t[i].block \in DOMAIN mp /\ t[i].pages = mp[t[i].block]
    BY <1>2 DEF Tidy
  <2>2. ASSUME NEW i \in DOMAIN t, NEW j \in DOMAIN t, t[i].block = t[j].block
        PROVE  i = j
    <3>1. i+1 = j+1 /\ i \in Int /\ j \in Int
      BY <1>1, <1>2, <2>2 DEF Tidy
    <3> QED
      BY <3>1
  <2> QED
    BY <2>1, <2>2 DEF Tidy
<1> QED
  BY <1>1, <1>2, <1>4, <1>5 DEF t, n

-------------------------------------------------------------------------------
(***************************************************************************)
(* The blocks.  L are the mappings that no arena and no entry of the cache *)
(* names: one on its way from one to the other, or one of somebody else.   *)
(***************************************************************************)
\* Mappings lie in the address space, apart from each other.
Kernel(mp) ==
    /\ DOMAIN mp \subseteq Page
    /\ \A b \in DOMAIN mp : mp[b] \in Page /\ b + mp[b] - 1 \in Page
    /\ \A b, d \in DOMAIN mp : b < d => b + mp[b] <= d

\* Every mapping has one owner.
Ledger(ar, ca, mp, L) ==
    /\ \A a \in DOMAIN ar : Tidy(ar[a].chunks, mp) /\ ar[a].chunks[1].block = a
    /\ \A a, b \in DOMAIN ar : a # b =>
          BlocksIn(ar[a].chunks) \cap BlocksIn(ar[b].chunks) = {}
    /\ Tidy(ca, mp)
    /\ \A a \in DOMAIN ar : BlocksIn(ar[a].chunks) \cap (BlocksIn(ca) \cup L) = {}
    /\ BlocksIn(ca) \cap L = {}
    /\ DOMAIN mp = (UNION {BlocksIn(ar[a].chunks) : a \in DOMAIN ar})
                     \cup (BlocksIn(ca) \cup L)

\* The headers and what is used of a chunk fit in its pages.
Whole(c) == c.header + c.used <= c.pages * PAGE_SIZE

Sane(cs) == cs \in Seq(ChunkType) \ {<<>>} /\ \A i \in DOMAIN cs : Whole(cs[i])

Struct(ar, ca, mp, L) ==
    /\ Kernel(mp)
    /\ DOMAIN ar \subseteq Page
    /\ \A a \in DOMAIN ar : ar[a] \in ArenaType /\ Sane(ar[a].chunks)
    /\ ca \in Seq(Block) /\ Len(ca) <= CACHE_SIZE
    /\ Ledger(ar, ca, mp, L)

\* A new mapping lies apart from the others.
LEMMA KernelNew ==
    ASSUME NEW n \in Nat \ {0}, NEW b \in Unused(n), NEW mp, Kernel(mapped),
           mp = [d \in DOMAIN mapped \cup {b} |-> IF d = b THEN n ELSE mapped[d]]
    PROVE  /\ Kernel(mp) /\ b \notin DOMAIN mapped /\ mp[b] = n
           /\ DOMAIN mp = DOMAIN mapped \cup {b}
           /\ \A d \in DOMAIN mapped : mp[d] = mapped[d]
<1>1. SPACE \in Nat
  BY ArenaAssumption
<1>2. /\ b \in Page /\ b + n - 1 \in Page
      /\ \A d \in DOMAIN mapped : Span(d, mapped[d]) \cap Span(b, n) = {}
  BY DEF Unused
<1>3. n \in Page
  BY <1>1, <1>2 DEF Page
<1>4. ASSUME NEW d \in DOMAIN mapped
      PROVE  /\ d # b /\ d \in Nat /\ mapped[d] \in Nat
             /\ d + mapped[d] <= b \/ b + n <= d
  <2>1. /\ d \in Nat /\ mapped[d] \in Nat \ {0} /\ b \in Nat
        /\ Span(d, mapped[d]) \cap Span(b, n) = {}
    BY <1>1, <1>2 DEF Kernel, Page
  <2>2. d \in Span(d, mapped[d]) /\ b \in Span(b, n)
    BY <2>1 DEF Span
  <2>3. d \notin Span(b, n) /\ b \notin Span(d, mapped[d])
    BY <2>1, <2>2
  <2> QED
    BY <2>1, <2>3 DEF Span
<1>5. /\ DOMAIN mp = DOMAIN mapped \cup {b} /\ mp[b] = n
      /\ \A d \in DOMAIN mapped : mp[d] = mapped[d]
  BY <1>4
<1>6. DOMAIN mp \subseteq Page
  BY <1>2, <1>5 DEF Kernel
<1>7. \A d \in DOMAIN mp : mp[d] \in Page /\ d + mp[d] - 1 \in Page
  BY <1>2, <1>3, <1>5 DEF Kernel
<1>8. ASSUME NEW d \in DOMAIN mp, NEW e \in DOMAIN mp, d < e
      PROVE  d + mp[d] <= e
  <2>1. CASE d = b
    <3>1. e \in DOMAIN mapped /\ e \in Nat /\ b \in Nat
      BY <1>1, <1>2, <1>5, <1>8, <2>1, <1>4 DEF Page
    <3>2. mapped[e] \in Nat /\ e + mapped[e] > e
      BY <1>1, <3>1 DEF Kernel, Page
    <3> QED
      BY <1>4, <1>5, <1>8, <2>1, <3>1, <3>2
  <2>2. CASE d # b /\ e = b
    <3>1. d \in DOMAIN mapped /\ d \in Nat /\ b \in Nat
      BY <1>1, <1>2, <1>5, <2>2, <1>4 DEF Page
    <3>2. d + mapped[d] <= b \/ b + n <= d
      BY <1>4, <3>1
    <3> QED
      BY <1>5, <1>8, <2>2, <3>1, <3>2
  <2>3. CASE d # b /\ e # b
    BY <1>5, <1>8, <2>3 DEF Kernel
  <2> QED
    BY <2>1, <2>2, <2>3
<1> QED
  BY <1>4, <1>5, <1>6, <1>7, <1>8 DEF Kernel

\* The blocks of a sequence are still mapped at their size in a memory that
\* agrees with the old one there.
LEMMA TidyAgain ==
    ASSUME NEW s, NEW mp, Tidy(s, mp), NEW mq,
           \A b \in BlocksIn(s) : b \in DOMAIN mq /\ mq[b] = mp[b]
    PROVE  Tidy(s, mq)
  BY DEF Tidy, BlocksIn

\* What MapBlock returned, for n pages.
Mapped(m, n, ar, L) ==
    /\ Struct(ar, m.cache, m.mapped, L \cup {m.block})
    /\ m.block \in DOMAIN m.mapped /\ m.mapped[m.block] = n
    /\ m.block \notin L
    /\ \A a \in DOMAIN ar : m.block \notin BlocksIn(ar[a].chunks)

\* bc_allocators_arena_map_block: the block it returns has no owner yet.
LEMMA MapBlockStruct ==
    ASSUME NEW ar, NEW L, Struct(ar, cache, mapped, L),
           NEW n \in Nat \ {0}, NEW m \in MapBlock(n)
    PROVE  Mapped(m, n, ar, L)
<1>1. CASE Cached(n) # {}
  <2> DEFINE i == CHOOSE i \in Cached(n) : \A j \in Cached(n) : i <= j
  <2>1. m = [block |-> cache[i].block, cache |-> Without(cache, i), mapped |-> mapped]
    BY <1>1 DEF MapBlock, FromCache
  <2>2. i \in Cached(n)
    <3>1. Cached(n) \subseteq Nat
      BY DEF Struct, Cached
    <3>2. \E k \in Cached(n) : \A j \in Cached(n) : k <= j
      <4> DEFINE R == OpToRel(<, Nat)
                 T == Cached(n)
      <4>1. \A x, y \in Nat : x < y => <<x, y>> \in R
        BY DEF OpToRel
      <4>2. IsWellFoundedOn(R, Nat)
        BY NatLessThanWellFounded
      <4>3. T \subseteq Nat /\ T # {}
        BY <1>1, <3>1
      <4> HIDE DEF R, T
      <4>4. PICK x \in T : \A y \in T : ~ (<<y, x>> \in R)
        BY <4>2, <4>3, WFMin
      <4>5. ASSUME NEW y \in T PROVE x <= y
        <5>1. x \in Nat /\ y \in Nat /\ ~ (y < x)
          BY <4>1, <4>3, <4>4
        <5> QED
          BY <5>1
      <4> QED
        BY <4>4, <4>5 DEF T
    <3> QED
      BY <3>2
  <2> HIDE DEF i
  <2>3. i \in DOMAIN cache /\ cache[i].pages = n /\ cache \in Seq(Block)
    BY <2>2 DEF Cached, Struct
  <2>4. /\ m.block = cache[i].block /\ m.mapped = mapped
        /\ m.cache = Without(cache, i)
    BY <2>1
  <2>5. Tidy(cache, mapped)
    BY DEF Struct, Ledger
  <2>6. /\ m.cache \in Seq(Block) /\ Tidy(m.cache, mapped)
        /\ BlocksIn(m.cache) = BlocksIn(cache) \ {m.block}
        /\ Len(m.cache) = Len(cache) - 1
    BY <2>3, <2>4, <2>5, TidyWithout
  <2>7. m.block \in BlocksIn(cache) /\ m.block \in DOMAIN mapped /\ mapped[m.block] = n
    BY <2>3, <2>4, <2>5 DEF Tidy, BlocksIn
  <2>8. Len(m.cache) <= CACHE_SIZE
    <3>1. Len(cache) <= CACHE_SIZE /\ Len(cache) \in Nat /\ CACHE_SIZE \in Nat
      BY <2>3, ArenaAssumption DEF Struct
    <3> QED
      BY <2>6, <3>1
  <2>9. BlocksIn(m.cache) \cup (L \cup {m.block}) = BlocksIn(cache) \cup L
    BY <2>6, <2>7
  <2>10. /\ m.block \notin L
         /\ \A a \in DOMAIN ar : m.block \notin BlocksIn(ar[a].chunks)
    BY <2>7 DEF Struct, Ledger
  <2>11. BlocksIn(m.cache) \cap (L \cup {m.block}) = {}
    BY <2>6 DEF Struct, Ledger
  <2>12. Ledger(ar, m.cache, m.mapped, L \cup {m.block})
    BY <2>4, <2>6, <2>9, <2>11 DEF Struct, Ledger
  <2>13. Struct(ar, m.cache, m.mapped, L \cup {m.block})
    BY <2>4, <2>6, <2>8, <2>12 DEF Struct
  <2> QED
    BY <2>4, <2>7, <2>10, <2>13 DEF Mapped
<1>2. CASE Cached(n) = {}
  <2>1. PICK b \in Unused(n) : m = [block |-> b, cache |-> cache,
                   mapped |-> [a \in DOMAIN mapped \cup {b} |->
                                  IF a = b THEN n ELSE mapped[a]]]
    BY <1>2 DEF MapBlock, FromKernel
  <2> DEFINE mp == [a \in DOMAIN mapped \cup {b} |-> IF a = b THEN n ELSE mapped[a]]
  <2>2. m.block = b /\ m.cache = cache /\ m.mapped = mp
    BY <2>1
  <2> HIDE DEF mp
  <2>3. /\ Kernel(mp) /\ b \notin DOMAIN mapped /\ mp[b] = n
        /\ DOMAIN mp = DOMAIN mapped \cup {b}
        /\ \A d \in DOMAIN mapped : mp[d] = mapped[d]
    BY KernelNew DEF Struct, mp
  <2>4. /\ \A a \in DOMAIN ar : BlocksIn(ar[a].chunks) \subseteq DOMAIN mapped
        /\ BlocksIn(cache) \subseteq DOMAIN mapped /\ L \subseteq DOMAIN mapped
    BY DEF Struct, Ledger
  <2>5. (\A a \in DOMAIN ar : Tidy(ar[a].chunks, mp)) /\ Tidy(cache, mp)
    BY <2>3, <2>4, TidyAgain DEF Struct, Ledger
  <2>6. /\ b \notin L /\ b \notin BlocksIn(cache)
        /\ \A a \in DOMAIN ar : b \notin BlocksIn(ar[a].chunks)
    BY <2>3, <2>4
  <2>7. /\ \A a \in DOMAIN ar : BlocksIn(ar[a].chunks) \cap (BlocksIn(cache) \cup (L \cup {b})) = {}
        /\ BlocksIn(cache) \cap (L \cup {b}) = {}
    BY <2>6 DEF Struct, Ledger
  <2>8. DOMAIN mp = (UNION {BlocksIn(ar[a].chunks) : a \in DOMAIN ar})
                      \cup (BlocksIn(cache) \cup (L \cup {b}))
    <3>1. DOMAIN mapped = (UNION {BlocksIn(ar[a].chunks) : a \in DOMAIN ar})
                            \cup (BlocksIn(cache) \cup L)
      BY DEF Struct, Ledger
    <3> DEFINE U == UNION {BlocksIn(ar[a].chunks) : a \in DOMAIN ar}
    <3> HIDE DEF U
    <3> QED
      BY <2>3, <3>1 DEF U
  <2>9. Ledger(ar, cache, mp, L \cup {b})
    BY <2>5, <2>7, <2>8 DEF Struct, Ledger
  <2>10. Struct(ar, cache, mp, L \cup {b})
    BY <2>3, <2>9 DEF Struct
  <2> QED
    BY <2>2, <2>3, <2>6, <2>10 DEF Mapped
<1> QED
  BY <1>1, <1>2

\* Arena a exchanges blocks with L, and leaves it M.
Exchange(ar, br, a, mp, L, M) ==
    /\ DOMAIN br = DOMAIN ar
    /\ \A b \in DOMAIN ar : b # a => br[b] = ar[b]
    /\ br[a] \in ArenaType /\ Sane(br[a].chunks) /\ Tidy(br[a].chunks, mp)
    /\ br[a].chunks[1].block = a
    /\ BlocksIn(br[a].chunks) \cap M = {}
    /\ BlocksIn(br[a].chunks) \cup M = BlocksIn(ar[a].chunks) \cup L

\* Every block still has one owner.
LEMMA ExchangeStruct ==
    ASSUME NEW ar, NEW ca, NEW mp, NEW L, Struct(ar, ca, mp, L),
           NEW a \in DOMAIN ar, NEW br, NEW M, Exchange(ar, br, a, mp, L, M)
    PROVE  Struct(br, ca, mp, M)
<1>0. /\ DOMAIN br = DOMAIN ar
      /\ \A b \in DOMAIN ar : b # a => br[b] = ar[b]
      /\ br[a] \in ArenaType /\ Sane(br[a].chunks) /\ Tidy(br[a].chunks, mp)
      /\ br[a].chunks[1].block = a
      /\ BlocksIn(br[a].chunks) \cap M = {}
      /\ BlocksIn(br[a].chunks) \cup M = BlocksIn(ar[a].chunks) \cup L
  BY DEF Exchange
<1> DEFINE New == BlocksIn(br[a].chunks)
           Old == BlocksIn(ar[a].chunks)
           B(b) == BlocksIn(ar[b].chunks)
<1>1. /\ \A b, d \in DOMAIN ar : b # d => B(b) \cap B(d) = {}
      /\ \A b \in DOMAIN ar : B(b) \cap (BlocksIn(ca) \cup L) = {}
      /\ BlocksIn(ca) \cap L = {}
      /\ DOMAIN mp = (UNION {B(b) : b \in DOMAIN ar}) \cup (BlocksIn(ca) \cup L)
  BY DEF Struct, Ledger
<1>2. New \cap M = {} /\ New \cup M = Old \cup L /\ Old = B(a)
  BY <1>0
<1>3. \A b \in DOMAIN ar : b # a => BlocksIn(br[b].chunks) = B(b)
  BY <1>0
<1> DEFINE C(b) == BlocksIn(br[b].chunks)
<1>4. C(a) = New
  OBVIOUS
<1> HIDE DEF New, Old, B, C
<1>5. \A b \in DOMAIN ar : b # a => C(b) = B(b)
  BY <1>3 DEF C
<1>6. \A b \in DOMAIN ar : b # a => B(b) \cap New = {} /\ B(b) \cap M = {}
  BY <1>1, <1>2
<1>7. \A b, d \in DOMAIN ar : b # d => C(b) \cap C(d) = {}
  BY <1>1, <1>4, <1>5, <1>6
<1>8. BlocksIn(ca) \cap New = {} /\ BlocksIn(ca) \cap M = {}
  BY <1>1, <1>2
<1>9. \A b \in DOMAIN ar : C(b) \cap (BlocksIn(ca) \cup M) = {}
  BY <1>1, <1>2, <1>4, <1>5, <1>6, <1>8
<1>10. DOMAIN mp = (UNION {C(b) : b \in DOMAIN ar}) \cup (BlocksIn(ca) \cup M)
  <2>1. ASSUME NEW x \in DOMAIN mp
        PROVE  x \in (UNION {C(b) : b \in DOMAIN ar}) \cup (BlocksIn(ca) \cup M)
    <3>1. CASE x \in Old \cup L
      BY <1>2, <1>4, <3>1
    <3>2. CASE x \notin Old \cup L /\ x \notin BlocksIn(ca)
      <4>1. PICK b \in DOMAIN ar : x \in B(b)
        BY <1>1, <2>1, <3>2
      <4> QED
        BY <1>2, <1>5, <3>2, <4>1
    <3> QED
      BY <3>1, <3>2
  <2>2. ASSUME NEW x \in (UNION {C(b) : b \in DOMAIN ar}) \cup (BlocksIn(ca) \cup M)
        PROVE  x \in DOMAIN mp
    <3>1. CASE x \in BlocksIn(ca) \cup M
      BY <1>1, <1>2, <3>1
    <3>2. CASE x \in UNION {C(b) : b \in DOMAIN ar}
      <4>1. PICK b \in DOMAIN ar : x \in C(b)
        BY <3>2
      <4> QED
        BY <1>1, <1>2, <1>4, <1>5, <4>1
    <3> QED
      BY <2>2, <3>1, <3>2
  <2> QED
    BY <2>1, <2>2
<1>11. \A b \in DOMAIN ar : Tidy(br[b].chunks, mp) /\ br[b].chunks[1].block = b
  BY <1>0 DEF Struct, Ledger
<1>12. Ledger(br, ca, mp, M)
  BY <1>0, <1>7, <1>8, <1>9, <1>10, <1>11 DEF Ledger, Struct, C
<1> QED
  BY <1>0, <1>12 DEF Struct

\* An arena is made of a block that has no owner.
LEMMA OpenStruct ==
    ASSUME NEW ar, NEW ca, NEW mp, NEW L, NEW a, Struct(ar, ca, mp, L \cup {a}),
           a \notin L, a \notin DOMAIN ar, a \in Page,
           NEW br, DOMAIN br = DOMAIN ar \cup {a},
           \A b \in DOMAIN ar : br[b] = ar[b],
           br[a] \in ArenaType, Sane(br[a].chunks), Tidy(br[a].chunks, mp),
           br[a].chunks[1].block = a, BlocksIn(br[a].chunks) = {a}
    PROVE  Struct(br, ca, mp, L)
<1> DEFINE B(b) == BlocksIn(ar[b].chunks)
           C(b) == BlocksIn(br[b].chunks)
<1>1. /\ \A b, d \in DOMAIN ar : b # d => B(b) \cap B(d) = {}
      /\ \A b \in DOMAIN ar : B(b) \cap (BlocksIn(ca) \cup (L \cup {a})) = {}
      /\ BlocksIn(ca) \cap (L \cup {a}) = {}
      /\ DOMAIN mp = (UNION {B(b) : b \in DOMAIN ar}) \cup (BlocksIn(ca) \cup (L \cup {a}))
  BY DEF Struct, Ledger
<1>2. C(a) = {a} /\ \A b \in DOMAIN ar : C(b) = B(b)
  OBVIOUS
<1>3. /\ \A b \in DOMAIN br : Tidy(br[b].chunks, mp) /\ br[b].chunks[1].block = b
      /\ Tidy(ca, mp)
  BY DEF Struct, Ledger
<1>4. /\ DOMAIN br \subseteq Page
      /\ \A b \in DOMAIN br : br[b] \in ArenaType /\ Sane(br[b].chunks)
  BY DEF Struct
<1> HIDE DEF B, C
<1>5. \A b, d \in DOMAIN br : b # d => C(b) \cap C(d) = {}
  BY <1>1, <1>2
<1>6. \A b \in DOMAIN br : C(b) \cap (BlocksIn(ca) \cup L) = {}
  BY <1>1, <1>2
<1>7. DOMAIN mp = (UNION {C(b) : b \in DOMAIN br}) \cup (BlocksIn(ca) \cup L)
  <2>1. UNION {C(b) : b \in DOMAIN br} = (UNION {B(b) : b \in DOMAIN ar}) \cup {a}
    BY <1>2
  <2> QED
    BY <1>1, <2>1
<1>8. Ledger(br, ca, mp, L)
  BY <1>1, <1>3, <1>5, <1>6, <1>7 DEF Ledger, C
<1> QED
  BY <1>4, <1>8 DEF Struct

\* An arena gives up its blocks.
LEMMA CloseStruct ==
    ASSUME NEW ar, NEW ca, NEW mp, NEW L, Struct(ar, ca, mp, L), NEW a \in DOMAIN ar,
           NEW br, DOMAIN br = DOMAIN ar \ {a}, \A b \in DOMAIN br : br[b] = ar[b]
    PROVE  /\ Struct(br, ca, mp, BlocksIn(ar[a].chunks) \cup L)
           /\ BlocksIn(ar[a].chunks) \cap L = {}
<1> DEFINE B(b) == BlocksIn(ar[b].chunks)
           C(b) == BlocksIn(br[b].chunks)
<1>1. /\ \A b, d \in DOMAIN ar : b # d => B(b) \cap B(d) = {}
      /\ \A b \in DOMAIN ar : B(b) \cap (BlocksIn(ca) \cup L) = {}
      /\ BlocksIn(ca) \cap L = {}
      /\ DOMAIN mp = (UNION {B(b) : b \in DOMAIN ar}) \cup (BlocksIn(ca) \cup L)
  BY DEF Struct, Ledger
<1>2. \A b \in DOMAIN br : C(b) = B(b) /\ b \in DOMAIN ar
  OBVIOUS
<1>3. /\ \A b \in DOMAIN br : Tidy(br[b].chunks, mp) /\ br[b].chunks[1].block = b
      /\ Tidy(ca, mp)
  BY DEF Struct, Ledger
<1>4. BlocksIn(ar[a].chunks) = B(a)
  OBVIOUS
<1> HIDE DEF B, C
<1>5. \A b, d \in DOMAIN br : b # d => C(b) \cap C(d) = {}
  BY <1>1, <1>2
<1>6. \A b \in DOMAIN br : C(b) \cap (BlocksIn(ca) \cup (B(a) \cup L)) = {}
  BY <1>1, <1>2
<1>7. DOMAIN mp = (UNION {C(b) : b \in DOMAIN br}) \cup (BlocksIn(ca) \cup (B(a) \cup L))
  <2>1. UNION {B(b) : b \in DOMAIN ar} = (UNION {C(b) : b \in DOMAIN br}) \cup B(a)
    BY <1>2
  <2> QED
    BY <1>1, <2>1
<1>8. BlocksIn(ca) \cap (B(a) \cup L) = {}
  BY <1>1
<1>9. Ledger(br, ca, mp, B(a) \cup L)
  BY <1>3, <1>5, <1>6, <1>7, <1>8 DEF Ledger, C
<1> QED
  BY <1>1, <1>4, <1>9 DEF Struct

\* What the cache takes of a sequence of blocks, and what it does not.
LEMMA KeptSplit ==
    ASSUME NEW cs \in Seq(ChunkType), cache \in Seq(Block), Len(cache) <= CACHE_SIZE
    PROVE  /\ Kept(cs) \in 0 .. Len(cs) /\ Len(cache) + Kept(cs) <= CACHE_SIZE
           /\ SubSeq(Entries(cs), 1, Kept(cs)) \in Seq(Block)
           /\ Len(SubSeq(Entries(cs), 1, Kept(cs))) = Kept(cs)
           /\ \A i \in 1 .. Kept(cs) :
                 /\ SubSeq(Entries(cs), 1, Kept(cs))[i].block = cs[i].block
                 /\ SubSeq(Entries(cs), 1, Kept(cs))[i].pages = cs[i].pages
<1> DEFINE k == Kept(cs)
           n == Len(cs)
           es == Entries(cs)
<1>1. n \in Nat /\ Len(cache) \in Nat /\ CACHE_SIZE \in Nat /\ DOMAIN cs = 1 .. n
  BY ArenaAssumption
<1>2. k \in 0 .. n /\ Len(cache) + k <= CACHE_SIZE
  BY <1>1 DEF Kept
<1>3. \A i \in 1 .. n : cs[i] \in ChunkType
  BY <1>1
<1>4. es = [i \in 1 .. n |-> [block |-> cs[i].block, pages |-> cs[i].pages]]
  BY <1>1 DEF Entries
<1>5. \A i \in 1 .. n : [block |-> cs[i].block, pages |-> cs[i].pages] \in Block
  BY <1>3 DEF ChunkType, Block
<1> HIDE DEF k, n
<1>6. es \in Seq(Block) /\ Len(es) = n
  BY <1>1, <1>4, <1>5
<1>7. \A i \in 1 .. n : es[i].block = cs[i].block /\ es[i].pages = cs[i].pages
  BY <1>4
<1> HIDE DEF es
<1> DEFINE t == SubSeq(es, 1, k)
<1>8. t \in Seq(Block) /\ Len(t) = k /\ \A i \in 1 .. k : t[i] = es[i]
  <2>1. k \in Nat /\ k <= n
    BY <1>1, <1>2
  <2>2. \A i \in 1 .. k : i \in 1 .. n /\ es[i] \in Block
    BY <1>1, <1>6, <2>1
  <2>3. t = [i \in 1 .. k |-> es[i]]
    BY <1>6, <2>1
  <2> HIDE DEF t
  <2> QED
    BY <2>1, <2>2, <2>3
<1> HIDE DEF t
<1>9. \A i \in 1 .. k : t[i].block = cs[i].block /\ t[i].pages = cs[i].pages
  <2>1. \A i \in 1 .. k : i \in 1 .. n
    BY <1>1, <1>2
  <2> QED
    BY <1>7, <1>8, <2>1
<1> QED
  BY <1>2, <1>8, <1>9 DEF k, n, es, t

\* bc_allocators_arena_release_block: the blocks of cs find their way into the
\* cache or back to the kernel.
LEMMA ReleaseStruct ==
    ASSUME NEW ar, NEW L, NEW cs \in Seq(ChunkType),
           Struct(ar, cache, mapped, BlocksIn(cs) \cup L), BlocksIn(cs) \cap L = {},
           Tidy(cs, mapped), NEW left, Release(cs, left)
    PROVE  Struct(ar, cache', mapped', L)
<1> DEFINE k == Kept(cs)
           n == Len(cs)
           t == SubSeq(Entries(cs), 1, k)
           gone == {c.block : c \in Unmapped(cs)}
           into == {cs[i].block : i \in 1 .. k}
           B(b) == BlocksIn(ar[b].chunks)
<1>1. cache \in Seq(Block) /\ Len(cache) <= CACHE_SIZE
  BY DEF Struct
<1>2. /\ k \in 0 .. n /\ Len(cache) + k <= CACHE_SIZE
      /\ t \in Seq(Block) /\ Len(t) = k
      /\ \A i \in 1 .. k : t[i].block = cs[i].block /\ t[i].pages = cs[i].pages
  BY <1>1, KeptSplit
<1>3. /\ cache' = cache \o t
      /\ mapped' = [b \in DOMAIN mapped \ gone |-> mapped[b]]
  BY DEF Release
<1>4. gone = {cs[i].block : i \in k+1 .. n}
  BY DEF Unmapped
<1>5. n \in Nat /\ DOMAIN cs = 1 .. n /\ Len(cache) \in Nat
  BY <1>1
<1>6. /\ \A b, d \in DOMAIN ar : b # d => B(b) \cap B(d) = {}
      /\ \A b \in DOMAIN ar : B(b) \cap (BlocksIn(cache) \cup (BlocksIn(cs) \cup L)) = {}
      /\ BlocksIn(cache) \cap (BlocksIn(cs) \cup L) = {}
      /\ DOMAIN mapped = (UNION {B(b) : b \in DOMAIN ar})
                           \cup (BlocksIn(cache) \cup (BlocksIn(cs) \cup L))
  BY DEF Struct, Ledger
<1>7. Tidy(cache, mapped) /\ \A b \in DOMAIN ar : Tidy(ar[b].chunks, mapped)
  BY DEF Struct, Ledger
<1> HIDE DEF k, n, t, gone, B
<1>8. \A i \in DOMAIN cs : i \in 1 .. k \/ i \in k+1 .. n
  BY <1>2, <1>5
<1>9. \A i \in 1 .. k : i \in DOMAIN cs
  BY <1>2, <1>5
<1>10. \A i \in k+1 .. n : i \in DOMAIN cs
  BY <1>2, <1>5
<1>11. BlocksIn(cs) = into \cup gone
  BY <1>4, <1>8, <1>9, <1>10 DEF BlocksIn
<1>12. into \cap gone = {}
  <2> SUFFICES ASSUME NEW i \in 1 .. k, NEW j \in k+1 .. n, cs[i].block = cs[j].block
               PROVE  FALSE
    BY <1>4
  <2>1. i = j
    BY <1>9, <1>10 DEF Tidy
  <2> QED
    BY <1>2, <2>1
<1>13. BlocksIn(t) = into
  BY <1>2 DEF BlocksIn
<1> DEFINE q == cache'
<1>14. /\ q \in Seq(Block) /\ Len(q) = Len(cache) + k
       /\ \A i \in DOMAIN q : \/ i \in DOMAIN cache /\ q[i] = cache[i]
                              \/ i - Len(cache) \in 1 .. k /\ q[i] = t[i - Len(cache)]
       /\ \A i \in DOMAIN cache : i \in DOMAIN q /\ q[i] = cache[i]
       /\ \A i \in 1 .. k : i + Len(cache) \in DOMAIN q /\ q[i + Len(cache)] = t[i]
  <2> DEFINE r == cache \o t
             m == Len(cache)
  <2>1. /\ m \in Nat /\ k \in Nat /\ r \in Seq(Block) /\ Len(r) = m + k
        /\ DOMAIN cache = 1 .. m /\ DOMAIN r = 1 .. m + k
        /\ \A i \in 1 .. m + k : r[i] = IF i <= m THEN cache[i] ELSE t[i - m]
    <3>1. k \in Nat /\ m \in Nat /\ Len(t) = k /\ Len(cache) = m
      BY <1>2, <1>5
    <3>2. /\ r \in Seq(Block) /\ Len(r) = m + k
          /\ \A i \in 1 .. m + k : r[i] = IF i <= m THEN cache[i] ELSE t[i - m]
      BY <1>1, <1>2, <3>1, ConcatProperties
    <3>3. DOMAIN r = 1 .. m + k /\ DOMAIN cache = 1 .. m
      BY <1>1, <3>1, <3>2
    <3> QED
      BY <3>1, <3>2, <3>3
  <2>2. q = r
    BY <1>3
  <2> HIDE DEF r, m, q
  <2>3. /\ \A i \in DOMAIN cache : i \in DOMAIN r /\ r[i] = cache[i]
        /\ \A i \in 1 .. k : i + m \in DOMAIN r /\ r[i + m] = t[i]
    <3>1. \A i \in 1 .. k : i + m \in 1 .. m + k /\ ~ (i + m <= m) /\ (i + m) - m = i
      BY <2>1
    <3>2. \A i \in 1 .. m : i \in 1 .. m + k /\ i <= m
      BY <2>1
    <3> QED
      BY <2>1, <3>1, <3>2
  <2>4. ASSUME NEW i \in DOMAIN r
        PROVE  \/ i \in DOMAIN cache /\ r[i] = cache[i]
               \/ i - m \in 1 .. k /\ r[i] = t[i - m]
    BY <2>1
  <2> QED
    BY <2>1, <2>2, <2>3, <2>4 DEF m
<1> HIDE DEF q, into
<1>15. BlocksIn(q) = BlocksIn(cache) \cup into
  <2>1. \A i \in 1 .. k : i \in DOMAIN t
    BY <1>2
  <2>2. \A i \in DOMAIN t : i \in 1 .. k
    BY <1>2
  <2>3. BlocksIn(q) \subseteq BlocksIn(cache) \cup BlocksIn(t)
    BY <1>14, <2>1 DEF BlocksIn
  <2>4. BlocksIn(cache) \subseteq BlocksIn(q)
    BY <1>14 DEF BlocksIn
  <2>5. BlocksIn(t) \subseteq BlocksIn(q)
    BY <1>14, <2>2 DEF BlocksIn
  <2> QED
    BY <1>13, <2>3, <2>4, <2>5
<1> DEFINE mq == mapped'
<1>16. DOMAIN mq = DOMAIN mapped \ gone /\ \A b \in DOMAIN mq : mq[b] = mapped[b]
  BY <1>3
<1> HIDE DEF mq
<1>17. Kernel(mq)
  BY <1>16 DEF Struct, Kernel
<1>18. \A b \in DOMAIN ar : Tidy(ar[b].chunks, mq)
  <2> SUFFICES ASSUME NEW b \in DOMAIN ar PROVE Tidy(ar[b].chunks, mq)
    OBVIOUS
  <2>1. \A x \in B(b) : x \in DOMAIN mapped /\ x \notin gone
    BY <1>6, <1>11
  <2>2. \A x \in B(b) : x \in DOMAIN mq /\ mq[x] = mapped[x]
    BY <1>16, <2>1
  <2> QED
    BY <1>7, <2>2, TidyAgain DEF B
<1>19. Tidy(q, mq)
  <2>1. \A i \in DOMAIN cache : /\ cache[i].block \in DOMAIN mq
                                /\ cache[i].pages = mq[cache[i].block]
    <3>1. \A i \in DOMAIN cache : cache[i].block \notin gone
      BY <1>6, <1>11 DEF BlocksIn
    <3> QED
      BY <1>7, <1>16, <3>1 DEF Tidy
  <2>2. \A i \in 1 .. k : t[i].block \in DOMAIN mq /\ t[i].pages = mq[t[i].block]
    <3>1. \A i \in 1 .. k : t[i].block \notin gone
      BY <1>2, <1>12 DEF into
    <3> QED
      BY <1>2, <1>9, <1>16, <3>1 DEF Tidy
  <2>3. \A i \in DOMAIN q : q[i].block \in DOMAIN mq /\ q[i].pages = mq[q[i].block]
    BY <1>14, <2>1, <2>2
  <2>4. ASSUME NEW i \in DOMAIN cache, NEW j \in 1 .. k
        PROVE  cache[i].block # t[j].block
    <3>1. cache[i].block \in BlocksIn(cache) /\ cs[j].block \in BlocksIn(cs)
      BY <1>9 DEF BlocksIn
    <3>2. t[j].block = cs[j].block
      BY <1>2
    <3> QED
      BY <1>6, <3>1, <3>2
  <2>5. \A i, j \in 1 .. k : t[i].block = t[j].block => i = j
    BY <1>2, <1>9 DEF Tidy
  <2>6. ASSUME NEW i \in DOMAIN q, NEW j \in DOMAIN q, q[i].block = q[j].block
        PROVE  i = j
    <3>1. i \in Int /\ j \in Int
      BY <1>14
    <3> DEFINE x == i - Len(cache)
               y == j - Len(cache)
    <3>2. CASE q[i] = cache[i] /\ i \in DOMAIN cache
      BY <1>7, <1>14, <2>4, <2>6, <3>2 DEF Tidy
    <3>3. CASE q[i] = t[x] /\ x \in 1 .. k
      <4>1. ~ (j \in DOMAIN cache /\ q[j] = cache[j])
        BY <2>4, <2>6, <3>3
      <4>2. y \in 1 .. k /\ q[j] = t[y]
        BY <1>14, <4>1
      <4>3. x = y
        BY <2>5, <2>6, <3>3, <4>2
      <4> QED
        BY <1>5, <3>1, <4>3
    <3> QED
      BY <1>14, <3>2, <3>3
  <2> QED
    BY <2>3, <2>6 DEF Tidy
<1>20. BlocksIn(q) \cap L = {}
  BY <1>6, <1>11, <1>15
<1>21. \A b \in DOMAIN ar : B(b) \cap (BlocksIn(q) \cup L) = {}
  BY <1>6, <1>11, <1>15
<1>22. DOMAIN mq = (UNION {B(b) : b \in DOMAIN ar}) \cup (BlocksIn(q) \cup L)
  <2>1. (UNION {B(b) : b \in DOMAIN ar}) \cap gone = {}
    BY <1>6, <1>11
  <2> QED
    BY <1>6, <1>11, <1>12, <1>15, <1>16, <2>1
<1>23. Ledger(ar, q, mq, L)
  BY <1>6, <1>18, <1>19, <1>20, <1>21, <1>22 DEF Ledger, B, Struct
<1>24. Len(q) <= CACHE_SIZE
  BY <1>2, <1>14
<1>25. Struct(ar, q, mq, L)
  BY <1>14, <1>17, <1>23, <1>24 DEF Struct
<1> QED
  BY <1>25 DEF q, mq

-------------------------------------------------------------------------------
(***************************************************************************)
(* The chunks.  What an operation leaves of an arena is again an arena.    *)
(***************************************************************************)

\* The place of an allocation in a chunk: behind what is used.
LEMMA StartFacts ==
    ASSUME NEW c \in ChunkType, NEW size \in Nat, NEW alignment \in Nat \ {0}
    PROVE  /\ MemoryStart(c) \in Nat /\ Start(c, alignment) \in Nat
           /\ c.used <= Start(c, alignment)
           /\ Start(c, alignment) < c.used + alignment
           /\ (MemoryStart(c) + Start(c, alignment)) % alignment = 0
           /\ End(c, size, alignment) \in Nat
           /\ End(c, size, alignment) = Start(c, alignment) + size
<1>1. c.block \in Nat /\ c.header \in Nat /\ c.used \in Nat /\ PAGE_SIZE \in Nat
  BY ArenaAssumption DEF ChunkType, Page
<1>2. MemoryStart(c) \in Nat
  BY <1>1 DEF MemoryStart
<1> DEFINE x == MemoryStart(c) + c.used
<1>3. x \in Nat
  BY <1>1, <1>2
<1>4. /\ AlignUp(x, alignment) \in Nat /\ x <= AlignUp(x, alignment)
      /\ AlignUp(x, alignment) < x + alignment
      /\ AlignUp(x, alignment) % alignment = 0
  BY <1>3, AlignUpFacts
<1>5. Start(c, alignment) = AlignUp(x, alignment) - MemoryStart(c)
  BY DEF Start
<1>6. MemoryStart(c) + Start(c, alignment) = AlignUp(x, alignment)
  BY <1>2, <1>4, <1>5
<1>7. /\ Start(c, alignment) \in Nat /\ c.used <= Start(c, alignment)
      /\ Start(c, alignment) < c.used + alignment
  BY <1>1, <1>2, <1>4, <1>5
<1> QED
  BY <1>2, <1>4, <1>6, <1>7 DEF End

\* A mapping of n pages, all free, is a chunk.
LEMMA NewChunk ==
    ASSUME NEW mp, Kernel(mp), NEW b \in DOMAIN mp,
           NEW header \in {CHUNK_HEADER, ARENA_HEADER + CHUNK_HEADER},
           header <= mp[b] * PAGE_SIZE
    PROVE  /\ Chunk(b, mp[b], header) \in ChunkType
           /\ Whole(Chunk(b, mp[b], header))
           /\ Chunk(b, mp[b], header).block = b
           /\ Chunk(b, mp[b], header).pages = mp[b]
<1>1. b \in Page /\ mp[b] \in Page /\ header \in Nat
  BY ArenaAssumption DEF Kernel
<1> QED
  BY <1>1 DEF Chunk, ChunkType, Whole

\* The chunks after an allocation in the last one.
Advanced(cs, size, alignment) ==
    Append(Front(cs), [Last(cs) EXCEPT !.used = End(Last(cs), size, alignment)])

LikeChunks(cs, ds) ==
    /\ DOMAIN ds = DOMAIN cs
    /\ \A i \in DOMAIN cs : /\ ds[i].block = cs[i].block /\ ds[i].pages = cs[i].pages
                            /\ ds[i].header = cs[i].header

\* The blocks are what they were.
LEMMA LikeTidy ==
    ASSUME NEW cs, NEW ds, LikeChunks(cs, ds), NEW mp, Tidy(cs, mp)
    PROVE  BlocksIn(ds) = BlocksIn(cs) /\ Tidy(ds, mp)
<1>1. /\ DOMAIN ds = DOMAIN cs
      /\ \A i \in DOMAIN cs : ds[i].block = cs[i].block /\ ds[i].pages = cs[i].pages
  BY DEF LikeChunks
<1>2. BlocksIn(ds) = BlocksIn(cs)
  BY <1>1 DEF BlocksIn
<1>3. Tidy(ds, mp)
  BY <1>1 DEF Tidy
<1> QED
  BY <1>2, <1>3

\* The allocation raises what is used of the last chunk, and stays in it.
LEMMA AdvancedFacts ==
    ASSUME NEW cs, Sane(cs), NEW size \in Nat, NEW alignment \in Nat \ {0},
           Fits(Last(cs), size, alignment)
    PROVE  /\ Sane(Advanced(cs, size, alignment))
           /\ LikeChunks(cs, Advanced(cs, size, alignment))
           /\ \A i \in DOMAIN cs : i # Len(cs) => Advanced(cs, size, alignment)[i] = cs[i]
           /\ Advanced(cs, size, alignment)[Len(cs)].used
                = End(cs[Len(cs)], size, alignment)
           /\ Len(cs) \in DOMAIN cs /\ Last(cs) = cs[Len(cs)]
<1> DEFINE n == Len(cs)
           c == Last(cs)
           d == [c EXCEPT !.used = End(c, size, alignment)]
           ds == Advanced(cs, size, alignment)
<1>1. /\ cs \in Seq(ChunkType) /\ n \in Nat \ {0} /\ DOMAIN cs = 1 .. n
      /\ c = cs[n] /\ c \in ChunkType /\ n \in DOMAIN cs /\ Whole(c)
  BY DEF Sane, Last
<1>2. End(c, size, alignment) \in Nat /\ End(c, size, alignment) <= Capacity(c)
  BY <1>1, StartFacts DEF Fits
<1> HIDE DEF c
<1>3. /\ d \in ChunkType /\ d.block = c.block /\ d.pages = c.pages
      /\ d.header = c.header /\ d.used = End(c, size, alignment)
  BY <1>1, <1>2 DEF ChunkType
<1>4. Whole(d)
  <2>1. c.pages * PAGE_SIZE \in Nat /\ c.header \in Nat
    BY <1>1, ArenaAssumption DEF ChunkType, Page
  <2> QED
    BY <1>2, <1>3, <2>1 DEF Whole, Capacity
<1> DEFINE f == Front(cs)
<1>5. f \in Seq(ChunkType) /\ Len(f) = n-1 /\ \A i \in 1 .. n-1 : f[i] = cs[i]
  BY <1>1 DEF Front
<1> HIDE DEF d, f, n
<1>6. ds = Append(f, d)
  BY DEF Advanced, c, d, f
<1> HIDE DEF ds
<1>7. /\ ds \in Seq(ChunkType) /\ Len(ds) = n /\ ds[n] = d
      /\ \A i \in 1 .. n-1 : ds[i] = f[i]
  BY <1>1, <1>3, <1>5, <1>6
<1>8. DOMAIN ds = 1 .. n /\ ds # <<>>
  BY <1>1, <1>7
<1>9. \A i \in 1 .. n : i # n => i \in 1 .. n-1 /\ ds[i] = cs[i]
  BY <1>1, <1>5, <1>7
<1>10. Sane(ds)
  <2>1. \A i \in DOMAIN ds : Whole(ds[i])
    BY <1>1, <1>4, <1>7, <1>8, <1>9 DEF Sane
  <2> QED
    BY <1>7, <1>8, <2>1 DEF Sane
<1>11. LikeChunks(cs, ds)
  BY <1>1, <1>3, <1>7, <1>8, <1>9 DEF LikeChunks
<1> QED
  BY <1>1, <1>3, <1>7, <1>9, <1>10, <1>11 DEF ds, n, c

-------------------------------------------------------------------------------
(***************************************************************************)
(* The operations keep the blocks in order, whoever owns L.                *)
(***************************************************************************)

\* The inputs are numbers.
LEMMA Inputs ==
    /\ \A n \in Size \cup Alignment \cup Limit : n \in Nat /\ n < WRAP
    /\ CHUNK_HEADER \in Nat \ {0} /\ ARENA_HEADER \in Nat /\ WRAP \in Nat \ {0}
    /\ PAGE_SIZE \in Nat \ {0} /\ SPACE \in Nat
<1>1. WRAP \in Nat \ {0}
  BY ArenaAssumption
<1> QED
  BY <1>1, ArenaAssumption

\* bc_allocators_arena_make_first.
LEMMA MakeFirstStruct ==
    ASSUME NEW L, Struct(arenas, cache, mapped, L), NEW capacity \in Nat \ {0},
           NEW max \in Nat, NEW growable \in BOOLEAN,
           MakeFirst(capacity, max, growable)
    PROVE  Struct(arenas', cache', mapped', L)
<1> DEFINE n == PagesFor(FirstSize(capacity))
           H == ARENA_HEADER + CHUNK_HEADER
<1>1. FirstSize(capacity) \in Nat \ {0} /\ H \in Nat /\ H <= FirstSize(capacity)
  BY Inputs DEF FirstSize
<1>2. n \in Nat \ {0} /\ H <= n * PAGE_SIZE
  BY <1>1, Inputs, PagesForFacts
<1> HIDE DEF n
<1>3. PICK m \in MapBlock(n) :
         /\ arenas' = [a \in DOMAIN arenas \cup {m.block} |->
                          IF a = m.block
                          THEN [chunks |-> <<Chunk(m.block, n, H)>>, max |-> max,
                                growable |-> growable, count |-> 0]
                          ELSE arenas[a]]
         /\ cache' = m.cache /\ mapped' = m.mapped
  BY DEF MakeFirst, n
<1>4. Mapped(m, n, arenas, L)
  BY <1>2, <1>3, MapBlockStruct
<1> DEFINE c == Chunk(m.block, n, H)
           cs == <<c>>
<1>5. /\ Struct(arenas, m.cache, m.mapped, L \cup {m.block})
      /\ m.block \in DOMAIN m.mapped /\ m.mapped[m.block] = n /\ m.block \notin L
      /\ \A a \in DOMAIN arenas : m.block \notin BlocksIn(arenas[a].chunks)
  BY <1>4 DEF Mapped
<1>6. Kernel(m.mapped) /\ m.block \in Page
  BY <1>5 DEF Struct, Kernel
<1>7. c \in ChunkType /\ Whole(c) /\ c.block = m.block /\ c.pages = n
  BY <1>2, <1>5, <1>6, NewChunk
<1>8. m.block \notin DOMAIN arenas
  <2> SUFFICES ASSUME m.block \in DOMAIN arenas PROVE FALSE
    OBVIOUS
  <2>1. arenas[m.block].chunks[1].block = m.block /\ 1 \in DOMAIN arenas[m.block].chunks
    BY DEF Struct, Ledger, Sane
  <2> QED
    BY <1>5, <2>1 DEF BlocksIn
<1> HIDE DEF c
<1>9. /\ cs \in Seq(ChunkType) \ {<<>>} /\ DOMAIN cs = {1} /\ cs[1] = c
  BY <1>7
<1>10. Sane(cs) /\ Tidy(cs, m.mapped) /\ BlocksIn(cs) = {m.block}
  BY <1>5, <1>7, <1>9 DEF Sane, Tidy, BlocksIn
<1> HIDE DEF cs
<1>11. /\ DOMAIN arenas' = DOMAIN arenas \cup {m.block}
       /\ \A b \in DOMAIN arenas : arenas'[b] = arenas[b]
       /\ arenas'[m.block] = [chunks |-> cs, max |-> max, growable |-> growable,
                              count |-> 0]
  BY <1>3, <1>8 DEF cs, c
<1>12. arenas'[m.block] \in ArenaType /\ arenas'[m.block].chunks = cs
  BY <1>9, <1>11 DEF ArenaType
<1>13. Struct(arenas', m.cache, m.mapped, L)
  BY <1>5, <1>6, <1>7, <1>8, <1>9, <1>10, <1>11, <1>12, OpenStruct
<1> QED
  BY <1>3, <1>13

\* What was asked of an allocation.
LEMMA AskedFacts ==
    ASSUME NEW size \in Nat, NEW alignment \in Nat, Asked(size, alignment)
    PROVE  size \in Nat \ {0} /\ alignment \in Nat \ {0}
  BY DEF Asked

\* An arena of the context.
LEMMA ArenaFacts ==
    ASSUME NEW ar, NEW ca, NEW mp, NEW L, Struct(ar, ca, mp, L), NEW a \in DOMAIN ar
    PROVE  /\ ar[a] \in ArenaType /\ Sane(ar[a].chunks) /\ Tidy(ar[a].chunks, mp)
           /\ ar[a].chunks \in Seq(ChunkType) /\ ar[a].chunks # <<>>
           /\ 1 \in DOMAIN ar[a].chunks /\ ar[a].chunks[1].block = a
           /\ BlocksIn(ar[a].chunks) \cap L = {}
  BY DEF Struct, Ledger, Sane

\* An allocation in the current chunk.
LEMMA BumpStruct ==
    ASSUME NEW L, Struct(arenas, cache, mapped, L), NEW a \in DOMAIN arenas,
           NEW size \in Nat, NEW alignment \in Nat, Bump(a, size, alignment)
    PROVE  Struct(arenas', cache', mapped', L)
<1> DEFINE cs == arenas[a].chunks
           ds == Advanced(cs, size, alignment)
<1>1. /\ Asked(size, alignment) /\ Fits(Last(cs), size, alignment)
      /\ arenas' = [arenas EXCEPT ![a].chunks = ds, ![a].count = arenas[a].count + 1]
      /\ cache' = cache /\ mapped' = mapped
  BY DEF Bump, FitsInCurrent, AllocateIn, Advanced
<1>2. /\ arenas[a] \in ArenaType /\ Sane(cs) /\ Tidy(cs, mapped)
      /\ 1 \in DOMAIN cs /\ cs[1].block = a /\ BlocksIn(cs) \cap L = {}
  BY ArenaFacts
<1>3. Sane(ds) /\ LikeChunks(cs, ds)
  BY <1>1, <1>2, AskedFacts, AdvancedFacts
<1>4. BlocksIn(ds) = BlocksIn(cs) /\ Tidy(ds, mapped)
  BY <1>2, <1>3, LikeTidy
<1>5. ds[1].block = a
  BY <1>2, <1>3 DEF LikeChunks
<1> HIDE DEF ds
<1>6. /\ DOMAIN arenas' = DOMAIN arenas
      /\ \A b \in DOMAIN arenas : b # a => arenas'[b] = arenas[b]
      /\ arenas'[a] = [arenas[a] EXCEPT !.chunks = ds, !.count = arenas[a].count + 1]
  BY <1>1
<1>7. arenas'[a] \in ArenaType /\ arenas'[a].chunks = ds
  <2>1. arenas[a].count + 1 \in Nat /\ ds \in Seq(ChunkType) \ {<<>>}
    BY <1>2, <1>3 DEF ArenaType, Sane
  <2> QED
    BY <1>2, <1>6, <2>1 DEF ArenaType
<1>8. /\ Sane(arenas'[a].chunks) /\ Tidy(arenas'[a].chunks, mapped)
      /\ arenas'[a].chunks[1].block = a
      /\ BlocksIn(arenas'[a].chunks) = BlocksIn(arenas[a].chunks)
  BY <1>3, <1>4, <1>5, <1>7
<1>9. BlocksIn(arenas'[a].chunks) \cap L = {}
  BY <1>2, <1>8
<1>10. Exchange(arenas, arenas', a, mapped, L, L)
  BY <1>6, <1>7, <1>8, <1>9 DEF Exchange
<1>11. Struct(arenas', cache, mapped, L)
  BY <1>10, ExchangeStruct
<1> QED
  BY <1>1, <1>11

\* The capacity of a grown chunk is at least what is asked for.
LEMMA TargetFacts ==
    ASSUME NEW arena \in ArenaType, Sane(arena.chunks), NEW min \in Nat
    PROVE  Target(arena, min) \in Nat /\ min <= Target(arena, min)
<1> DEFINE c == Last(arena.chunks)
           doubled == (Capacity(c) * 2) % WRAP
<1>1. c \in ChunkType /\ Whole(c) /\ arena.max \in Nat
  BY DEF Sane, Last, ArenaType
<1>2. c.pages * PAGE_SIZE \in Nat /\ c.header \in Nat /\ c.used \in Nat
  BY <1>1, Inputs DEF ChunkType, Page
<1> HIDE DEF c
<1>3. Capacity(c) \in Nat
  BY <1>1, <1>2 DEF Whole, Capacity
<1>4. doubled \in Nat
  BY <1>3, Inputs
<1>5. Target(arena, min) = AtLeast(AtMost(AtLeast(doubled, min), arena.max), min)
  BY DEF Target, c
<1> HIDE DEF doubled
<1> QED
  BY <1>1, <1>4, <1>5 DEF AtLeast, AtMost

\* The pages of a grown chunk.
LEMMA GrownFacts ==
    ASSUME NEW ar, NEW ca, NEW mp, NEW L, Struct(ar, ca, mp, L), NEW a \in DOMAIN ar,
           ar = arenas, NEW size \in Nat, NEW alignment \in Nat
    PROVE  /\ PagesFor(GrownSize(a, size, alignment)) \in Nat \ {0}
           /\ CHUNK_HEADER <= PagesFor(GrownSize(a, size, alignment)) * PAGE_SIZE
           /\ CHUNK_HEADER + ((size + alignment) % WRAP)
                <= PagesFor(GrownSize(a, size, alignment)) * PAGE_SIZE
<1> DEFINE min == (size + alignment) % WRAP
           t == Target(arenas[a], min)
           g == GrownSize(a, size, alignment)
<1>1. min \in Nat
  BY Inputs
<1>2. t \in Nat /\ min <= t
  BY <1>1, TargetFacts, ArenaFacts
<1>3. g = CHUNK_HEADER + t
  BY DEF GrownSize
<1> HIDE DEF min, t, g
<1>4. g \in Nat \ {0} /\ CHUNK_HEADER <= g /\ CHUNK_HEADER + min <= g
  BY <1>1, <1>2, <1>3, Inputs
<1>5. PagesFor(g) \in Nat \ {0} /\ g <= PagesFor(g) * PAGE_SIZE
  BY <1>4, PagesForFacts
<1>6. PagesFor(g) * PAGE_SIZE \in Nat
  BY <1>5, Inputs
<1> QED
  BY <1>1, <1>4, <1>5, <1>6, Inputs DEF min, g

\* The chunks of arena a, with the one mapped for n pages chained behind the
\* current one.
Grown(a, m, n) == Append(arenas[a].chunks, Chunk(m.block, n, CHUNK_HEADER))

Chained(cs, old, new, m, a) ==
    /\ new \in ChunkType /\ new.block = m.block
    /\ Sane(cs) /\ Tidy(cs, m.mapped) /\ Last(cs) = new
    /\ Len(cs) = Len(old) + 1 /\ cs[Len(cs)] = new
    /\ \A i \in DOMAIN old : i \in DOMAIN cs /\ i # Len(cs) /\ cs[i] = old[i]
    /\ BlocksIn(cs) = BlocksIn(old) \cup {m.block}
    /\ cs[1].block = a

\* They are the chunks of an arena.
LEMMA ChainFacts ==
    ASSUME NEW L, Struct(arenas, cache, mapped, L), NEW a \in DOMAIN arenas,
           NEW n \in Nat \ {0}, CHUNK_HEADER <= n * PAGE_SIZE, NEW m \in MapBlock(n)
    PROVE  /\ Mapped(m, n, arenas, L)
           /\ Chained(Grown(a, m, n), arenas[a].chunks,
                      Chunk(m.block, n, CHUNK_HEADER), m, a)
<1> DEFINE new == Chunk(m.block, n, CHUNK_HEADER)
           old == arenas[a].chunks
           cs  == Append(old, new)
<1>1. Mapped(m, n, arenas, L)
  BY MapBlockStruct
<1>2. /\ Struct(arenas, m.cache, m.mapped, L \cup {m.block})
      /\ m.block \in DOMAIN m.mapped /\ m.mapped[m.block] = n
      /\ m.block \notin BlocksIn(old)
  BY <1>1 DEF Mapped
<1>3. Kernel(m.mapped)
  BY <1>2 DEF Struct
<1>4. new \in ChunkType /\ Whole(new) /\ new.block = m.block /\ new.pages = n
  BY <1>2, <1>3, NewChunk
<1> HIDE DEF new
<1>5. /\ Sane(old) /\ Tidy(old, m.mapped) /\ old \in Seq(ChunkType)
      /\ 1 \in DOMAIN old /\ old[1].block = a
  BY <1>2, ArenaFacts
<1> HIDE DEF old
<1>6. /\ cs \in Seq(ChunkType) /\ cs # <<>> /\ Tidy(cs, m.mapped)
      /\ BlocksIn(cs) = BlocksIn(old) \cup {m.block} /\ Len(cs) = Len(old) + 1
  BY <1>2, <1>4, <1>5, TidyAppend
<1>7. /\ Len(old) \in Nat /\ DOMAIN old = 1 .. Len(old) /\ DOMAIN cs = 1 .. Len(old) + 1
      /\ cs[Len(old) + 1] = new /\ \A i \in 1 .. Len(old) : cs[i] = old[i]
  BY <1>4, <1>5
<1> HIDE DEF cs
<1>8. /\ cs[Len(cs)] = new /\ Last(cs) = new
      /\ \A i \in DOMAIN old : i \in DOMAIN cs /\ i # Len(cs) /\ cs[i] = old[i]
  BY <1>6, <1>7 DEF Last
<1>9. \A i \in DOMAIN cs : i \in DOMAIN old \/ i = Len(cs)
  BY <1>6, <1>7
<1>10. Sane(cs)
  BY <1>4, <1>5, <1>6, <1>8, <1>9 DEF Sane
<1>11. cs[1].block = a
  BY <1>5, <1>8
<1> QED
  BY <1>1, <1>4, <1>6, <1>8, <1>10, <1>11 DEF cs, new, old, Grown, Chained

\* An allocation that grows the arena, and one that fails behind the growth.
LEMMA GrowStruct ==
    ASSUME NEW L, Struct(arenas, cache, mapped, L), NEW a \in DOMAIN arenas,
           NEW size \in Nat, NEW alignment \in Nat, Grow(a, size, alignment)
    PROVE  Struct(arenas', cache', mapped', L)
<1> DEFINE n == PagesFor(GrownSize(a, size, alignment))
<1>1. n \in Nat \ {0} /\ CHUNK_HEADER <= n * PAGE_SIZE
  BY GrownFacts
<1>2. size \in Nat /\ alignment \in Nat \ {0}
  BY AskedFacts DEF Grow
<1>3. PICK m \in MapBlock(n) :
         LET new == Chunk(m.block, n, CHUNK_HEADER)
             cs  == Append(arenas[a].chunks, new) IN
         /\ cache' = m.cache /\ mapped' = m.mapped
         /\ IF Fits(new, size, alignment) THEN AllocateIn(a, cs, size, alignment)
            ELSE arenas' = [arenas EXCEPT ![a].chunks = cs]
  BY DEF Grow
<1> HIDE DEF n
<1> DEFINE new == Chunk(m.block, n, CHUNK_HEADER)
           old == arenas[a].chunks
           cs  == Append(old, new)
           ds  == Advanced(cs, size, alignment)
<1>4. /\ Mapped(m, n, arenas, L) /\ Sane(cs) /\ Tidy(cs, m.mapped) /\ Last(cs) = new
      /\ BlocksIn(cs) = BlocksIn(old) \cup {m.block} /\ cs[1].block = a
  <2>1. Mapped(m, n, arenas, L) /\ Chained(Grown(a, m, n), old, new, m, a)
    BY <1>1, ChainFacts
  <2> QED
    BY <2>1 DEF Chained, Grown
<1>5. /\ Struct(arenas, m.cache, m.mapped, L \cup {m.block}) /\ m.block \notin L
      /\ arenas[a] \in ArenaType /\ BlocksIn(old) \cap L = {}
  BY <1>4, ArenaFacts DEF Mapped
<1>6. ASSUME NEW es, Sane(es), Tidy(es, m.mapped), es[1].block = a,
             BlocksIn(es) = BlocksIn(cs), NEW k \in Nat,
             DOMAIN arenas' = DOMAIN arenas,
             \A b \in DOMAIN arenas : b # a => arenas'[b] = arenas[b],
             arenas'[a] = [arenas[a] EXCEPT !.chunks = es, !.count = k]
      PROVE  Struct(arenas', m.cache, m.mapped, L)
  <2>1. arenas'[a] \in ArenaType /\ arenas'[a].chunks = es
    <3>1. es \in Seq(ChunkType) \ {<<>>}
      BY <1>6 DEF Sane
    <3> QED
      BY <1>5, <1>6, <3>1 DEF ArenaType
  <2>2. BlocksIn(arenas'[a].chunks) = BlocksIn(old) \cup {m.block}
    BY <1>4, <1>6, <2>1
  <2> HIDE DEF old, cs
  <2>3. /\ BlocksIn(arenas'[a].chunks) \cap L = {}
        /\ BlocksIn(arenas'[a].chunks) \cup L = BlocksIn(old) \cup (L \cup {m.block})
    BY <1>5, <2>2
  <2>4. Sane(arenas'[a].chunks) /\ Tidy(arenas'[a].chunks, m.mapped)
        /\ arenas'[a].chunks[1].block = a
    BY <1>6, <2>1
  <2> QED
    <3>1. Exchange(arenas, arenas', a, m.mapped, L \cup {m.block}, L)
      BY <1>6, <2>1, <2>3, <2>4 DEF Exchange, old
    <3> QED
      BY <1>5, <3>1, ExchangeStruct
<1> HIDE DEF cs, new
<1>7. CASE Fits(new, size, alignment)
  <2>1. arenas' = [arenas EXCEPT ![a].chunks = ds, ![a].count = arenas[a].count + 1]
    BY <1>3, <1>7 DEF AllocateIn, Advanced, cs, new
  <2>2. Sane(ds) /\ LikeChunks(cs, ds) /\ 1 \in DOMAIN cs
    <3>1. 1 \in DOMAIN cs
      BY <1>4 DEF Sane
    <3> QED
      BY <1>2, <1>4, <1>7, <3>1, AdvancedFacts
  <2>3. BlocksIn(ds) = BlocksIn(cs) /\ Tidy(ds, m.mapped) /\ ds[1].block = a
    BY <1>4, <2>2, LikeTidy DEF LikeChunks
  <2> HIDE DEF ds
  <2>4. /\ DOMAIN arenas' = DOMAIN arenas
        /\ \A b \in DOMAIN arenas : b # a => arenas'[b] = arenas[b]
        /\ arenas'[a] = [arenas[a] EXCEPT !.chunks = ds, !.count = arenas[a].count + 1]
    BY <2>1
  <2>5. arenas[a].count + 1 \in Nat
    BY <1>5 DEF ArenaType
  <2>6. Struct(arenas', m.cache, m.mapped, L)
    BY <1>6, <2>2, <2>3, <2>4, <2>5
  <2> QED
    BY <1>3, <2>6
<1>8. CASE ~ Fits(new, size, alignment)
  <2>1. arenas' = [arenas EXCEPT ![a].chunks = cs]
    BY <1>3, <1>8 DEF cs, new
  <2>2. arenas[a].count \in Nat
    BY <1>5 DEF ArenaType
  <2>3. /\ DOMAIN arenas' = DOMAIN arenas
        /\ \A b \in DOMAIN arenas : b # a => arenas'[b] = arenas[b]
        /\ arenas'[a] = [arenas[a] EXCEPT !.chunks = cs]
    BY <2>1
  <2>4. arenas'[a] = [arenas[a] EXCEPT !.chunks = cs, !.count = arenas[a].count]
    BY <1>5, <2>3 DEF ArenaType
  <2>5. Struct(arenas', m.cache, m.mapped, L)
    BY <1>4, <1>6, <2>2, <2>3, <2>4
  <2> QED
    BY <1>3, <2>5
<1> QED
  BY <1>7, <1>8

\* What is left of an arena by a reset: its first chunk, empty.
LEMMA FirstChunk ==
    ASSUME NEW cs, Sane(cs), NEW mp, Tidy(cs, mp)
    PROVE  LET d  == [Head(cs) EXCEPT !.used = 0]
               ds == <<d>> IN
           /\ d \in ChunkType /\ ds[1] = d /\ DOMAIN ds = {1}
           /\ d.block = cs[1].block /\ d.pages = cs[1].pages
           /\ d.header = cs[1].header /\ d.used = 0
           /\ Sane(ds) /\ Tidy(ds, mp)
           /\ BlocksIn(ds) = {cs[1].block}
<1> DEFINE d  == [Head(cs) EXCEPT !.used = 0]
           ds == <<d>>
<1>1. cs \in Seq(ChunkType) /\ cs # <<>> /\ Head(cs) = cs[1] /\ 1 \in DOMAIN cs
  BY DEF Sane
<1>2. cs[1] \in ChunkType /\ Whole(cs[1])
  BY <1>1 DEF Sane
<1>3. /\ d \in ChunkType /\ d.block = cs[1].block /\ d.pages = cs[1].pages
      /\ d.header = cs[1].header /\ d.used = 0
  BY <1>1, <1>2 DEF ChunkType
<1>4. Whole(d)
  <2>1. cs[1].header \in Nat /\ cs[1].used \in Nat /\ cs[1].pages * PAGE_SIZE \in Nat
    BY <1>2, Inputs DEF ChunkType, Page
  <2> QED
    BY <1>2, <1>3, <2>1 DEF Whole
<1> HIDE DEF d
<1>5. ds \in Seq(ChunkType) \ {<<>>} /\ ds[1] = d /\ DOMAIN ds = {1}
  BY <1>3
<1> HIDE DEF ds
<1>6. Sane(ds) /\ Tidy(ds, mp) /\ BlocksIn(ds) = {cs[1].block}
  BY <1>1, <1>3, <1>4, <1>5 DEF Sane, Tidy, BlocksIn
<1> QED
  BY <1>3, <1>5, <1>6 DEF ds, d

\* bc_allocators_arena_reset: the grown chunks are released.
LEMMA ResetStruct ==
    ASSUME NEW L, Struct(arenas, cache, mapped, L), NEW a \in DOMAIN arenas,
           NEW left, ResetFrom(a, left)
    PROVE  Struct(arenas', cache', mapped', L)
<1> DEFINE cs == arenas[a].chunks
           d  == [Head(cs) EXCEPT !.used = 0]
           ds == <<d>>
           ts == Tail(cs)
<1>1. /\ arenas[a] \in ArenaType /\ Sane(cs) /\ Tidy(cs, mapped)
      /\ cs \in Seq(ChunkType) /\ cs # <<>>
      /\ 1 \in DOMAIN cs /\ cs[1].block = a /\ BlocksIn(cs) \cap L = {}
  BY ArenaFacts
<1>2. /\ Release(ts, left)
      /\ arenas' = [arenas EXCEPT ![a].chunks = ds, ![a].count = 0]
  BY DEF ResetFrom
<1>3. ts \in Seq(ChunkType) /\ Tidy(ts, mapped) /\ BlocksIn(ts) = BlocksIn(cs) \ {a}
  BY <1>1, TidyTail
<1>4. /\ d.block = a /\ ds[1] = d /\ Sane(ds) /\ Tidy(ds, mapped)
      /\ BlocksIn(ds) = {a}
  BY <1>1, FirstChunk
<1>5. a \in BlocksIn(cs)
  BY <1>1 DEF BlocksIn
<1> HIDE DEF d, ds, ts
<1>6. /\ DOMAIN arenas' = DOMAIN arenas
      /\ \A b \in DOMAIN arenas : b # a => arenas'[b] = arenas[b]
      /\ arenas'[a] = [arenas[a] EXCEPT !.chunks = ds, !.count = 0]
  BY <1>2
<1>7. arenas'[a] \in ArenaType /\ arenas'[a].chunks = ds
  <2>1. ds \in Seq(ChunkType) \ {<<>>}
    BY <1>4 DEF Sane
  <2>2. arenas'[a] = [chunks |-> ds, max |-> arenas[a].max,
                      growable |-> arenas[a].growable, count |-> 0]
    BY <1>1, <1>6 DEF ArenaType
  <2>3. arenas[a].max \in Nat /\ arenas[a].growable \in BOOLEAN
    BY <1>1 DEF ArenaType
  <2> QED
    BY <2>1, <2>2, <2>3 DEF ArenaType
<1>8. /\ BlocksIn(arenas'[a].chunks) \cap (BlocksIn(ts) \cup L) = {}
      /\ BlocksIn(arenas'[a].chunks) \cup (BlocksIn(ts) \cup L)
           = BlocksIn(arenas[a].chunks) \cup L
  BY <1>1, <1>3, <1>4, <1>5, <1>7
<1>9. /\ Sane(arenas'[a].chunks) /\ Tidy(arenas'[a].chunks, mapped)
      /\ arenas'[a].chunks[1].block = a
  BY <1>4, <1>7
<1>10. Exchange(arenas, arenas', a, mapped, L, BlocksIn(ts) \cup L)
  BY <1>6, <1>7, <1>8, <1>9 DEF Exchange
<1>11. Struct(arenas', cache, mapped, BlocksIn(ts) \cup L)
  BY <1>10, ExchangeStruct
<1>12. BlocksIn(ts) \cap L = {}
  BY <1>1, <1>3
<1> QED
  BY <1>2, <1>3, <1>11, <1>12, ReleaseStruct

\* The chunks of an arena in the order a destruction releases them.
LEMMA Rotated ==
    ASSUME NEW s \in Seq(ChunkType), s # <<>>, NEW mp, Tidy(s, mp)
    PROVE  LET t == Append(Tail(s), Head(s)) IN
           /\ t \in Seq(ChunkType) /\ Tidy(t, mp) /\ BlocksIn(t) = BlocksIn(s)
           /\ Len(t) = Len(s)
<1> DEFINE r == Tail(s)
           h == Head(s)
           t == Append(r, h)
<1>1. /\ h = s[1] /\ 1 \in DOMAIN s /\ h \in ChunkType /\ r \in Seq(ChunkType)
      /\ Len(r) = Len(s) - 1 /\ Tidy(r, mp) /\ BlocksIn(r) = BlocksIn(s) \ {h.block}
  BY TidyTail
<1>2. h.block \in BlocksIn(s) /\ h.block \in DOMAIN mp /\ h.pages = mp[h.block]
  BY <1>1 DEF Tidy, BlocksIn
<1> HIDE DEF r, h
<1>3. h.block \notin BlocksIn(r)
  BY <1>1
<1>4. /\ t \in Seq(ChunkType) /\ Tidy(t, mp) /\ BlocksIn(t) = BlocksIn(r) \cup {h.block}
      /\ Len(t) = Len(r) + 1
  BY <1>1, <1>2, <1>3, TidyAppend
<1>5. BlocksIn(t) = BlocksIn(s) /\ Len(t) = Len(s)
  BY <1>1, <1>2, <1>4
<1> QED
  BY <1>4, <1>5 DEF r, h

\* bc_allocators_arena_destroy.
LEMMA DestroyStruct ==
    ASSUME NEW L, Struct(arenas, cache, mapped, L), NEW a \in DOMAIN arenas, Destroy(a)
    PROVE  Struct(arenas', cache', mapped', L)
<1> DEFINE s == arenas[a].chunks
           t == Append(Tail(s), Head(s))
<1>1. s \in Seq(ChunkType) /\ s # <<>> /\ Tidy(s, mapped)
  BY ArenaFacts
<1>2. t \in Seq(ChunkType) /\ Tidy(t, mapped) /\ BlocksIn(t) = BlocksIn(s)
  BY <1>1, Rotated
<1>3. Release(t, dirty) /\ arenas' = [b \in DOMAIN arenas \ {a} |-> arenas[b]]
  BY DEF Destroy
<1>4. DOMAIN arenas' = DOMAIN arenas \ {a} /\ \A b \in DOMAIN arenas' : arenas'[b] = arenas[b]
  BY <1>3
<1>5. Struct(arenas', cache, mapped, BlocksIn(s) \cup L) /\ BlocksIn(s) \cap L = {}
  BY <1>4, CloseStruct
<1> HIDE DEF s, t
<1> QED
  BY <1>2, <1>3, <1>5, ReleaseStruct

\* An operation of an allocation that succeeds.
LEMMA AllocateStruct ==
    ASSUME NEW L, Struct(arenas, cache, mapped, L), NEW a \in DOMAIN arenas,
           NEW size \in Nat, NEW alignment \in Nat, Allocate(a, size, alignment)
    PROVE  Struct(arenas', cache', mapped', L)
<1>1. CASE Bump(a, size, alignment)
  BY <1>1, BumpStruct
<1>2. CASE Grow(a, size, alignment)
  BY <1>2, GrowStruct
<1>3. CASE AllocateFails(a, size, alignment)
  BY <1>3 DEF AllocateFails, vars
<1> QED
  BY <1>1, <1>2, <1>3 DEF Allocate

\* Every step of the arenas.
LEMMA NextStruct ==
    ASSUME NEW L, Struct(arenas, cache, mapped, L), Next
    PROVE  Struct(arenas', cache', mapped', L)
<1>1. ASSUME NEW capacity \in Size, Create(capacity)
      PROVE  Struct(arenas', cache', mapped', L)
  <2>1. capacity \in Nat \ {0}
    BY <1>1, Inputs DEF Create, MakeFirst
  <2> QED
    BY <1>1, <2>1, MakeFirstStruct DEF Create
<1>2. ASSUME NEW initial \in Size, NEW max \in Limit, CreateGrowable(initial, max)
      PROVE  Struct(arenas', cache', mapped', L)
  <2>1. initial \in Nat \ {0} /\ max \in Nat
    BY <1>2, Inputs DEF CreateGrowable, MakeFirst
  <2> QED
    BY <1>2, <2>1, MakeFirstStruct DEF CreateGrowable
<1>3. ASSUME NEW capacity, NEW max, CreateFails(capacity, max)
      PROVE  Struct(arenas', cache', mapped', L)
  BY <1>3 DEF CreateFails, vars
<1>4. ASSUME NEW a \in DOMAIN arenas, NEW size \in Size, NEW alignment \in Alignment,
             Allocate(a, size, alignment)
      PROVE  Struct(arenas', cache', mapped', L)
  BY <1>4, Inputs, AllocateStruct
<1>5. ASSUME NEW a \in DOMAIN arenas, NEW size \in Size \ {0}, CopyString(a, size - 1)
      PROVE  Struct(arenas', cache', mapped', L)
  <2>1. size \in Nat /\ (size - 1) + 1 = size
    BY Inputs
  <2>2. Allocate(a, size, 1)
    BY <1>5, <2>1 DEF CopyString
  <2> QED
    BY <2>1, <2>2, AllocateStruct
<1>6. ASSUME NEW a \in DOMAIN arenas, Reset(a) \/ ResetSecure(a)
      PROVE  Struct(arenas', cache', mapped', L)
  BY <1>6, ResetStruct DEF Reset, ResetSecure
<1>7. ASSUME NEW a \in DOMAIN arenas, ReleasePages(a)
      PROVE  Struct(arenas', cache', mapped', L)
  BY <1>7 DEF ReleasePages
<1>8. ASSUME NEW a \in DOMAIN arenas, Destroy(a)
      PROVE  Struct(arenas', cache', mapped', L)
  BY <1>8, DestroyStruct
<1> QED
  BY <1>1, <1>2, <1>3, <1>4, <1>5, <1>6, <1>7, <1>8 DEF Next

\* At the start nothing is mapped.
LEMMA InitStruct ==
    ASSUME Init
    PROVE  Struct(arenas, cache, mapped, {})
<1>1. DOMAIN arenas = {} /\ DOMAIN mapped = {} /\ cache = <<>> /\ DOMAIN cache = {}
  BY DEF Init
<1>2. cache \in Seq(Block) /\ Len(cache) = 0 /\ CACHE_SIZE \in Nat
  BY <1>1, ArenaAssumption
<1>3. Kernel(mapped)
  BY <1>1 DEF Kernel
<1>4. BlocksIn(cache) = {} /\ Tidy(cache, mapped)
  BY <1>1 DEF BlocksIn, Tidy
<1>5. Ledger(arenas, cache, mapped, {})
  BY <1>1, <1>4 DEF Ledger
<1> QED
  BY <1>1, <1>2, <1>3, <1>5 DEF Struct

\* When no mapping is on its way the blocks are conserved.
LEMMA StructConserves ==
    ASSUME Struct(arenas, cache, mapped, {})
    PROVE  BlocksConserved
<1> DEFINE B(b) == BlocksIn(arenas[b].chunks)
<1>1. /\ \A b, d \in DOMAIN arenas : b # d => B(b) \cap B(d) = {}
      /\ \A b \in DOMAIN arenas : B(b) \cap BlocksIn(cache) = {}
      /\ DOMAIN mapped = (UNION {B(b) : b \in DOMAIN arenas}) \cup BlocksIn(cache)
      /\ Tidy(cache, mapped) /\ \A b \in DOMAIN arenas : Tidy(arenas[b].chunks, mapped)
      /\ \A b \in DOMAIN arenas : arenas[b].chunks[1].block = b
  BY DEF Struct, Ledger
<1>2. 0 \notin DOMAIN arenas
  BY Inputs DEF Struct, Page
<1>3. \A o \in Owner : \/ \E a \in DOMAIN arenas : \E i \in DOMAIN arenas[a].chunks : o = <<a, i>>
                       \/ \E i \in DOMAIN cache : o = <<0, i>>
  BY DEF Owner
<1>4. ASSUME NEW a \in DOMAIN arenas, NEW i \in DOMAIN arenas[a].chunks
      PROVE  /\ <<a, i>> \in Owner /\ Owned(<<a, i>>) = arenas[a].chunks[i]
             /\ Owned(<<a, i>>).block \in B(a)
             /\ Owned(<<a, i>>).block \in DOMAIN mapped
             /\ Owned(<<a, i>>).pages = mapped[Owned(<<a, i>>).block]
  <2>1. <<a, i>> \in Owner
    BY DEF Owner
  <2>2. Owned(<<a, i>>) = arenas[a].chunks[i]
    BY <1>2 DEF Owned
  <2> QED
    BY <1>1, <2>1, <2>2 DEF Tidy, BlocksIn
<1>5. ASSUME NEW i \in DOMAIN cache
      PROVE  /\ <<0, i>> \in Owner /\ Owned(<<0, i>>) = cache[i]
             /\ Owned(<<0, i>>).block \in BlocksIn(cache)
             /\ Owned(<<0, i>>).block \in DOMAIN mapped
             /\ Owned(<<0, i>>).pages = mapped[Owned(<<0, i>>).block]
  <2>1. <<0, i>> \in Owner
    BY DEF Owner
  <2>2. Owned(<<0, i>>) = cache[i]
    BY DEF Owned
  <2> QED
    BY <1>1, <2>1, <2>2 DEF Tidy, BlocksIn
<1>6. \A o \in Owner : /\ Owned(o).block \in DOMAIN mapped
                       /\ Owned(o).pages = mapped[Owned(o).block]
  BY <1>3, <1>4, <1>5
<1>7. ASSUME NEW o \in Owner, NEW p \in Owner, Owned(o).block = Owned(p).block
      PROVE  o = p
  <2>1. CASE \E a \in DOMAIN arenas : \E i \in DOMAIN arenas[a].chunks : o = <<a, i>>
    <3>1. PICK a \in DOMAIN arenas : \E i \in DOMAIN arenas[a].chunks : o = <<a, i>>
      BY <2>1
    <3>2. PICK i \in DOMAIN arenas[a].chunks : o = <<a, i>>
      BY <3>1
    <3>3. Owned(p).block \in B(a)
      BY <1>4, <1>7, <3>2
    <3>4. ~ \E j \in DOMAIN cache : p = <<0, j>>
      BY <1>1, <1>5, <3>3
    <3>5. PICK b \in DOMAIN arenas : \E j \in DOMAIN arenas[b].chunks : p = <<b, j>>
      BY <1>3, <3>4
    <3>6. PICK j \in DOMAIN arenas[b].chunks : p = <<b, j>>
      BY <3>5
    <3>7. Owned(p).block \in B(b)
      BY <1>4, <3>6
    <3>8. b = a
      BY <1>1, <3>3, <3>7
    <3>9. arenas[a].chunks[i].block = arenas[a].chunks[j].block
      BY <1>4, <1>7, <3>2, <3>6, <3>8
    <3> QED
      BY <1>1, <3>2, <3>6, <3>8, <3>9 DEF Tidy
  <2>2. CASE \E i \in DOMAIN cache : o = <<0, i>>
    <3>1. PICK i \in DOMAIN cache : o = <<0, i>>
      BY <2>2
    <3>2. Owned(p).block \in BlocksIn(cache)
      BY <1>5, <1>7, <3>1
    <3>3. \A b \in DOMAIN arenas : \A j \in DOMAIN arenas[b].chunks : p # <<b, j>>
      BY <1>1, <1>4, <3>2
    <3>4. PICK j \in DOMAIN cache : p = <<0, j>>
      BY <1>3, <3>3
    <3>5. cache[i].block = cache[j].block
      BY <1>5, <1>7, <3>1, <3>4
    <3> QED
      BY <1>1, <3>1, <3>4, <3>5 DEF Tidy
  <2> QED
    BY <1>3, <2>1, <2>2
<1>8. ASSUME NEW b \in DOMAIN mapped PROVE \E o \in Owner : Owned(o).block = b
  <2>1. CASE b \in BlocksIn(cache)
    <3>1. PICK i \in DOMAIN cache : b = cache[i].block
      BY <2>1 DEF BlocksIn
    <3> QED
      BY <1>5, <3>1
  <2>2. CASE b \notin BlocksIn(cache)
    <3>1. PICK a \in DOMAIN arenas : b \in B(a)
      BY <1>1, <2>2
    <3>2. PICK i \in DOMAIN arenas[a].chunks : b = arenas[a].chunks[i].block
      BY <3>1 DEF BlocksIn
    <3> QED
      BY <1>4, <3>2
  <2> QED
    BY <2>1, <2>2
<1> QED
  BY <1>1, <1>6, <1>7, <1>8 DEF BlocksConserved

\* Every mapping has exactly one owner, in every state: growth, reset,
\* destruction and the cache neither lose a block nor share it.
THEOREM BlocksAreConserved == Spec => []BlocksConserved
<1> DEFINE Inv == Struct(arenas, cache, mapped, {})
<1>1. Init => Inv
  BY InitStruct
<1>2. Inv /\ [Next]_vars => Inv'
  <2>1. CASE Next
    BY <2>1, NextStruct
  <2>2. CASE UNCHANGED vars
    BY <2>2 DEF vars
  <2> QED
    BY <2>1, <2>2
<1>3. Inv => BlocksConserved
  BY StructConserves
<1> QED
  BY <1>1, <1>2, <1>3, PTL DEF Spec

-------------------------------------------------------------------------------
(***************************************************************************)
(* The allocations of the program.                                         *)
(***************************************************************************)

\* An allocation lies in the used part of a chunk.
Within(x, c) == /\ MemoryStart(c) <= x.at
                /\ x.at + x.size <= MemoryStart(c) + c.used

\* It does not reach what is free of the chunk.
Beside(x, c) == \/ x.at + x.size <= MemoryStart(c) + c.used
                \/ (c.block + c.pages) * PAGE_SIZE <= x.at

Fine(x) == /\ x.at \in Nat /\ x.size \in Size \ {0}
           /\ x.alignment \in (Alignment \cup {1}) \ {0} /\ x.at % x.alignment = 0

Placed(x, ar) ==
    /\ x.arena \in DOMAIN ar
    /\ \E i \in DOMAIN ar[x.arena].chunks : Within(x, ar[x.arena].chunks[i])

Of(a, hd) == {x \in hd : x.arena = a}

Program(ar, hd) ==
    /\ IsFiniteSet(hd)
    /\ \A x \in hd : Fine(x) /\ Placed(x, ar)
    /\ \A a \in DOMAIN ar : ar[a].count = Cardinality(Of(a, hd))

\* Where the memory of a chunk lies.
LEMMA ChunkBytes ==
    ASSUME NEW mp, Kernel(mp), NEW c \in ChunkType, Whole(c),
           c.block \in DOMAIN mp, c.pages = mp[c.block]
    PROVE  /\ MemoryStart(c) \in Nat /\ c.used \in Nat /\ Capacity(c) \in Nat
           /\ c.used <= Capacity(c)
           /\ MemoryStart(c) + Capacity(c) = (c.block + c.pages) * PAGE_SIZE
           /\ PAGE_SIZE <= c.block * PAGE_SIZE /\ c.block * PAGE_SIZE \in Nat
           /\ c.block * PAGE_SIZE <= MemoryStart(c)
           /\ (c.block + c.pages) * PAGE_SIZE <= (SPACE + 1) * PAGE_SIZE
           /\ (c.block + c.pages) * PAGE_SIZE \in Nat /\ (SPACE + 1) * PAGE_SIZE \in Nat
<1>1. /\ c.block \in Nat \ {0} /\ c.pages \in Nat \ {0} /\ c.header \in Nat
      /\ c.used \in Nat /\ PAGE_SIZE \in Nat /\ SPACE \in Nat
      /\ c.block + c.pages <= SPACE + 1
  BY Inputs DEF ChunkType, Page, Kernel
<1> DEFINE b == c.block * PAGE_SIZE
           p == c.pages * PAGE_SIZE
<1>2. 1 * PAGE_SIZE <= b /\ b \in Nat
  BY <1>1, MulMono
<1>3. p \in Nat /\ (c.block + c.pages) * PAGE_SIZE = b + p
  BY <1>1, MulAdd, MulMono
<1>4. (c.block + c.pages) * PAGE_SIZE <= (SPACE + 1) * PAGE_SIZE
      /\ (SPACE + 1) * PAGE_SIZE \in Nat
  <2>1. c.block + c.pages \in Nat /\ SPACE + 1 \in Nat
    BY <1>1
  <2> QED
    BY <1>1, <2>1, MulMono
<1>5. MemoryStart(c) = b + c.header /\ Capacity(c) = p - c.header
  BY DEF MemoryStart, Capacity
<1>6. c.header + c.used <= p
  BY DEF Whole
<1> HIDE DEF b, p
<1>7. /\ MemoryStart(c) \in Nat /\ Capacity(c) \in Nat /\ c.used <= Capacity(c)
      /\ b <= MemoryStart(c) /\ MemoryStart(c) + Capacity(c) = b + p
  BY <1>1, <1>2, <1>3, <1>5, <1>6
<1>8. PAGE_SIZE <= b
  BY <1>1, <1>2
<1> QED
  BY <1>1, <1>2, <1>3, <1>4, <1>7, <1>8 DEF b

\* The bytes of one block are not those of another.
LEMMA OtherBlock ==
    ASSUME NEW mp, Kernel(mp), NEW c \in ChunkType, Whole(c),
           c.block \in DOMAIN mp, c.pages = mp[c.block],
           NEW d \in ChunkType, Whole(d),
           d.block \in DOMAIN mp, d.pages = mp[d.block], c.block # d.block,
           NEW x, x.at \in Nat, x.size \in Nat, Within(x, d)
    PROVE  Beside(x, c)
<1>1. /\ c.block \in Nat /\ d.block \in Nat /\ c.pages \in Nat /\ d.pages \in Nat
      /\ PAGE_SIZE \in Nat
  BY Inputs DEF ChunkType, Page
<1>2. c.block + c.pages <= d.block \/ d.block + d.pages <= c.block
  BY <1>1 DEF Kernel
<1>3. CASE c.block + c.pages <= d.block
  <2>1. (c.block + c.pages) * PAGE_SIZE <= d.block * PAGE_SIZE
    BY <1>1, <1>3, MulMono
  <2>2. d.block * PAGE_SIZE <= MemoryStart(d) /\ MemoryStart(d) <= x.at
    BY ChunkBytes DEF Within
  <2>3. (c.block + c.pages) * PAGE_SIZE \in Nat /\ d.block * PAGE_SIZE \in Nat
        /\ MemoryStart(d) \in Nat
    BY ChunkBytes
  <2> QED
    BY <2>1, <2>2, <2>3 DEF Beside
<1>4. CASE d.block + d.pages <= c.block
  <2>1. (d.block + d.pages) * PAGE_SIZE <= c.block * PAGE_SIZE
    BY <1>1, <1>4, MulMono
  <2>2. /\ MemoryStart(d) \in Nat /\ d.used \in Nat /\ Capacity(d) \in Nat
        /\ d.used <= Capacity(d)
        /\ MemoryStart(d) + Capacity(d) = (d.block + d.pages) * PAGE_SIZE
    BY ChunkBytes
  <2>3. /\ c.block * PAGE_SIZE \in Nat /\ MemoryStart(c) \in Nat /\ c.used \in Nat
        /\ c.block * PAGE_SIZE <= MemoryStart(c)
    BY ChunkBytes
  <2>4. x.at + x.size <= MemoryStart(d) + d.used
    BY DEF Within
  <2> QED
    BY <2>1, <2>2, <2>3, <2>4 DEF Beside
<1> QED
  BY <1>2, <1>3, <1>4

\* A chunk of an arena, and its mapping.
LEMMA ChunkFacts ==
    ASSUME NEW ar, NEW ca, NEW mp, NEW L, Struct(ar, ca, mp, L), NEW a \in DOMAIN ar,
           NEW i \in DOMAIN ar[a].chunks
    PROVE  /\ ar[a].chunks[i] \in ChunkType /\ Whole(ar[a].chunks[i])
           /\ ar[a].chunks[i].block \in DOMAIN mp
           /\ ar[a].chunks[i].pages = mp[ar[a].chunks[i].block]
           /\ ar[a].chunks[i].block \in BlocksIn(ar[a].chunks)
  BY DEF Struct, Ledger, Sane, Tidy, BlocksIn

\* No allocation reaches what is free of a chunk.
LEMMA AllBeside ==
    ASSUME NEW L, Struct(arenas, cache, mapped, L), Program(arenas, held),
           NEW a \in DOMAIN arenas, NEW i \in DOMAIN arenas[a].chunks, NEW x \in held
    PROVE  Beside(x, arenas[a].chunks[i])
<1> DEFINE c == arenas[a].chunks[i]
           b == x.arena
<1>1. b \in DOMAIN arenas /\ x.at \in Nat /\ x.size \in Nat
  BY Inputs DEF Program, Placed, Fine
<1>2. PICK j \in DOMAIN arenas[b].chunks : Within(x, arenas[b].chunks[j])
  BY DEF Program, Placed
<1> DEFINE d == arenas[b].chunks[j]
<1>3. /\ c \in ChunkType /\ Whole(c) /\ c.block \in DOMAIN mapped
      /\ c.pages = mapped[c.block] /\ c.block \in BlocksIn(arenas[a].chunks)
  BY ChunkFacts
<1>4. /\ d \in ChunkType /\ Whole(d) /\ d.block \in DOMAIN mapped
      /\ d.pages = mapped[d.block] /\ d.block \in BlocksIn(arenas[b].chunks)
  BY <1>1, ChunkFacts
<1>5. CASE c.block = d.block
  <2>1. a = b
    BY <1>1, <1>3, <1>4, <1>5 DEF Struct, Ledger
  <2>2. i = j
    BY <1>1, <1>5, <2>1 DEF Struct, Ledger, Tidy
  <2> QED
    BY <1>2, <2>1, <2>2 DEF Within, Beside
<1>6. CASE c.block # d.block
  BY <1>1, <1>2, <1>3, <1>4, <1>6, OtherBlock DEF Struct
<1> QED
  BY <1>5, <1>6

\* What an allocation in chunk c returns.
NewIn(a, c, size, alignment) ==
    [arena |-> a, at |-> MemoryStart(c) + Start(c, alignment), size |-> size,
     alignment |-> alignment]

\* The bytes of x and y have nothing in common.
Apart(x, y) == x.at + x.size <= y.at \/ y.at + y.size <= x.at

InSpace(x) == PAGE_SIZE <= x.at /\ x.at + x.size <= (SPACE + 1) * PAGE_SIZE

\* It is aligned, lies in the space of the process, and touches nobody's bytes.
LEMMA NewFacts ==
    ASSUME NEW mp, Kernel(mp), NEW c \in ChunkType, Whole(c),
           c.block \in DOMAIN mp, c.pages = mp[c.block],
           NEW size \in Size \ {0}, NEW alignment \in (Alignment \cup {1}) \ {0},
           Fits(c, size, alignment), NEW a
    PROVE  LET x == NewIn(a, c, size, alignment) IN
           /\ Fine(x) /\ InSpace(x)
           /\ Within(x, [c EXCEPT !.used = End(c, size, alignment)])
           /\ \A y : y.at \in Nat /\ y.size \in Nat /\ Beside(y, c) => Apart(x, y)
<1> DEFINE x == NewIn(a, c, size, alignment)
           ms == MemoryStart(c)
           st == Start(c, alignment)
           e  == End(c, size, alignment)
           top == (c.block + c.pages) * PAGE_SIZE
<1>1. size \in Nat \ {0} /\ alignment \in Nat \ {0}
  BY Inputs
<1>2. /\ ms \in Nat /\ st \in Nat /\ c.used <= st /\ (ms + st) % alignment = 0
      /\ e \in Nat /\ e = st + size
  BY <1>1, StartFacts
<1>3. /\ c.used \in Nat /\ Capacity(c) \in Nat /\ ms + Capacity(c) = top
      /\ PAGE_SIZE <= ms /\ top <= (SPACE + 1) * PAGE_SIZE /\ top \in Nat
      /\ (SPACE + 1) * PAGE_SIZE \in Nat
  <2>1. PAGE_SIZE <= c.block * PAGE_SIZE /\ c.block * PAGE_SIZE <= ms
    BY ChunkBytes
  <2>2. c.block * PAGE_SIZE \in Nat /\ PAGE_SIZE \in Nat
    BY ChunkBytes, Inputs
  <2> QED
    BY <1>2, <2>1, <2>2, ChunkBytes
<1>4. e <= Capacity(c)
  BY DEF Fits
<1>5. x.arena = a /\ x.at = ms + st /\ x.size = size /\ x.alignment = alignment
  BY DEF NewIn
<1>6. [c EXCEPT !.used = e].used = e /\ MemoryStart([c EXCEPT !.used = e]) = ms
  BY DEF ChunkType, MemoryStart
<1> HIDE DEF x, ms, st, e, top
<1>7. x.at + x.size = ms + e /\ x.at \in Nat
  BY <1>1, <1>2, <1>5
<1>8. Fine(x)
  BY <1>2, <1>5, <1>7 DEF Fine
<1>9. InSpace(x)
  <2>1. PAGE_SIZE \in Nat
    BY Inputs
  <2>2. PAGE_SIZE <= x.at
    BY <1>2, <1>3, <1>5, <2>1
  <2>3. x.at + x.size <= top
    BY <1>2, <1>3, <1>4, <1>7
  <2> QED
    BY <1>1, <1>3, <1>5, <1>7, <2>2, <2>3 DEF InSpace
<1>10. Within(x, [c EXCEPT !.used = e])
  BY <1>2, <1>5, <1>6, <1>7 DEF Within
<1>11. ASSUME NEW y, y.at \in Nat, y.size \in Nat, Beside(y, c)
       PROVE  Apart(x, y)
  <2>1. CASE y.at + y.size <= ms + c.used
    BY <1>2, <1>3, <1>5, <1>11, <2>1 DEF Apart
  <2>2. CASE top <= y.at
    BY <1>2, <1>3, <1>4, <1>7, <1>11, <2>2 DEF Apart
  <2> QED
    BY <1>11, <2>1, <2>2 DEF Beside, ms, top
<1> QED
  BY <1>8, <1>9, <1>10, <1>11 DEF x, e

\* The bytes of the process.
Spaces == PAGE_SIZE .. (SPACE + 1) * PAGE_SIZE - 1

\* The bytes of an allocation are bytes of the process.
LEMMA AllocateDirty ==
    ASSUME NEW a, NEW cs, NEW size, NEW alignment, AllocateIn(a, cs, size, alignment),
           InSpace(NewIn(a, Last(cs), size, alignment)),
           Fine(NewIn(a, Last(cs), size, alignment)), dirty \subseteq Spaces
    PROVE  dirty' \subseteq Spaces
<1> DEFINE x == NewIn(a, Last(cs), size, alignment)
<1>1. /\ x.at = MemoryStart(Last(cs)) + Start(Last(cs), alignment) /\ x.size = size
  BY DEF NewIn
<1> HIDE DEF x
<1>2. /\ x.at \in Nat /\ x.size \in Nat /\ PAGE_SIZE \in Nat
      /\ (SPACE + 1) * PAGE_SIZE \in Nat
  <2>1. SPACE + 1 \in Nat /\ PAGE_SIZE \in Nat
    BY Inputs
  <2> QED
    BY <2>1, Inputs, MulMono DEF Fine, x
<1>3. Span(x.at, x.size) \subseteq Spaces
  BY <1>2 DEF InSpace, x, Span, Spaces
<1>4. \/ dirty' = dirty
      \/ dirty' = (dirty \ HeaderOf(Last(cs))) \cup Span(x.at, x.size)
  BY <1>1 DEF AllocateIn
<1> QED
  BY <1>3, <1>4

\* An allocation in the last of the chunks cs, which are those of arena a and
\* perhaps one more.
Extends(cs, a) ==
    /\ Sane(cs)
    /\ \A i \in DOMAIN arenas[a].chunks : i \in DOMAIN cs /\ cs[i] = arenas[a].chunks[i]
    /\ \A y \in held : Beside(y, Last(cs))

\* The step of an allocation that succeeds, as the program sees it.
Allocated(a, c, size, alignment) ==
    LET x == NewIn(a, c, size, alignment) IN
    /\ held' = held \cup {x}
    /\ Fine(x) /\ InSpace(x)
    /\ \A y \in held : Apart(x, y)
    /\ Program(arenas', held')
    /\ dirty \subseteq Spaces => dirty' \subseteq Spaces

\* The allocation counts, and those before it stay where they are.
LEMMA AllocateProgram ==
    ASSUME Program(arenas, held), NEW a \in DOMAIN arenas,
           \A b \in DOMAIN arenas : arenas[b] \in ArenaType,
           NEW mp, Kernel(mp), NEW cs, Extends(cs, a),
           Last(cs).block \in DOMAIN mp, Last(cs).pages = mp[Last(cs).block],
           NEW size \in Size \ {0}, NEW alignment \in (Alignment \cup {1}) \ {0},
           Fits(Last(cs), size, alignment), AllocateIn(a, cs, size, alignment)
    PROVE  Allocated(a, Last(cs), size, alignment)
<1> DEFINE c == Last(cs)
           x == NewIn(a, c, size, alignment)
           ds == Advanced(cs, size, alignment)
           e == End(c, size, alignment)
<1>1. size \in Nat \ {0} /\ alignment \in Nat \ {0}
  BY Inputs
<1>2. /\ Sane(ds) /\ LikeChunks(cs, ds)
      /\ \A i \in DOMAIN cs : i # Len(cs) => ds[i] = cs[i]
      /\ ds[Len(cs)].used = End(cs[Len(cs)], size, alignment)
      /\ Len(cs) \in DOMAIN cs /\ c = cs[Len(cs)]
  BY <1>1, AdvancedFacts DEF Extends
<1>3. c \in ChunkType /\ Whole(c)
  BY <1>2 DEF Extends, Sane
<1>4. /\ Fine(x) /\ InSpace(x) /\ Within(x, [c EXCEPT !.used = e])
      /\ \A y : y.at \in Nat /\ y.size \in Nat /\ Beside(y, c) => Apart(x, y)
  BY <1>3, NewFacts
<1>5. /\ held' = held \cup {x}
      /\ arenas' = [arenas EXCEPT ![a].chunks = ds, ![a].count = arenas[a].count + 1]
  BY DEF AllocateIn, Advanced, NewIn
<1>6. x.arena = a
  BY DEF NewIn
<1>7. c.used <= e /\ c.used \in Nat /\ e \in Nat
  <2>1. c.used \in Nat
    BY <1>3 DEF ChunkType
  <2>2. Start(c, alignment) \in Nat /\ c.used <= Start(c, alignment) /\ e = Start(c, alignment) + size
    BY <1>1, <1>3, StartFacts
  <2> QED
    BY <1>1, <2>1, <2>2
<1> HIDE DEF x, ds, e
<1>8. \A y \in held : Apart(x, y)
  <2>1. \A y \in held : y.at \in Nat /\ y.size \in Nat
    BY Inputs DEF Program, Fine
  <2> QED
    BY <1>4, <2>1 DEF Extends
<1>9. x \notin held
  <2>1. x.at \in Nat /\ x.size \in Nat \ {0}
    BY <1>4, Inputs DEF Fine
  <2>2. ~ Apart(x, x)
    BY <2>1 DEF Apart
  <2> QED
    BY <1>8, <2>2
<1>10. /\ DOMAIN arenas' = DOMAIN arenas
       /\ \A b \in DOMAIN arenas : b # a => arenas'[b] = arenas[b]
       /\ arenas'[a].chunks = ds /\ arenas'[a].count = arenas[a].count + 1
  <2>1. arenas'[a] = [arenas[a] EXCEPT !.chunks = ds, !.count = arenas[a].count + 1]
    BY <1>5
  <2> QED
    BY <1>5, <2>1 DEF ArenaType
<1>11. DOMAIN ds = DOMAIN cs /\ ds[Len(cs)] = [c EXCEPT !.used = e]
  <2>1. ds[Len(cs)] \in ChunkType /\ DOMAIN ds = DOMAIN cs
    BY <1>2 DEF Sane, LikeChunks
  <2>2. /\ ds[Len(cs)].block = c.block /\ ds[Len(cs)].pages = c.pages
        /\ ds[Len(cs)].header = c.header /\ ds[Len(cs)].used = e
    BY <1>2 DEF LikeChunks, e
  <2> QED
    BY <1>3, <2>1, <2>2 DEF ChunkType
<1>12. Placed(x, arenas')
  BY <1>2, <1>4, <1>6, <1>10, <1>11 DEF Placed
<1>13. ASSUME NEW y \in held PROVE Placed(y, arenas')
  <2>1. PICK i \in DOMAIN arenas[y.arena].chunks : Within(y, arenas[y.arena].chunks[i])
    BY DEF Program, Placed
  <2>2. y.arena \in DOMAIN arenas /\ y.at + y.size \in Nat
    BY Inputs DEF Program, Placed, Fine
  <2>3. CASE y.arena # a
    BY <1>10, <2>1, <2>2, <2>3 DEF Placed
  <2>4. CASE y.arena = a
    <3>1. i \in DOMAIN cs /\ cs[i] = arenas[a].chunks[i] /\ Within(y, cs[i])
      BY <2>1, <2>4 DEF Extends
    <3>2. Within(y, ds[i])
      <4>1. CASE i # Len(cs)
        BY <1>2, <3>1, <4>1
      <4>2. CASE i = Len(cs)
        <5>1. ds[i].used = e /\ MemoryStart(ds[i]) = MemoryStart(c) /\ cs[i] = c
          BY <1>2, <1>3, <1>11, <4>2 DEF ChunkType, MemoryStart
        <5>2. MemoryStart(c) \in Nat
          BY <1>1, <1>3, StartFacts
        <5> QED
          BY <1>7, <2>2, <3>1, <5>1, <5>2 DEF Within
      <4> QED
        BY <4>1, <4>2
    <3> QED
      BY <1>10, <1>11, <2>2, <2>4, <3>1, <3>2 DEF Placed
  <2> QED
    BY <2>3, <2>4
<1>14. IsFiniteSet(held')
  BY <1>5, FS_AddElement DEF Program
<1>15. ASSUME NEW b \in DOMAIN arenas' PROVE arenas'[b].count = Cardinality(Of(b, held'))
  <2>1. arenas[b].count = Cardinality(Of(b, held)) /\ b \in DOMAIN arenas
    BY <1>10 DEF Program
  <2>2. CASE b # a
    <3>1. Of(b, held') = Of(b, held)
      BY <1>5, <1>6, <2>2 DEF Of
    <3> QED
      BY <1>10, <2>1, <2>2, <3>1
  <2>3. CASE b = a
    <3>1. Of(a, held') = Of(a, held) \cup {x} /\ x \notin Of(a, held)
      BY <1>5, <1>6, <1>9 DEF Of
    <3>2. IsFiniteSet(Of(a, held))
      BY FS_Subset DEF Program, Of
    <3>3. Cardinality(Of(a, held')) = Cardinality(Of(a, held)) + 1
      BY <3>1, <3>2, FS_AddElement
    <3> QED
      BY <1>10, <2>1, <2>3, <3>3
  <2> QED
    BY <2>2, <2>3
<1>16. Program(arenas', held')
  BY <1>4, <1>5, <1>12, <1>13, <1>14, <1>15 DEF Program
<1>17. dirty \subseteq Spaces => dirty' \subseteq Spaces
  BY <1>4, AllocateDirty DEF x
<1> QED
  BY <1>4, <1>5, <1>8, <1>16, <1>17 DEF Allocated, x

\* What the program sees of an allocation that succeeds, or fails behind a growth.
Served(a, size, alignment) ==
    /\ DOMAIN arenas' = DOMAIN arenas
    /\ dirty \subseteq Spaces => dirty' \subseteq Spaces
    /\ \/ \E c : Allocated(a, c, size, alignment)
       \/ held' = held /\ Program(arenas', held')

\* An allocation in the current chunk.
LEMMA BumpProgram ==
    ASSUME NEW L, Struct(arenas, cache, mapped, L), Program(arenas, held),
           NEW a \in DOMAIN arenas, NEW size \in Size,
           NEW alignment \in Alignment \cup {1}, Bump(a, size, alignment)
    PROVE  Served(a, size, alignment)
<1> DEFINE cs == arenas[a].chunks
<1>1. size \in Size \ {0} /\ alignment \in (Alignment \cup {1}) \ {0}
  BY Inputs, AskedFacts DEF Bump
<1>2. /\ Fits(Last(cs), size, alignment) /\ AllocateIn(a, cs, size, alignment)
  BY DEF Bump, FitsInCurrent
<1>3. Sane(cs) /\ Len(cs) \in DOMAIN cs /\ Last(cs) = cs[Len(cs)]
  <2>1. Sane(cs)
    BY ArenaFacts
  <2> QED
    BY <2>1 DEF Sane, Last
<1>4. Extends(cs, a)
  BY <1>3, AllBeside DEF Extends
<1>5. Last(cs).block \in DOMAIN mapped /\ Last(cs).pages = mapped[Last(cs).block]
  BY <1>3, ChunkFacts
<1>6. Kernel(mapped) /\ \A b \in DOMAIN arenas : arenas[b] \in ArenaType
  BY DEF Struct
<1>7. Allocated(a, Last(cs), size, alignment)
  BY <1>1, <1>2, <1>4, <1>5, <1>6, AllocateProgram
<1>8. DOMAIN arenas' = DOMAIN arenas
  BY DEF Bump, AllocateIn
<1> QED
  BY <1>7, <1>8 DEF Served, Allocated

\* No allocation lies in a block that was just mapped.
LEMMA BesideNew ==
    ASSUME NEW L, Program(arenas, held), NEW n, NEW m, Mapped(m, n, arenas, L),
           NEW new \in ChunkType, Whole(new), new.block = m.block, new.pages = n,
           NEW y \in held
    PROVE  Beside(y, new)
<1>1. y.arena \in DOMAIN arenas /\ y.at \in Nat /\ y.size \in Nat
  BY Inputs DEF Program, Placed, Fine
<1>2. PICK j \in DOMAIN arenas[y.arena].chunks : Within(y, arenas[y.arena].chunks[j])
  BY DEF Program, Placed
<1> DEFINE d == arenas[y.arena].chunks[j]
<1>3. /\ Struct(arenas, m.cache, m.mapped, L \cup {m.block})
      /\ m.block \in DOMAIN m.mapped /\ m.mapped[m.block] = n
      /\ m.block \notin BlocksIn(arenas[y.arena].chunks)
  BY <1>1 DEF Mapped
<1>4. /\ d \in ChunkType /\ Whole(d) /\ d.block \in DOMAIN m.mapped
      /\ d.pages = m.mapped[d.block] /\ d.block \in BlocksIn(arenas[y.arena].chunks)
  BY <1>1, <1>3, ChunkFacts
<1>5. Kernel(m.mapped) /\ new.block # d.block
  BY <1>3, <1>4 DEF Struct
<1> QED
  BY <1>1, <1>2, <1>3, <1>4, <1>5, OtherBlock

\* An allocation that grows the arena.
LEMMA GrowProgram ==
    ASSUME NEW L, Struct(arenas, cache, mapped, L), Program(arenas, held),
           NEW a \in DOMAIN arenas, NEW size \in Size,
           NEW alignment \in Alignment \cup {1}, Grow(a, size, alignment)
    PROVE  Served(a, size, alignment)
<1> DEFINE n == PagesFor(GrownSize(a, size, alignment))
<1>1. size \in Size \ {0} /\ alignment \in (Alignment \cup {1}) \ {0}
  BY Inputs, AskedFacts DEF Grow
<1>2. n \in Nat \ {0} /\ CHUNK_HEADER <= n * PAGE_SIZE
  BY <1>1, Inputs, GrownFacts
<1>3. PICK m \in MapBlock(n) :
         LET new == Chunk(m.block, n, CHUNK_HEADER)
             cs  == Append(arenas[a].chunks, new) IN
         IF Fits(new, size, alignment) THEN AllocateIn(a, cs, size, alignment)
         ELSE /\ arenas' = [arenas EXCEPT ![a].chunks = cs] /\ held' = held
              /\ dirty' = dirty \ HeaderOf(new)
  BY DEF Grow
<1> HIDE DEF n
<1> DEFINE new == Chunk(m.block, n, CHUNK_HEADER)
           old == arenas[a].chunks
           cs  == Append(old, new)
<1>4. /\ Mapped(m, n, arenas, L) /\ new \in ChunkType /\ new.block = m.block
      /\ Sane(cs) /\ Last(cs) = new /\ cs[Len(cs)] = new
      /\ \A i \in DOMAIN old : i \in DOMAIN cs /\ cs[i] = old[i]
  <2>1. Mapped(m, n, arenas, L) /\ Chained(Grown(a, m, n), old, new, m, a)
    BY <1>2, ChainFacts
  <2> QED
    BY <2>1 DEF Chained, Grown
<1>5. new.pages = n
  BY DEF Chunk
<1>6. Whole(new)
  <2>1. Len(cs) \in DOMAIN cs
    BY <1>4 DEF Sane
  <2> QED
    BY <1>4, <2>1 DEF Sane
<1>7. Kernel(m.mapped) /\ m.block \in DOMAIN m.mapped /\ m.mapped[m.block] = n
  BY <1>4 DEF Mapped, Struct
<1>8. \A b \in DOMAIN arenas : arenas[b] \in ArenaType
  BY DEF Struct
<1>9. CASE Fits(new, size, alignment)
  <2>1. AllocateIn(a, cs, size, alignment)
    BY <1>3, <1>9
  <2>2. DOMAIN arenas' = DOMAIN arenas
    BY <2>1 DEF AllocateIn
  <2> HIDE DEF cs, new
  <2>3. Extends(cs, a)
    BY <1>4, <1>5, <1>6, BesideNew DEF Extends
  <2>4. Allocated(a, Last(cs), size, alignment)
    BY <1>1, <1>4, <1>5, <1>7, <1>8, <1>9, <2>1, <2>3, AllocateProgram
  <2> QED
    BY <2>2, <2>4 DEF Served, Allocated
<1>10. CASE ~ Fits(new, size, alignment)
  <2>1. /\ arenas' = [arenas EXCEPT ![a].chunks = cs] /\ held' = held
        /\ dirty' = dirty \ HeaderOf(new)
    BY <1>3, <1>10
  <2> HIDE DEF cs, new
  <2>2. /\ DOMAIN arenas' = DOMAIN arenas
        /\ \A b \in DOMAIN arenas : b # a => arenas'[b] = arenas[b]
        /\ arenas'[a].chunks = cs /\ arenas'[a].count = arenas[a].count
    <3>1. arenas[a] \in ArenaType
      BY <1>8
    <3> QED
      BY <2>1, <3>1 DEF ArenaType
  <2>3. ASSUME NEW y \in held PROVE Placed(y, arenas')
    BY <1>4, <2>2 DEF Program, Placed
  <2>4. \A b \in DOMAIN arenas : arenas'[b].count = arenas[b].count
    BY <2>2
  <2>5. Program(arenas', held')
    BY <2>1, <2>2, <2>3, <2>4 DEF Program
  <2> QED
    BY <2>1, <2>2, <2>5 DEF Served
<1> QED
  BY <1>9, <1>10

\* An operation of an allocation.
LEMMA AllocateServed ==
    ASSUME NEW L, Struct(arenas, cache, mapped, L), Program(arenas, held),
           NEW a \in DOMAIN arenas, NEW size \in Size,
           NEW alignment \in Alignment \cup {1}, Allocate(a, size, alignment)
    PROVE  Served(a, size, alignment)
<1>1. CASE AllocateFails(a, size, alignment)
  BY <1>1 DEF AllocateFails, vars, Served
<1> QED
  BY <1>1, BumpProgram, GrowProgram DEF Allocate

\* A new arena has no allocations.
LEMMA MakeFirstProgram ==
    ASSUME NEW L, Struct(arenas, cache, mapped, L), Program(arenas, held),
           NEW capacity \in Nat \ {0}, NEW max, NEW growable,
           MakeFirst(capacity, max, growable)
    PROVE  /\ Program(arenas', held') /\ held' = held
           /\ \E a \in Page \ DOMAIN arenas : DOMAIN arenas' = DOMAIN arenas \cup {a}
<1> DEFINE n == PagesFor(FirstSize(capacity))
<1>1. FirstSize(capacity) \in Nat \ {0}
  BY Inputs DEF FirstSize
<1>2. n \in Nat \ {0}
  BY <1>1, PagesForFacts
<1>3. PICK m \in MapBlock(n) :
         arenas' = [a \in DOMAIN arenas \cup {m.block} |->
                       IF a = m.block
                       THEN [chunks |-> <<Chunk(m.block, n, ARENA_HEADER + CHUNK_HEADER)>>,
                             max |-> max, growable |-> growable, count |-> 0]
                       ELSE arenas[a]]
  BY DEF MakeFirst
<1> HIDE DEF n
<1>4. Mapped(m, n, arenas, L)
  BY <1>2, <1>3, MapBlockStruct
<1>5. m.block \notin DOMAIN arenas /\ m.block \in Page
  <2>1. m.block \in DOMAIN arenas => m.block \in BlocksIn(arenas[m.block].chunks)
    <3> SUFFICES ASSUME m.block \in DOMAIN arenas
                 PROVE  m.block \in BlocksIn(arenas[m.block].chunks)
      OBVIOUS
    <3>1. /\ 1 \in DOMAIN arenas[m.block].chunks
          /\ arenas[m.block].chunks[1].block = m.block
      BY ArenaFacts
    <3> QED
      BY <3>1 DEF BlocksIn
  <2> QED
    BY <1>4, <2>1 DEF Mapped, Struct, Kernel
<1>6. /\ DOMAIN arenas' = DOMAIN arenas \cup {m.block}
      /\ \A b \in DOMAIN arenas : arenas'[b] = arenas[b]
      /\ arenas'[m.block].count = 0
  BY <1>3, <1>5
<1>7. held' = held
  BY DEF MakeFirst
<1>8. \A y \in held : Placed(y, arenas')
  BY <1>6 DEF Program, Placed
<1>9. Of(m.block, held) = {} /\ Cardinality({}) = 0
  BY <1>5, FS_EmptySet DEF Program, Placed, Of
<1>10. Program(arenas', held')
  BY <1>6, <1>7, <1>8, <1>9 DEF Program
<1> QED
  BY <1>5, <1>6, <1>7, <1>10

\* The allocations of one arena end, those of the others stay.
LEMMA ForgetProgram ==
    ASSUME Program(arenas, held), NEW a \in DOMAIN arenas, NEW br,
           DOMAIN br \subseteq DOMAIN arenas,
           \A b \in DOMAIN arenas : b # a => b \in DOMAIN br /\ br[b] = arenas[b],
           a \in DOMAIN br => br[a].count = 0
    PROVE  Program(br, {x \in held : x.arena # a})
<1> DEFINE hd == {x \in held : x.arena # a}
<1>1. IsFiniteSet(hd)
  BY FS_Subset DEF Program
<1>2. \A x \in hd : Fine(x) /\ Placed(x, br)
  BY DEF Program, Placed
<1>3. ASSUME NEW b \in DOMAIN br PROVE br[b].count = Cardinality(Of(b, hd))
  <2>1. CASE b = a
    <3>1. Of(b, hd) = {}
      BY <2>1 DEF Of
    <3> QED
      BY <2>1, <3>1, FS_EmptySet
  <2>2. CASE b # a
    <3>1. Of(b, hd) = Of(b, held)
      BY <2>2 DEF Of
    <3> QED
      BY <2>2, <3>1 DEF Program
  <2> QED
    BY <2>1, <2>2
<1> QED
  BY <1>1, <1>2, <1>3 DEF Program

\* A reset ends the allocations of its arena.
LEMMA ResetProgram ==
    ASSUME NEW L, Struct(arenas, cache, mapped, L), Program(arenas, held),
           NEW a \in DOMAIN arenas, NEW left, ResetFrom(a, left)
    PROVE  /\ Program(arenas', held') /\ DOMAIN arenas' = DOMAIN arenas
           /\ held' = {x \in held : x.arena # a}
<1>1. /\ held' = {x \in held : x.arena # a}
      /\ DOMAIN arenas' = DOMAIN arenas
      /\ \A b \in DOMAIN arenas : b # a => arenas'[b] = arenas[b]
      /\ arenas'[a].count = 0
  <2>1. arenas[a] \in ArenaType
    BY DEF Struct
  <2> QED
    BY <2>1 DEF ResetFrom, ArenaType
<1>2. Program(arenas', {x \in held : x.arena # a})
  BY <1>1, ForgetProgram
<1> QED
  BY <1>1, <1>2

\* And so does a destruction.
LEMMA DestroyProgram ==
    ASSUME Program(arenas, held), NEW a \in DOMAIN arenas, Destroy(a)
    PROVE  /\ Program(arenas', held') /\ DOMAIN arenas' = DOMAIN arenas \ {a}
           /\ held' = {x \in held : x.arena # a}
<1>1. /\ held' = {x \in held : x.arena # a}
      /\ DOMAIN arenas' = DOMAIN arenas \ {a}
      /\ \A b \in DOMAIN arenas : b # a => arenas'[b] = arenas[b]
  BY DEF Destroy
<1>2. Program(arenas', {x \in held : x.arena # a})
  BY <1>1, ForgetProgram
<1> QED
  BY <1>1, <1>2

\* The steps of the arenas, as their program sees them.
Seen == \/ /\ held' = held /\ Program(arenas', held')
           /\ \/ DOMAIN arenas' = DOMAIN arenas
              \/ \E a \in Page \ DOMAIN arenas : DOMAIN arenas' = DOMAIN arenas \cup {a}
        \/ \E a \in DOMAIN arenas : /\ held' = {x \in held : x.arena # a}
                                    /\ Program(arenas', held')
                                    /\ DOMAIN arenas' = DOMAIN arenas \
                                         (IF a \in DOMAIN arenas' THEN {} ELSE {a})
        \/ \E a \in DOMAIN arenas, size \in Size, alignment \in Alignment \cup {1} :
              Served(a, size, alignment)

\* Every step is one of these.
LEMMA NextProgram ==
    ASSUME NEW L, Struct(arenas, cache, mapped, L), Program(arenas, held), Next
    PROVE  Seen
<1>1. ASSUME NEW capacity \in Size, Create(capacity) PROVE Seen
  <2>1. MakeFirst(capacity, capacity, FALSE)
    BY <1>1 DEF Create
  <2>2. capacity \in Nat \ {0}
    BY <2>1, Inputs DEF MakeFirst
  <2> QED
    BY <2>1, <2>2, MakeFirstProgram DEF Seen
<1>2. ASSUME NEW initial \in Size, NEW max \in Limit, CreateGrowable(initial, max)
      PROVE  Seen
  <2>1. MakeFirst(initial, max, TRUE)
    BY <1>2 DEF CreateGrowable
  <2>2. initial \in Nat \ {0}
    BY <2>1, Inputs DEF MakeFirst
  <2> QED
    BY <2>1, <2>2, MakeFirstProgram DEF Seen
<1>3. ASSUME NEW capacity, NEW max, CreateFails(capacity, max) PROVE Seen
  BY <1>3 DEF CreateFails, vars, Seen
<1>4. ASSUME NEW a \in DOMAIN arenas, NEW size \in Size, NEW alignment \in Alignment,
             Allocate(a, size, alignment)
      PROVE  Seen
  BY <1>4, AllocateServed DEF Seen
<1>5. ASSUME NEW a \in DOMAIN arenas, NEW size \in Size \ {0}, CopyString(a, size - 1)
      PROVE  Seen
  <2>1. size \in Nat /\ (size - 1) + 1 = size
    BY Inputs
  <2>2. Allocate(a, size, 1)
    BY <1>5, <2>1 DEF CopyString
  <2> QED
    BY <2>2, AllocateServed DEF Seen
<1>6. ASSUME NEW a \in DOMAIN arenas, Reset(a) \/ ResetSecure(a) PROVE Seen
  <2>1. \E left : ResetFrom(a, left)
    BY <1>6 DEF Reset, ResetSecure
  <2> QED
    BY <2>1, ResetProgram DEF Seen
<1>7. ASSUME NEW a \in DOMAIN arenas, ReleasePages(a) PROVE Seen
  BY <1>7 DEF ReleasePages, Seen
<1>8. ASSUME NEW a \in DOMAIN arenas, Destroy(a) PROVE Seen
  BY <1>8, DestroyProgram DEF Seen
<1> QED
  BY <1>1, <1>2, <1>3, <1>4, <1>5, <1>6, <1>7, <1>8 DEF Next

\* What the program may use is preserved.
LEMMA SeenProgram ==
    ASSUME Seen
    PROVE  Program(arenas', held')
  BY DEF Seen, Served, Allocated

-------------------------------------------------------------------------------
(***************************************************************************)
(* The inductive invariant, and what follows from it.                      *)
(***************************************************************************)
IInv == Struct(arenas, cache, mapped, {}) /\ Program(arenas, held)

\* It holds at the start.
LEMMA InitIInv == Init => IInv
<1>1. ASSUME Init PROVE Program(arenas, held)
  <2>1. held = {} /\ DOMAIN arenas = {} /\ IsFiniteSet({})
    BY <1>1, FS_EmptySet DEF Init
  <2> QED
    BY <2>1 DEF Program
<1> QED
  BY <1>1, InitStruct DEF IInv

\* And every step keeps it.
LEMMA NextIInv == IInv /\ [Next]_vars => IInv'
<1>1. ASSUME IInv, Next PROVE IInv'
  BY <1>1, NextStruct, NextProgram, SeenProgram DEF IInv
<1>2. ASSUME IInv, UNCHANGED vars PROVE IInv'
  BY <1>2 DEF vars, IInv
<1> QED
  BY <1>1, <1>2

\* The invariant holds in every reachable state.
LEMMA Invariance == Spec => []IInv
  BY InitIInv, NextIInv, PTL DEF Spec

\* Every allocation in use lies in the used part of a chunk of its own arena,
\* behind the headers and aligned, and allocation_count counts them.
THEOREM AllocationsLieInChunks == Spec => []HeldInChunks
<1>1. ASSUME IInv PROVE HeldInChunks
  <2>1. ASSUME NEW x \in held
        PROVE  /\ x.at % x.alignment = 0
               /\ \E i \in DOMAIN arenas[x.arena].chunks :
                     LET c == arenas[x.arena].chunks[i] IN
                     /\ MemoryStart(c) <= x.at
                     /\ x.at + x.size <= MemoryStart(c) + c.used
                     /\ c.used <= Capacity(c)
    <3>1. PICK i \in DOMAIN arenas[x.arena].chunks :
             Within(x, arenas[x.arena].chunks[i])
      BY <1>1 DEF IInv, Program, Placed
    <3> DEFINE c == arenas[x.arena].chunks[i]
    <3>2. x.arena \in DOMAIN arenas /\ Struct(arenas, cache, mapped, {})
      BY <1>1 DEF IInv, Program, Placed
    <3>3. /\ c \in ChunkType /\ Whole(c) /\ c.block \in DOMAIN mapped
          /\ c.pages = mapped[c.block] /\ Kernel(mapped)
      BY <3>2, ChunkFacts DEF Struct
    <3> HIDE DEF c
    <3>4. c.used <= Capacity(c)
      BY <3>3, ChunkBytes
    <3>5. Within(x, c) /\ x.at % x.alignment = 0
      BY <1>1, <3>1 DEF c, IInv, Program, Fine
    <3> QED
      BY <3>4, <3>5 DEF Within, c
  <2>2. \A a \in DOMAIN arenas :
           arenas[a].count = Cardinality({x \in held : x.arena = a})
    BY <1>1 DEF IInv, Program, Of
  <2> QED
    BY <2>1, <2>2 DEF HeldInChunks
<1> QED
  BY <1>1, Invariance, PTL

\* An allocation is a step of the contract.
LEMMA ServedContract ==
    ASSUME IInv, NEW a \in DOMAIN arenas, NEW size, NEW alignment,
           Served(a, size, alignment)
    PROVE  Contract!Next \/ UNCHANGED <<DOMAIN arenas, held>>
<1>1. CASE held' = held
  BY <1>1 DEF Served
<1>2. ASSUME NEW c, Allocated(a, c, size, alignment)
      PROVE  Contract!Next
  <2> DEFINE x == NewIn(a, c, size, alignment)
  <2>1. /\ held' = held \cup {x} /\ Fine(x) /\ InSpace(x)
        /\ \A y \in held : Apart(x, y)
    BY <1>2 DEF Allocated
  <2>2. x.arena = a
    BY DEF NewIn
  <2> HIDE DEF x
  <2>3. Contract!Bytes(x) \subseteq PAGE_SIZE .. (SPACE + 1) * PAGE_SIZE - 1
    <3>1. /\ x.at \in Nat /\ x.size \in Nat /\ PAGE_SIZE \in Nat
          /\ (SPACE + 1) * PAGE_SIZE \in Nat
      BY <2>1, Inputs DEF Fine
    <3> QED
      BY <2>1, <3>1 DEF InSpace, Contract!Bytes
  <2>4. ASSUME NEW y \in held PROVE Contract!Bytes(x) \cap Contract!Bytes(y) = {}
    <3>1. x.at \in Nat /\ x.size \in Nat /\ y.at \in Nat /\ y.size \in Nat
      BY <2>1, Inputs DEF Fine, IInv, Program
    <3> QED
      BY <2>1, <3>1 DEF Apart, Contract!Bytes
  <2>5. Contract!Allocate(x)
    BY <2>1, <2>2, <2>3, <2>4 DEF Contract!Allocate, Fine, Served
  <2> QED
    BY <2>1, <2>5 DEF Contract!Next
<1> QED
  BY <1>1, <1>2 DEF Served

\* The arenas implement their contract: an allocation is an aligned range of
\* bytes that overlaps no other of any arena until its own arena is reset or
\* destroyed, and a call that fails takes nothing away.
THEOREM ImplementsContract == Spec => KeepsContract
<1>1. Init => Contract!Init
  BY DEF Init, Contract!Init
<1>2. IInv /\ [Next]_vars => [Contract!Next]_<<DOMAIN arenas, held>>
  <2> SUFFICES ASSUME IInv, [Next]_vars
               PROVE  Contract!Next \/ UNCHANGED <<DOMAIN arenas, held>>
    OBVIOUS
  <2>1. CASE UNCHANGED vars
    BY <2>1 DEF vars
  <2>2. CASE Next
    <3>1. Seen
      BY <2>2, NextProgram DEF IInv
    <3>2. ASSUME NEW a \in DOMAIN arenas, held' = {x \in held : x.arena # a},
                 DOMAIN arenas' = DOMAIN arenas \
                    (IF a \in DOMAIN arenas' THEN {} ELSE {a})
          PROVE  Contract!Next
      <4>1. a \in Page
        BY DEF IInv, Struct
      <4>2. Contract!Reset(a) \/ Contract!Destroy(a)
        BY <3>2 DEF Contract!Reset, Contract!Destroy, Contract!Forget
      <4> QED
        BY <4>1, <4>2 DEF Contract!Next
    <3>3. ASSUME NEW a \in Page \ DOMAIN arenas, held' = held,
                 DOMAIN arenas' = DOMAIN arenas \cup {a}
          PROVE  Contract!Next
      BY <3>3 DEF Contract!Next, Contract!Create
    <3> QED
      BY <3>1, <3>2, <3>3, ServedContract DEF Seen
  <2> QED
    BY <2>1, <2>2
<1> QED
  BY <1>1, <1>2, Invariance, PTL DEF Spec, KeepsContract, Contract!Spec, Contract!vars

-------------------------------------------------------------------------------
(* A chunk mapped for an allocation holds it. *)

\* The slack for the alignment is enough, wherever the chunk landed.
LEMMA GrownHolds ==
    ASSUME NEW mp, Kernel(mp), NEW b \in DOMAIN mp,
           NEW size \in Nat \ {0}, NEW alignment \in Nat \ {0},
           CHUNK_HEADER + (size + alignment) <= mp[b] * PAGE_SIZE
    PROVE  Fits(Chunk(b, mp[b], CHUNK_HEADER), size, alignment)
<1> DEFINE c == Chunk(b, mp[b], CHUNK_HEADER)
           ms == MemoryStart(c)
           st == Start(c, alignment)
           e == End(c, size, alignment)
           top == (c.block + c.pages) * PAGE_SIZE
<1>1. b \in Page /\ mp[b] \in Page /\ mp[b] * PAGE_SIZE \in Nat
  BY Inputs DEF Kernel, Page
<1>2. CHUNK_HEADER <= mp[b] * PAGE_SIZE
  BY <1>1, Inputs
<1>3. c \in ChunkType /\ Whole(c) /\ c.block = b /\ c.pages = mp[b]
  BY <1>2, NewChunk
<1>4. c.used = 0 /\ c.header = CHUNK_HEADER
  BY DEF Chunk
<1>5. Capacity(c) = mp[b] * PAGE_SIZE - CHUNK_HEADER
  BY <1>3, <1>4 DEF Capacity
<1> HIDE DEF c
<1>6. /\ ms \in Nat /\ st \in Nat /\ st < c.used + alignment /\ e \in Nat
      /\ e = st + size
  BY <1>3, StartFacts
<1>7. /\ ms + Capacity(c) = top /\ top <= (SPACE + 1) * PAGE_SIZE /\ top \in Nat
      /\ (SPACE + 1) * PAGE_SIZE \in Nat /\ Capacity(c) \in Nat
  BY <1>3, ChunkBytes
<1>8. AlignUp(ms + c.used, alignment) = ms + st
  <2>1. ms + c.used \in Nat
    BY <1>4, <1>6
  <2>2. AlignUp(ms + c.used, alignment) \in Nat
    BY <2>1, AlignUpFacts
  <2>3. st = AlignUp(ms + c.used, alignment) - ms
    BY DEF Start
  <2> HIDE DEF ms, st
  <2> QED
    BY <1>6, <2>2, <2>3
<1> HIDE DEF ms, st, e, top
<1>9. e <= Capacity(c)
  BY <1>1, <1>4, <1>5, <1>6, Inputs
<1>10. ms + st < WRAP /\ e < WRAP
  <2>1. (SPACE + 1) * PAGE_SIZE < WRAP
    BY ArenaAssumption
  <2>2. ms + st <= top /\ e <= top
    BY <1>6, <1>7, <1>9
  <2> QED
    BY <1>6, <1>7, <2>1, <2>2, Inputs
<1> QED
  BY <1>8, <1>9, <1>10 DEF Fits, c, ms, e

\* An allocation that grew its arena succeeds unless size plus alignment wraps.
LEMMA GrowServes ==
    ASSUME IInv, NEW a \in DOMAIN arenas, NEW size \in Nat, NEW alignment \in Nat,
           Grow(a, size, alignment), size + alignment < WRAP
    PROVE  arenas'[a].count = arenas[a].count + 1
<1> DEFINE n == PagesFor(GrownSize(a, size, alignment))
<1>1. Struct(arenas, cache, mapped, {}) /\ arenas[a] \in ArenaType
  BY DEF IInv, Struct
<1>2. size \in Nat \ {0} /\ alignment \in Nat \ {0}
  BY AskedFacts DEF Grow
<1>3. (size + alignment) % WRAP = size + alignment
  BY <1>2, Inputs
<1>4. n \in Nat \ {0} /\ CHUNK_HEADER <= n * PAGE_SIZE
      /\ CHUNK_HEADER + (size + alignment) <= n * PAGE_SIZE
  BY <1>1, <1>3, GrownFacts
<1>5. PICK m \in MapBlock(n) :
         LET new == Chunk(m.block, n, CHUNK_HEADER)
             cs  == Append(arenas[a].chunks, new) IN
         Fits(new, size, alignment) => AllocateIn(a, cs, size, alignment)
  BY DEF Grow
<1> HIDE DEF n
<1>6. Mapped(m, n, arenas, {})
  BY <1>1, <1>4, MapBlockStruct
<1>7. Kernel(m.mapped) /\ m.block \in DOMAIN m.mapped /\ m.mapped[m.block] = n
  BY <1>6 DEF Mapped, Struct
<1>8. Fits(Chunk(m.block, n, CHUNK_HEADER), size, alignment)
  BY <1>2, <1>4, <1>7, GrownHolds
<1>9. AllocateIn(a, Append(arenas[a].chunks, Chunk(m.block, n, CHUNK_HEADER)),
                 size, alignment)
  BY <1>5, <1>8
<1> QED
  BY <1>1, <1>9 DEF AllocateIn, ArenaType

\* An allocation that maps a chunk does not fail for want of room in it: a
\* growth without an allocation happens only when size plus alignment wraps.
THEOREM GrowthServes == Spec => GrownChunkFits
<1> DEFINE Fit == \A a \in DOMAIN arenas \cap DOMAIN arenas' :
                     (/\ Len(arenas'[a].chunks) > Len(arenas[a].chunks)
                      /\ arenas'[a].count = arenas[a].count)
                     => \A size \in Size, alignment \in Alignment \cup {1} :
                           Grow(a, size, alignment) => size + alignment >= WRAP
<1>1. ASSUME IInv PROVE Fit
  <2> SUFFICES ASSUME NEW a \in DOMAIN arenas, arenas'[a].count = arenas[a].count,
                      NEW size \in Size, NEW alignment \in Alignment \cup {1},
                      Grow(a, size, alignment), ~ (size + alignment >= WRAP)
               PROVE  FALSE
    OBVIOUS
  <2>1. size \in Nat /\ alignment \in Nat /\ WRAP \in Nat /\ arenas[a].count \in Nat
    BY <1>1, Inputs DEF IInv, Struct, ArenaType
  <2>2. size + alignment < WRAP
    BY <2>1
  <2>3. arenas'[a].count = arenas[a].count + 1
    BY <1>1, <2>1, <2>2, GrowServes
  <2> QED
    BY <2>1, <2>3
<1>2. IInv => [Fit]_vars
  BY <1>1
<1> HIDE DEF Fit
<1>3. Spec => [][Fit]_vars
  BY <1>2, Invariance, PTL
<1> QED
  BY <1>3 DEF GrownChunkFits, Fit

-------------------------------------------------------------------------------
(***************************************************************************)
(* The statistics, as sums over the chunks of the arenas.                  *)
(***************************************************************************)
PagesOf(cs) == Sum([i \in DOMAIN cs |-> cs[i].pages], DOMAIN cs)
Total(ar) == Sum([a \in DOMAIN ar |-> PagesOf(ar[a].chunks)], DOMAIN ar)

\* The fold of the specification is that sum.
LEMMA PagesInIs ==
    ASSUME NEW cs, IsFiniteSet(DOMAIN cs)
    PROVE  PagesIn(cs) = PagesOf(cs)
<1> DEFINE S == DOMAIN cs
           w == [i \in S |-> cs[i].pages]
           P(g) == g = [s \in SUBSET S |->
                          IF s = {} THEN 0
                          ELSE cs[CHOOSE x \in s : TRUE].pages
                                 + g[s \ {CHOOSE x \in s : TRUE}]]
<1>1. PagesIn(cs) = (CHOOSE g : P(g))[S]
  BY DEF PagesIn, FoldSeq, FoldFunction, FoldFunctionOnSet, MapThenFoldSet
<1>2. PICK h : IsSum(h, w, S)
  BY SumExists
<1>3. ASSUME NEW g PROVE IsSum(g, w, S) <=> P(g)
  <2>1. \A s \in SUBSET S : s # {} => w[Pick(s)] = cs[Pick(s)].pages
    BY PickIn
  <2>2. [s \in SUBSET S |-> IF s = {} THEN 0 ELSE w[Pick(s)] + g[s \ {Pick(s)}]]
          = [s \in SUBSET S |-> IF s = {} THEN 0
                                ELSE cs[Pick(s)].pages + g[s \ {Pick(s)}]]
    BY <2>1
  <2>3. P(g) <=> g = [s \in SUBSET S |-> IF s = {} THEN 0
                                ELSE cs[Pick(s)].pages + g[s \ {Pick(s)}]]
    BY DEF Pick
  <2> QED
    BY <2>2, <2>3 DEF IsSum
<1> HIDE DEF P, w
<1>4. P(CHOOSE g : P(g))
  BY <1>2, <1>3
<1>5. IsSum(CHOOSE g : P(g), w, S)
  BY <1>3, <1>4
<1>6. IsSum(CHOOSE g : IsSum(g, w, S), w, S)
  BY <1>2
<1>7. (CHOOSE g : P(g))[S] = (CHOOSE g : IsSum(g, w, S))[S]
  BY <1>5, <1>6, SumUnique
<1> QED
  BY <1>1, <1>7 DEF PagesOf, Sum, w

\* What get_stats reports as reserved by all arenas.
LEMMA ReservedIs ==
    ASSUME IsFiniteSet(DOMAIN arenas),
           \A a \in DOMAIN arenas : IsFiniteSet(DOMAIN arenas[a].chunks)
    PROVE  Reserved = Total(arenas)
<1> DEFINE S == DOMAIN arenas
           w == [a \in S |-> PagesOf(arenas[a].chunks)]
           P(g) == g = [s \in SUBSET S |->
                          IF s = {} THEN 0
                          ELSE PagesIn(arenas[CHOOSE x \in s : TRUE].chunks)
                                 + g[s \ {CHOOSE x \in s : TRUE}]]
<1>1. Reserved = (CHOOSE g : P(g))[S]
  BY DEF Reserved, FoldFunctionOnSet, MapThenFoldSet
<1>2. PICK h : IsSum(h, w, S)
  BY SumExists
<1>3. ASSUME NEW g PROVE IsSum(g, w, S) <=> P(g)
  <2>1. \A s \in SUBSET S : s # {} => w[Pick(s)] = PagesIn(arenas[Pick(s)].chunks)
    BY PickIn, PagesInIs
  <2> HIDE DEF w
  <2>2. [s \in SUBSET S |-> IF s = {} THEN 0 ELSE w[Pick(s)] + g[s \ {Pick(s)}]]
          = [s \in SUBSET S |-> IF s = {} THEN 0
                                ELSE PagesIn(arenas[Pick(s)].chunks) + g[s \ {Pick(s)}]]
    BY <2>1
  <2>3. P(g) <=> g = [s \in SUBSET S |-> IF s = {} THEN 0
                                ELSE PagesIn(arenas[Pick(s)].chunks) + g[s \ {Pick(s)}]]
    BY DEF Pick
  <2> QED
    BY <2>2, <2>3 DEF IsSum
<1> HIDE DEF P, w
<1>4. P(CHOOSE g : P(g))
  BY <1>2, <1>3
<1>5. IsSum(CHOOSE g : P(g), w, S)
  BY <1>3, <1>4
<1>6. IsSum(CHOOSE g : IsSum(g, w, S), w, S)
  BY <1>2
<1>7. (CHOOSE g : P(g))[S] = (CHOOSE g : IsSum(g, w, S))[S]
  BY <1>5, <1>6, SumUnique
<1> QED
  BY <1>1, <1>7 DEF Total, Sum, w

\* The pages of a chunk.
LEMMA PagesType == ASSUME NEW c \in ChunkType PROVE c.pages \in Nat \ {0}
<1>1. c.pages \in Page
  BY DEF ChunkType
<1> QED
  BY <1>1, Inputs DEF Page

\* The pages of a sequence of chunks are a natural number.
LEMMA PagesOfType ==
    ASSUME NEW cs \in Seq(ChunkType)
    PROVE  /\ IsFiniteSet(DOMAIN cs) /\ PagesOf(cs) \in Nat
           /\ \A i \in DOMAIN cs : cs[i].pages \in Nat
<1>1. IsFiniteSet(DOMAIN cs)
  <2>1. DOMAIN cs = 1 .. Len(cs) /\ Len(cs) \in Nat
    OBVIOUS
  <2> QED
    BY <2>1, FS_Interval
<1>2. \A i \in DOMAIN cs : cs[i].pages \in Nat
  <2>1. \A i \in DOMAIN cs : cs[i] \in ChunkType
    OBVIOUS
  <2> QED
    BY <2>1, PagesType
<1> DEFINE w == [i \in DOMAIN cs |-> cs[i].pages]
<1>3. \A i \in DOMAIN cs : w[i] \in Nat /\ w[i] \in Int
  BY <1>2
<1> HIDE DEF w
<1>4. Sum(w, DOMAIN cs) \in Nat
  BY <1>1, <1>3, SumType
<1> QED
  BY <1>1, <1>2, <1>4 DEF PagesOf, w

\* The pages depend on the pages of the chunks only.
LEMMA PagesOfLike ==
    ASSUME NEW cs \in Seq(ChunkType), NEW ds, LikeChunks(cs, ds)
    PROVE  PagesOf(ds) = PagesOf(cs)
<1>1. IsFiniteSet(DOMAIN cs) /\ DOMAIN ds = DOMAIN cs
  BY PagesOfType DEF LikeChunks
<1>2. [i \in DOMAIN ds |-> ds[i].pages] = [i \in DOMAIN cs |-> cs[i].pages]
  BY DEF LikeChunks
<1> QED
  BY <1>1, <1>2 DEF PagesOf

\* A chunk more.
LEMMA PagesOfAppend ==
    ASSUME NEW cs \in Seq(ChunkType), NEW c \in ChunkType
    PROVE  PagesOf(Append(cs, c)) = PagesOf(cs) + c.pages
<1> DEFINE n == Len(cs)
           t == Append(cs, c)
           w == [i \in DOMAIN cs |-> cs[i].pages]
           v == [i \in DOMAIN t |-> t[i].pages]
<1>1. /\ n \in Nat /\ DOMAIN cs = 1 .. n /\ t \in Seq(ChunkType) /\ DOMAIN t = 1 .. n+1
      /\ t[n+1] = c /\ \A i \in 1 .. n : t[i] = cs[i]
  OBVIOUS
<1> HIDE DEF t, n
<1>2. 1 .. n+1 = (1 .. n) \cup {n+1} /\ n+1 \notin 1 .. n /\ IsFiniteSet(1 .. n)
  <2>1. IsFiniteSet(1 .. n)
    BY <1>1, FS_Interval
  <2> QED
    BY <1>1, <2>1
<1>3. \A i \in (1 .. n) \cup {n+1} : v[i] \in Int
  <2>1. \A i \in DOMAIN t : t[i].pages \in Nat
    BY <1>1, PagesOfType
  <2> QED
    BY <1>1, <1>2, <2>1
<1>4. \A i \in 1 .. n : w[i] = v[i]
  BY <1>1, <1>2
<1>5. v[n+1] = c.pages
  BY <1>1, <1>2
<1> HIDE DEF w, v
<1>6. Sum(v, (1 .. n) \cup {n+1}) = v[n+1] + Sum(v, 1 .. n)
  BY <1>2, <1>3, SumAdd
<1>7. Sum(w, 1 .. n) = Sum(v, 1 .. n)
  BY <1>2, <1>4, SumAgree
<1>8. PagesOf(cs) = Sum(w, 1 .. n) /\ PagesOf(t) = Sum(v, (1 .. n) \cup {n+1})
  BY <1>1, <1>2 DEF PagesOf, w, v
<1>9. PagesOf(cs) \in Nat /\ c.pages \in Nat
  BY PagesOfType, PagesType
<1> QED
  BY <1>5, <1>6, <1>7, <1>8, <1>9 DEF t

\* The first chunk, and the others.
LEMMA PagesOfTail ==
    ASSUME NEW cs \in Seq(ChunkType), cs # <<>>
    PROVE  PagesOf(cs) = cs[1].pages + PagesOf(Tail(cs))
<1> DEFINE n == Len(cs)
           t == Tail(cs)
           w == [i \in DOMAIN cs |-> cs[i].pages]
           v == [i \in DOMAIN t |-> t[i].pages]
<1>1. /\ n \in Nat \ {0} /\ DOMAIN cs = 1 .. n /\ t \in Seq(ChunkType)
      /\ DOMAIN t = 1 .. n-1 /\ \A i \in 1 .. n-1 : t[i] = cs[i+1]
  OBVIOUS
<1> HIDE DEF t, n
<1>2. /\ IsFiniteSet(1 .. n) /\ 1 \in 1 .. n /\ (1 .. n) \ {1} = 2 .. (n-1)+1
      /\ n-1 \in Nat /\ \A i \in 1 .. n-1 : i+1 \in 1 .. n
  <2>1. IsFiniteSet(1 .. n)
    BY <1>1, FS_Interval
  <2> QED
    BY <1>1, <2>1
<1>3. \A i \in 1 .. n : w[i] \in Int
  <2>1. \A i \in DOMAIN cs : cs[i].pages \in Nat
    BY PagesOfType
  <2> QED
    BY <1>1, <2>1
<1>4. \A i \in 1 .. n-1 : v[i] = w[i+1] /\ v[i] \in Int
  <2>1. \A i \in 1 .. n-1 : v[i] = w[i+1]
    BY <1>1, <1>2
  <2> HIDE DEF v, w
  <2> QED
    BY <1>2, <1>3, <2>1
<1>5. w[1] = cs[1].pages
  BY <1>1, <1>2
<1> HIDE DEF w, v
<1>6. Sum(w, 1 .. n) = w[1] + Sum(w, (1 .. n) \ {1})
  BY <1>2, <1>3, SumRemove
<1>7. Sum(v, 1 .. n-1) = Sum(w, 2 .. (n-1)+1)
  BY <1>2, <1>4, SumShift
<1>8. PagesOf(cs) = Sum(w, 1 .. n) /\ PagesOf(t) = Sum(v, 1 .. n-1)
  BY <1>1 DEF PagesOf, w, v
<1> QED
  BY <1>2, <1>5, <1>6, <1>7, <1>8 DEF t

\* One chunk.
LEMMA PagesOfOne ==
    ASSUME NEW c \in ChunkType
    PROVE  PagesOf(<<c>>) = c.pages
<1>1. <<c>> \in Seq(ChunkType) /\ <<c>> # <<>> /\ <<c>>[1] = c /\ Tail(<<c>>) = <<>>
  OBVIOUS
<1>2. PagesOf(<<>>) = 0
  <2>1. DOMAIN <<>> = {}
    OBVIOUS
  <2> QED
    BY <2>1, SumEmpty DEF PagesOf
<1>3. PagesOf(<<c>>) = c.pages + 0
  BY <1>1, <1>2, PagesOfTail
<1>4. c.pages \in Nat
  BY PagesType
<1> QED
  BY <1>3, <1>4

\* The arenas of a context are finitely many.
LEMMA TotalType ==
    ASSUME NEW ar, NEW ca, NEW mp, NEW L, Struct(ar, ca, mp, L)
    PROVE  /\ IsFiniteSet(DOMAIN ar) /\ Cardinality(DOMAIN ar) \in Nat
           /\ Total(ar) \in Nat
           /\ \A a \in DOMAIN ar : PagesOf(ar[a].chunks) \in Nat
<1>1. IsFiniteSet(DOMAIN ar)
  <2>1. IsFiniteSet(Page)
    BY Inputs, FS_Interval DEF Page
  <2>2. DOMAIN ar \subseteq Page
    BY DEF Struct
  <2> QED
    BY <2>1, <2>2, FS_Subset
<1>2. \A a \in DOMAIN ar : PagesOf(ar[a].chunks) \in Nat
  BY ArenaFacts, PagesOfType
<1> DEFINE w == [a \in DOMAIN ar |-> PagesOf(ar[a].chunks)]
<1>3. \A a \in DOMAIN ar : w[a] \in Nat /\ w[a] \in Int
  BY <1>2
<1> HIDE DEF w
<1>4. Sum(w, DOMAIN ar) \in Nat
  BY <1>1, <1>3, SumType
<1> QED
  BY <1>1, <1>2, <1>4, FS_CardinalityType DEF Total, w

\* The chunks of one arena change.
LEMMA TotalExchange ==
    ASSUME NEW ar, NEW ca, NEW mp, NEW L, Struct(ar, ca, mp, L), NEW a \in DOMAIN ar,
           NEW br, DOMAIN br = DOMAIN ar, \A b \in DOMAIN ar : b # a => br[b] = ar[b],
           PagesOf(br[a].chunks) \in Nat
    PROVE  Total(br) = Total(ar) - PagesOf(ar[a].chunks) + PagesOf(br[a].chunks)
<1> DEFINE w == [b \in DOMAIN ar |-> PagesOf(ar[b].chunks)]
           v == [b \in DOMAIN ar |-> PagesOf(br[b].chunks)]
<1>1. IsFiniteSet(DOMAIN ar) /\ \A b \in DOMAIN ar : PagesOf(ar[b].chunks) \in Nat
  BY TotalType
<1>2. \A b \in DOMAIN ar : w[b] \in Int
  BY <1>1
<1>3. \A b \in DOMAIN ar : b # a => w[b] = v[b]
  OBVIOUS
<1>4. v[a] = PagesOf(br[a].chunks) /\ w[a] = PagesOf(ar[a].chunks)
  OBVIOUS
<1>5. Total(ar) = Sum(w, DOMAIN ar) /\ Total(br) = Sum(v, DOMAIN ar)
  BY DEF Total
<1> HIDE DEF w, v
<1>6. \A b \in DOMAIN ar : w[b] \in Int /\ v[b] \in Int
  BY <1>2, <1>3, <1>4
<1>7. Sum(v, DOMAIN ar) = Sum(w, DOMAIN ar) - w[a] + v[a]
  BY <1>1, <1>3, <1>6, SumReplace
<1> QED
  BY <1>4, <1>5, <1>7

\* An arena more.
LEMMA TotalOpen ==
    ASSUME NEW ar, NEW ca, NEW mp, NEW L, Struct(ar, ca, mp, L), NEW a, a \notin DOMAIN ar,
           NEW br, DOMAIN br = DOMAIN ar \cup {a}, \A b \in DOMAIN ar : br[b] = ar[b],
           PagesOf(br[a].chunks) \in Nat
    PROVE  /\ Total(br) = Total(ar) + PagesOf(br[a].chunks)
           /\ Cardinality(DOMAIN br) = Cardinality(DOMAIN ar) + 1
<1> DEFINE w == [b \in DOMAIN ar |-> PagesOf(ar[b].chunks)]
           v == [b \in DOMAIN br |-> PagesOf(br[b].chunks)]
<1>1. IsFiniteSet(DOMAIN ar) /\ \A b \in DOMAIN ar : PagesOf(ar[b].chunks) \in Nat
  BY TotalType
<1>2. \A b \in DOMAIN ar : w[b] \in Int /\ w[b] = v[b]
  BY <1>1
<1>3. v[a] = PagesOf(br[a].chunks)
  OBVIOUS
<1>4. Total(ar) = Sum(w, DOMAIN ar) /\ Total(br) = Sum(v, DOMAIN ar \cup {a})
  BY DEF Total
<1> HIDE DEF w, v
<1>5. \A b \in DOMAIN ar \cup {a} : v[b] \in Int
  BY <1>2, <1>3
<1>6. Sum(v, DOMAIN ar \cup {a}) = v[a] + Sum(v, DOMAIN ar)
  BY <1>1, <1>5, SumAdd
<1>7. Sum(w, DOMAIN ar) = Sum(v, DOMAIN ar)
  BY <1>1, <1>2, SumAgree
<1>8. Total(ar) \in Nat
  BY TotalType
<1>9. Cardinality(DOMAIN br) = Cardinality(DOMAIN ar) + 1
  BY <1>1, FS_AddElement
<1> QED
  BY <1>3, <1>4, <1>6, <1>7, <1>8, <1>9

\* An arena less.
LEMMA TotalClose ==
    ASSUME NEW ar, NEW ca, NEW mp, NEW L, Struct(ar, ca, mp, L), NEW a \in DOMAIN ar,
           NEW br, DOMAIN br = DOMAIN ar \ {a}, \A b \in DOMAIN br : br[b] = ar[b]
    PROVE  /\ Total(br) = Total(ar) - PagesOf(ar[a].chunks)
           /\ Cardinality(DOMAIN br) = Cardinality(DOMAIN ar) - 1
<1> DEFINE w == [b \in DOMAIN ar |-> PagesOf(ar[b].chunks)]
           v == [b \in DOMAIN br |-> PagesOf(br[b].chunks)]
<1>1. /\ IsFiniteSet(DOMAIN ar) /\ \A b \in DOMAIN ar : PagesOf(ar[b].chunks) \in Nat
      /\ IsFiniteSet(DOMAIN br)
  BY TotalType, FS_RemoveElement
<1>2. /\ \A b \in DOMAIN ar : w[b] \in Int
      /\ \A b \in DOMAIN br : w[b] = v[b] /\ b \in DOMAIN ar
  BY <1>1
<1>3. w[a] = PagesOf(ar[a].chunks)
  OBVIOUS
<1>4. Total(ar) = Sum(w, DOMAIN ar) /\ Total(br) = Sum(v, DOMAIN br)
  BY DEF Total
<1> HIDE DEF w, v
<1>5. Sum(w, DOMAIN ar) = w[a] + Sum(w, DOMAIN ar \ {a})
  BY <1>1, <1>2, SumRemove
<1>6. Sum(w, DOMAIN br) = Sum(v, DOMAIN br) /\ Sum(w, DOMAIN br) \in Int
  BY <1>1, <1>2, SumAgree, SumType
<1>7. Cardinality(DOMAIN br) = Cardinality(DOMAIN ar) - 1
  BY <1>1, FS_RemoveElement
<1> QED
  BY <1>1, <1>2, <1>3, <1>4, <1>5, <1>6, <1>7

\* The counters after l arenas were opened and t pages mapped for them.
Accounts(l, t, st) ==
    /\ st \in [live : Int, arena : Int, total : Int, peak : Int]
    /\ IF TRACKING THEN st.live = l /\ st.arena = t /\ st.total = t /\ st.peak >= t
       ELSE st = [live |-> 0, arena |-> 0, total |-> 0, peak |-> 0]

\* A mapping is counted.
LEMMA AccountMapped ==
    ASSUME NEW l \in Int, NEW t \in Int, NEW st, Accounts(l, t, st), NEW n \in Nat
    PROVE  Accounts(l, t + n, TrackMapped(st, n))
<1>1. CASE ~ TRACKING
  BY <1>1 DEF Accounts, TrackMapped
<1>2. CASE TRACKING
  <2> DEFINE u == TrackMapped(st, n)
  <2>1. /\ st \in [live : Int, arena : Int, total : Int, peak : Int]
        /\ st.live = l /\ st.arena = t /\ st.total = t /\ st.peak >= t
    BY <1>2 DEF Accounts
  <2>2. u = [live |-> l, arena |-> t + n, total |-> t + n,
             peak |-> IF t + n > st.peak THEN t + n ELSE st.peak]
    BY <1>2, <2>1 DEF TrackMapped
  <2>3. st.peak \in Int
    BY <2>1
  <2> HIDE DEF u
  <2>4. /\ u \in [live : Int, arena : Int, total : Int, peak : Int]
        /\ u.live = l /\ u.arena = t + n /\ u.total = t + n /\ u.peak >= t + n
    BY <2>2, <2>3
  <2> QED
    BY <1>2, <2>4 DEF Accounts, u
<1> QED
  BY <1>1, <1>2

\* A release is counted.
LEMMA AccountReleased ==
    ASSUME NEW l \in Int, NEW t \in Int, NEW st, Accounts(l, t, st), NEW n \in Nat
    PROVE  Accounts(l, t - n, TrackReleased(st, n))
<1>1. CASE ~ TRACKING
  BY <1>1 DEF Accounts, TrackReleased
<1>2. CASE TRACKING
  <2> DEFINE u == TrackReleased(st, n)
  <2>1. /\ st \in [live : Int, arena : Int, total : Int, peak : Int]
        /\ st.live = l /\ st.arena = t /\ st.total = t /\ st.peak >= t
    BY <1>2 DEF Accounts
  <2>2. u = [live |-> l, arena |-> t - n, total |-> t - n, peak |-> st.peak]
    BY <1>2, <2>1 DEF TrackReleased
  <2>3. st.peak \in Int
    BY <2>1
  <2> HIDE DEF u
  <2>4. /\ u \in [live : Int, arena : Int, total : Int, peak : Int]
        /\ u.live = l /\ u.arena = t - n /\ u.total = t - n /\ u.peak >= t - n
    BY <2>1, <2>2, <2>3
  <2> QED
    BY <1>2, <2>4 DEF Accounts, u
<1> QED
  BY <1>1, <1>2

\* An arena is counted.
LEMMA AccountLive ==
    ASSUME NEW l \in Int, NEW t \in Int, NEW st, Accounts(l, t, st), NEW d \in Int
    PROVE  Accounts(l + d, t, TrackLive(st, d))
<1>1. CASE ~ TRACKING
  BY <1>1 DEF Accounts, TrackLive
<1>2. CASE TRACKING
  <2> DEFINE u == TrackLive(st, d)
  <2>1. /\ st \in [live : Int, arena : Int, total : Int, peak : Int]
        /\ st.live = l /\ st.arena = t /\ st.total = t /\ st.peak >= t
    BY <1>2 DEF Accounts
  <2>2. u = [live |-> l + d, arena |-> t, total |-> t, peak |-> st.peak]
    BY <1>2, <2>1 DEF TrackLive
  <2>3. st.peak \in Int
    BY <2>1
  <2> HIDE DEF u
  <2>4. /\ u \in [live : Int, arena : Int, total : Int, peak : Int]
        /\ u.live = l + d /\ u.arena = t /\ u.total = t /\ u.peak >= t
    BY <2>1, <2>2, <2>3
  <2> QED
    BY <1>2, <2>4 DEF Accounts, u
<1> QED
  BY <1>1, <1>2

\* The counters of the context are those of its arenas.
Counted(ar, st) == Accounts(Cardinality(DOMAIN ar), Total(ar), st)

\* A new arena is counted.
LEMMA MakeFirstCounted ==
    ASSUME NEW L, Struct(arenas, cache, mapped, L), Counted(arenas, stats),
           NEW capacity \in Nat \ {0}, NEW max, NEW growable,
           MakeFirst(capacity, max, growable)
    PROVE  Counted(arenas', stats')
<1> DEFINE n == PagesFor(FirstSize(capacity))
           H == ARENA_HEADER + CHUNK_HEADER
<1>1. FirstSize(capacity) \in Nat \ {0} /\ H <= FirstSize(capacity) /\ H \in Nat
  BY Inputs DEF FirstSize
<1>2. n \in Nat \ {0} /\ FirstSize(capacity) <= n * PAGE_SIZE /\ n * PAGE_SIZE \in Nat
  BY <1>1, PagesForFacts, Inputs
<1>3. PICK m \in MapBlock(n) :
         /\ arenas' = [a \in DOMAIN arenas \cup {m.block} |->
                          IF a = m.block
                          THEN [chunks |-> <<Chunk(m.block, n, H)>>, max |-> max,
                                growable |-> growable, count |-> 0]
                          ELSE arenas[a]]
         /\ stats' = TrackLive(TrackMapped(stats, n), 1)
  BY DEF MakeFirst
<1>4. H <= n * PAGE_SIZE
  BY <1>1, <1>2
<1> HIDE DEF n
<1> DEFINE c == Chunk(m.block, n, H)
<1>5. Mapped(m, n, arenas, L)
  BY <1>2, <1>3, MapBlockStruct
<1>6. c \in ChunkType /\ c.pages = n
  BY <1>4, <1>5, NewChunk DEF Mapped, Struct
<1> HIDE DEF c
<1>7. PagesOf(<<c>>) = n
  BY <1>6, PagesOfOne
<1>8. m.block \notin DOMAIN arenas
  <2>1. m.block \in DOMAIN arenas => m.block \in BlocksIn(arenas[m.block].chunks)
    <3> SUFFICES ASSUME m.block \in DOMAIN arenas
                 PROVE  m.block \in BlocksIn(arenas[m.block].chunks)
      OBVIOUS
    <3>1. /\ 1 \in DOMAIN arenas[m.block].chunks
          /\ arenas[m.block].chunks[1].block = m.block
      BY ArenaFacts
    <3> QED
      BY <3>1 DEF BlocksIn
  <2> QED
    BY <1>5, <2>1 DEF Mapped
<1>9. /\ DOMAIN arenas' = DOMAIN arenas \cup {m.block}
      /\ \A b \in DOMAIN arenas : arenas'[b] = arenas[b]
      /\ arenas'[m.block].chunks = <<c>>
  BY <1>3, <1>8 DEF c
<1>10. PagesOf(arenas'[m.block].chunks) = n /\ n \in Nat
  BY <1>2, <1>7, <1>9
<1>11. /\ Total(arenas') = Total(arenas) + n
       /\ Cardinality(DOMAIN arenas') = Cardinality(DOMAIN arenas) + 1
  <2> DEFINE b == m.block
             br == arenas'
  <2>1. /\ b \notin DOMAIN arenas /\ DOMAIN br = DOMAIN arenas \cup {b}
        /\ \A d \in DOMAIN arenas : br[d] = arenas[d]
        /\ PagesOf(br[b].chunks) = n /\ PagesOf(br[b].chunks) \in Nat
    BY <1>8, <1>9, <1>10
  <2> HIDE DEF b, br
  <2>2. /\ Total(br) = Total(arenas) + PagesOf(br[b].chunks)
        /\ Cardinality(DOMAIN br) = Cardinality(DOMAIN arenas) + 1
    BY <2>1, TotalOpen
  <2> QED
    BY <2>1, <2>2 DEF br
<1>12. Total(arenas) \in Int /\ Cardinality(DOMAIN arenas) \in Int
  BY TotalType
<1>13. Accounts(Cardinality(DOMAIN arenas), Total(arenas) + n, TrackMapped(stats, n))
  BY <1>10, <1>12, AccountMapped DEF Counted
<1>14. Total(arenas) + n \in Int
  BY <1>10, <1>12
<1>15. Accounts(Cardinality(DOMAIN arenas) + 1, Total(arenas) + n, stats')
  BY <1>3, <1>12, <1>13, <1>14, AccountLive
<1> QED
  BY <1>11, <1>15 DEF Counted

\* An allocation maps nothing, unless it grows the arena.
LEMMA BumpCounted ==
    ASSUME NEW L, Struct(arenas, cache, mapped, L), Counted(arenas, stats),
           NEW a \in DOMAIN arenas, NEW size \in Nat, NEW alignment \in Nat,
           Bump(a, size, alignment)
    PROVE  Counted(arenas', stats')
<1> DEFINE cs == arenas[a].chunks
           ds == Advanced(cs, size, alignment)
<1>1. /\ Asked(size, alignment) /\ Fits(Last(cs), size, alignment)
      /\ arenas' = [arenas EXCEPT ![a].chunks = ds, ![a].count = arenas[a].count + 1]
      /\ stats' = stats
  BY DEF Bump, FitsInCurrent, AllocateIn, Advanced
<1>2. arenas[a] \in ArenaType /\ Sane(cs) /\ cs \in Seq(ChunkType)
  BY ArenaFacts
<1>3. LikeChunks(cs, ds)
  BY <1>1, <1>2, AskedFacts, AdvancedFacts
<1>4. PagesOf(ds) = PagesOf(cs) /\ PagesOf(cs) \in Nat
  BY <1>2, <1>3, PagesOfLike, PagesOfType
<1> HIDE DEF ds
<1>5. /\ DOMAIN arenas' = DOMAIN arenas
      /\ \A b \in DOMAIN arenas : b # a => arenas'[b] = arenas[b]
      /\ arenas'[a].chunks = ds
  <2>1. arenas'[a] = [arenas[a] EXCEPT !.chunks = ds, !.count = arenas[a].count + 1]
    BY <1>1
  <2> QED
    BY <1>1, <1>2, <2>1 DEF ArenaType
<1>6. PagesOf(arenas'[a].chunks) = PagesOf(arenas[a].chunks) /\ PagesOf(arenas'[a].chunks) \in Nat
  BY <1>4, <1>5
<1>7. Total(arenas') = Total(arenas) - PagesOf(arenas[a].chunks) + PagesOf(arenas'[a].chunks)
  BY <1>5, <1>6, TotalExchange
<1>8. Total(arenas) \in Nat
  BY TotalType
<1>9. Total(arenas') = Total(arenas)
  BY <1>6, <1>7, <1>8
<1> QED
  BY <1>1, <1>5, <1>9 DEF Counted

\* A growth is counted, whether the allocation then succeeds or not.
LEMMA GrowCounted ==
    ASSUME NEW L, Struct(arenas, cache, mapped, L), Counted(arenas, stats),
           NEW a \in DOMAIN arenas, NEW size \in Nat, NEW alignment \in Nat,
           Grow(a, size, alignment)
    PROVE  Counted(arenas', stats')
<1> DEFINE n == PagesFor(GrownSize(a, size, alignment))
<1>1. n \in Nat \ {0} /\ CHUNK_HEADER <= n * PAGE_SIZE
  BY GrownFacts
<1>2. size \in Nat /\ alignment \in Nat \ {0}
  BY AskedFacts DEF Grow
<1>3. PICK m \in MapBlock(n) :
         LET new == Chunk(m.block, n, CHUNK_HEADER)
             cs  == Append(arenas[a].chunks, new) IN
         /\ stats' = TrackMapped(stats, n)
         /\ IF Fits(new, size, alignment) THEN AllocateIn(a, cs, size, alignment)
            ELSE arenas' = [arenas EXCEPT ![a].chunks = cs]
  BY DEF Grow
<1> HIDE DEF n
<1> DEFINE new == Chunk(m.block, n, CHUNK_HEADER)
           old == arenas[a].chunks
           cs  == Append(old, new)
           ds  == Advanced(cs, size, alignment)
<1>4. /\ new \in ChunkType /\ Sane(cs) /\ Last(cs) = new
  <2>1. Chained(Grown(a, m, n), old, new, m, a)
    BY <1>1, ChainFacts
  <2> QED
    BY <2>1 DEF Chained, Grown
<1>5. new.pages = n
  BY DEF Chunk
<1>6. arenas[a] \in ArenaType /\ old \in Seq(ChunkType)
  BY ArenaFacts
<1> HIDE DEF new
<1>7. PagesOf(cs) = PagesOf(old) + n /\ PagesOf(old) \in Nat
  BY <1>4, <1>5, <1>6, PagesOfAppend, PagesOfType
<1>8. Fits(new, size, alignment) => PagesOf(ds) = PagesOf(cs)
  <2> SUFFICES ASSUME Fits(new, size, alignment) PROVE PagesOf(ds) = PagesOf(cs)
    OBVIOUS
  <2>1. cs \in Seq(ChunkType)
    BY <1>4 DEF Sane
  <2>2. LikeChunks(cs, ds)
    BY <1>2, <1>4, AdvancedFacts
  <2> QED
    BY <2>1, <2>2, PagesOfLike
<1>9. /\ DOMAIN arenas' = DOMAIN arenas
      /\ \A b \in DOMAIN arenas : b # a => arenas'[b] = arenas[b]
      /\ PagesOf(arenas'[a].chunks) = PagesOf(cs)
  <2>1. CASE Fits(new, size, alignment)
    <3>1. arenas' = [arenas EXCEPT ![a].chunks = ds, ![a].count = arenas[a].count + 1]
      BY <1>3, <2>1 DEF AllocateIn, Advanced, new
    <3> HIDE DEF ds, cs
    <3>2. arenas'[a] = [arenas[a] EXCEPT !.chunks = ds, !.count = arenas[a].count + 1]
      BY <3>1
    <3>3. arenas'[a].chunks = ds
      BY <1>6, <3>2 DEF ArenaType
    <3> QED
      BY <1>8, <2>1, <3>1, <3>3
  <2>2. CASE ~ Fits(new, size, alignment)
    <3>1. arenas' = [arenas EXCEPT ![a].chunks = cs]
      BY <1>3, <2>2 DEF new
    <3> HIDE DEF cs
    <3>2. arenas'[a].chunks = cs
      BY <1>6, <3>1 DEF ArenaType
    <3> QED
      BY <3>1, <3>2
  <2> QED
    BY <2>1, <2>2
<1> HIDE DEF cs
<1>10. PagesOf(arenas'[a].chunks) \in Nat
  BY <1>1, <1>7, <1>9
<1>11. Total(arenas') = Total(arenas) - PagesOf(arenas[a].chunks) + PagesOf(arenas'[a].chunks)
  BY <1>9, <1>10, TotalExchange
<1>12. Total(arenas) \in Nat /\ Cardinality(DOMAIN arenas) \in Int
  BY TotalType
<1>13. Total(arenas') = Total(arenas) + n
  BY <1>1, <1>7, <1>9, <1>11, <1>12
<1>14. Accounts(Cardinality(DOMAIN arenas), Total(arenas) + n, TrackMapped(stats, n))
  BY <1>1, <1>12, AccountMapped DEF Counted
<1> QED
  BY <1>3, <1>9, <1>13, <1>14 DEF Counted

\* What a reset releases is counted off.
LEMMA ResetCounted ==
    ASSUME NEW L, Struct(arenas, cache, mapped, L), Counted(arenas, stats),
           NEW a \in DOMAIN arenas, NEW left, ResetFrom(a, left)
    PROVE  Counted(arenas', stats')
<1> DEFINE cs == arenas[a].chunks
           d  == [Head(cs) EXCEPT !.used = 0]
           ts == Tail(cs)
<1>1. /\ arenas[a] \in ArenaType /\ Sane(cs) /\ Tidy(cs, mapped)
      /\ cs \in Seq(ChunkType) /\ cs # <<>>
  BY ArenaFacts
<1>2. /\ arenas' = [arenas EXCEPT ![a].chunks = <<d>>, ![a].count = 0]
      /\ stats' = TrackReleased(stats, PagesIn(ts))
  BY DEF ResetFrom
<1>3. d \in ChunkType /\ d.pages = cs[1].pages
  BY <1>1, FirstChunk
<1>4. ts \in Seq(ChunkType)
  BY <1>1
<1> HIDE DEF d, ts
<1>5. PagesOf(<<d>>) = cs[1].pages /\ PagesIn(ts) = PagesOf(ts) /\ PagesOf(ts) \in Nat
  BY <1>3, <1>4, PagesOfOne, PagesOfType, PagesInIs
<1>6. PagesOf(cs) = cs[1].pages + PagesOf(ts) /\ cs[1].pages \in Nat
  BY <1>1, <1>3, PagesOfTail, PagesType DEF ts
<1>7. /\ DOMAIN arenas' = DOMAIN arenas
      /\ \A b \in DOMAIN arenas : b # a => arenas'[b] = arenas[b]
      /\ arenas'[a].chunks = <<d>>
  <2>1. arenas'[a] = [arenas[a] EXCEPT !.chunks = <<d>>, !.count = 0]
    BY <1>2
  <2> QED
    BY <1>1, <1>2, <2>1 DEF ArenaType
<1>8. PagesOf(arenas'[a].chunks) = cs[1].pages
  BY <1>5, <1>7
<1>9. Total(arenas') = Total(arenas) - PagesOf(arenas[a].chunks) + PagesOf(arenas'[a].chunks)
  BY <1>6, <1>7, <1>8, TotalExchange
<1>10. Total(arenas) \in Nat /\ Cardinality(DOMAIN arenas) \in Int
  BY TotalType
<1> HIDE DEF cs
<1>11. Total(arenas') = Total(arenas) - PagesOf(ts)
  BY <1>5, <1>6, <1>8, <1>9, <1>10 DEF cs
<1>12. Accounts(Cardinality(DOMAIN arenas), Total(arenas) - PagesOf(ts),
                TrackReleased(stats, PagesOf(ts)))
  BY <1>5, <1>10, AccountReleased DEF Counted
<1> QED
  BY <1>2, <1>5, <1>7, <1>11, <1>12 DEF Counted

\* And what a destruction releases, with the arena.
LEMMA DestroyCounted ==
    ASSUME NEW L, Struct(arenas, cache, mapped, L), Counted(arenas, stats),
           NEW a \in DOMAIN arenas, Destroy(a)
    PROVE  Counted(arenas', stats')
<1> DEFINE s == arenas[a].chunks
           t == Append(Tail(s), Head(s))
           p == PagesOf(s)
<1>1. /\ s \in Seq(ChunkType) /\ s # <<>>
  BY ArenaFacts
<1>2. Tail(s) \in Seq(ChunkType) /\ Head(s) = s[1] /\ s[1] \in ChunkType
  BY <1>1
<1>3. PagesOf(t) = p /\ p \in Nat
  <2>1. PagesOf(t) = PagesOf(Tail(s)) + s[1].pages
    BY <1>2, PagesOfAppend
  <2>2. p = s[1].pages + PagesOf(Tail(s))
    BY <1>1, PagesOfTail
  <2>3. PagesOf(Tail(s)) \in Nat /\ s[1].pages \in Nat /\ p \in Nat
    BY <1>1, <1>2, PagesOfType, PagesType
  <2> HIDE DEF t, p, s
  <2> QED
    BY <2>1, <2>2, <2>3
<1>4. t \in Seq(ChunkType)
  BY <1>2
<1>5. PagesIn(t) = p
  BY <1>3, <1>4, PagesOfType, PagesInIs
<1>6. /\ arenas' = [b \in DOMAIN arenas \ {a} |-> arenas[b]]
      /\ stats' = TrackLive(TrackReleased(stats, PagesIn(t)), -1)
  BY DEF Destroy
<1> HIDE DEF t
<1>7. DOMAIN arenas' = DOMAIN arenas \ {a} /\ \A b \in DOMAIN arenas' : arenas'[b] = arenas[b]
  BY <1>6
<1>8. /\ Total(arenas') = Total(arenas) - p
      /\ Cardinality(DOMAIN arenas') = Cardinality(DOMAIN arenas) - 1
  BY <1>7, TotalClose
<1>9. Total(arenas) \in Int /\ Cardinality(DOMAIN arenas) \in Int
  BY TotalType
<1> HIDE DEF p
<1>10. Accounts(Cardinality(DOMAIN arenas), Total(arenas) - p, TrackReleased(stats, p))
  BY <1>3, <1>9, AccountReleased DEF Counted
<1>11. Total(arenas) - p \in Int /\ -1 \in Int
  BY <1>3, <1>9
<1>12. Accounts(Cardinality(DOMAIN arenas) + (-1), Total(arenas) - p, stats')
  BY <1>5, <1>6, <1>9, <1>10, <1>11, AccountLive
<1>13. Cardinality(DOMAIN arenas) + (-1) = Cardinality(DOMAIN arenas) - 1
  BY <1>9
<1> QED
  BY <1>8, <1>12, <1>13 DEF Counted

\* Every step keeps the counters those of the arenas.
LEMMA NextCounted ==
    ASSUME NEW L, Struct(arenas, cache, mapped, L), Counted(arenas, stats), Next
    PROVE  Counted(arenas', stats')
<1>1. ASSUME NEW capacity \in Size, Create(capacity) PROVE Counted(arenas', stats')
  <2>1. MakeFirst(capacity, capacity, FALSE)
    BY <1>1 DEF Create
  <2>2. capacity \in Nat \ {0}
    BY <2>1, Inputs DEF MakeFirst
  <2> QED
    BY <2>1, <2>2, MakeFirstCounted
<1>2. ASSUME NEW initial \in Size, NEW max \in Limit, CreateGrowable(initial, max)
      PROVE  Counted(arenas', stats')
  <2>1. MakeFirst(initial, max, TRUE)
    BY <1>2 DEF CreateGrowable
  <2>2. initial \in Nat \ {0}
    BY <2>1, Inputs DEF MakeFirst
  <2> QED
    BY <2>1, <2>2, MakeFirstCounted
<1>3. ASSUME NEW capacity, NEW max, CreateFails(capacity, max)
      PROVE  Counted(arenas', stats')
  BY <1>3 DEF CreateFails, vars
<1>4. ASSUME NEW a \in DOMAIN arenas, NEW size \in Nat, NEW alignment \in Nat,
             Allocate(a, size, alignment)
      PROVE  Counted(arenas', stats')
  <2>1. CASE AllocateFails(a, size, alignment)
    BY <2>1 DEF AllocateFails, vars
  <2> QED
    BY <1>4, <2>1, BumpCounted, GrowCounted DEF Allocate
<1>5. ASSUME NEW a \in DOMAIN arenas, NEW size \in Size \ {0}, CopyString(a, size - 1)
      PROVE  Counted(arenas', stats')
  <2>1. size \in Nat /\ (size - 1) + 1 = size
    BY Inputs
  <2>2. Allocate(a, size, 1)
    BY <1>5, <2>1 DEF CopyString
  <2> QED
    BY <1>4, <2>1, <2>2
<1>6. ASSUME NEW a \in DOMAIN arenas, Reset(a) \/ ResetSecure(a)
      PROVE  Counted(arenas', stats')
  <2>1. \E left : ResetFrom(a, left)
    BY <1>6 DEF Reset, ResetSecure
  <2> QED
    BY <2>1, ResetCounted
<1>7. ASSUME NEW a \in DOMAIN arenas, ReleasePages(a) PROVE Counted(arenas', stats')
  BY <1>7 DEF ReleasePages
<1>8. ASSUME NEW a \in DOMAIN arenas, Destroy(a) PROVE Counted(arenas', stats')
  BY <1>8, DestroyCounted
<1> QED
  BY <1>1, <1>2, <1>3, <1>4, <1>5, <1>6, <1>7, <1>8, Inputs DEF Next

\* At the start there is nothing to count.
LEMMA InitCounted == ASSUME Init PROVE Counted(arenas, stats)
<1>1. DOMAIN arenas = {} /\ Cardinality({}) = 0
  BY FS_EmptySet DEF Init
<1>2. Total(arenas) = 0
  BY <1>1, SumEmpty DEF Total
<1> QED
  BY <1>1, <1>2 DEF Init, Counted, Accounts

-------------------------------------------------------------------------------
(* The type invariant. *)

\* What is dirty are bytes of the process.
LEMMA NextDirty ==
    ASSUME NEW L, Struct(arenas, cache, mapped, L), Program(arenas, held), Next,
           dirty \subseteq Spaces
    PROVE  dirty' \subseteq Spaces
<1>1. ASSUME NEW capacity, NEW max, NEW growable, MakeFirst(capacity, max, growable)
      PROVE  dirty' \subseteq Spaces
  BY <1>1 DEF MakeFirst
<1>2. ASSUME NEW capacity, NEW max, CreateFails(capacity, max)
      PROVE  dirty' \subseteq Spaces
  BY <1>2 DEF CreateFails, vars
<1>3. ASSUME NEW a \in DOMAIN arenas, NEW size \in Size,
             NEW alignment \in Alignment \cup {1}, Allocate(a, size, alignment)
      PROVE  dirty' \subseteq Spaces
  BY <1>3, AllocateServed DEF Served
<1>4. ASSUME NEW a \in DOMAIN arenas, NEW size \in Size \ {0}, CopyString(a, size - 1)
      PROVE  dirty' \subseteq Spaces
  <2>1. size \in Nat /\ (size - 1) + 1 = size
    BY Inputs
  <2>2. Allocate(a, size, 1)
    BY <1>4, <2>1 DEF CopyString
  <2> QED
    BY <1>3, <2>2
<1>5. ASSUME NEW a, NEW left \in SUBSET dirty, ResetFrom(a, left)
      PROVE  dirty' \subseteq Spaces
  BY <1>5 DEF ResetFrom, Release
<1>6. ASSUME NEW a, Reset(a) \/ ResetSecure(a) PROVE dirty' \subseteq Spaces
  <2>1. \E left \in SUBSET dirty : ResetFrom(a, left)
    BY <1>6 DEF Reset, ResetSecure
  <2> QED
    BY <1>5, <2>1
<1>7. ASSUME NEW a, ReleasePages(a) PROVE dirty' \subseteq Spaces
  BY <1>7 DEF ReleasePages, AfterReleasePages
<1>8. ASSUME NEW a, Destroy(a) PROVE dirty' \subseteq Spaces
  BY <1>8 DEF Destroy, Release
<1> QED
  BY <1>1, <1>2, <1>3, <1>4, <1>6, <1>7, <1>8 DEF Next, Create, CreateGrowable

\* The invariant with the counters and what is dirty.
FullInv == /\ IInv
           /\ Counted(arenas, stats)
           /\ dirty \subseteq Spaces

\* It is inductive.
LEMMA FullInvariance == Spec => []FullInv
<1>1. Init => FullInv
  BY InitIInv, InitCounted DEF FullInv, Init
<1>2. FullInv /\ [Next]_vars => FullInv'
  <2>1. CASE Next
    BY <2>1, NextIInv, NextCounted, NextDirty DEF FullInv, IInv
  <2>2. CASE UNCHANGED vars
    BY <2>2, NextIInv DEF vars, FullInv
  <2> QED
    BY <2>1, <2>2
<1> QED
  BY <1>1, <1>2, PTL DEF Spec

\* The types of the arenas follow from what is known of them, whoever owns the
\* other mappings.
LEMMA ArenaTypes ==
    ASSUME NEW L, Struct(arenas, cache, mapped, L), Counted(arenas, stats),
           dirty \subseteq Spaces
    PROVE  TypeOK
<1>1. /\ DOMAIN arenas \subseteq Page
      /\ \A a \in DOMAIN arenas : arenas[a] \in ArenaType
      /\ cache \in Seq(Block) /\ Len(cache) <= CACHE_SIZE
      /\ DOMAIN mapped \subseteq Page
      /\ \A b \in DOMAIN mapped : mapped[b] \in Page
  BY DEF Struct, Kernel
<1>2. stats \in [live : Nat, arena : Nat, total : Nat, peak : Nat]
  <2>1. /\ Accounts(Cardinality(DOMAIN arenas), Total(arenas), stats)
        /\ Cardinality(DOMAIN arenas) \in Nat /\ Total(arenas) \in Nat
    BY TotalType DEF Counted
  <2>2. CASE TRACKING
    <3>1. /\ stats \in [live : Int, arena : Int, total : Int, peak : Int]
          /\ stats.live \in Nat /\ stats.arena \in Nat /\ stats.total \in Nat
          /\ stats.peak >= Total(arenas)
      BY <2>1, <2>2 DEF Accounts
    <3>2. stats.peak \in Nat
      BY <2>1, <3>1
    <3> QED
      BY <3>1, <3>2
  <2>3. CASE ~ TRACKING
    BY <2>1, <2>3 DEF Accounts
  <2> QED
    BY <2>2, <2>3
<1> QED
  BY <1>1, <1>2 DEF TypeOK, Spaces

\* Type correctness of the arenas, their cache, the mappings and the counters.
THEOREM TypeCorrect == Spec => []TypeOK
<1>1. ASSUME FullInv PROVE TypeOK
  BY <1>1, ArenaTypes DEF FullInv, IInv
<1> QED
  BY <1>1, FullInvariance, PTL

\* The counters of the context are what its arenas report, in every state, when
\* statistics are kept.
THEOREM StatisticsAreExact == Spec => []StatsExact
<1>1. ASSUME FullInv PROVE StatsExact
  <2>1. IsFiniteSet(DOMAIN arenas)
    BY <1>1, TotalType DEF FullInv, IInv
  <2>2. \A a \in DOMAIN arenas : IsFiniteSet(DOMAIN arenas[a].chunks)
    BY <1>1, ArenaFacts, PagesOfType DEF FullInv, IInv
  <2>3. Reserved = Total(arenas)
    BY <2>1, <2>2, ReservedIs
  <2> QED
    BY <1>1, <2>3 DEF FullInv, StatsExact, Counted, Accounts
<1> QED
  BY <1>1, FullInvariance, PTL

-------------------------------------------------------------------------------
(* bc_allocators_arena_reset_secure. *)

\* Nothing is left of the allocations it ended.
LEMMA ResetSecureWipes ==
    ASSUME Program(arenas, held), NEW a \in DOMAIN arenas,
           \A i \in DOMAIN arenas[a].chunks : arenas[a].chunks[i] \in ChunkType,
           ResetSecure(a), NEW x \in held \ held'
    PROVE  Span(x.at, x.size) \cap dirty' = {}
<1>1. /\ held' = {y \in held : y.arena # a}
      /\ dirty' \subseteq dirty \ UNION {Wiped(c) \cup Dropped(c) : c \in Chunks(a)}
  BY DEF ResetSecure, ResetFrom, Release
<1>2. x.arena = a /\ x.at \in Nat /\ x.size \in Nat
  BY <1>1, Inputs DEF Program, Fine
<1>3. PICK i \in DOMAIN arenas[a].chunks : Within(x, arenas[a].chunks[i])
  BY <1>2 DEF Program, Placed
<1> DEFINE c == arenas[a].chunks[i]
<1>4. c \in Chunks(a) /\ c \in ChunkType
  BY DEF Chunks, ToSet
<1>5. MemoryStart(c) \in Nat /\ c.used \in Nat
  <2>1. c.block \in Nat /\ c.header \in Nat /\ c.used \in Nat
    BY <1>4, Inputs DEF ChunkType, Page
  <2>2. c.block * PAGE_SIZE \in Nat
    BY <2>1, Inputs
  <2> QED
    BY <2>1, <2>2 DEF MemoryStart
<1>6. Span(x.at, x.size) \subseteq Wiped(c)
  <2>1. Within(x, c)
    BY <1>3
  <2> HIDE DEF c
  <2> QED
    BY <1>2, <1>5, <2>1 DEF Within, Wiped, Span
<1> QED
  BY <1>1, <1>4, <1>6

\* Whatever the operation, a byte that holds what the program wrote held it before
\* or belongs to an allocation in use.
LEMMA NextDirties == ASSUME Next PROVE dirty' \subseteq dirty \cup HeldBytes'
<1>1. ASSUME NEW a, NEW cs, NEW size, NEW alignment, AllocateIn(a, cs, size, alignment)
      PROVE  dirty' \subseteq dirty \cup HeldBytes'
  <2> DEFINE x == NewIn(a, Last(cs), size, alignment)
  <2>1. x \in held' /\ dirty' \subseteq dirty \cup Span(x.at, x.size)
    BY <1>1 DEF AllocateIn, NewIn
  <2> QED
    BY <2>1 DEF HeldBytes
<1>2. ASSUME NEW a, NEW size, NEW alignment, Allocate(a, size, alignment)
      PROVE  dirty' \subseteq dirty \cup HeldBytes'
  <2>1. CASE \E cs : AllocateIn(a, cs, size, alignment)
    BY <1>1, <2>1
  <2>2. CASE ~ \E cs : AllocateIn(a, cs, size, alignment)
    BY <1>2, <2>2 DEF Allocate, Bump, Grow, AllocateFails, vars
  <2> QED
    BY <2>1, <2>2
<1>3. ASSUME NEW capacity, NEW max, NEW growable, MakeFirst(capacity, max, growable)
      PROVE  dirty' \subseteq dirty
  BY <1>3 DEF MakeFirst
<1>4. ASSUME NEW capacity, NEW max, CreateFails(capacity, max) PROVE dirty' \subseteq dirty
  BY <1>4 DEF CreateFails, vars
<1>5. ASSUME NEW a, \/ Reset(a) \/ ResetSecure(a) \/ ReleasePages(a) \/ Destroy(a)
      PROVE  dirty' \subseteq dirty
  BY <1>5 DEF Reset, ResetSecure, ResetFrom, ReleasePages, AfterReleasePages, Destroy, Release
<1> QED
  BY <1>2, <1>3, <1>4, <1>5 DEF Next, Create, CreateGrowable, CopyString

-------------------------------------------------------------------------------
(***************************************************************************)
(* The life of the context.                                                *)
(***************************************************************************)
(* Unmapping. *)

\* What is left of the mappings in m without those of the blocks bs.
Less(m, bs) == [b \in DOMAIN m \ bs |-> m[b]]

IsFunction(m) == m = [b \in DOMAIN m |-> m[b]]

\* munmap of a whole mapping.
LEMMA UnmapIs ==
    ASSUME NEW m, NEW c, c.block \in DOMAIN m, m[c.block] = c.pages, c.pages \in Nat
    PROVE  Unmap(m, c) = Less(m, {c.block})
<1>1. m[c.block] - c.pages = 0
  OBVIOUS
<1> QED
  BY <1>1 DEF Unmap, Less

\* bc_allocators_platform_unmap, for each of some blocks: it leaves the others.
LEMMA UnmapAllIs ==
    ASSUME NEW m, IsFunction(m), NEW cs, NEW n \in Nat, DOMAIN cs = 1 .. n,
           Tidy(cs, m), \A i \in DOMAIN cs : cs[i].pages \in Nat
    PROVE  UnmapAll(m, cs) = Less(m, BlocksIn(cs))
<1> DEFINE S == 1 .. n
           B(s) == {cs[i].block : i \in s}
           P(g) == g = [s \in SUBSET S |->
                          IF s = {} THEN m ELSE Unmap(g[s \ {Max(s)}], cs[Max(s)])]
           h == [s \in SUBSET S |-> Less(m, B(s))]
<1>1. UnmapAll(m, cs) = (CHOOSE g : P(g))[S]
  BY DEF UnmapAll, FoldLeft, MapThenFoldSet
<1>2. ASSUME NEW s \in SUBSET S, s # {}
      PROVE  /\ Max(s) \in s /\ s \ {Max(s)} \in SUBSET S
             /\ Unmap(h[s \ {Max(s)}], cs[Max(s)]) = h[s]
  <2> DEFINE x == Max(s)
             r == s \ {x}
             c == cs[x]
  <2>1. x \in s
    BY <1>2, Extremes
  <2>2. x \in DOMAIN cs /\ r \in SUBSET S /\ x \notin r
    BY <2>1
  <2> HIDE DEF x
  <2>3. /\ c.block \in DOMAIN m /\ m[c.block] = c.pages /\ c.pages \in Nat
        /\ c.block \notin B(r)
    BY <2>2 DEF Tidy
  <2>4. B(s) = B(r) \cup {c.block}
    BY <2>1
  <2> HIDE DEF c, r, B
  <2> DEFINE k == Less(m, B(r))
  <2>5. /\ c.block \in DOMAIN k /\ k[c.block] = c.pages /\ DOMAIN k = DOMAIN m \ B(r)
        /\ \A b \in DOMAIN k : k[b] = m[b]
    BY <2>3 DEF Less
  <2>6. h[r] = k /\ h[s] = Less(m, B(s))
    BY <2>2 
  <2> HIDE DEF k
  <2>7. Unmap(k, c) = Less(k, {c.block})
    BY <2>3, <2>5, UnmapIs
  <2>8. Less(k, {c.block}) = Less(m, B(s))
    BY <2>4, <2>5 DEF Less
  <2> QED
    BY <2>1, <2>2, <2>6, <2>7, <2>8 DEF x, r, c
<1>3. h[{}] = m
  <2>1. B({}) = {} /\ DOMAIN m \ {} = DOMAIN m
    OBVIOUS
  <2> QED
    BY <2>1 DEF IsFunction, Less
<1>4. P(h)
  <2>1. \A s \in SUBSET S : h[s] = IF s = {} THEN m
                                   ELSE Unmap(h[s \ {Max(s)}], cs[Max(s)])
    BY <1>2, <1>3
  <2> QED
    BY <2>1
<1> DEFINE g == CHOOSE g : P(g)
<1>5. P(g)
  BY <1>4
<1> DEFINE F == {s \in SUBSET S : g[s] = h[s]}
<1>6. {} \in F
  <2>1. g[{}] = m
    BY <1>5
  <2> HIDE DEF g, h
  <2> QED
    BY <1>3, <2>1
<1>7. \A s \in SUBSET S : s # {} => g[s] = Unmap(g[s \ {Max(s)}], cs[Max(s)])
  BY <1>5
<1> HIDE DEF g, h
<1>8. ASSUME NEW s \in SUBSET S, s # {}, \A x \in s : s \ {x} \in F PROVE s \in F
  <2>1. g[s \ {Max(s)}] = h[s \ {Max(s)}]
    BY <1>2, <1>8
  <2> QED
    BY <1>2, <1>7, <1>8, <2>1
<1> HIDE DEF F
<1>9. SUBSET S \subseteq F
  <2>1. IsFiniteSet(S)
    BY FS_Interval
  <2> HIDE DEF S
  <2> QED
    BY <1>6, <1>8, <2>1, FiniteSet
<1>10. g[S] = h[S]
  BY <1>9 DEF F
<1>11. h[S] = Less(m, BlocksIn(cs))
  BY DEF h, BlocksIn
<1> QED
  BY <1>1, <1>10, <1>11 DEF g

\* Blocks are taken away from a memory.
LEMMA LessFacts ==
    ASSUME NEW m, NEW bs
    PROVE  /\ DOMAIN Less(m, bs) = DOMAIN m \ bs /\ IsFunction(Less(m, bs))
           /\ \A b \in DOMAIN m \ bs : Less(m, bs)[b] = m[b]
           /\ Kernel(m) => Kernel(Less(m, bs))
  BY DEF Less, IsFunction, Kernel

-------------------------------------------------------------------------------
(* Sequences of blocks. *)

\* Two sequences, one behind the other.
LEMMA TidyConcat ==
    ASSUME NEW T, NEW s \in Seq(T), NEW t \in Seq(T), NEW mp, Tidy(s, mp), Tidy(t, mp),
           BlocksIn(s) \cap BlocksIn(t) = {}
    PROVE  /\ s \o t \in Seq(T) /\ Tidy(s \o t, mp)
           /\ BlocksIn(s \o t) = BlocksIn(s) \cup BlocksIn(t)
<1> DEFINE u == s \o t
           n == Len(s)
           k == Len(t)
<1>1. /\ u \in Seq(T) /\ n \in Nat /\ k \in Nat /\ DOMAIN s = 1 .. n
      /\ DOMAIN t = 1 .. k /\ DOMAIN u = 1 .. n+k
      /\ \A i \in 1 .. n+k : u[i] = IF i <= n THEN s[i] ELSE t[i-n]
  OBVIOUS
<1> HIDE DEF u, n, k
<1>2. \A i \in DOMAIN s : i \in DOMAIN u /\ u[i] = s[i]
  BY <1>1
<1>3. \A i \in DOMAIN t : i+n \in DOMAIN u /\ u[i+n] = t[i]
  <2> SUFFICES ASSUME NEW i \in DOMAIN t PROVE i+n \in DOMAIN u /\ u[i+n] = t[i]
    OBVIOUS
  <2>1. i \in 1 .. k /\ i+n \in 1 .. n+k /\ ~ (i+n <= n) /\ (i+n)-n = i
    BY <1>1
  <2> QED
    BY <1>1, <2>1
<1>4. \A i \in DOMAIN u : \/ i \in DOMAIN s /\ u[i] = s[i]
                          \/ i-n \in DOMAIN t /\ u[i] = t[i-n] /\ i \in Nat
  <2> SUFFICES ASSUME NEW i \in DOMAIN u
               PROVE  \/ i \in DOMAIN s /\ u[i] = s[i]
                      \/ i-n \in DOMAIN t /\ u[i] = t[i-n] /\ i \in Nat
    OBVIOUS
  <2>1. i \in 1 .. n+k /\ u[i] = IF i <= n THEN s[i] ELSE t[i-n]
    BY <1>1
  <2>2. CASE i <= n
    BY <1>1, <2>1, <2>2
  <2>3. CASE ~ (i <= n)
    <3>1. i-n \in 1 .. k
      BY <1>1, <2>1, <2>3
    <3> QED
      BY <1>1, <2>1, <2>3, <3>1
  <2> QED
    BY <2>2, <2>3
<1>5. BlocksIn(u) = BlocksIn(s) \cup BlocksIn(t)
  BY <1>2, <1>3, <1>4 DEF BlocksIn
<1>6. \A i \in DOMAIN u : u[i].block \in DOMAIN mp /\ u[i].pages = mp[u[i].block]
  BY <1>4 DEF Tidy
<1>7. ASSUME NEW i \in DOMAIN u, NEW j \in DOMAIN u, u[i].block = u[j].block
      PROVE  i = j
  <2>1. CASE i \in DOMAIN s /\ u[i] = s[i] /\ j \in DOMAIN s /\ u[j] = s[j]
    BY <1>7, <2>1 DEF Tidy
  <2>2. CASE /\ i-n \in DOMAIN t /\ u[i] = t[i-n] /\ i \in Nat
             /\ j-n \in DOMAIN t /\ u[j] = t[j-n] /\ j \in Nat
    <3>1. i-n = j-n
      BY <1>7, <2>2 DEF Tidy
    <3> QED
      BY <1>1, <2>2, <3>1
  <2>3. CASE i \in DOMAIN s /\ u[i] = s[i] /\ j-n \in DOMAIN t /\ u[j] = t[j-n]
    BY <1>7, <2>3 DEF BlocksIn
  <2>4. CASE i-n \in DOMAIN t /\ u[i] = t[i-n] /\ j \in DOMAIN s /\ u[j] = s[j]
    BY <1>7, <2>4 DEF BlocksIn
  <2> QED
    BY <1>4, <2>1, <2>2, <2>3, <2>4
<1>8. Tidy(u, mp)
  BY <1>6, <1>7 DEF Tidy
<1> QED
  BY <1>1, <1>5, <1>8 DEF u

\* A sequence from its end.
LEMMA TidyReverse ==
    ASSUME NEW T, NEW s \in Seq(T), NEW mp, Tidy(s, mp)
    PROVE  /\ Reverse(s) \in Seq(T) /\ Tidy(Reverse(s), mp)
           /\ BlocksIn(Reverse(s)) = BlocksIn(s)
<1> DEFINE t == Reverse(s)
           n == Len(s)
<1>1. n \in Nat /\ DOMAIN s = 1 .. n /\ t = [i \in 1 .. n |-> s[(n - i) + 1]]
  BY DEF Reverse
<1>2. \A i \in 1 .. n : (n-i)+1 \in 1 .. n /\ (n - ((n-i)+1)) + 1 = i
  BY <1>1
<1>3. \A i \in 1 .. n : s[i] \in T
  BY <1>1
<1> HIDE DEF n
<1>4. t \in Seq(T) /\ DOMAIN t = 1 .. n
  BY <1>1, <1>2, <1>3
<1>5. \A i \in DOMAIN t : (n-i)+1 \in DOMAIN s /\ t[i] = s[(n-i)+1]
  BY <1>1, <1>2, <1>4
<1>6. \A i \in DOMAIN s : (n-i)+1 \in DOMAIN t /\ t[(n-i)+1] = s[i]
  BY <1>1, <1>2, <1>4
<1> HIDE DEF t
<1>7. BlocksIn(t) = BlocksIn(s)
  BY <1>5, <1>6 DEF BlocksIn
<1>8. ASSUME NEW i \in DOMAIN t, NEW j \in DOMAIN t, t[i].block = t[j].block
      PROVE  i = j
  <2>1. (n-i)+1 = (n-j)+1
    BY <1>5, <1>8 DEF Tidy
  <2>2. i \in Nat /\ j \in Nat
    BY <1>4
  <2> QED
    BY <1>1, <2>1, <2>2
<1>9. Tidy(t, mp)
  BY <1>5, <1>8 DEF Tidy
<1> QED
  BY <1>4, <1>7, <1>9 DEF t

-------------------------------------------------------------------------------
(* The arenas leave alone what is not theirs. *)

\* The mappings of m that are still there in k are what they were.
Steady(m, k) == /\ \A b \in DOMAIN m \cap DOMAIN k : k[b] = m[b]
                /\ IsFunction(m) => IsFunction(k)

\* bc_allocators_platform_map: a new mapping of n pages beside the others.
Fresh(m, n) == /\ m.block \notin DOMAIN mapped
               /\ DOMAIN m.mapped = DOMAIN mapped \cup {m.block}
               /\ Kernel(m.mapped) /\ m.mapped[m.block] = n
               /\ Steady(mapped, m.mapped)

\* That is what the kernel returns.
LEMMA FromKernelFacts ==
    ASSUME Kernel(mapped), NEW n \in Nat \ {0}, NEW m \in FromKernel(n)
    PROVE  Fresh(m, n)
<1>1. PICK b \in Unused(n) : m = [block |-> b, cache |-> cache,
               mapped |-> [a \in DOMAIN mapped \cup {b} |->
                              IF a = b THEN n ELSE mapped[a]]]
  BY DEF FromKernel
<1> DEFINE mp == [a \in DOMAIN mapped \cup {b} |-> IF a = b THEN n ELSE mapped[a]]
<1>2. m.block = b /\ m.mapped = mp /\ IsFunction(mp)
  BY <1>1 DEF IsFunction
<1> HIDE DEF mp
<1>3. /\ Kernel(mp) /\ b \notin DOMAIN mapped /\ mp[b] = n
      /\ DOMAIN mp = DOMAIN mapped \cup {b}
      /\ \A d \in DOMAIN mapped : mp[d] = mapped[d]
  BY KernelNew DEF mp
<1> QED
  BY <1>2, <1>3 DEF Fresh, Steady

\* bc_allocators_arena_map_block.
LEMMA MapBlockSteady ==
    ASSUME Kernel(mapped), NEW n \in Nat \ {0}, NEW m \in MapBlock(n)
    PROVE  Steady(mapped, m.mapped)
<1>1. CASE Cached(n) # {}
  <2>1. m.mapped = mapped
    BY <1>1 DEF MapBlock, FromCache
  <2> QED
    BY <2>1 DEF Steady
<1>2. CASE Cached(n) = {}
  <2>1. m \in FromKernel(n)
    BY <1>2 DEF MapBlock
  <2> QED
    BY <2>1, FromKernelFacts DEF Fresh
<1> QED
  BY <1>1, <1>2

\* Every step of the arenas.
LEMMA NextSteady ==
    ASSUME NEW L, Struct(arenas, cache, mapped, L), Next
    PROVE  Steady(mapped, mapped')
<1>1. ASSUME NEW capacity \in Size, NEW max, NEW growable,
             MakeFirst(capacity, max, growable)
      PROVE  Steady(mapped, mapped')
  <2> DEFINE n == PagesFor(FirstSize(capacity))
  <2>1. n \in Nat \ {0}
    <3>1. FirstSize(capacity) \in Nat \ {0}
      <4>1. capacity \in Nat \ {0}
        BY <1>1, Inputs DEF MakeFirst
      <4> QED
        BY <4>1, Inputs DEF FirstSize
    <3> QED
      BY <3>1, PagesForFacts
  <2>2. PICK m \in MapBlock(n) : mapped' = m.mapped
    BY <1>1 DEF MakeFirst
  <2> HIDE DEF n
  <2> QED
    BY <2>1, <2>2, MapBlockSteady DEF Struct
<1>2. ASSUME UNCHANGED mapped PROVE Steady(mapped, mapped')
  BY <1>2 DEF Steady
<1>3. ASSUME NEW capacity, NEW max, CreateFails(capacity, max)
      PROVE  Steady(mapped, mapped')
  BY <1>2, <1>3 DEF CreateFails, vars
<1>4. ASSUME NEW a \in DOMAIN arenas, NEW size \in Nat, NEW alignment \in Nat,
             Allocate(a, size, alignment)
      PROVE  Steady(mapped, mapped')
  <2>1. CASE Bump(a, size, alignment)
    BY <1>2, <2>1 DEF Bump
  <2>2. CASE Grow(a, size, alignment)
    <3> DEFINE n == PagesFor(GrownSize(a, size, alignment))
    <3>1. n \in Nat \ {0}
      BY GrownFacts
    <3>2. PICK m \in MapBlock(n) : mapped' = m.mapped
      BY <2>2 DEF Grow
    <3> HIDE DEF n
    <3> QED
      BY <3>1, <3>2, MapBlockSteady DEF Struct
  <2>3. CASE AllocateFails(a, size, alignment)
    BY <1>2, <2>3 DEF AllocateFails, vars
  <2> QED
    BY <1>4, <2>1, <2>2, <2>3 DEF Allocate
<1>5. ASSUME NEW a \in DOMAIN arenas, NEW size \in Size \ {0}, CopyString(a, size - 1)
      PROVE  Steady(mapped, mapped')
  <2>1. size \in Nat /\ 1 \in Nat /\ (size - 1) + 1 = size
    BY Inputs
  <2>2. Allocate(a, size, 1)
    BY <1>5, <2>1 DEF CopyString
  <2> QED
    BY <1>4, <2>1, <2>2
<1>6. ASSUME NEW cs, NEW left, Release(cs, left) PROVE Steady(mapped, mapped')
  BY <1>6 DEF Release, Steady, IsFunction
<1>7. ASSUME NEW a, Reset(a) \/ ResetSecure(a) PROVE Steady(mapped, mapped')
  BY <1>6, <1>7 DEF Reset, ResetSecure, ResetFrom
<1>8. ASSUME NEW a, ReleasePages(a) PROVE Steady(mapped, mapped')
  BY <1>2, <1>8 DEF ReleasePages
<1>9. ASSUME NEW a, Destroy(a) PROVE Steady(mapped, mapped')
  BY <1>6, <1>9 DEF Destroy
<1> QED
  BY <1>1, <1>3, <1>4, <1>5, <1>7, <1>8, <1>9, Inputs DEF Next, Create, CreateGrowable

-------------------------------------------------------------------------------
(***************************************************************************)
(* The mappings.  Those of the context itself and those of arenas that     *)
(* outlived a context are the ones that no arena and no cache entry names. *)
(***************************************************************************)
LostIn(ls) == {c.block : c \in ls}

\* The mappings c are there, at their size.
AllMapped(ls, mp) == \A c \in ls : c.block \in DOMAIN mp /\ c.pages = mp[c.block]

Memory(ar, ca, mp, ps, ls) ==
    /\ Struct(ar, ca, mp, BlocksIn(ps) \cup LostIn(ls)) /\ IsFunction(mp)
    /\ ps \in Seq(Block) /\ Tidy(ps, mp)
    /\ ls \subseteq Block /\ AllMapped(ls, mp)
    /\ BlocksIn(ps) \cap LostIn(ls) = {}

\* Where there is no arena and no cache entry.
LEMMA StructEmpty ==
    ASSUME NEW ar, DOMAIN ar = {}, NEW mp, NEW L
    PROVE  Struct(ar, <<>>, mp, L) <=> Kernel(mp) /\ DOMAIN mp = L
<1>1. /\ <<>> \in Seq(Block) /\ Len(<<>>) = 0 /\ CACHE_SIZE \in Nat
      /\ BlocksIn(<<>>) = {} /\ Tidy(<<>>, mp)
  BY ArenaAssumption DEF BlocksIn, Tidy
<1>2. (UNION {BlocksIn(ar[a].chunks) : a \in DOMAIN ar}) = {}
  OBVIOUS
<1>3. Ledger(ar, <<>>, mp, L) <=> DOMAIN mp = L
  BY <1>1, <1>2 DEF Ledger
<1> QED
  BY <1>1, <1>3 DEF Struct

\* At the start nothing is mapped.
LEMMA InitMemory == ASSUME ContextInit PROVE Memory(arenas, cache, mapped, parts, lost)
<1>1. /\ DOMAIN arenas = {} /\ cache = <<>> /\ mapped = <<>> /\ parts = <<>> /\ lost = {}
      /\ DOMAIN mapped = {} /\ DOMAIN parts = {} /\ IsFunction(mapped)
  BY DEF ContextInit, Init, IsFunction
<1>2. Kernel(mapped) /\ BlocksIn(parts) = {} /\ LostIn(lost) = {}
  BY <1>1 DEF Kernel, BlocksIn, LostIn
<1>3. Struct(arenas, cache, mapped, BlocksIn(parts) \cup LostIn(lost))
  BY <1>1, <1>2, StructEmpty
<1> QED
  BY <1>1, <1>2, <1>3 DEF Memory, Tidy, AllMapped

\* What the arenas do.
LEMMA UseMemory ==
    ASSUME Memory(arenas, cache, mapped, parts, lost), Next
    PROVE  Memory(arenas', cache', mapped', parts, lost)
<1> DEFINE L == BlocksIn(parts) \cup LostIn(lost)
<1>1. Struct(arenas, cache, mapped, L)
  BY DEF Memory
<1> HIDE DEF L
<1>2. Struct(arenas', cache', mapped', L) /\ Steady(mapped, mapped')
  BY <1>1, NextStruct, NextSteady
<1>3. \A b \in L : b \in DOMAIN mapped /\ b \in DOMAIN mapped' /\ mapped'[b] = mapped[b]
  BY <1>1, <1>2 DEF Struct, Ledger, Steady
<1>4. \A b \in BlocksIn(parts) \cup LostIn(lost) :
         b \in DOMAIN mapped' /\ mapped'[b] = mapped[b]
  BY <1>3 DEF L
<1>5. Tidy(parts, mapped')
  BY <1>4, TidyAgain DEF Memory
<1>6. AllMapped(lost, mapped')
  BY <1>4 DEF Memory, AllMapped, LostIn
<1>7. IsFunction(mapped')
  BY <1>2 DEF Memory, Steady
<1> QED
  BY <1>2, <1>5, <1>6, <1>7 DEF Memory, L

\* A part of the context is mapped.
LEMMA MapMemory ==
    ASSUME Memory(arenas, cache, mapped, parts, lost),
           DOMAIN arenas = {}, cache = <<>>,
           NEW n \in Nat \ {0}, NEW m \in FromKernel(n)
    PROVE  Memory(arenas, cache, m.mapped,
                  Append(parts, [block |-> m.block, pages |-> n]), lost)
<1> DEFINE c == [block |-> m.block, pages |-> n]
           k == m.mapped
           b == m.block
           ps == Append(parts, c)
<1>1. Kernel(mapped) /\ DOMAIN mapped = BlocksIn(parts) \cup LostIn(lost)
  BY StructEmpty DEF Memory
<1>2. Fresh(m, n)
  BY <1>1, FromKernelFacts
<1>3. /\ b \notin DOMAIN mapped /\ DOMAIN k = DOMAIN mapped \cup {b}
      /\ Kernel(k) /\ k[b] = n /\ Steady(mapped, k)
  BY <1>2 DEF Fresh
<1>4. c \in Block /\ c.block = b /\ c.pages = n
  BY <1>3 DEF Kernel, Block
<1> HIDE DEF c, k, b
<1>5. \A d \in DOMAIN mapped : d \in DOMAIN k /\ k[d] = mapped[d]
  BY <1>3 DEF Steady
<1>6. parts \in Seq(Block) /\ Tidy(parts, k) /\ b \notin BlocksIn(parts)
  BY <1>1, <1>3, <1>5, TidyAgain DEF Memory
<1>7. /\ ps \in Seq(Block) /\ Tidy(ps, k) /\ BlocksIn(ps) = BlocksIn(parts) \cup {b}
  BY <1>3, <1>4, <1>6, TidyAppend
<1> HIDE DEF ps
<1>8. AllMapped(lost, k) /\ lost \subseteq Block
  BY <1>1, <1>5 DEF Memory, AllMapped
<1>9. Struct(arenas, cache, k, BlocksIn(ps) \cup LostIn(lost))
  <2>1. DOMAIN k = BlocksIn(ps) \cup LostIn(lost)
    BY <1>1, <1>3, <1>7
  <2> QED
    BY <1>3, <2>1, StructEmpty
<1>10. BlocksIn(ps) \cap LostIn(lost) = {}
  BY <1>1, <1>3, <1>7 DEF Memory
<1>11. IsFunction(k)
  BY <1>3 DEF Memory, Steady
<1> QED
  BY <1>7, <1>8, <1>9, <1>10, <1>11 DEF Memory, ps, k, c, b

\* The sizes of the blocks of a sequence are numbers.
LEMMA BlockPages ==
    ASSUME NEW s \in Seq(Block)
    PROVE  Len(s) \in Nat /\ DOMAIN s = 1 .. Len(s) /\ \A i \in DOMAIN s : s[i].pages \in Nat
<1>1. \A i \in DOMAIN s : s[i] \in Block
  OBVIOUS
<1> QED
  BY <1>1, Inputs DEF Block, Page

\* A creation that fails unmaps what it mapped.
LEMMA UnwindMemory ==
    ASSUME Memory(arenas, cache, mapped, parts, lost),
           DOMAIN arenas = {}, cache = <<>>
    PROVE  Memory(arenas, cache, UnmapAll(mapped, Unwound(parts)), <<>>, lost)
<1> DEFINE k == UnmapAll(mapped, Unwound(parts))
           s == Reverse(parts)
<1>1. /\ s \in Seq(Block) /\ Tidy(s, mapped) /\ BlocksIn(s) = BlocksIn(parts)
  BY TidyReverse DEF Memory
<1> HIDE DEF s
<1>2. k = Less(mapped, BlocksIn(parts))
  <2>1. UnmapAll(mapped, s) = Less(mapped, BlocksIn(s))
    BY <1>1, BlockPages, UnmapAllIs DEF Memory
  <2> QED
    BY <1>1, <2>1 DEF Unwound, s
<1> HIDE DEF k
<1>3. Kernel(mapped) /\ DOMAIN mapped = BlocksIn(parts) \cup LostIn(lost)
  BY StructEmpty DEF Memory
<1>4. /\ DOMAIN k = DOMAIN mapped \ BlocksIn(parts) /\ IsFunction(k) /\ Kernel(k)
      /\ \A b \in DOMAIN k : k[b] = mapped[b]
  <2> DEFINE bs == BlocksIn(parts)
             r  == Less(mapped, bs)
  <2>1. /\ DOMAIN r = DOMAIN mapped \ bs /\ IsFunction(r)
        /\ \A b \in DOMAIN mapped \ bs : r[b] = mapped[b]
        /\ Kernel(mapped) => Kernel(r)
    <3> HIDE DEF bs
    <3> QED
      BY LessFacts
  <2>2. k = r
    BY <1>2
  <2> HIDE DEF r, bs
  <2>3. DOMAIN k = DOMAIN mapped \ bs /\ \A b \in DOMAIN k : k[b] = mapped[b]
    BY <2>1, <2>2
  <2> QED
    BY <1>3, <2>1, <2>2, <2>3 DEF bs
<1>5. DOMAIN k = LostIn(lost)
  BY <1>3, <1>4 DEF Memory
<1>6. BlocksIn(<<>>) = {} /\ <<>> \in Seq(Block) /\ Tidy(<<>>, k)
  BY DEF BlocksIn, Tidy
<1>7. AllMapped(lost, k)
  BY <1>4, <1>5 DEF Memory, AllMapped, LostIn
<1>8. Struct(arenas, cache, k, BlocksIn(<<>>) \cup LostIn(lost))
  <2>1. DOMAIN k = BlocksIn(<<>>) \cup LostIn(lost)
    BY <1>5, <1>6
  <2> QED
    BY <1>4, <2>1, StructEmpty
<1> QED
  BY <1>4, <1>6, <1>7, <1>8 DEF Memory, k

\* What the arenas left alive have mapped.
LEMMA LeakedFacts ==
    ASSUME NEW L, Struct(arenas, cache, mapped, L)
    PROVE  /\ LostIn(Leaked) = UNION {BlocksIn(arenas[a].chunks) : a \in DOMAIN arenas}
           /\ Leaked \subseteq Block /\ AllMapped(Leaked, mapped)
<1>1. \A c \in Leaked : \E a \in DOMAIN arenas : \E i \in DOMAIN arenas[a].chunks :
         c = [block |-> arenas[a].chunks[i].block, pages |-> arenas[a].chunks[i].pages]
  BY DEF Leaked, Chunks, ToSet
<1>2. \A a \in DOMAIN arenas : \A i \in DOMAIN arenas[a].chunks :
         [block |-> arenas[a].chunks[i].block, pages |-> arenas[a].chunks[i].pages]
           \in Leaked
  BY DEF Leaked, Chunks, ToSet
<1>3. \A a \in DOMAIN arenas : \A i \in DOMAIN arenas[a].chunks :
         /\ arenas[a].chunks[i] \in ChunkType
         /\ arenas[a].chunks[i].block \in DOMAIN mapped
         /\ arenas[a].chunks[i].pages = mapped[arenas[a].chunks[i].block]
  BY ChunkFacts
<1>4. Leaked \subseteq Block /\ AllMapped(Leaked, mapped)
  <2> SUFFICES ASSUME NEW c \in Leaked
               PROVE  c \in Block /\ c.block \in DOMAIN mapped /\ c.pages = mapped[c.block]
    BY DEF AllMapped
  <2>1. PICK a \in DOMAIN arenas : \E i \in DOMAIN arenas[a].chunks :
         c = [block |-> arenas[a].chunks[i].block, pages |-> arenas[a].chunks[i].pages]
    BY <1>1
  <2>2. PICK i \in DOMAIN arenas[a].chunks :
         c = [block |-> arenas[a].chunks[i].block, pages |-> arenas[a].chunks[i].pages]
    BY <2>1
  <2> DEFINE d == arenas[a].chunks[i]
  <2>3. d \in ChunkType /\ d.block \in DOMAIN mapped /\ d.pages = mapped[d.block]
    BY <1>3
  <2>4. c = [block |-> d.block, pages |-> d.pages]
    BY <2>2
  <2> HIDE DEF d
  <2> QED
    BY <2>3, <2>4 DEF ChunkType, Block
<1>5. LostIn(Leaked) = UNION {BlocksIn(arenas[a].chunks) : a \in DOMAIN arenas}
  <2>1. ASSUME NEW b \in LostIn(Leaked)
        PROVE  b \in UNION {BlocksIn(arenas[a].chunks) : a \in DOMAIN arenas}
    <3>1. PICK c \in Leaked : b = c.block
      BY DEF LostIn
    <3>2. PICK a \in DOMAIN arenas : \E i \in DOMAIN arenas[a].chunks :
             c.block = arenas[a].chunks[i].block
      BY <1>1
    <3> QED
      BY <3>1, <3>2 DEF BlocksIn
  <2>2. ASSUME NEW a \in DOMAIN arenas, NEW b \in BlocksIn(arenas[a].chunks)
        PROVE  b \in LostIn(Leaked)
    <3>1. PICK i \in DOMAIN arenas[a].chunks : b = arenas[a].chunks[i].block
      BY DEF BlocksIn
    <3> DEFINE c == [block |-> b, pages |-> arenas[a].chunks[i].pages]
    <3>2. c \in Leaked /\ c.block = b
      BY <1>2, <3>1
    <3> QED
      BY <3>2 DEF LostIn
  <2> QED
    BY <2>1, <2>2
<1> QED
  BY <1>4, <1>5

\* bc_allocators_context_destroy: what is left are the blocks of the arenas that
\* the program did not destroy.
LEMMA TearDownMemory ==
    ASSUME Memory(arenas, cache, mapped, parts, lost), TearDown
    PROVE  Memory(arenas', cache', mapped', parts', lost')
<1> DEFINE s == cache \o Reverse(parts)
           A == UNION {BlocksIn(arenas[a].chunks) : a \in DOMAIN arenas}
           C == BlocksIn(cache)
           B == BlocksIn(parts)
           D == LostIn(lost)
           k == mapped'
<1>1. /\ DOMAIN mapped = A \cup (C \cup (B \cup D)) /\ B \cap D = {}
      /\ Kernel(mapped) /\ Tidy(cache, mapped) /\ cache \in Seq(Block)
  BY DEF Memory, Struct, Ledger
<1>2. A \cap (C \cup B \cup D) = {} /\ C \cap (B \cup D) = {}
  <2>1. \A a \in DOMAIN arenas : BlocksIn(arenas[a].chunks) \cap (C \cup (B \cup D)) = {}
    BY DEF Memory, Struct, Ledger
  <2>2. C \cap (B \cup D) = {}
    BY DEF Memory, Struct, Ledger
  <2> HIDE DEF B, C, D
  <2> QED
    BY <2>1, <2>2
<1>3. /\ Reverse(parts) \in Seq(Block) /\ Tidy(Reverse(parts), mapped)
      /\ BlocksIn(Reverse(parts)) = B
  BY TidyReverse DEF Memory
<1>4. s \in Seq(Block) /\ Tidy(s, mapped) /\ BlocksIn(s) = C \cup B
  <2> DEFINE r == Reverse(parts)
  <2>1. r \in Seq(Block) /\ Tidy(r, mapped) /\ BlocksIn(cache) \cap BlocksIn(r) = {}
    BY <1>2, <1>3
  <2> HIDE DEF r
  <2>2. /\ cache \o r \in Seq(Block) /\ Tidy(cache \o r, mapped)
        /\ BlocksIn(cache \o r) = BlocksIn(cache) \cup BlocksIn(r)
    BY <1>1, <2>1, TidyConcat
  <2> QED
    BY <1>3, <2>2 DEF r
<1> DEFINE bs == C \cup B
<1>5. k = Less(mapped, bs)
  <2>1. k = UnmapAll(mapped, s)
    BY DEF TearDown, TornDown
  <2> HIDE DEF s
  <2>2. UnmapAll(mapped, s) = Less(mapped, BlocksIn(s))
    BY <1>4, BlockPages, UnmapAllIs DEF Memory
  <2> QED
    BY <1>4, <2>1, <2>2
<1> HIDE DEF k, bs
<1>6. /\ DOMAIN k = DOMAIN mapped \ bs /\ IsFunction(k) /\ Kernel(k)
      /\ \A b \in DOMAIN k : k[b] = mapped[b]
  <2> DEFINE r == Less(mapped, bs)
  <2>1. /\ DOMAIN r = DOMAIN mapped \ bs /\ IsFunction(r)
        /\ \A b \in DOMAIN mapped \ bs : r[b] = mapped[b]
        /\ Kernel(mapped) => Kernel(r)
    BY LessFacts
  <2>2. k = r
    BY <1>5
  <2> HIDE DEF r
  <2>3. DOMAIN k = DOMAIN mapped \ bs /\ \A b \in DOMAIN k : k[b] = mapped[b]
    BY <2>1, <2>2
  <2> QED
    BY <1>1, <2>1, <2>2, <2>3
<1>7. /\ LostIn(Leaked) = A /\ Leaked \subseteq Block /\ AllMapped(Leaked, mapped)
  BY LeakedFacts DEF Memory
<1>8. /\ lost' = lost \cup Leaked /\ parts' = <<>> /\ cache' = <<>> /\ DOMAIN arenas' = {}
  BY DEF TearDown
<1>9. LostIn(lost') = D \cup A
  BY <1>7, <1>8 DEF LostIn
<1>10. DOMAIN k = LostIn(lost')
  BY <1>1, <1>2, <1>6, <1>9 DEF bs
<1>11. AllMapped(lost', k) /\ lost' \subseteq Block
  <2>1. \A c \in lost' : c.block \in DOMAIN mapped /\ c.pages = mapped[c.block]
    BY <1>7, <1>8 DEF Memory, AllMapped
  <2>2. \A c \in lost' : c.block \in DOMAIN k
    BY <1>10 DEF LostIn
  <2> QED
    BY <1>6, <1>7, <1>8, <2>1, <2>2 DEF Memory, AllMapped
<1>12. BlocksIn(parts') = {} /\ parts' \in Seq(Block) /\ Tidy(parts', k)
  BY <1>8 DEF BlocksIn, Tidy
<1>13. Struct(arenas', cache', k, BlocksIn(parts') \cup LostIn(lost'))
  <2>1. DOMAIN k = BlocksIn(parts') \cup LostIn(lost')
    BY <1>10, <1>12
  <2> QED
    BY <1>6, <1>8, <2>1, StructEmpty
<1> QED
  BY <1>6, <1>11, <1>12, <1>13 DEF Memory, k

-------------------------------------------------------------------------------
(***************************************************************************)
(* The life of a context.                                                  *)
(***************************************************************************)
Alive == phase \in {"live", "pool_report", "arena_report"}

Life ==
    /\ phase \in {"none", "mapping", "live", "pool_report", "arena_report"}
    /\ callback \in BOOLEAN /\ told \subseteq {"pool", "arena"}
    /\ out \in 0 .. POOL_BLOCKS /\ late \in 0 .. out /\ sizes \in Seq(Nat \ {0})
    /\ \A i \in DOMAIN parts : i \in DOMAIN sizes /\ parts[i].pages = sizes[i]
    /\ ~Alive => DOMAIN arenas = {} /\ cache = <<>> /\ out = 0
    /\ phase = "none" => parts = <<>>
    /\ phase = "mapping" => Len(parts) < 3 /\ Len(sizes) = 3
    /\ Alive => Len(parts) = 3

\* While the callback runs, what it was told of the pool is still true of it.
Telling ==
    /\ phase = "pool_report" => "pool" \in told
    /\ phase = "arena_report" =>
         "arena" \in told /\ (TRACKING /\ callback /\ out > late => "pool" \in told)

Wiping == remains \subseteq dirty /\ dirty \subseteq HeldBytes \cup remains

CInv ==
    /\ Memory(arenas, cache, mapped, parts, lost)
    /\ Program(arenas, held) /\ Counted(arenas, stats) /\ dirty \subseteq Spaces
    /\ Life /\ Telling /\ Wiping

\* At the start there is no context.
LEMMA InitCInv == ContextInit => CInv
<1> SUFFICES ASSUME ContextInit PROVE CInv
  OBVIOUS
<1>1. Memory(arenas, cache, mapped, parts, lost)
  BY InitMemory
<1>2. Program(arenas, held) /\ Counted(arenas, stats) /\ dirty \subseteq Spaces
  BY InitIInv, InitCounted DEF ContextInit, IInv, Init
<1>3. Life /\ Telling /\ Wiping
  <2>1. /\ phase = "none" /\ parts = <<>> /\ sizes = <<>> /\ callback = FALSE
        /\ told = {} /\ out = 0 /\ late = 0 /\ remains = {} /\ dirty = {} /\ DOMAIN arenas = {} /\ cache = <<>>
    BY DEF ContextInit, Init
  <2>2. sizes \in Seq(Nat \ {0}) /\ DOMAIN parts = {} /\ 0 \in 0 .. POOL_BLOCKS /\ 0 \in 0 .. 0
    BY <2>1, ContextAssumption
  <2> QED
    BY <2>1, <2>2 DEF Life, Alive, Telling, Wiping
<1> QED
  BY <1>1, <1>2, <1>3 DEF CInv

\* The sizes of the parts of a context.
LEMMA ComputedFacts ==
    ASSUME NEW max \in MaxMemory
    PROVE  Computed(max) \in Seq(Nat \ {0}) /\ Len(Computed(max)) = 3
<1> DEFINE n == IF max = 0 THEN DEFAULT_MAX ELSE max
<1>1. n \in Nat \ {0} /\ CONTEXT_SIZE \in Nat \ {0}
  BY ContextAssumption, Inputs
<1> HIDE DEF n
<1> DEFINE x == PagesFor(CONTEXT_SIZE)
           y == PagesFor(n)
           z == PagesFor(y)
<1>2. x \in Nat \ {0} /\ y \in Nat \ {0}
  BY <1>1, PagesForFacts
<1> HIDE DEF y
<1>3. z \in Nat \ {0}
  BY <1>2, PagesForFacts
<1>4. Computed(max) = <<x, y, z>>
  BY DEF Computed, n, y
<1> HIDE DEF x, z
<1> QED
  BY <1>2, <1>3, <1>4

\* bc_allocators_context_create, its sizes.
LEMMA CreateCInv ==
    ASSUME CInv, NEW max \in MaxMemory, NEW reports \in BOOLEAN,
           CreateContext(max, reports)
    PROVE  CInv'
<1>1. CASE Overflows(max)
  BY <1>1 DEF CreateContext, CInv, vars, own, Life, Alive, Telling, Wiping, HeldBytes
<1>2. CASE ~ Overflows(max)
  <2>1. /\ phase = "none" /\ phase' = "mapping" /\ sizes' = Computed(max)
        /\ callback' = reports /\ told' = {}
        /\ UNCHANGED <<vars, parts, out, late, lost, remains>>
    BY <1>2 DEF CreateContext
  <2>2. /\ UNCHANGED <<arenas, cache, mapped, stats, dirty, held>>
        /\ UNCHANGED <<parts, out, late, lost, remains>>
    BY <2>1 DEF vars
  <2>3. sizes' \in Seq(Nat \ {0}) /\ Len(sizes') = 3
    BY <2>1, ComputedFacts
  <2>4. /\ DOMAIN arenas = {} /\ cache = <<>> /\ parts = <<>> /\ out = 0
        /\ out \in 0 .. POOL_BLOCKS /\ late \in 0 .. out
    BY <2>1 DEF CInv, Life, Alive
  <2>5. DOMAIN parts = {} /\ Len(parts) = 0
    BY <2>4
  <2>6. Life' /\ Telling'
    BY <2>1, <2>2, <2>3, <2>4, <2>5 DEF Life, Alive, Telling
  <2> QED
    BY <2>2, <2>6 DEF CInv, Wiping, HeldBytes
<1> QED
  BY <1>1, <1>2

\* A part is mapped.
LEMMA MapPartCInv == ASSUME CInv, MapPart PROVE CInv'
<1> DEFINE n == sizes[Len(parts) + 1]
<1>1. /\ phase = "mapping" /\ phase' = IF Len(parts') = 3 THEN "live" ELSE "mapping"
      /\ UNCHANGED <<arenas, cache, stats, dirty, held, sizes, callback, told, out, late, lost, remains>>
  BY DEF MapPart
<1>2. /\ DOMAIN arenas = {} /\ cache = <<>> /\ out = 0 /\ parts \in Seq(Block)
      /\ Len(parts) < 3 /\ Len(sizes) = 3 /\ sizes \in Seq(Nat \ {0})
      /\ \A i \in DOMAIN parts : i \in DOMAIN sizes /\ parts[i].pages = sizes[i]
  BY <1>1 DEF CInv, Life, Alive, Memory
<1>3. n \in Nat \ {0} /\ Len(parts) + 1 \in DOMAIN sizes
  BY <1>2
<1>4. PICK m \in FromKernel(n) :
         mapped' = m.mapped /\ parts' = Append(parts, [block |-> m.block, pages |-> n])
  BY DEF MapPart
<1> DEFINE c == [block |-> m.block, pages |-> n]
<1>5. Memory(arenas, cache, mapped', parts', lost)
  <2> HIDE DEF n
  <2> QED
    BY <1>2, <1>3, <1>4, MapMemory DEF CInv
<1>6. c.pages = n
  OBVIOUS
<1> HIDE DEF c
<1>7. /\ DOMAIN parts' = DOMAIN parts \cup {Len(parts) + 1} /\ Len(parts') = Len(parts) + 1
      /\ parts'[Len(parts) + 1] = c /\ \A i \in DOMAIN parts : parts'[i] = parts[i]
  <2>1. parts' = Append(parts, c)
    BY <1>4 DEF c
  <2>2. /\ DOMAIN parts = 1 .. Len(parts) /\ Len(parts) \in Nat
        /\ DOMAIN Append(parts, c) = 1 .. Len(parts) + 1
    BY <1>2
  <2> QED
    BY <1>2, <2>1, <2>2
<1>8. \A i \in DOMAIN parts' : i \in DOMAIN sizes /\ parts'[i].pages = sizes[i]
  BY <1>2, <1>3, <1>6, <1>7
<1>9. /\ Len(parts') = 3 => phase' = "live"
      /\ Len(parts') # 3 => phase' = "mapping" /\ Len(parts') < 3
  BY <1>1, <1>2, <1>7
<1>10. Life'
  <2>1. /\ callback' \in BOOLEAN /\ told' \subseteq {"pool", "arena"}
        /\ out' \in 0 .. POOL_BLOCKS /\ late' \in 0 .. out' /\ sizes' \in Seq(Nat \ {0}) /\ Len(sizes') = 3
        /\ DOMAIN arenas' = {} /\ cache' = <<>> /\ out' = 0
    BY <1>1, <1>2 DEF CInv, Life
  <2>2. \A i \in DOMAIN parts' : i \in DOMAIN sizes' /\ parts'[i].pages = sizes'[i]
    BY <1>1, <1>8
  <2> QED
    BY <1>9, <2>1, <2>2 DEF Life, Alive
<1>11. Telling'
  BY <1>9 DEF Telling
<1>12. Program(arenas', held') /\ Counted(arenas', stats') /\ dirty' \subseteq Spaces /\ Wiping'
  BY <1>1 DEF CInv, Wiping, HeldBytes
<1>13. Memory(arenas', cache', mapped', parts', lost')
  BY <1>1, <1>5
<1> QED
  BY <1>10, <1>11, <1>12, <1>13 DEF CInv

\* The kernel refuses, and the parts mapped so far are unmapped.
LEMMA MapPartFailsCInv == ASSUME CInv, MapPartFails PROVE CInv'
<1>1. /\ phase = "mapping" /\ phase' = "none" /\ parts' = <<>>
      /\ mapped' = UnmapAll(mapped, Unwound(parts))
      /\ UNCHANGED <<arenas, cache, stats, dirty, held, sizes, callback, told, out, late, lost, remains>>
  BY DEF MapPartFails
<1>2. DOMAIN arenas = {} /\ cache = <<>> /\ out = 0
  BY <1>1 DEF CInv, Life, Alive
<1>3. Memory(arenas', cache', mapped', parts', lost')
  BY <1>1, <1>2, UnwindMemory DEF CInv
<1>4. DOMAIN parts' = {}
  BY <1>1
<1>5. Life' /\ Telling'
  BY <1>1, <1>2, <1>4 DEF CInv, Life, Alive, Telling
<1>6. Program(arenas', held') /\ Counted(arenas', stats') /\ dirty' \subseteq Spaces /\ Wiping'
  BY <1>1 DEF CInv, Wiping, HeldBytes
<1> QED
  BY <1>3, <1>5, <1>6 DEF CInv

\* The program, or its callback, uses its arenas.
LEMMA UseArenasCInv == ASSUME CInv, UseArenas PROVE CInv'
<1>1. Next /\ Alive /\ UNCHANGED <<phase, parts, sizes, callback, told, out, late, lost>>
  BY DEF UseArenas, Reporting, Alive, own
<1> DEFINE L == BlocksIn(parts) \cup LostIn(lost)
<1>2. Struct(arenas, cache, mapped, L)
  BY DEF CInv, Memory
<1> HIDE DEF L
<1>3. Program(arenas', held') /\ Counted(arenas', stats') /\ dirty' \subseteq Spaces
  BY <1>1, <1>2, NextProgram, SeenProgram, NextCounted, NextDirty DEF CInv
<1>4. Memory(arenas', cache', mapped', parts', lost')
  BY <1>1, UseMemory DEF CInv
<1>5. Life' /\ Telling'
  BY <1>1 DEF CInv, Life, Alive, Telling
<1>6. dirty' \subseteq dirty \cup HeldBytes' /\ dirty \subseteq HeldBytes \cup remains
  BY <1>1, NextDirties DEF CInv, Wiping
<1>7. Wiping'
  <2>1. CASE ~ \E a \in DOMAIN arenas : ResetSecure(a)
    <3>1. remains' = ((remains \cup HeldBytes) \cap dirty') \ HeldBytes'
      BY <2>1 DEF UseArenas, Leave
    <3> QED
      BY <1>6, <3>1 DEF Wiping
  <2>2. ASSUME NEW a \in DOMAIN arenas, ResetSecure(a) PROVE Wiping'
    <3>1. remains' = (remains \cap dirty') \ HeldBytes' /\ dirty' \subseteq dirty
      BY <2>2 DEF UseArenas, Leave, ResetSecure, ResetFrom, Release
    <3>2. \A x \in held \ held' : Span(x.at, x.size) \cap dirty' = {}
      <4>1. \A i \in DOMAIN arenas[a].chunks : arenas[a].chunks[i] \in ChunkType
        BY <1>2, ChunkFacts
      <4> QED
        BY <2>2, <4>1, ResetSecureWipes DEF CInv
    <3>3. HeldBytes \cap dirty' \subseteq HeldBytes'
      BY <3>2 DEF HeldBytes
    <3> QED
      BY <1>6, <3>1, <3>3 DEF Wiping
  <2> QED
    BY <2>1, <2>2
<1> QED
  BY <1>3, <1>4, <1>5, <1>7 DEF CInv

\* The program takes or gives back blocks of the pool.
LEMMA PoolCInv == ASSUME CInv, PoolAllocated \/ PoolFreed PROVE CInv'
<1>1. /\ UNCHANGED <<arenas, cache, mapped, stats, dirty, held>>
      /\ UNCHANGED <<phase, parts, sizes, callback, told, lost, remains>>
  BY DEF PoolAllocated, PoolFreed, vars
<1>2. /\ out \in Nat /\ out \in 0 .. POOL_BLOCKS /\ POOL_BLOCKS \in Nat
      /\ late \in Nat /\ late <= out
  BY ContextAssumption DEF CInv, Life
<1>3. /\ out' \in 0 .. POOL_BLOCKS /\ late' \in 0 .. out' /\ Alive
      /\ phase = "arena_report" => (out' > late' => out > late)
  BY <1>2 DEF PoolAllocated, PoolFreed, Reporting, Alive
<1>4. Life' /\ Telling'
  BY <1>1, <1>3 DEF CInv, Life, Alive, Telling
<1> QED
  BY <1>1, <1>4 DEF CInv, Wiping, HeldBytes

\* The rest of the destruction.
LEMMA TearDownCInv ==
    ASSUME CInv, TearDown, UNCHANGED <<sizes, callback>>,
           told' \subseteq {"pool", "arena"}
    PROVE  CInv'
<1>1. /\ phase' = "none" /\ parts' = <<>> /\ out' = 0 /\ late' = 0 /\ cache' = <<>> /\ held' = {}
      /\ arenas' = <<>> /\ DOMAIN arenas' = {} /\ DOMAIN parts' = {}
      /\ stats' = [live |-> 0, arena |-> 0, total |-> 0, peak |-> 0]
      /\ dirty' \subseteq dirty
      /\ remains' = ((remains \cup HeldBytes) \cap dirty') \ HeldBytes'
  BY DEF TearDown, Leave
<1>2. Memory(arenas', cache', mapped', parts', lost')
  BY TearDownMemory DEF CInv
<1>3. Program(arenas', held')
  BY <1>1, FS_EmptySet DEF Program
<1>4. Counted(arenas', stats')
  <2>1. Total(arenas') = 0 /\ Cardinality(DOMAIN arenas') = 0
    BY <1>1, SumEmpty, FS_EmptySet DEF Total
  <2> QED
    BY <1>1, <2>1 DEF Counted, Accounts
<1>5. Life' /\ Telling'
  <2>1. 0 \in 0 .. POOL_BLOCKS /\ 0 \in 0 .. 0
    BY ContextAssumption
  <2> QED
    BY <1>1, <2>1 DEF CInv, Life, Alive, Telling
<1>6. Wiping'
  BY <1>1 DEF CInv, Wiping
<1> QED
  BY <1>1, <1>2, <1>3, <1>4, <1>5, <1>6 DEF CInv

\* The test for leaked arenas, and the destruction if there are none to report.
LEMMA ReportCInv ==
    ASSUME CInv, Alive, NEW soFar \in SUBSET {"pool", "arena"}, ReportArenas(soFar),
           TRACKING /\ callback /\ out > late => "pool" \in soFar,
           UNCHANGED <<sizes, callback>>
    PROVE  CInv'
<1>1. CASE ArenaLeaks(soFar)
  <2>1. /\ phase' = "arena_report" /\ told' = soFar \cup {"arena"}
        /\ UNCHANGED <<arenas, cache, mapped, stats, dirty, held, parts, out, late, lost, remains>>
    BY <1>1 DEF ReportArenas, vars
  <2>2. Life' /\ Telling'
    BY <2>1 DEF CInv, Life, Alive, Telling
  <2> QED
    BY <2>1, <2>2 DEF CInv, Wiping, HeldBytes
<1>2. CASE ~ ArenaLeaks(soFar)
  <2>1. TearDown /\ told' = soFar
    BY <1>2 DEF ReportArenas
  <2> QED
    BY <2>1, TearDownCInv
<1> QED
  BY <1>1, <1>2

\* bc_allocators_context_destroy, up to the first report.
LEMMA DestroyContextCInv == ASSUME CInv, DestroyContext PROVE CInv'
<1>1. phase = "live" /\ Alive /\ UNCHANGED <<sizes, callback>>
  BY DEF DestroyContext, Alive
<1>2. CASE Reports(out # 0)
  <2>1. /\ phase' = "pool_report" /\ told' = {"pool"}
        /\ UNCHANGED <<arenas, cache, mapped, stats, dirty, held, parts, out, late, lost, remains>>
    BY <1>2 DEF DestroyContext, vars
  <2>2. Life' /\ Telling'
    BY <1>1, <2>1 DEF CInv, Life, Alive, Telling
  <2> QED
    BY <1>1, <2>1, <2>2 DEF CInv, Wiping, HeldBytes
<1>3. CASE ~ Reports(out # 0)
  <2>1. ReportArenas({})
    BY <1>3 DEF DestroyContext
  <2>2. TRACKING /\ callback => ~ (out > late)
    <3>1. out \in Nat /\ late \in Nat
      BY DEF CInv, Life
    <3> QED
      BY <1>3, <3>1 DEF Reports
  <2>3. {} \in SUBSET {"pool", "arena"}
    OBVIOUS
  <2> QED
    BY <1>1, <2>1, <2>2, <2>3, ReportCInv
<1> QED
  BY <1>2, <1>3

\* The callback has returned from the report of the pool, or from that of the arenas.
LEMMA ReportedCInv == ASSUME CInv, PoolReported \/ ArenaReported PROVE CInv'
<1>1. told \in SUBSET {"pool", "arena"}
  BY DEF CInv, Life
<1>2. CASE PoolReported
  <2>1. /\ phase = "pool_report" /\ Alive /\ ReportArenas(told)
        /\ UNCHANGED <<sizes, callback>>
    BY <1>2 DEF PoolReported, Alive
  <2>2. "pool" \in told
    BY <2>1 DEF CInv, Telling
  <2> QED
    BY <1>1, <2>1, <2>2, ReportCInv
<1>3. CASE ArenaReported
  <2>1. TearDown /\ UNCHANGED <<sizes, callback>> /\ told' \subseteq {"pool", "arena"}
    BY <1>1, <1>3 DEF ArenaReported
  <2> QED
    BY <2>1, TearDownCInv
<1> QED
  BY <1>2, <1>3

\* Every step keeps the invariant.
LEMMA NextCInv == CInv /\ [ContextNext]_allVars => CInv'
<1> SUFFICES ASSUME CInv, [ContextNext]_allVars PROVE CInv'
  OBVIOUS
<1>1. CASE \E max \in MaxMemory, reports \in BOOLEAN : CreateContext(max, reports)
  BY <1>1, CreateCInv
<1>2. CASE MapPart
  BY <1>2, MapPartCInv
<1>3. CASE MapPartFails
  BY <1>3, MapPartFailsCInv
<1>4. CASE UseArenas
  BY <1>4, UseArenasCInv
<1>5. CASE PoolAllocated \/ PoolFreed
  BY <1>5, PoolCInv
<1>6. CASE DestroyContext
  BY <1>6, DestroyContextCInv
<1>7. CASE PoolReported \/ ArenaReported
  BY <1>7, ReportedCInv
<1>8. CASE UNCHANGED allVars
  BY <1>8 DEF allVars, vars, own, CInv, Life, Alive, Telling, Wiping, HeldBytes
<1> QED
  BY <1>1, <1>2, <1>3, <1>4, <1>5, <1>6, <1>7, <1>8 DEF ContextNext

\* The invariant holds in every reachable state.
LEMMA ContextInvariance == ContextSpec => []CInv
  BY InitCInv, NextCInv, PTL DEF ContextSpec

\* Type correctness of a context, its arenas and the mappings of the process:
\* whatever was refused, the parts that are mapped have the sizes computed for
\* them, and there are none or all of them outside a creation.
THEOREM ContextTypeCorrect == ContextSpec => []ContextTypeOK
<1>1. ASSUME CInv PROVE ContextTypeOK
  <2>1. TypeOK
    BY <1>1, ArenaTypes DEF CInv, Memory
  <2>2. phase # "mapping" => Len(parts) \in {0, 3}
    <3>1. phase = "none" => Len(parts) = 0
      <4>1. Len(<<>>) = 0
        OBVIOUS
      <4> QED
        BY <1>1, <4>1 DEF CInv, Life
    <3> QED
      BY <1>1, <3>1 DEF CInv, Life, Alive
  <2>3. sizes \in Seq(Nat)
    <3>1. sizes \in Seq(Nat \ {0})
      BY <1>1 DEF CInv, Life
    <3> QED
      BY <3>1
  <2> QED
    BY <1>1, <2>1, <2>2, <2>3 DEF ContextTypeOK, CInv, Memory, Life, Wiping
<1> QED
  BY <1>1, ContextInvariance, PTL

\* When a context with a callback is gone, the program was told of every kind
\* of thing it leaked: the count of live arenas that the destruction tests is
\* that of the arenas that are there, after the callback released some, too.
THEOREM LeaksAreTold == ContextSpec => LeaksTold
<1> DEFINE Tell == (Reporting \/ phase = "live") /\ phase' = "none" /\ TRACKING /\ callback
                   => /\ out > late => "pool" \in told'
                      /\ DOMAIN arenas # {} => "arena" \in told'
<1>1. ASSUME CInv, ArenaLeaks({}) = FALSE, TRACKING, callback PROVE DOMAIN arenas = {}
  <2>1. stats.live = 0
    BY <1>1 DEF ArenaLeaks, Reports
  <2>2. Cardinality(DOMAIN arenas) = 0 /\ IsFiniteSet(DOMAIN arenas)
    BY <1>1, <2>1, TotalType DEF CInv, Memory, Counted, Accounts
  <2> QED
    BY <2>2, FS_EmptySet
<1>2. ASSUME CInv, NEW soFar, ReportArenas(soFar), phase' = "none", TRACKING, callback
      PROVE  told' = soFar /\ DOMAIN arenas = {}
  <2>1. ~ ArenaLeaks(soFar)
    BY <1>2 DEF ReportArenas
  <2>2. ArenaLeaks({}) = FALSE
    BY <2>1 DEF ArenaLeaks, Reports
  <2> QED
    BY <1>1, <1>2, <2>1, <2>2 DEF ReportArenas
<1>3. ASSUME CInv, [ContextNext]_allVars, Reporting \/ phase = "live", phase' = "none",
             TRACKING, callback
      PROVE  /\ out > late => "pool" \in told'
             /\ DOMAIN arenas # {} => "arena" \in told'
  <2>1. out \in Nat /\ late \in Nat
    BY <1>3 DEF CInv, Life
  <2>2. CASE DestroyContext
    <3>1. ~ Reports(out # 0) /\ ReportArenas({})
      BY <1>3, <2>2 DEF DestroyContext
    <3> QED
      BY <1>2, <1>3, <2>1, <3>1 DEF Reports
  <2>3. CASE PoolReported
    BY <1>2, <1>3, <2>3 DEF PoolReported, CInv, Telling
  <2>4. CASE ArenaReported
    BY <1>3, <2>4 DEF ArenaReported, CInv, Telling
  <2>5. CASE ~ (DestroyContext \/ PoolReported \/ ArenaReported)
    <3>1. phase' = phase \/ phase = "none" \/ phase = "mapping"
      BY <1>3, <2>5 DEF ContextNext, CreateContext, MapPart, MapPartFails, UseArenas,
                        PoolAllocated, PoolFreed, allVars, own
    <3> QED
      BY <1>3, <3>1 DEF Reporting
  <2> QED
    BY <2>2, <2>3, <2>4, <2>5
<1>4. CInv /\ [ContextNext]_allVars => [Tell]_allVars
  BY <1>3
<1>5. []CInv /\ [][ContextNext]_allVars => [][Tell]_allVars
  BY <1>4, PTL
<1> QED
  BY <1>5, ContextInvariance, PTL DEF ContextSpec, LeaksTold

\* What holds what the program wrote is in use, or was left by an allocation that no
\* secure reset ended.
THEOREM NothingOutlastsSecureReset == ContextSpec => []SecureResetsWipe
  BY ContextInvariance, PTL DEF CInv, Wiping, SecureResetsWipe

-------------------------------------------------------------------------------
(***************************************************************************)
(* The mappings of the process, and how many they are.                     *)
(***************************************************************************)

\* A sequence of distinct blocks has as many of them as it is long.
LEMMA TidyCount ==
    ASSUME NEW T, NEW s \in Seq(T), NEW mp, Tidy(s, mp)
    PROVE  IsFiniteSet(BlocksIn(s)) /\ Cardinality(BlocksIn(s)) = Len(s)
<1> DEFINE n == Len(s)
           S == 1 .. n
           f == [i \in S |-> s[i].block]
<1>1. n \in Nat /\ DOMAIN s = S
  OBVIOUS
<1>2. IsFiniteSet(S) /\ Cardinality(S) = n
  BY <1>1, FS_Interval
<1>3. f \in Bijection(S, BlocksIn(s))
  BY <1>1 DEF Bijection, Injection, Surjection, IsInjective, Tidy, BlocksIn
<1> HIDE DEF f, S, n
<1> QED
  BY <1>2, <1>3, FS_Bijection DEF ExistsBijection, n

\* Lost blocks are distinct: a block has one size.
LEMMA LostCount ==
    ASSUME NEW ls, ls \subseteq Block, NEW mp, AllMapped(ls, mp), IsFiniteSet(LostIn(ls))
    PROVE  IsFiniteSet(ls) /\ Cardinality(LostIn(ls)) = Cardinality(ls)
<1> DEFINE D == LostIn(ls)
           f == [b \in D |-> [block |-> b, pages |-> mp[b]]]
<1>1. \A c \in ls : c = [block |-> c.block, pages |-> mp[c.block]] /\ c.block \in D
  BY DEF Block, AllMapped, LostIn
<1>2. \A b \in D : \E c \in ls : c.block = b
  BY DEF LostIn
<1> HIDE DEF D
<1>3. \A b \in D : f[b] \in ls /\ f[b].block = b
  <2> SUFFICES ASSUME NEW b \in D PROVE f[b] \in ls /\ f[b].block = b
    OBVIOUS
  <2>1. PICK c \in ls : c.block = b
    BY <1>2
  <2>2. c = [block |-> b, pages |-> mp[b]]
    BY <1>1, <2>1
  <2>3. f[b] = c
    BY <2>2
  <2> HIDE DEF f
  <2> QED
    BY <2>1, <2>3
<1>4. \A c \in ls : c.block \in D /\ f[c.block] = c
  BY <1>1
<1>5. f \in [D -> ls]
  BY <1>3
<1> HIDE DEF f
<1>6. f \in Injection(D, ls)
  BY <1>3, <1>5 DEF Injection, IsInjective
<1>7. f \in Surjection(D, ls)
  BY <1>4, <1>5 DEF Surjection
<1>8. ExistsBijection(D, ls)
  BY <1>6, <1>7 DEF ExistsBijection, Bijection
<1>9. IsFiniteSet(D)
  BY DEF D
<1>10. IsFiniteSet(ls) /\ Cardinality(ls) = Cardinality(D)
  BY <1>8, <1>9, FS_Bijection
<1> QED
  BY <1>10 DEF D

\* The chunks of all arenas.
Chain(ar) == Sum([a \in DOMAIN ar |-> Len(ar[a].chunks)], DOMAIN ar)

\* Arenas have as many blocks as chunks.
LEMMA ChainCount ==
    ASSUME NEW ar, NEW ca, NEW mp, NEW L, Struct(ar, ca, mp, L)
    PROVE  LET A == UNION {BlocksIn(ar[a].chunks) : a \in DOMAIN ar} IN
           IsFiniteSet(A) /\ Cardinality(A) = Chain(ar)
<1> DEFINE S == DOMAIN ar
           w == [a \in S |-> Len(ar[a].chunks)]
           B == [a \in S |-> BlocksIn(ar[a].chunks)]
<1>1. IsFiniteSet(S)
  BY TotalType
<1>2. \A a \in S : /\ w[a] \in Int /\ IsFiniteSet(B[a]) /\ Cardinality(B[a]) = w[a]
  <2> SUFFICES ASSUME NEW a \in S
               PROVE  /\ w[a] \in Int /\ IsFiniteSet(B[a]) /\ Cardinality(B[a]) = w[a]
    OBVIOUS
  <2>1. ar[a].chunks \in Seq(ChunkType) /\ Tidy(ar[a].chunks, mp)
    BY ArenaFacts
  <2>2. IsFiniteSet(B[a]) /\ Cardinality(B[a]) = Len(ar[a].chunks)
    BY <2>1, TidyCount
  <2> QED
    BY <2>1, <2>2
<1>3. \A a, b \in S : a # b => B[a] \cap B[b] = {}
  BY DEF Struct, Ledger
<1>4. UNION {B[a] : a \in S} = UNION {BlocksIn(ar[a].chunks) : a \in S}
  OBVIOUS
<1> HIDE DEF B, w, S
<1>5. /\ IsFiniteSet(UNION {B[a] : a \in S})
      /\ Cardinality(UNION {B[a] : a \in S}) = Sum(w, S)
  BY <1>1, <1>2, <1>3, UnionCount
<1> QED
  BY <1>4, <1>5 DEF Chain, w, S

\* The fold of the specification is the number of chunks.
LEMMA ChainIs ==
    ASSUME IsFiniteSet(DOMAIN arenas)
    PROVE  FoldSet(LAMBDA a, n : Len(arenas[a].chunks) + n, 0, DOMAIN arenas)
             = Chain(arenas)
<1> DEFINE S == DOMAIN arenas
           w == [a \in S |-> Len(arenas[a].chunks)]
           P(g) == g = [s \in SUBSET S |->
                          IF s = {} THEN 0
                          ELSE Len(arenas[CHOOSE x \in s : TRUE].chunks)
                                 + g[s \ {CHOOSE x \in s : TRUE}]]
<1>1. FoldSet(LAMBDA a, n : Len(arenas[a].chunks) + n, 0, DOMAIN arenas)
        = (CHOOSE g : P(g))[S]
  BY DEF FoldSet, MapThenFoldSet
<1>2. PICK h : IsSum(h, w, S)
  BY SumExists
<1>3. ASSUME NEW g PROVE IsSum(g, w, S) <=> P(g)
  <2>1. \A s \in SUBSET S : s # {} => w[Pick(s)] = Len(arenas[Pick(s)].chunks)
    BY PickIn
  <2> HIDE DEF w
  <2>2. [s \in SUBSET S |-> IF s = {} THEN 0 ELSE w[Pick(s)] + g[s \ {Pick(s)}]]
          = [s \in SUBSET S |-> IF s = {} THEN 0
                                ELSE Len(arenas[Pick(s)].chunks) + g[s \ {Pick(s)}]]
    BY <2>1
  <2>3. P(g) <=> g = [s \in SUBSET S |-> IF s = {} THEN 0
                                ELSE Len(arenas[Pick(s)].chunks) + g[s \ {Pick(s)}]]
    BY DEF Pick
  <2> QED
    BY <2>2, <2>3 DEF IsSum
<1> HIDE DEF P, w
<1>4. P(CHOOSE g : P(g))
  BY <1>2, <1>3
<1>5. IsSum(CHOOSE g : P(g), w, S)
  BY <1>3, <1>4
<1>6. IsSum(CHOOSE g : IsSum(g, w, S), w, S)
  BY <1>2
<1>7. (CHOOSE g : P(g))[S] = (CHOOSE g : IsSum(g, w, S))[S]
  BY <1>5, <1>6, SumUnique
<1> QED
  BY <1>1, <1>7 DEF Chain, Sum, w

\* The blocks that somebody owns are mapped at their size, and no others are.
LEMMA BlocksMapped ==
    ASSUME Memory(arenas, cache, mapped, parts, lost)
    PROVE  AllMapped(Blocks, mapped) /\ DOMAIN mapped = LostIn(Blocks)
<1> DEFINE A == UNION {BlocksIn(arenas[a].chunks) : a \in DOMAIN arenas}
<1>1. /\ DOMAIN mapped = A \cup (BlocksIn(cache) \cup (BlocksIn(parts) \cup LostIn(lost)))
      /\ Tidy(cache, mapped) /\ Tidy(parts, mapped) /\ AllMapped(lost, mapped)
  BY DEF Memory, Struct, Ledger
<1>2. LostIn(Leaked) = A /\ AllMapped(Leaked, mapped)
  BY LeakedFacts DEF Memory
<1> HIDE DEF A
<1>3. ASSUME NEW s, Tidy(s, mapped)
      PROVE  AllMapped(ToSet(s), mapped) /\ LostIn(ToSet(s)) = BlocksIn(s)
  BY <1>3 DEF Tidy, AllMapped, ToSet, LostIn, BlocksIn
<1>4. AllMapped(Blocks, mapped)
  BY <1>1, <1>2, <1>3 DEF AllMapped, Blocks
<1>5. LostIn(Blocks) = LostIn(ToSet(parts)) \cup LostIn(ToSet(cache))
                         \cup LostIn(Leaked) \cup LostIn(lost)
  BY DEF LostIn, Blocks
<1>6. LostIn(ToSet(parts)) = BlocksIn(parts) /\ LostIn(ToSet(cache)) = BlocksIn(cache)
  BY <1>1, <1>3
<1> QED
  BY <1>1, <1>2, <1>4, <1>5, <1>6

\* And there are as many of them as the owners count.
LEMMA BlocksCount ==
    ASSUME Memory(arenas, cache, mapped, parts, lost)
    PROVE  Cardinality(DOMAIN mapped)
             = Len(parts) + Len(cache) + Cardinality(lost)
                 + FoldSet(LAMBDA a, n : Len(arenas[a].chunks) + n, 0, DOMAIN arenas)
<1> DEFINE A == UNION {BlocksIn(arenas[a].chunks) : a \in DOMAIN arenas}
           C == BlocksIn(cache)
           B == BlocksIn(parts)
           D == LostIn(lost)
<1>1. /\ DOMAIN mapped = A \cup (C \cup (B \cup D)) /\ B \cap D = {}
      /\ Tidy(cache, mapped) /\ cache \in Seq(Block) /\ Tidy(parts, mapped)
      /\ parts \in Seq(Block) /\ lost \subseteq Block /\ AllMapped(lost, mapped)
      /\ DOMAIN mapped \subseteq Page
  BY DEF Memory, Struct, Ledger, Kernel
<1>2. A \cap (C \cup (B \cup D)) = {} /\ C \cap (B \cup D) = {}
  <2>1. \A a \in DOMAIN arenas : BlocksIn(arenas[a].chunks) \cap (C \cup (B \cup D)) = {}
    BY DEF Memory, Struct, Ledger
  <2>2. C \cap (B \cup D) = {}
    BY DEF Memory, Struct, Ledger
  <2> HIDE DEF B, C, D
  <2> QED
    BY <2>1, <2>2
<1>3. IsFiniteSet(D)
  <2>1. IsFiniteSet(Page)
    BY Inputs, FS_Interval DEF Page
  <2> HIDE DEF A, B, C, D
  <2> QED
    BY <1>1, <2>1, FS_Subset
<1>4. Cardinality(D) = Cardinality(lost)
  BY <1>1, <1>3, LostCount
<1>5. /\ IsFiniteSet(B) /\ Cardinality(B) = Len(parts)
      /\ IsFiniteSet(C) /\ Cardinality(C) = Len(cache)
  BY <1>1, TidyCount
<1>6. IsFiniteSet(A) /\ Cardinality(A) = Chain(arenas)
  BY ChainCount DEF Memory
<1>7. FoldSet(LAMBDA a, n : Len(arenas[a].chunks) + n, 0, DOMAIN arenas) = Chain(arenas)
  BY TotalType, ChainIs DEF Memory
<1> HIDE DEF A, B, C, D
<1>8. ASSUME NEW X, NEW Y, IsFiniteSet(X), IsFiniteSet(Y), X \cap Y = {}
      PROVE  /\ IsFiniteSet(X \cup Y)
             /\ Cardinality(X \cup Y) = Cardinality(X) + Cardinality(Y)
             /\ Cardinality(X) \in Nat /\ Cardinality(Y) \in Nat
  <2>1. Cardinality(X \cap Y) = 0 /\ Cardinality(X) \in Nat /\ Cardinality(Y) \in Nat
    BY <1>8, FS_EmptySet, FS_CardinalityType
  <2>2. /\ IsFiniteSet(X \cup Y)
        /\ Cardinality(X \cup Y)
             = Cardinality(X) + Cardinality(Y) - Cardinality(X \cap Y)
    BY <1>8, FS_Union
  <2> QED
    BY <2>1, <2>2
<1>9. IsFiniteSet(B \cup D) /\ Cardinality(B \cup D) = Cardinality(B) + Cardinality(D)
  BY <1>1, <1>3, <1>5, <1>8
<1>10. /\ IsFiniteSet(C \cup (B \cup D))
       /\ Cardinality(C \cup (B \cup D)) = Cardinality(C) + Cardinality(B \cup D)
  BY <1>2, <1>5, <1>8, <1>9
<1>11. Cardinality(A \cup (C \cup (B \cup D)))
         = Cardinality(A) + Cardinality(C \cup (B \cup D))
  BY <1>2, <1>6, <1>8, <1>10
<1>12. /\ Cardinality(A) \in Nat /\ Cardinality(B) \in Nat /\ Cardinality(C) \in Nat
       /\ Cardinality(D) \in Nat
  BY <1>3, <1>5, <1>6, FS_CardinalityType
<1>13. Cardinality(DOMAIN mapped)
         = Cardinality(B) + Cardinality(C) + Cardinality(D) + Cardinality(A)
  BY <1>1, <1>9, <1>10, <1>11, <1>12
<1> QED
  BY <1>4, <1>5, <1>6, <1>7, <1>13

\* The mappings of the process are those of the parts of the context, of its
\* arenas and cache, and of arenas leaked before, each at its full size, in every
\* state: also when a creation failed half-way and behind every destruction.
THEOREM MappingsAreOwned == ContextSpec => []OnlyOwnedMapped
<1>1. ASSUME CInv PROVE OnlyOwnedMapped
  <2>1. /\ AllMapped(Blocks, mapped) /\ DOMAIN mapped = LostIn(Blocks)
        /\ IsFunction(mapped)
    BY <1>1, BlocksMapped DEF CInv, Memory
  <2>2. \A b \in LostIn(Blocks) : (CHOOSE c \in Blocks : c.block = b).pages = mapped[b]
    <3> SUFFICES ASSUME NEW b \in LostIn(Blocks)
                 PROVE  (CHOOSE c \in Blocks : c.block = b).pages = mapped[b]
      OBVIOUS
    <3> DEFINE d == CHOOSE c \in Blocks : c.block = b
    <3>1. d \in Blocks /\ d.block = b
      BY DEF LostIn
    <3> HIDE DEF d
    <3>2. d.pages = mapped[b]
      BY <2>1, <3>1 DEF AllMapped
    <3> QED
      BY <3>2 DEF d
  <2>3. mapped = [b \in LostIn(Blocks) |-> (CHOOSE c \in Blocks : c.block = b).pages]
    <3> DEFINE v(b) == (CHOOSE c \in Blocks : c.block = b).pages
    <3>1. \A b \in LostIn(Blocks) : v(b) = mapped[b]
      BY <2>2
    <3> HIDE DEF v
    <3>2. mapped = [b \in LostIn(Blocks) |-> v(b)]
      BY <2>1, <3>1 DEF IsFunction
    <3> QED
      BY <3>2 DEF v
  <2>4. Cardinality(DOMAIN mapped)
          = Len(parts) + Len(cache) + Cardinality(lost)
              + FoldSet(LAMBDA a, n : Len(arenas[a].chunks) + n, 0, DOMAIN arenas)
    BY <1>1, BlocksCount DEF CInv
  <2> QED
    BY <2>3, <2>4 DEF OnlyOwnedMapped, LostIn
<1> QED
  BY <1>1, ContextInvariance, PTL
===============================================================================
