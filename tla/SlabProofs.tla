------------------------------ MODULE SlabProofs -------------------------------
(***************************************************************************)
(* Proofs about the slabs, for every number and size of blocks, every set  *)
(* of object sizes and counts, and every way the pool may refuse.  The     *)
(* lemmas on the free list of a slab are those of the pool's lists, behind *)
(* a magazine of size zero.                                                *)
(***************************************************************************)
EXTENDS Slab, SumTheorems, SequenceTheorems

T == INSTANCE FreeListTheorems WITH MAG_SIZE <- 0

-------------------------------------------------------------------------------
(* The free list. *)

\* The two instances of FreeList are the same.
LEMMA SameList ==
    ASSUME NEW B, NEW l, NEW w, NEW c, NEW b
    PROVE  /\ L!List(B) = T!List(B)
           /\ L!FreeOf(l, c) = T!FreeOf(l, c)
           /\ L!IsList(l, w, c) <=> T!IsList(l, w, c)
           /\ L!Push(l, b) = T!Push(l, b)
           /\ L!PushMem(l, w, b) = T!PushMem(l, w, b)
           /\ L!PushChain(l, c, b) = T!PushChain(l, c, b)
           /\ L!Top(l) = T!Top(l)
           /\ L!Popped(l, w) = T!Popped(l, w)
           /\ L!PoppedChain(l, c) = T!PoppedChain(l, c)
           /\ L!EmptyList = T!EmptyList
<1>1. /\ L!ToSet(c) = T!ToSet(c) /\ L!ToSet(l.mag) = T!ToSet(l.mag)
      /\ L!Last(c) = T!Last(c) /\ L!Last(l.mag) = T!Last(l.mag)
      /\ L!Front(c) = T!Front(c) /\ L!Front(l.mag) = T!Front(l.mag)
      /\ L!Injective(c) <=> T!Injective(c)
      /\ L!Injective(l.mag) <=> T!Injective(l.mag)
      /\ L!HasRoom(l) <=> T!HasRoom(l)
      /\ \A x : L!Link(x) = T!Link(x) /\ L!Target(x) = T!Target(x)
  BY DEF L!ToSet, T!ToSet, L!Last, T!Last, L!Front, T!Front, L!Injective, T!Injective,
         L!HasRoom, T!HasRoom, L!Link, T!Link, L!Target, T!Target
<1>2. L!List(B) = T!List(B) /\ L!EmptyList = T!EmptyList
  BY DEF L!List, T!List, L!EmptyList, T!EmptyList
<1>3. L!FreeOf(l, c) = T!FreeOf(l, c) /\ (L!IsList(l, w, c) <=> T!IsList(l, w, c))
  BY <1>1 DEF L!FreeOf, T!FreeOf, L!IsList, T!IsList
<1>4. /\ L!Push(l, b) = T!Push(l, b)
      /\ L!PushMem(l, w, b) = T!PushMem(l, w, b)
      /\ L!PushChain(l, c, b) = T!PushChain(l, c, b)
  BY <1>1, Zenon DEF L!Push, T!Push, L!PushMem, T!PushMem, L!PushChain, T!PushChain
<1>5. /\ L!Top(l) = T!Top(l)
      /\ L!Popped(l, w) = T!Popped(l, w)
      /\ L!PoppedChain(l, c) = T!PoppedChain(l, c)
  BY <1>1, Zenon DEF L!Top, T!Top, L!Popped, T!Popped, L!PoppedChain, T!PoppedChain
<1> QED
  BY <1>2, <1>3, <1>4, <1>5

\* The list l of addresses in memory m, with the free objects of c.
Chained(l, c, m) == /\ l \in L!List(Address) /\ c \in Seq(Address)
                    /\ DOMAIN m = Address /\ L!IsList(l, m, c)

\* Behind an empty magazine there is only the chain.
LEMMA ChainedFacts ==
    ASSUME NEW l, NEW c, NEW m, Chained(l, c, m)
    PROVE  /\ l.mag = <<>> /\ L!FreeOf(l, c) = ToSet(c)
           /\ l.head = IF c = <<>> THEN NULL ELSE Last(c)
           /\ L!Top(l) = l.head /\ l.head \in Address \cup {NULL}
           /\ l.head = NULL <=> c = <<>>
           /\ ToSet(c) \subseteq Address /\ Len(c) \in Nat
           /\ c = <<>> => l = L!EmptyList
           /\ \A i \in DOMAIN c :
                  m[c[i]] = L!Link(IF i = 1 THEN NULL ELSE c[i-1])
<1>1. /\ l.mag \in Seq(Address) /\ l.head \in Address \cup {NULL}
      /\ l = [mag |-> l.mag, head |-> l.head]
      /\ c \in Seq(Address) /\ Len(l.mag) <= 0
      /\ l.head = IF c = <<>> THEN NULL ELSE L!Last(c)
      /\ \A i \in DOMAIN c :
                  m[c[i]] = L!Link(IF i = 1 THEN NULL ELSE c[i-1])
  BY DEF Chained, L!List, L!IsList
<1>2. l.mag = <<>>
  BY <1>1
<1>3. L!FreeOf(l, c) = ToSet(c)
  <2>1. L!ToSet(l.mag) = {} /\ L!ToSet(c) = ToSet(c)
    BY <1>2 DEF L!ToSet, ToSet
  <2> QED
    BY <2>1 DEF L!FreeOf
<1>4. L!Last(c) = Last(c)
  BY DEF L!Last, Last
<1>5. L!Top(l) = l.head
  BY <1>2 DEF L!Top
<1>6. ToSet(c) \subseteq Address /\ Len(c) \in Nat
  BY <1>1 DEF ToSet
<1>7. l.head = NULL <=> c = <<>>
  <2>1. ASSUME c # <<>> PROVE Last(c) \in Address
    BY <1>1, <2>1 DEF Last
  <2> QED
    BY <1>1, <1>4, <2>1, NullAssumption
<1>8. c = <<>> => l = L!EmptyList
  BY <1>1, <1>2 DEF L!EmptyList
<1> QED
  BY <1>1, <1>2, <1>3, <1>4, <1>5, <1>6, <1>7, <1>8

\* An object comes back: its word is the only one written.
LEMMA PushChained ==
    ASSUME NEW l, NEW c, NEW m, Chained(l, c, m), NEW b \in Address, b \notin ToSet(c)
    PROVE  LET c2 == L!PushChain(l, c, b)
               m2 == L!PushMem(l, m, b)
           IN  /\ Chained(L!Push(l, b), c2, m2)
               /\ m2[b] = L!Link(l.head)
               /\ \A a \in Address : a # b => m2[a] = m[a]
               /\ ToSet(c2) = ToSet(c) \cup {b} /\ Len(c2) = Len(c) + 1
<1> DEFINE c2 == L!PushChain(l, c, b)
           m2 == L!PushMem(l, m, b)
           l2 == L!Push(l, b)
<1>1. /\ l \in T!List(Address) /\ c \in Seq(Address) /\ DOMAIN m = Address
      /\ T!IsList(l, m, c) /\ b \notin T!FreeOf(l, c) /\ NULL \notin Address
  <2>1. /\ l \in L!List(Address) /\ c \in Seq(Address) /\ DOMAIN m = Address
        /\ L!IsList(l, m, c) /\ b \notin L!FreeOf(l, c)
    BY ChainedFacts DEF Chained
  <2> QED
    BY <2>1, SameList, NullAssumption
<1>2. /\ T!Push(l, b) \in T!List(Address)
      /\ T!PushChain(l, c, b) \in Seq(Address)
      /\ T!IsList(T!Push(l, b), T!PushMem(l, m, b), T!PushChain(l, c, b))
      /\ DOMAIN T!PushMem(l, m, b) = Address
  BY <1>1, T!PushIsList
<1>3. l2 = T!Push(l, b) /\ c2 = T!PushChain(l, c, b) /\ m2 = T!PushMem(l, m, b)
  BY SameList
<1>4. ~ L!HasRoom(l)
  BY ChainedFacts DEF L!HasRoom
<1>5. c2 = Append(c, b) /\ m2 = [m EXCEPT ![b] = L!Link(l.head)]
  BY <1>4 DEF L!PushChain, L!PushMem
<1> HIDE DEF l2, m2
<1>6. m2[b] = L!Link(l.head) /\ \A a \in Address : a # b => m2[a] = m[a]
  BY <1>1, <1>5
<1>7. ToSet(c2) = ToSet(c) \cup {b} /\ Len(c2) = Len(c) + 1
  <2>1. /\ T!ToSet(Append(c, b)) = T!ToSet(c) \cup {b}
    BY <1>1, T!AppendSet
  <2>2. T!ToSet(c) = ToSet(c) /\ T!ToSet(c2) = ToSet(c2)
    BY DEF T!ToSet, ToSet
  <2> QED
    BY <1>1, <1>5, <2>1, <2>2
<1> HIDE DEF c2
<1>8. Chained(l2, c2, m2)
  <2>1. l2 \in L!List(Address) /\ L!IsList(l2, m2, c2)
    BY <1>2, <1>3, SameList
  <2> QED
    BY <1>2, <1>3, <2>1 DEF Chained
<1> QED
  BY <1>7, <1>8, <1>6 DEF l2, m2, c2

\* An object leaves: nothing is written.
LEMMA PopChained ==
    ASSUME NEW l, NEW c, NEW m, Chained(l, c, m), c # <<>>
    PROVE  LET c2 == L!PoppedChain(l, c) IN
           /\ Chained(L!Popped(l, m), c2, m)
           /\ L!Top(l) \in ToSet(c)
           /\ ToSet(c2) = ToSet(c) \ {L!Top(l)} /\ Len(c2) = Len(c) - 1
<1> DEFINE c2 == L!PoppedChain(l, c)
           l2 == L!Popped(l, m)
           b  == L!Top(l)
<1>1. /\ l \in T!List(Address) /\ c \in Seq(Address) /\ DOMAIN m = Address
      /\ T!IsList(l, m, c) /\ NULL \notin Address
  <2>1. /\ l \in L!List(Address) /\ c \in Seq(Address) /\ DOMAIN m = Address
        /\ L!IsList(l, m, c)
    BY DEF Chained
  <2> QED
    BY <2>1, SameList, NullAssumption
<1>2. /\ T!Popped(l, m) \in T!List(Address)
      /\ T!PoppedChain(l, c) \in Seq(Address)
      /\ T!IsList(T!Popped(l, m), m, T!PoppedChain(l, c))
      /\ T!Top(l) # NULL => T!Top(l) \in T!FreeOf(l, c)
      /\ T!FreeOf(T!Popped(l, m), T!PoppedChain(l, c)) = T!FreeOf(l, c) \ {T!Top(l)}
  BY <1>1, T!PopIsList
<1>3. l2 = T!Popped(l, m) /\ c2 = T!PoppedChain(l, c) /\ b = T!Top(l)
  BY SameList
<1> HIDE DEF l2
<1>4. l.mag = <<>> /\ L!FreeOf(l, c) = ToSet(c) /\ b # NULL
  BY ChainedFacts
<1>5. c2 = Front(c)
  BY <1>4 DEF L!PoppedChain, L!Front, Front
<1>6. Len(c2) = Len(c) - 1
  <2>1. Len(T!Front(c)) = Len(c) - 1
    BY <1>1, T!FrontSet
  <2> QED
    BY <1>5, <2>1 DEF Front, T!Front
<1> HIDE DEF c2, b
<1>7. Chained(l2, c2, m)
  <2>1. l2 \in L!List(Address) /\ L!IsList(l2, m, c2)
    BY <1>2, <1>3, SameList
  <2> QED
    BY <1>1, <1>2, <1>3, <2>1 DEF Chained
<1>8. L!FreeOf(l2, c2) = ToSet(c2)
  BY <1>7, ChainedFacts
<1>9. L!FreeOf(l2, c2) = T!FreeOf(l2, c2) /\ L!FreeOf(l, c) = T!FreeOf(l, c)
  BY SameList
<1>10. b \in ToSet(c) /\ ToSet(c2) = ToSet(c) \ {b}
  BY <1>2, <1>3, <1>4, <1>8, <1>9
<1> QED
  BY <1>6, <1>7, <1>10 DEF l2, c2, b

\* A write elsewhere leaves the list as it is.
LEMMA ChainedFrame ==
    ASSUME NEW l, NEW c, NEW m, Chained(l, c, m), NEW m2, DOMAIN m2 = Address,
           \A a \in ToSet(c) : m2[a] = m[a]
    PROVE  Chained(l, c, m2)
<1>1. T!IsList(l, m, c) /\ \A a \in T!ToSet(c) : m2[a] = m[a]
  BY SameList DEF Chained, T!ToSet, ToSet
<1>2. T!IsList(l, m2, c)
  BY <1>1, T!ListFrame
<1> QED
  BY <1>2, SameList DEF Chained

-------------------------------------------------------------------------------
(* A page. *)

\* The memory of the slabs.
IsMem(m) == m \in [Address -> Word]

\* The objects of one page, and those of all the pages of trail.
ObjectsAt(o, n) == {o} \X (0 .. n-1)
PageBlocks(trail) == {trail[i][1] : i \in DOMAIN trail}
ObjectBlocks(trail) == {trail[i][2] : i \in DOMAIN trail}
ObjectsIn(trail, n) == ObjectBlocks(trail) \X (0 .. n-1)

\* The objects of a page are distinct addresses.
LEMMA ObjectsFacts ==
    ASSUME NEW o \in Block, NEW n \in 1 .. SLOTS
    PROVE  LET bs == Objects(o, n) IN
           /\ bs \in Seq(Address) /\ Len(bs) = n /\ L!Injective(bs)
           /\ ToSet(bs) = ObjectsAt(o, n) /\ ObjectsAt(o, n) \subseteq Address
<1> DEFINE bs == Objects(o, n)
<1>1. n \in Nat /\ SLOTS \in Nat
  BY SlabAssumption
<1>2. bs = [i \in 1 .. n |-> <<o, i-1>>]
  BY DEF Objects
<1>3. \A i \in 1 .. n : <<o, i-1>> \in Address
  BY <1>1 DEF Address
<1>4. bs \in Seq(Address) /\ Len(bs) = n /\ DOMAIN bs = 1 .. n
  BY <1>1, <1>2, <1>3
<1>5. \A i \in 1 .. n : bs[i] = <<o, i-1>>
  BY <1>2
<1> HIDE DEF bs
<1>6. L!Injective(bs)
  BY <1>1, <1>4, <1>5 DEF L!Injective
<1>7. ToSet(bs) = ObjectsAt(o, n)
  <2>1. ToSet(bs) = {<<o, i-1>> : i \in 1 .. n}
    BY <1>4, <1>5 DEF ToSet
  <2>2. \A j \in 0 .. n-1 : j+1 \in 1 .. n /\ (j+1)-1 = j
    BY <1>1
  <2>3. \A i \in 1 .. n : i-1 \in 0 .. n-1
    BY <1>1
  <2> QED
    BY <2>1, <2>2, <2>3 DEF ObjectsAt
<1>8. ObjectsAt(o, n) \subseteq Address
  BY <1>1 DEF ObjectsAt, Address
<1> QED
  BY <1>4, <1>6, <1>7, <1>8 DEF bs

\* The objects of a page are pushed: all of them are in the list, in order,
\* and their words are the only ones written.
LEMMA PushAllChained ==
    ASSUME NEW o \in Block, NEW n \in 1 .. SLOTS, NEW m, IsMem(m)
    PROVE  LET bs == Objects(o, n)
               m2 == L!PushAllMem(L!EmptyList, m, bs)
           IN  /\ Chained(L!PushAll(L!EmptyList, bs), bs, m2)
               /\ L!PushAllChain(L!EmptyList, <<>>, bs) = bs
               /\ IsMem(m2)
               /\ \A a \in Address : a[1] # o => m2[a] = m[a]
<1> DEFINE bs == Objects(o, n)
           e  == L!EmptyList
           m2 == L!PushAllMem(e, m, bs)
           l2 == L!PushAll(e, bs)
<1>1. /\ bs \in Seq(Address) /\ Len(bs) = n /\ L!Injective(bs)
      /\ ToSet(bs) = ObjectsAt(o, n)
  BY ObjectsFacts
<1> HIDE DEF bs
<1>2. n \in Nat \ {0}
  BY SlabAssumption
<1>3. L!Fill(e, bs) = 0 /\ T!Fill(T!EmptyList, bs) = 0
  <2>1. e.mag = <<>> /\ e = T!EmptyList /\ Len(<<>>) = 0
    BY DEF L!EmptyList, T!EmptyList
  <2> HIDE DEF e
  <2>2. Len(e.mag) = 0
    BY <2>1
  <2>3. Len(bs) = n /\ n \in Nat \ {0}
    BY <1>1, <1>2
  <2>4. Len(e.mag) = 0 /\ ~ Len(bs) < 0 - Len(e.mag) /\ 0 - Len(e.mag) = 0
    BY <2>2, <2>3
  <2>5. L!Fill(e, bs) = 0
    BY <2>4 DEF L!Fill
  <2>6. T!Fill(e, bs) = 0
    BY <2>4 DEF T!Fill
  <2> QED
    BY <2>1, <2>5, <2>6
<1>4. L!PushAllChain(e, <<>>, bs) = bs /\ T!PushAllChain(T!EmptyList, <<>>, bs) = bs
  <2>1. <<>> \o SubSeq(bs, 0+1, Len(bs)) = bs
    BY <1>1, <1>2
  <2> QED
    BY <1>3, <2>1 DEF L!PushAllChain, T!PushAllChain
<1>5. l2 = T!PushAll(T!EmptyList, bs) /\ m2 = T!PushAllMem(T!EmptyList, m, bs)
  <2>1. e = T!EmptyList /\ \A x : L!Link(x) = T!Link(x)
    BY SameList DEF L!Link, T!Link
  <2>2. l2 = T!PushAll(T!EmptyList, bs)
    BY <1>3, <2>1 DEF L!PushAll, T!PushAll
  <2>3. m2 = T!PushAllMem(T!EmptyList, m, bs)
    BY <1>3, <2>1, Zenon DEF L!PushAllMem, T!PushAllMem
  <2> QED
    BY <2>2, <2>3
<1>6. DOMAIN m = Address /\ NULL \notin Address /\ T!Injective(bs)
  BY <1>1, NullAssumption DEF IsMem, L!Injective, T!Injective
<1>7. /\ T!PushAll(T!EmptyList, bs) \in T!List(Address)
      /\ T!IsList(T!PushAll(T!EmptyList, bs), T!PushAllMem(T!EmptyList, m, bs),
                  T!PushAllChain(T!EmptyList, <<>>, bs))
      /\ DOMAIN T!PushAllMem(T!EmptyList, m, bs) = Address
      /\ \A a \in Address \ T!ToSet(bs) : T!PushAllMem(T!EmptyList, m, bs)[a] = m[a]
  BY <1>1, <1>6, T!PushAllIsList
<1>8. m2 = [a \in Address |->
              IF \E i \in 1 .. n : bs[i] = a
              THEN LET i == CHOOSE i \in 1 .. n : bs[i] = a
                   IN  L!Link(IF i = 1 THEN NULL ELSE bs[i-1])
              ELSE m[a]]
  <2>1. L!EmptyList.head = NULL
    BY DEF L!EmptyList
  <2> QED
    BY <1>1, <1>3, <1>6, <2>1 DEF L!PushAllMem
<1> HIDE DEF m2, l2, e
<1>9. IsMem(m2)
  <2>1. ASSUME NEW a \in Address PROVE m2[a] \in Word
    <3>1. CASE \E i \in 1 .. n : bs[i] = a
      <4> DEFINE i == CHOOSE i \in 1 .. n : bs[i] = a
      <4>1. i \in 1 .. n
        BY <3>1
      <4>2. m2[a] = L!Link(IF i = 1 THEN NULL ELSE bs[i-1])
        BY <1>8, <3>1
      <4> HIDE DEF i
      <4>3. i # 1 => bs[i-1] \in Address
        BY <1>1, <1>2, <4>1
      <4> QED
        BY <4>2, <4>3 DEF Word
    <3>2. CASE ~ \E i \in 1 .. n : bs[i] = a
      BY <1>8, <3>2 DEF IsMem
    <3> QED
      BY <3>1, <3>2
  <2>2. m2 = [a \in Address |-> m2[a]]
    BY <1>8
  <2> QED
    BY <2>1, <2>2 DEF IsMem
<1>10. \A a \in Address : a[1] # o => m2[a] = m[a]
  <2>1. T!ToSet(bs) = ObjectsAt(o, n)
    BY <1>1 DEF T!ToSet, ToSet
  <2>2. \A a \in ObjectsAt(o, n) : a[1] = o
    BY DEF ObjectsAt
  <2> QED
    BY <1>5, <1>7, <2>1, <2>2
<1>11. Chained(l2, bs, m2)
  <2>1. l2 \in L!List(Address) /\ L!IsList(l2, m2, bs)
    BY <1>4, <1>5, <1>7, SameList
  <2> QED
    BY <1>1, <1>5, <1>7, <2>1 DEF Chained
<1> QED
  BY <1>4, <1>9, <1>10, <1>11 DEF bs, m2, l2, e

-------------------------------------------------------------------------------
(* One slab. *)

\* The blocks of the slab s with the pages of trail, each for one purpose.
Blocks(s, trail) == {s} \cup PageBlocks(trail) \cup ObjectBlocks(trail)

Apart(s, trail) ==
    /\ \A i, j \in DOMAIN trail : trail[i][1] # trail[j][2]
    /\ \A i, j \in DOMAIN trail :
          i # j => trail[i][1] # trail[j][1] /\ trail[i][2] # trail[j][2]
    /\ \A i \in DOMAIN trail : trail[i][1] # s /\ trail[i][2] # s

\* The words of the pages lead from the last page to the first, and to the
\* objects of each.
Linked(pages, trail, m) ==
    /\ pages = IF trail = <<>> THEN NULL ELSE At(Last(trail)[1])
    /\ \A i \in DOMAIN trail :
          /\ m[<<trail[i][1], 0>>] = L!Link(At(trail[i][2]))
          /\ m[<<trail[i][1], 1>>]
               = L!Link(IF i = 1 THEN NULL ELSE At(trail[i-1][1]))

\* The counters of a slab of which the program holds the objects of H.
Counts(slab, H) ==
    /\ slab.slab_count = Len(slab.trail)
    /\ slab.used_objects = Cardinality(H)
    /\ slab.slab_count * slab.objects_per_slab = Len(slab.chain) + slab.used_objects

\* The slab named s in memory m.
Sound(s, slab, H, m) ==
    /\ slab \in SlabType /\ slab.objects_per_slab \in 1 .. SLOTS /\ s \in Block
    /\ Apart(s, slab.trail) /\ Linked(slab.pages, slab.trail, m)
    /\ Chained(slab.list, slab.chain, m)
    /\ ToSet(slab.chain) = ObjectsIn(slab.trail, slab.objects_per_slab) \ H
    /\ H \subseteq ObjectsIn(slab.trail, slab.objects_per_slab)
    /\ Counts(slab, H)

\* Blocks and objects of a list of pages.
LEMMA TrailFacts ==
    ASSUME NEW trail \in Seq(Block \X Block), NEW n \in 1 .. SLOTS
    PROVE  /\ Len(trail) \in Nat /\ DOMAIN trail = 1 .. Len(trail)
           /\ \A i \in DOMAIN trail :
                 /\ trail[i] = <<trail[i][1], trail[i][2]>>
                 /\ trail[i][1] \in Block /\ trail[i][2] \in Block
           /\ PageBlocks(trail) \subseteq Block /\ ObjectBlocks(trail) \subseteq Block
           /\ ObjectsIn(trail, n) \subseteq Address
           /\ \A a \in ObjectsIn(trail, n) : a[1] \in ObjectBlocks(trail)
<1>1. Len(trail) \in Nat /\ DOMAIN trail = 1 .. Len(trail)
      /\ \A i \in DOMAIN trail : trail[i] \in Block \X Block
  OBVIOUS
<1>2. \A i \in DOMAIN trail :
                 /\ trail[i] = <<trail[i][1], trail[i][2]>>
                 /\ trail[i][1] \in Block /\ trail[i][2] \in Block
  BY <1>1
<1>3. PageBlocks(trail) \subseteq Block /\ ObjectBlocks(trail) \subseteq Block
  BY <1>2 DEF PageBlocks, ObjectBlocks
<1>4. 0 .. n-1 \subseteq 0 .. SLOTS-1
  BY SlabAssumption
<1>5. ObjectsIn(trail, n) \subseteq Address
      /\ \A a \in ObjectsIn(trail, n) : a[1] \in ObjectBlocks(trail)
  BY <1>3, <1>4 DEF ObjectsIn, Address
<1> QED
  BY <1>1, <1>2, <1>3, <1>5

\* One page more.
Longer(trail, t2, page, o, s, n) ==
    /\ t2 \in Seq(Block \X Block) /\ Len(t2) = Len(trail) + 1
    /\ \A i \in DOMAIN trail : i \in DOMAIN t2 /\ t2[i] = trail[i]
    /\ t2[Len(trail)+1] = <<page, o>> /\ Last(t2) = <<page, o>> /\ t2 # <<>>
    /\ ObjectsIn(t2, n) = ObjectsIn(trail, n) \cup ObjectsAt(o, n)
    /\ Blocks(s, t2) = Blocks(s, trail) \cup {page, o}

\* A pair appended makes the trail longer by it.
LEMMA TrailAppend ==
    ASSUME NEW trail \in Seq(Block \X Block), NEW n \in 1 .. SLOTS, NEW s \in Block,
           NEW page \in Block, NEW o \in Block
    PROVE  Longer(trail, Append(trail, <<page, o>>), page, o, s, n)
<1> DEFINE k == Len(trail)
           t2 == Append(trail, <<page, o>>)
<1>1. /\ t2 \in Seq(Block \X Block) /\ Len(t2) = k + 1 /\ k \in Nat
      /\ DOMAIN trail = 1 .. k /\ DOMAIN t2 = 1 .. k+1
      /\ \A i \in 1 .. k : t2[i] = trail[i]
      /\ t2[k+1] = <<page, o>>
  OBVIOUS
<1>2. Last(t2) = <<page, o>> /\ t2 # <<>>
  BY <1>1 DEF Last
<1> HIDE DEF k, t2
<1>3. \A i \in 1 .. k+1 : i \in 1 .. k \/ i = k+1
  BY <1>1
<1>4. \A i \in 1 .. k : i \in 1 .. k+1 /\ i # k+1
  BY <1>1
<1>5. k+1 \in 1 .. k+1 /\ t2[k+1][1] = page /\ t2[k+1][2] = o
  BY <1>1
<1>6. PageBlocks(t2) = PageBlocks(trail) \cup {page}
  BY <1>1, <1>3, <1>4, <1>5 DEF PageBlocks
<1>7. ObjectBlocks(t2) = ObjectBlocks(trail) \cup {o}
  <2>1. \A x \in ObjectBlocks(t2) : x \in ObjectBlocks(trail) \cup {o}
    BY <1>1, <1>3, <1>5 DEF ObjectBlocks
  <2>2. \A x \in ObjectBlocks(trail) : x \in ObjectBlocks(t2)
    BY <1>1, <1>4 DEF ObjectBlocks
  <2>3. o \in ObjectBlocks(t2)
    BY <1>1, <1>5 DEF ObjectBlocks
  <2> QED
    BY <2>1, <2>2, <2>3
<1>8. ObjectsIn(t2, n) = ObjectsIn(trail, n) \cup ObjectsAt(o, n)
  BY <1>7 DEF ObjectsIn, ObjectsAt
<1>9. Blocks(s, t2) = Blocks(s, trail) \cup {page, o}
  BY <1>6, <1>7 DEF Blocks
<1>10. \A i \in DOMAIN trail : i \in DOMAIN t2 /\ t2[i] = trail[i]
  BY <1>1, <1>4
<1> QED
  BY <1>1, <1>2, <1>8, <1>9, <1>10 DEF k, t2, Longer

\* Its blocks are for it alone.
LEMMA ApartAppend ==
    ASSUME NEW trail \in Seq(Block \X Block), NEW s \in Block,
           NEW page \in Block, NEW o \in Block, page # o,
           NEW t2, t2 = Append(trail, <<page, o>>),
           Apart(s, trail), {page, o} \cap Blocks(s, trail) = {}
    PROVE  Apart(s, t2)
<1> DEFINE k == Len(trail)
<1>1. /\ k \in Nat /\ DOMAIN trail = 1 .. k /\ DOMAIN t2 = 1 .. k+1
      /\ \A i \in 1 .. k : t2[i] = trail[i]
      /\ t2[k+1][1] = page /\ t2[k+1][2] = o
  OBVIOUS
<1> HIDE DEF k
<1>2. \A i \in 1 .. k+1 : i \in 1 .. k \/ i = k+1
  BY <1>1
<1>3. /\ page # s /\ o # s
      /\ \A i \in 1 .. k : /\ trail[i][1] # page /\ trail[i][2] # page
                           /\ trail[i][1] # o /\ trail[i][2] # o
  <2>1. s \in Blocks(s, trail)
        /\ \A i \in 1 .. k : /\ trail[i][1] \in Blocks(s, trail)
                             /\ trail[i][2] \in Blocks(s, trail)
    BY <1>1 DEF Blocks, PageBlocks, ObjectBlocks
  <2> QED
    BY <2>1
<1>4. /\ \A i, j \in 1 .. k : trail[i][1] # trail[j][2]
      /\ \A i, j \in 1 .. k :
             i # j => trail[i][1] # trail[j][1] /\ trail[i][2] # trail[j][2]
      /\ \A i \in 1 .. k : trail[i][1] # s /\ trail[i][2] # s
  <2>1. DOMAIN trail = 1 .. k /\ Apart(s, trail)
    BY <1>1
  <2> QED
    BY <2>1, Zenon DEF Apart
<1>5. \A i \in 1 .. k : t2[i][1] = trail[i][1] /\ t2[i][2] = trail[i][2]
  BY <1>1
<1>6. \A i, j \in 1 .. k+1 : t2[i][1] # t2[j][2]
  BY <1>1, <1>2, <1>3, <1>4, <1>5
<1>7. \A i, j \in 1 .. k+1 :
        i # j => t2[i][1] # t2[j][1] /\ t2[i][2] # t2[j][2]
  BY <1>1, <1>2, <1>3, <1>4, <1>5
<1>8. \A i \in 1 .. k+1 : t2[i][1] # s /\ t2[i][2] # s
  BY <1>1, <1>2, <1>3, <1>4, <1>5
<1> QED
  BY <1>1, <1>6, <1>7, <1>8 DEF Apart

\* The parts of a slab.
LEMMA SoundFacts ==
    ASSUME NEW s, NEW slab, NEW H, NEW m, Sound(s, slab, H, m)
    PROVE  /\ slab \in SlabType /\ slab.trail \in Seq(Block \X Block)
           /\ slab.chain \in Seq(Address) /\ Len(slab.chain) \in Nat
           /\ slab.objects_per_slab \in 1 .. SLOTS /\ slab.objects_per_slab \in Nat
           /\ slab.slab_count \in Nat /\ slab.used_objects \in Nat
           /\ slab.pages \in Address \cup {NULL}
           /\ ObjectsIn(slab.trail, slab.objects_per_slab) \subseteq Address
           /\ H \subseteq Address /\ IsFiniteSet(H) /\ IsFiniteSet(Address)
           /\ Blocks(s, slab.trail) \subseteq Block
           /\ DOMAIN m = Address
<1>1. slab \in SlabType /\ slab.objects_per_slab \in 1 .. SLOTS /\ s \in Block
      /\ H \subseteq ObjectsIn(slab.trail, slab.objects_per_slab)
      /\ Chained(slab.list, slab.chain, m)
  BY DEF Sound
<1>2. /\ slab.trail \in Seq(Block \X Block) /\ slab.chain \in Seq(Address)
      /\ slab.slab_count \in Nat /\ slab.used_objects \in Nat
      /\ slab.pages \in Address \cup {NULL}
  BY <1>1 DEF SlabType
<1>3. /\ ObjectsIn(slab.trail, slab.objects_per_slab) \subseteq Address
      /\ PageBlocks(slab.trail) \subseteq Block /\ ObjectBlocks(slab.trail) \subseteq Block
  BY <1>1, <1>2, TrailFacts
<1>4. IsFiniteSet(Address)
  <2>1. BLOCKS \in Int /\ SLOTS-1 \in Int /\ 1 \in Int /\ 0 \in Int
    BY SlabAssumption
  <2>2. IsFiniteSet(1 .. BLOCKS) /\ IsFiniteSet(0 .. SLOTS-1)
    BY <2>1, FS_Interval
  <2> QED
    BY <2>2, FS_Product DEF Address, Block
<1>5. IsFiniteSet(H)
  BY <1>1, <1>3, <1>4, FS_Subset
<1>6. Blocks(s, slab.trail) \subseteq Block
  BY <1>1, <1>3 DEF Blocks
<1>7. Len(slab.chain) \in Nat /\ slab.objects_per_slab \in Nat
  BY <1>1, <1>2, SlabAssumption
<1>8. DOMAIN m = Address
  BY <1>1 DEF Chained
<1> QED
  BY <1>1, <1>2, <1>3, <1>4, <1>5, <1>6, <1>7, <1>8

\* A slab depends on the words of its pages and of its free objects only.
LEMMA SoundFrame ==
    ASSUME NEW s, NEW slab, NEW H, NEW m, Sound(s, slab, H, m),
           NEW m2, DOMAIN m2 = Address,
           \A a \in Address \ H : a[1] \in Blocks(s, slab.trail) => m2[a] = m[a]
    PROVE  Sound(s, slab, H, m2)
<1> DEFINE n == slab.objects_per_slab
           trail == slab.trail
<1>1. /\ Apart(s, trail) /\ Linked(slab.pages, trail, m)
      /\ Chained(slab.list, slab.chain, m)
      /\ ToSet(slab.chain) = ObjectsIn(trail, n) \ H
      /\ H \subseteq ObjectsIn(trail, n)
  BY DEF Sound
<1>2. trail \in Seq(Block \X Block) /\ n \in 1 .. SLOTS
  BY SoundFacts
<1>3. /\ \A i \in DOMAIN trail : trail[i][1] \in Block
      /\ \A a \in ObjectsIn(trail, n) : a[1] \in ObjectBlocks(trail) /\ a \in Address
  BY <1>2, TrailFacts
<1>4. Chained(slab.list, slab.chain, m2)
  <2>1. \A a \in ToSet(slab.chain) : m2[a] = m[a]
    BY <1>1, <1>3 DEF Blocks
  <2> QED
    BY <1>1, <2>1, ChainedFrame
<1>5. Linked(slab.pages, trail, m2)
  <2>1. ASSUME NEW i \in DOMAIN trail, NEW j \in 0 .. 1
        PROVE  m2[<<trail[i][1], j>>] = m[<<trail[i][1], j>>]
    <3> DEFINE a == <<trail[i][1], j>>
    <3>1. j \in 0 .. SLOTS-1
      BY SlabAssumption
    <3>2. a \in Address
      BY <1>3, <3>1 DEF Address
    <3>3. trail[i][1] \notin ObjectBlocks(trail)
      BY <1>1 DEF Apart, ObjectBlocks
    <3>4. a \notin H
      BY <1>1, <1>3, <3>3
    <3>5. a[1] \in Blocks(s, trail)
      BY DEF Blocks, PageBlocks
    <3> QED
      BY <3>2, <3>4, <3>5
  <2>2. 0 \in 0 .. 1 /\ 1 \in 0 .. 1
    OBVIOUS
  <2> QED
    BY <1>1, <2>1, <2>2 DEF Linked
<1> QED
  BY <1>4, <1>5 DEF Sound

\* An allocation: the object on top of the list.
PoppedSlab(slab, m) ==
    [slab EXCEPT !.list = L!Popped(slab.list, m),
                 !.chain = L!PoppedChain(slab.list, slab.chain),
                 !.used_objects = slab.used_objects + 1]

\* bc_allocators_slab_allocate pops an object that was free.
LEMMA ObjectPopped ==
    ASSUME NEW s, NEW slab, NEW H, NEW m, Sound(s, slab, H, m), slab.chain # <<>>
    PROVE  LET x == L!Top(slab.list) IN
           /\ Sound(s, PoppedSlab(slab, m), H \cup {x}, m)
           /\ x \in ObjectsIn(slab.trail, slab.objects_per_slab) \ H
           /\ PoppedSlab(slab, m).trail = slab.trail
           /\ PoppedSlab(slab, m).used_objects = slab.used_objects + 1
<1> DEFINE x  == L!Top(slab.list)
           l2 == L!Popped(slab.list, m)
           c2 == L!PoppedChain(slab.list, slab.chain)
           t  == PoppedSlab(slab, m)
           O  == ObjectsIn(slab.trail, slab.objects_per_slab)
<1>1. /\ Chained(slab.list, slab.chain, m) /\ slab \in SlabType
      /\ ToSet(slab.chain) = O \ H /\ H \subseteq O /\ Counts(slab, H)
  BY DEF Sound
<1>2. /\ Chained(l2, c2, m) /\ x \in ToSet(slab.chain)
      /\ ToSet(c2) = ToSet(slab.chain) \ {x} /\ Len(c2) = Len(slab.chain) - 1
  BY <1>1, PopChained
<1>3. l2 \in L!List(Address) /\ c2 \in Seq(Address)
  BY <1>2 DEF Chained
<1>4. /\ slab.used_objects \in Nat /\ Len(slab.chain) \in Nat
      /\ slab.slab_count \in Nat /\ slab.objects_per_slab \in Nat /\ IsFiniteSet(H)
  BY SoundFacts
<1> HIDE DEF l2, c2, x
<1>5. t = [slab EXCEPT !.list = l2, !.chain = c2, !.used_objects = slab.used_objects + 1]
  BY DEF PoppedSlab, l2, c2
<1> HIDE DEF t
<1>6. /\ t.list = l2 /\ t.chain = c2 /\ t.used_objects = slab.used_objects + 1
      /\ t.trail = slab.trail /\ t.pages = slab.pages /\ t.slab_count = slab.slab_count
      /\ t.objects_per_slab = slab.objects_per_slab /\ t \in SlabType
  <2>1. slab.used_objects + 1 \in Nat
    BY <1>4
  <2> QED
    BY <1>1, <1>3, <1>5, <2>1 DEF SlabType
<1>7. Counts(t, H \cup {x})
  <2>1. Cardinality(H \cup {x}) = Cardinality(H) + 1
    BY <1>1, <1>2, <1>4, FS_AddElement
  <2>2. slab.slab_count * slab.objects_per_slab
          = (Len(slab.chain) - 1) + (slab.used_objects + 1)
    BY <1>1, <1>4 DEF Counts
  <2> QED
    BY <1>1, <1>2, <1>6, <2>1, <2>2 DEF Counts
<1>8. ToSet(c2) = O \ (H \cup {x}) /\ H \cup {x} \subseteq O
  BY <1>1, <1>2
<1>9. Sound(s, t, H \cup {x}, m)
  BY <1>2, <1>6, <1>7, <1>8 DEF Sound
<1> QED
  BY <1>1, <1>2, <1>6, <1>9 DEF t, x

\* A free: the object comes back on top.
PushedSlab(slab, x) ==
    [slab EXCEPT !.list = L!Push(slab.list, x),
                 !.chain = L!PushChain(slab.list, slab.chain, x),
                 !.used_objects = slab.used_objects - 1]

Pushes(s, slab, H, m, x, t, m2) ==
    /\ Sound(s, t, H \ {x}, m2)
    /\ t.trail = slab.trail /\ t.used_objects = slab.used_objects - 1
    /\ m2[x] \in Word /\ \A a \in Address : a # x => m2[a] = m[a]

\* bc_allocators_slab_free pushes an object that was in use.
LEMMA ObjectPushed ==
    ASSUME NEW s, NEW slab, NEW H, NEW m, Sound(s, slab, H, m), NEW x \in H
    PROVE  Pushes(s, slab, H, m, x, PushedSlab(slab, x), L!PushMem(slab.list, m, x))
<1> DEFINE l2 == L!Push(slab.list, x)
           c2 == L!PushChain(slab.list, slab.chain, x)
           m2 == L!PushMem(slab.list, m, x)
           t  == PushedSlab(slab, x)
           O  == ObjectsIn(slab.trail, slab.objects_per_slab)
<1>1. /\ Chained(slab.list, slab.chain, m) /\ slab \in SlabType
      /\ ToSet(slab.chain) = O \ H /\ H \subseteq O /\ Counts(slab, H)
  BY DEF Sound
<1>2. x \in Address /\ x \notin ToSet(slab.chain) /\ DOMAIN m = Address
  BY <1>1, SoundFacts
<1>3. /\ Chained(l2, c2, m2) /\ \A a \in Address : a # x => m2[a] = m[a]
      /\ m2[x] = L!Link(slab.list.head)
      /\ ToSet(c2) = ToSet(slab.chain) \cup {x} /\ Len(c2) = Len(slab.chain) + 1
  BY <1>1, <1>2, PushChained
<1>4. l2 \in L!List(Address) /\ c2 \in Seq(Address)
  BY <1>3 DEF Chained
<1>5. /\ slab.used_objects \in Nat /\ Len(slab.chain) \in Nat
      /\ slab.slab_count \in Nat /\ slab.objects_per_slab \in Nat /\ IsFiniteSet(H)
  BY SoundFacts
<1>6. \A a \in Address : a # x => m2[a] = m[a]
  BY <1>2, <1>3
<1>7. DOMAIN m2 = Address
  BY <1>3 DEF Chained
<1>8. Sound(s, slab, H, m2)
  BY <1>6, <1>7, SoundFrame
<1> HIDE DEF l2, c2, m2
<1>9. t = [slab EXCEPT !.list = l2, !.chain = c2, !.used_objects = slab.used_objects - 1]
  BY DEF PushedSlab, l2, c2
<1> HIDE DEF t
<1>10. Cardinality(H \ {x}) = Cardinality(H) - 1 /\ Cardinality(H \ {x}) \in Nat
  BY <1>5, FS_RemoveElement, FS_CardinalityType
<1>11. slab.used_objects = Cardinality(H) /\ slab.used_objects - 1 \in Nat
  BY <1>1, <1>10 DEF Counts
<1>12. /\ t.list = l2 /\ t.chain = c2 /\ t.used_objects = slab.used_objects - 1
       /\ t.trail = slab.trail /\ t.pages = slab.pages /\ t.slab_count = slab.slab_count
       /\ t.objects_per_slab = slab.objects_per_slab /\ t \in SlabType
  BY <1>1, <1>4, <1>9, <1>11 DEF SlabType
<1>13. Counts(t, H \ {x})
  <2>1. slab.slab_count * slab.objects_per_slab
          = (Len(slab.chain) + 1) + (slab.used_objects - 1)
    BY <1>1, <1>5 DEF Counts
  <2> QED
    BY <1>1, <1>3, <1>10, <1>11, <1>12, <2>1 DEF Counts
<1>14. ToSet(c2) = O \ (H \ {x}) /\ H \ {x} \subseteq O
  BY <1>1, <1>3
<1>15. Sound(s, t, H \ {x}, m2)
  BY <1>3, <1>8, <1>12, <1>13, <1>14 DEF Sound
<1> QED
  <2>1. slab.list.head \in Address \cup {NULL}
    BY <1>1, ChainedFacts
  <2>2. m2[x] \in Word
    BY <1>3, <2>1 DEF Word
  <2> QED
    BY <1>6, <1>12, <1>15, <2>2 DEF t, m2, Pushes

\* A slab with no page, bc_allocators_slab_create before it takes one.
LEMMA NewSlabSound ==
    ASSUME NEW s \in Block, NEW size \in Size, NEW count \in Count,
           count \in 1 .. SLOTS, NEW m, IsMem(m)
    PROVE  LET slab == NewSlab(size, count) IN
           /\ Sound(s, slab, {}, m) /\ slab.chain = <<>>
           /\ slab.trail = <<>> /\ slab.used_objects = 0
<1> DEFINE slab == NewSlab(size, count)
           e == L!EmptyList
<1>1. e \in L!List(Address) /\ e.head = NULL /\ e.mag = <<>>
  BY DEF L!EmptyList, L!List
<1> HIDE DEF e
<1>2. /\ slab.list = e /\ slab.chain = <<>> /\ slab.trail = <<>> /\ slab.pages = NULL
      /\ slab.used_objects = 0 /\ slab.slab_count = 0 /\ slab.objects_per_slab = count
      /\ slab \in SlabType
  BY <1>1 DEF NewSlab, SlabType, e
<1> HIDE DEF slab
<1>3. Chained(e, <<>>, m)
  <2>1. L!IsList(e, m, <<>>)
    <3>1. /\ DOMAIN e.mag = {} /\ Len(e.mag) = 0 /\ L!ToSet(e.mag) = {}
      BY <1>1 DEF L!ToSet
    <3>2. L!Injective(e.mag) /\ L!Injective(<<>>)
      BY <1>1 DEF L!Injective
    <3> QED
      BY <1>1, <3>1, <3>2 DEF L!IsList
  <2> QED
    BY <1>1, <2>1 DEF Chained, IsMem
<1>4. ObjectBlocks(<<>>) = {} /\ ObjectsIn(<<>>, count) = {} /\ ToSet(<<>>) = {}
  BY DEF ObjectBlocks, ObjectsIn, ToSet
<1>5. Apart(s, <<>>) /\ Linked(NULL, <<>>, m)
  BY DEF Apart, Linked
<1>6. Counts(slab, {})
  <2>1. Cardinality({}) = 0 /\ Len(<<>>) = 0 /\ count \in Nat
    BY FS_EmptySet, SlabAssumption
  <2> QED
    BY <1>2, <2>1 DEF Counts
<1> QED
  BY <1>2, <1>3, <1>4, <1>5, <1>6 DEF Sound, slab

\* Growth: a page more, of a slab that has no free object.
Adds(s, slab, H, m, page, o, t, m2) ==
    /\ Sound(s, t, H, m2) /\ IsMem(m2) /\ t.chain # <<>>
    /\ t.trail = Append(slab.trail, <<page, o>>)
    /\ t.used_objects = slab.used_objects
    /\ \A a \in Address : a[1] # page /\ a[1] # o => m2[a] = m[a]

\* A new page is added so.
LEMMA PageAdded ==
    ASSUME NEW s, NEW slab, NEW H, NEW m, Sound(s, slab, H, m), IsMem(m),
           slab.chain = <<>>, NEW page \in Block, NEW o \in Block, page # o,
           {page, o} \cap Blocks(s, slab.trail) = {}
    PROVE  Adds(s, slab, H, m, page, o,
                WithPage(slab, page, o), WithPageMem(m, slab, page, o))
<1> DEFINE n  == slab.objects_per_slab
           bs == Objects(o, n)
           e  == L!EmptyList
           m1 == [m EXCEPT ![<<page, 0>>] = L!Link(At(o)),
                           ![<<page, 1>>] = L!Link(slab.pages)]
           t  == WithPage(slab, page, o)
           m2 == WithPageMem(m, slab, page, o)
           l2 == L!PushAll(e, bs)
           trail == slab.trail
           trail2 == Append(trail, <<page, o>>)
           O  == ObjectsIn(trail, n)
           O2 == ObjectsIn(trail2, n)
<1>1. /\ Chained(slab.list, <<>>, m) /\ slab \in SlabType /\ s \in Block
      /\ ToSet(<<>>) = O \ H /\ H \subseteq O /\ Counts(slab, H)
      /\ Apart(s, trail) /\ Linked(slab.pages, trail, m)
  BY DEF Sound
<1>2. /\ trail \in Seq(Block \X Block) /\ n \in 1 .. SLOTS /\ n \in Nat
      /\ slab.used_objects \in Nat /\ slab.slab_count \in Nat
      /\ slab.pages \in Address \cup {NULL} /\ Len(trail) \in Nat
  BY SoundFacts, TrailFacts
<1>3. slab.list = e
  BY <1>1, ChainedFacts
<1>4. /\ <<page, 0>> \in Address /\ <<page, 1>> \in Address /\ At(o) \in Address
      /\ At(page) \in Address
  BY SlabAssumption DEF Address, At
<1>5. /\ IsMem(m1) /\ m1[<<page, 0>>] = L!Link(At(o))
      /\ m1[<<page, 1>>] = L!Link(slab.pages)
      /\ \A a \in Address : a[1] # page => m1[a] = m[a]
  <2> DEFINE p0 == <<page, 0>>
             p1 == <<page, 1>>
             w0 == L!Link(At(o))
             w1 == L!Link(slab.pages)
  <2>1. w0 \in Word /\ w1 \in Word
    BY <1>2, <1>4 DEF Word
  <2>2. p0 # p1 /\ p0 \in Address /\ p1 \in Address
    BY <1>4
  <2>3. \A a \in Address : a[1] # page => a # p0 /\ a # p1
    OBVIOUS
  <2>4. m1 = [m EXCEPT ![p0] = w0, ![p1] = w1]
    OBVIOUS
  <2> HIDE DEF p0, p1, w0, w1, m1
  <2>5. /\ m1 \in [Address -> Word] /\ m1[p0] = w0 /\ m1[p1] = w1
        /\ \A a \in Address : a # p0 /\ a # p1 => m1[a] = m[a]
    BY <2>1, <2>2, <2>4 DEF IsMem
  <2> QED
    BY <2>3, <2>5 DEF IsMem, p0, p1, w0, w1
<1> HIDE DEF m1
<1>6. /\ Chained(l2, bs, L!PushAllMem(e, m1, bs))
      /\ L!PushAllChain(e, <<>>, bs) = bs
      /\ IsMem(L!PushAllMem(e, m1, bs))
      /\ \A a \in Address : a[1] # o => L!PushAllMem(e, m1, bs)[a] = m1[a]
  BY <1>2, <1>5, PushAllChained
<1>7. m2 = L!PushAllMem(e, m1, bs)
  BY <1>3 DEF WithPageMem, m1
<1>8. /\ bs \in Seq(Address) /\ Len(bs) = n /\ ToSet(bs) = ObjectsAt(o, n)
  BY <1>2, ObjectsFacts
<1>9. /\ trail2 \in Seq(Block \X Block) /\ Len(trail2) = Len(trail) + 1
      /\ \A i \in DOMAIN trail : i \in DOMAIN trail2 /\ trail2[i] = trail[i]
      /\ trail2[Len(trail)+1] = <<page, o>> /\ Last(trail2) = <<page, o>>
      /\ trail2 # <<>> /\ O2 = O \cup ObjectsAt(o, n)
      /\ Apart(s, trail2)
  <2>1. s \in Block /\ trail \in Seq(Block \X Block) /\ n \in 1 .. SLOTS
        /\ Apart(s, trail) /\ {page, o} \cap Blocks(s, trail) = {}
    BY <1>1, <1>2
  <2>2. Apart(s, trail2)
    BY <2>1, ApartAppend
  <2> HIDE DEF n, trail
  <2>3. Longer(trail, trail2, page, o, s, n)
    BY <2>1, TrailAppend
  <2>4. /\ trail2 \in Seq(Block \X Block) /\ Len(trail2) = Len(trail) + 1
        /\ \A i \in DOMAIN trail : i \in DOMAIN trail2 /\ trail2[i] = trail[i]
        /\ trail2[Len(trail)+1] = <<page, o>> /\ Last(trail2) = <<page, o>>
        /\ trail2 # <<>>
        /\ ObjectsIn(trail2, n) = ObjectsIn(trail, n) \cup ObjectsAt(o, n)
        /\ Blocks(s, trail2) = Blocks(s, trail) \cup {page, o}
    BY <2>3 DEF Longer
  <2> QED
    BY <2>2, <2>4
<1>10. l2 \in L!List(Address)
  BY <1>6 DEF Chained
<1>11. t = [slab EXCEPT !.pages = At(page), !.slab_count = slab.slab_count + 1,
                        !.list = l2, !.chain = bs, !.trail = trail2]
  BY <1>1, <1>3, <1>6 DEF WithPage, Counted
<1> HIDE DEF l2, bs, e, m2, t, trail2, O2
<1>12. /\ t.pages = At(page) /\ t.slab_count = slab.slab_count + 1
       /\ t.list = l2 /\ t.chain = bs /\ t.trail = trail2
       /\ t.used_objects = slab.used_objects /\ t.objects_per_slab = n
       /\ t \in SlabType
  <2> DEFINE k == slab.slab_count + 1
             p == At(page)
  <2>1. k \in Nat /\ p \in Address \cup {NULL}
    BY <1>2, <1>4
  <2>2. t = [slab EXCEPT !.pages = p, !.slab_count = k, !.list = l2, !.chain = bs,
                         !.trail = trail2]
    BY <1>11
  <2> HIDE DEF k, p
  <2>3. t \in SlabType
    BY <1>1, <1>8, <1>9, <1>10, <2>1, <2>2 DEF SlabType
  <2>4. /\ t.pages = p /\ t.slab_count = k /\ t.list = l2 /\ t.chain = bs
        /\ t.trail = trail2 /\ t.used_objects = slab.used_objects
        /\ t.objects_per_slab = slab.objects_per_slab
    BY <1>1, <2>2 DEF SlabType
  <2> QED
    BY <2>3, <2>4 DEF k, p
<1>13. \A a \in Address : a[1] # page /\ a[1] # o => m2[a] = m[a]
  BY <1>5, <1>6, <1>7
<1>14. Linked(At(page), trail2, m2)
  <2>1. m2[<<page, 0>>] = L!Link(At(o)) /\ m2[<<page, 1>>] = L!Link(slab.pages)
    <3>1. <<page, 0>>[1] # o /\ <<page, 1>>[1] # o
      OBVIOUS
    <3> QED
      BY <1>4, <1>5, <1>6, <1>7, <3>1
  <2>2. ASSUME NEW i \in DOMAIN trail, NEW j \in {0, 1}
        PROVE  m2[<<trail[i][1], j>>] = m[<<trail[i][1], j>>]
    <3>1. trail[i][1] \in Block /\ trail[i][1] \in Blocks(s, trail)
      BY <1>2, TrailFacts DEF Blocks, PageBlocks
    <3>2. <<trail[i][1], j>> \in Address
      BY <3>1, SlabAssumption DEF Address
    <3>3. trail[i][1] # page /\ trail[i][1] # o
      BY <3>1
    <3> QED
      BY <1>13, <3>2, <3>3
  <2>3. slab.pages = IF Len(trail) = 0 THEN NULL ELSE At(trail[Len(trail)][1])
    BY <1>1, <1>2 DEF Linked, Last
  <2>4. /\ DOMAIN trail = 1 .. Len(trail) /\ DOMAIN trail2 = 1 .. Len(trail)+1
        /\ \A i \in DOMAIN trail2 : i \in DOMAIN trail \/ i = Len(trail)+1
        /\ \A i \in DOMAIN trail : i # 1 => i-1 \in DOMAIN trail
        /\ Len(trail) # 0 => Len(trail) \in DOMAIN trail
    BY <1>2, <1>9
  <2>5. ASSUME NEW i \in DOMAIN trail
        PROVE  /\ m2[<<trail2[i][1], 0>>] = L!Link(At(trail2[i][2]))
               /\ m2[<<trail2[i][1], 1>>]
                    = L!Link(IF i = 1 THEN NULL ELSE At(trail2[i-1][1]))
    <3>1. /\ m[<<trail[i][1], 0>>] = L!Link(At(trail[i][2]))
          /\ m[<<trail[i][1], 1>>]
                    = L!Link(IF i = 1 THEN NULL ELSE At(trail[i-1][1]))
      BY <1>1 DEF Linked
    <3>2. trail2[i] = trail[i] /\ (i # 1 => trail2[i-1] = trail[i-1])
      BY <1>9, <2>4
    <3> QED
      BY <2>2, <3>1, <3>2
  <2>6. LET i == Len(trail) + 1 IN
        /\ m2[<<trail2[i][1], 0>>] = L!Link(At(trail2[i][2]))
        /\ m2[<<trail2[i][1], 1>>]
             = L!Link(IF i = 1 THEN NULL ELSE At(trail2[i-1][1]))
    <3> DEFINE i == Len(trail) + 1
    <3>1. trail2[i][1] = page /\ trail2[i][2] = o /\ i-1 = Len(trail)
          /\ (i = 1 <=> Len(trail) = 0)
      BY <1>2, <1>9
    <3>2. Len(trail) # 0 => trail2[Len(trail)] = trail[Len(trail)]
      BY <1>9, <2>4
    <3> QED
      BY <2>1, <2>3, <3>1, <3>2
  <2>7. Last(trail2)[1] = page
    BY <1>9
  <2> QED
    BY <1>9, <2>4, <2>5, <2>6, <2>7 DEF Linked
<1>15. ToSet(bs) = O2 \ H /\ H \subseteq O2
  <2>1. \A a \in ObjectsAt(o, n) : a[1] = o
    BY DEF ObjectsAt
  <2>2. \A a \in O : a[1] \in Blocks(s, trail)
    BY <1>2, TrailFacts DEF Blocks
  <2>3. O \cap ObjectsAt(o, n) = {}
    BY <2>1, <2>2
  <2>4. ToSet(<<>>) = {}
    BY DEF ToSet
  <2> QED
    BY <1>1, <1>8, <1>9, <2>3, <2>4
<1>16. Counts(t, H)
  <2>1. slab.slab_count * n = 0 + slab.used_objects /\ slab.slab_count = Len(trail)
        /\ slab.used_objects = Cardinality(H)
    BY <1>1 DEF Counts
  <2>2. (slab.slab_count + 1) * n = slab.slab_count * n + n
    BY <1>2
  <2> HIDE DEF n, trail
  <2>3. (slab.slab_count + 1) * n = n + slab.used_objects
    BY <1>2, <2>1, <2>2
  <2> QED
    BY <1>8, <1>9, <1>12, <2>1, <2>3 DEF Counts
<1>17. Sound(s, t, H, m2)
  BY <1>1, <1>2, <1>6, <1>7, <1>9, <1>12, <1>14, <1>15, <1>16 DEF Sound, O2
<1>18. bs # <<>>
  BY <1>2, <1>8
<1> QED
  BY <1>6, <1>7, <1>12, <1>13, <1>17, <1>18 DEF t, m2, trail2, Adds

-------------------------------------------------------------------------------
(* The pool. *)

IsPool(p) == p \in [taken : SUBSET Block, mem : [Address -> Word]]

\* Blocks given back.
Without(p, bs) ==
    [taken |-> p.taken \ bs,
     mem   |-> [a \in Address |-> IF a[1] \in bs THEN Unknown ELSE p.mem[a]]]

\* What an allocation takes was not taken.
LEMMA PoolAllocateIs ==
    ASSUME NEW p, IsPool(p), NEW size, NEW g \in PoolAllocate(p, size)
    PROVE  \/ g.ptr = NULL /\ g.pool = p
           \/ /\ g.ptr \in Block \ p.taken /\ g.ptr # NULL /\ size # 0
              /\ g.pool = [taken |-> p.taken \cup {g.ptr}, mem |-> p.mem]
              /\ IsPool(g.pool)
<1>1. CASE g = [pool |-> p, ptr |-> NULL]
  BY <1>1
<1>2. CASE g # [pool |-> p, ptr |-> NULL]
  <2> DEFINE b == Min(Block \ p.taken)
  <2>1. /\ size # 0 /\ p.taken # Block
        /\ g = [pool |-> [p EXCEPT !.taken = p.taken \cup {b}], ptr |-> b]
    BY <1>2 DEF PoolAllocate
  <2>2. Block \ p.taken # {} /\ Block \ p.taken \in SUBSET (1 .. BLOCKS)
        /\ BLOCKS \in Nat
    BY <2>1, SlabAssumption DEF IsPool, Block
  <2>3. b \in Block \ p.taken
    BY <2>2, Extremes
  <2> HIDE DEF b
  <2>4. g.ptr = b /\ g.pool = [taken |-> p.taken \cup {b}, mem |-> p.mem]
    BY <2>1 DEF IsPool
  <2>5. IsPool([taken |-> p.taken \cup {b}, mem |-> p.mem])
    BY <2>3 DEF IsPool
  <2> QED
    BY <2>1, <2>3, <2>4, <2>5, NullAssumption
<1> QED
  BY <1>1, <1>2

\* What is given back is no longer taken, and the other blocks keep their words.
LEMMA WithoutFacts ==
    ASSUME NEW p, IsPool(p), NEW bs
    PROVE  /\ IsPool(Without(p, bs)) /\ Without(p, bs).taken = p.taken \ bs
           /\ \A a \in Address : a[1] \notin bs => Without(p, bs).mem[a] = p.mem[a]
<1> DEFINE q == [a \in Address |-> IF a[1] \in bs THEN Unknown ELSE p.mem[a]]
<1>1. q \in [Address -> Word]
  BY DEF Word, IsPool
<1>2. \A a \in Address : a[1] \notin bs => q[a] = p.mem[a]
  OBVIOUS
<1>3. Without(p, bs) = [taken |-> p.taken \ bs, mem |-> q]
  BY DEF Without
<1> HIDE DEF q
<1> QED
  BY <1>1, <1>2, <1>3 DEF IsPool

\* One block given back.
LEMMA PoolFreeIs ==
    ASSUME NEW p, IsPool(p), NEW b
    PROVE  PoolFree(p, b) = Without(p, {b})
  BY DEF PoolFree, Without

\* allocate_new_page that fails leaves what was taken, and the words in it.
Refused(p, slab, n) ==
    /\ n.ok = FALSE /\ n.slab = slab
    /\ IsPool(n.pool) /\ n.pool.taken = p.taken
    /\ \A a \in Address : a[1] \in p.taken => n.pool.mem[a] = p.mem[a]

\* One that succeeds has taken two blocks.
Granted(p, slab, n, page, o) ==
    /\ n.ok = TRUE /\ n.slab = WithPage(slab, page, o)
    /\ page \in Block \ p.taken /\ o \in Block \ p.taken /\ page # o
    /\ n.pool = [taken |-> p.taken \cup {page, o},
                 mem   |-> WithPageMem(p.mem, slab, page, o)]
    /\ ObjectBytes(slab) # 0

\* allocate_new_page does the one or the other.
LEMMA NewPageIs ==
    ASSUME NEW p, IsPool(p), NEW slab, NEW n \in NewPage(p, slab)
    PROVE  Refused(p, slab, n) \/ \E page, o \in Block : Granted(p, slab, n, page, o)
<1>1. PICK g \in PoolAllocate(p, 2 * POINTER) :
         n \in IF g.ptr = NULL THEN {[ok |-> FALSE, pool |-> p, slab |-> slab]}
               ELSE {IF o.ptr = NULL
                     THEN [ok |-> FALSE, pool |-> AfterRefusal(o.pool, g.ptr),
                           slab |-> slab]
                     ELSE [ok |-> TRUE, slab |-> WithPage(slab, g.ptr, o.ptr),
                           pool |-> [o.pool EXCEPT
                                        !.mem = WithPageMem(@, slab, g.ptr, o.ptr)]] :
                        o \in PoolAllocate(g.pool, ObjectBytes(slab))}
  BY DEF NewPage
<1>2. CASE g.ptr = NULL
  <2>1. n = [ok |-> FALSE, pool |-> p, slab |-> slab]
    BY <1>1, <1>2
  <2> QED
    BY <2>1 DEF Refused, IsPool
<1>3. CASE g.ptr # NULL
  <2>1. PICK o \in PoolAllocate(g.pool, ObjectBytes(slab)) :
           n = IF o.ptr = NULL
               THEN [ok |-> FALSE, pool |-> AfterRefusal(o.pool, g.ptr), slab |-> slab]
               ELSE [ok |-> TRUE, slab |-> WithPage(slab, g.ptr, o.ptr),
                     pool |-> [o.pool EXCEPT
                                  !.mem = WithPageMem(@, slab, g.ptr, o.ptr)]]
    BY <1>1, <1>3
  <2>2. /\ g.ptr \in Block \ p.taken /\ IsPool(g.pool)
        /\ g.pool = [taken |-> p.taken \cup {g.ptr}, mem |-> p.mem]
    BY <1>3, PoolAllocateIs
  <2>3. CASE o.ptr = NULL
    <3>1. o.pool = g.pool
      BY <2>2, <2>3, PoolAllocateIs
    <3>2. n.pool = Without(g.pool, {g.ptr}) /\ n.ok = FALSE /\ n.slab = slab
      BY <2>1, <2>2, <2>3, <3>1, PoolFreeIs DEF AfterRefusal
    <3> DEFINE q == Without(g.pool, {g.ptr})
    <3>3. /\ IsPool(q) /\ q.taken = g.pool.taken \ {g.ptr}
          /\ \A a \in Address : a[1] \notin {g.ptr} => q.mem[a] = g.pool.mem[a]
      <4>1. IsPool(g.pool)
        BY <2>2
      <4> QED
        BY <4>1, WithoutFacts
    <3> HIDE DEF q
    <3>4. n.pool = q
      BY <3>2 DEF q
    <3>5. q.taken = p.taken /\ \A a \in Address : a[1] \in p.taken => q.mem[a] = p.mem[a]
      BY <2>2, <3>3
    <3> QED
      BY <3>2, <3>3, <3>4, <3>5 DEF Refused
  <2>4. CASE o.ptr # NULL
    <3>1. /\ o.ptr \in Block \ g.pool.taken /\ ObjectBytes(slab) # 0
          /\ o.pool = [taken |-> g.pool.taken \cup {o.ptr}, mem |-> g.pool.mem]
      BY <2>2, <2>4, PoolAllocateIs
    <3>2. /\ o.pool = [taken |-> p.taken \cup {g.ptr, o.ptr}, mem |-> p.mem]
          /\ o.ptr # g.ptr /\ o.ptr \in Block \ p.taken
      BY <2>2, <3>1
    <3>3. /\ n.ok = TRUE /\ n.slab = WithPage(slab, g.ptr, o.ptr)
          /\ n.pool = [o.pool EXCEPT !.mem = WithPageMem(@, slab, g.ptr, o.ptr)]
      BY <2>1, <2>4
    <3>4. n.pool = [taken |-> p.taken \cup {g.ptr, o.ptr},
                    mem |-> WithPageMem(p.mem, slab, g.ptr, o.ptr)]
      BY <3>2, <3>3
    <3>5. Granted(p, slab, n, g.ptr, o.ptr)
      BY <2>2, <3>1, <3>2, <3>3, <3>4 DEF Granted
    <3> QED
      BY <2>2, <3>2, <3>5
  <2> QED
    BY <2>3, <2>4
<1> QED
  BY <1>2, <1>3

-------------------------------------------------------------------------------
(* The invariant. *)

\* The objects of h that are of the slab s.
HeldIn(h, s) == {x.at : x \in {y \in h : y.slab = s}}

Taken(ss) == UNION {Blocks(s, ss[s].trail) : s \in DOMAIN ss}

\* The pool p, the slabs ss and the objects h in the program's hands: each
\* slab is sound, and no block is for two of them.
Owned(p, ss, h) ==
    /\ IsPool(p) /\ ss = [s \in DOMAIN ss |-> ss[s]]
    /\ p.taken = Taken(ss)
    /\ \A s \in DOMAIN ss : Sound(s, ss[s], HeldIn(h, s), p.mem)
    /\ \A s, t \in DOMAIN ss :
          s # t => Blocks(s, ss[s].trail) \cap Blocks(t, ss[t].trail) = {}
    /\ h \subseteq [slab : DOMAIN ss, at : Address]

IInv == Owned(pool, slabs, held)

\* The slabs ss with t for s.
With(ss, s, t) == [u \in DOMAIN ss \cup {s} |-> IF u = s THEN t ELSE ss[u]]

\* What is the blocks of one slab is taken, and of no other.
LEMMA OwnBlocks ==
    ASSUME NEW p, NEW ss, NEW h, Owned(p, ss, h), NEW s \in DOMAIN ss
    PROVE  /\ Blocks(s, ss[s].trail) \subseteq p.taken /\ s \in p.taken /\ s \in Block
           /\ Sound(s, ss[s], HeldIn(h, s), p.mem)
           /\ \A u \in DOMAIN ss : u # s =>
                 Blocks(u, ss[u].trail) \cap Blocks(s, ss[s].trail) = {}
<1>1. Sound(s, ss[s], HeldIn(h, s), p.mem) /\ p.taken = Taken(ss)
  BY DEF Owned
<1>2. Blocks(s, ss[s].trail) \subseteq p.taken
  BY <1>1 DEF Taken
<1>3. s \in Blocks(s, ss[s].trail) /\ s \in Block
  BY <1>1 DEF Blocks, Sound
<1>4. \A u \in DOMAIN ss : u # s =>
         Blocks(u, ss[u].trail) \cap Blocks(s, ss[s].trail) = {}
  BY DEF Owned
<1> QED
  BY <1>1, <1>2, <1>3, <1>4

\* A step of the slab s, or its creation: it may take blocks, and writes in its
\* own only.
LEMMA OwnedWith ==
    ASSUME NEW p, NEW ss, NEW h, Owned(p, ss, h), NEW s, NEW t, NEW p2, NEW h2,
           IsPool(p2), Sound(s, t, HeldIn(h2, s), p2.mem),
           p2.taken = p.taken \cup Blocks(s, t.trail),
           s \in DOMAIN ss =>
              /\ Blocks(s, ss[s].trail) \subseteq Blocks(s, t.trail)
              /\ Blocks(s, t.trail) \cap p.taken \subseteq Blocks(s, ss[s].trail),
           s \notin DOMAIN ss => Blocks(s, t.trail) \cap p.taken = {},
           \A a \in Address : a[1] \in p.taken /\ a[1] \notin Blocks(s, t.trail) =>
              p2.mem[a] = p.mem[a],
           h2 \subseteq [slab : DOMAIN ss \cup {s}, at : Address],
           \A x : x.slab # s => (x \in h <=> x \in h2)
    PROVE  Owned(p2, With(ss, s, t), h2)
<1> DEFINE w == With(ss, s, t)
           B(u) == Blocks(u, ss[u].trail)
           D == Blocks(s, t.trail)
<1>1. /\ DOMAIN w = DOMAIN ss \cup {s} /\ w[s] = t
      /\ \A u \in DOMAIN ss : u # s => w[u] = ss[u]
      /\ w = [u \in DOMAIN w |-> w[u]]
  BY DEF With
<1> HIDE DEF w
<1>2. /\ p.taken = UNION {B(u) : u \in DOMAIN ss}
      /\ \A u, v \in DOMAIN ss : u # v => B(u) \cap B(v) = {}
  BY DEF Owned, Taken
<1>3. \A u \in DOMAIN ss : u # s => B(u) \cap D = {} /\ B(u) \subseteq p.taken
  <2> SUFFICES ASSUME NEW u \in DOMAIN ss, u # s
               PROVE  B(u) \cap D = {} /\ B(u) \subseteq p.taken
    OBVIOUS
  <2> HIDE DEF B, D
  <2>1. B(u) \subseteq p.taken
    BY <1>2
  <2>2. CASE s \in DOMAIN ss
    <3>1. D \cap p.taken \subseteq B(s) /\ B(u) \cap B(s) = {}
      BY <1>2, <2>2 DEF B, D
    <3> QED
      BY <2>1, <3>1
  <2>3. CASE s \notin DOMAIN ss
    <3>1. D \cap p.taken = {}
      BY <2>3 DEF D
    <3> QED
      BY <2>1, <3>1
  <2> QED
    BY <2>2, <2>3
<1>4. p2.taken = Taken(w)
  <2>1. s \in DOMAIN ss => B(s) \subseteq D
    OBVIOUS
  <2>2. p2.taken = p.taken \cup D
    OBVIOUS
  <2>3. \A u \in DOMAIN ss : u # s => Blocks(u, w[u].trail) = B(u)
    BY <1>1
  <2>4. Blocks(s, w[s].trail) = D
    BY <1>1
  <2>5. Taken(w) = UNION {Blocks(u, w[u].trail) : u \in DOMAIN ss \cup {s}}
    BY <1>1 DEF Taken
  <2> HIDE DEF B, D
  <2>6. ASSUME NEW b \in p2.taken PROVE b \in Taken(w)
    <3>1. CASE b \in D
      BY <2>4, <2>5, <3>1
    <3>2. CASE b \notin D
      <4>1. PICK u \in DOMAIN ss : b \in B(u)
        BY <1>2, <2>2, <2>6, <3>2
      <4>2. u # s
        BY <2>1, <3>2, <4>1
      <4> QED
        BY <2>3, <2>5, <4>1, <4>2
    <3> QED
      BY <3>1, <3>2
  <2>7. ASSUME NEW b \in Taken(w) PROVE b \in p2.taken
    <3>1. PICK u \in DOMAIN ss \cup {s} : b \in Blocks(u, w[u].trail)
      BY <2>5, <2>7
    <3>2. CASE u = s
      BY <2>2, <2>4, <3>1, <3>2
    <3>3. CASE u # s
      BY <1>2, <2>2, <2>3, <3>1, <3>3
    <3> QED
      BY <3>2, <3>3
  <2> QED
    BY <2>6, <2>7
<1>5. ASSUME NEW u \in DOMAIN ss, u # s
      PROVE  Sound(u, w[u], HeldIn(h2, u), p2.mem)
  <2>1. HeldIn(h2, u) = HeldIn(h, u)
    BY <1>5 DEF HeldIn
  <2>2. Sound(u, ss[u], HeldIn(h, u), p.mem)
    BY DEF Owned
  <2>3. \A a \in Address : a[1] \in B(u) => p2.mem[a] = p.mem[a]
    <3> HIDE DEF B
    <3>1. \A a \in Address : a[1] \in B(u) => a[1] \in p.taken /\ a[1] \notin D
      BY <1>3, <1>5
    <3> QED
      BY <3>1
  <2>4. DOMAIN p2.mem = Address
    BY DEF IsPool
  <2>5. Sound(u, ss[u], HeldIn(h, u), p2.mem)
    BY <2>2, <2>3, <2>4, SoundFrame
  <2> QED
    BY <1>1, <1>5, <2>1, <2>5
<1>6. \A u \in DOMAIN w : Sound(u, w[u], HeldIn(h2, u), p2.mem)
  BY <1>1, <1>5
<1>7. ASSUME NEW u \in DOMAIN w, NEW v \in DOMAIN w, u # v
      PROVE  Blocks(u, w[u].trail) \cap Blocks(v, w[v].trail) = {}
  <2>1. CASE u # s /\ v # s
    BY <1>1, <1>2, <1>7, <2>1
  <2>2. CASE u = s
    BY <1>1, <1>3, <1>7, <2>2
  <2>3. CASE v = s
    BY <1>1, <1>3, <1>7, <2>3
  <2> QED
    BY <2>1, <2>2, <2>3
<1> QED
  BY <1>1, <1>4, <1>6, <1>7 DEF Owned, w

\* A destruction gives back the blocks of a slab, and ends its objects.
LEMMA OwnedWithout ==
    ASSUME NEW p, NEW ss, NEW h, Owned(p, ss, h), NEW s \in DOMAIN ss
    PROVE  Owned(Without(p, Blocks(s, ss[s].trail)),
                 [u \in DOMAIN ss \ {s} |-> ss[u]], {x \in h : x.slab # s})
<1> DEFINE D  == Blocks(s, ss[s].trail)
           p2 == Without(p, D)
           w  == [u \in DOMAIN ss \ {s} |-> ss[u]]
           h2 == {x \in h : x.slab # s}
<1>1. /\ DOMAIN w = DOMAIN ss \ {s} /\ \A u \in DOMAIN w : w[u] = ss[u]
      /\ w = [u \in DOMAIN w |-> w[u]]
  OBVIOUS
<1>2. IsPool(p) /\ p.taken = Taken(ss)
  BY DEF Owned
<1>3. /\ IsPool(p2) /\ p2.taken = p.taken \ D
      /\ \A a \in Address : a[1] \notin D => p2.mem[a] = p.mem[a]
  BY <1>2, WithoutFacts
<1> HIDE DEF w, p2
<1>4. \A u \in DOMAIN w : Blocks(u, ss[u].trail) \cap D = {}
  BY <1>1, OwnBlocks
<1>5. p2.taken = Taken(w)
  <2>1. Taken(w) = UNION {Blocks(u, ss[u].trail) : u \in DOMAIN ss \ {s}}
    BY <1>1 DEF Taken
  <2>2. Taken(ss) = UNION {Blocks(u, ss[u].trail) : u \in DOMAIN ss}
    BY DEF Taken
  <2> QED
    BY <1>1, <1>2, <1>3, <1>4, <2>1, <2>2
<1>6. ASSUME NEW u \in DOMAIN w PROVE Sound(u, w[u], HeldIn(h2, u), p2.mem)
  <2>1. HeldIn(h2, u) = HeldIn(h, u)
    BY <1>1 DEF HeldIn
  <2>2. Sound(u, ss[u], HeldIn(h, u), p.mem)
    BY <1>1 DEF Owned
  <2>3. \A a \in Address : a[1] \in Blocks(u, ss[u].trail) => p2.mem[a] = p.mem[a]
    BY <1>3, <1>4
  <2>4. DOMAIN p2.mem = Address
    BY <1>3 DEF IsPool
  <2>5. Sound(u, ss[u], HeldIn(h, u), p2.mem)
    BY <2>2, <2>3, <2>4, SoundFrame
  <2> QED
    BY <1>1, <2>1, <2>5
<1>7. \A u, v \in DOMAIN w :
         u # v => Blocks(u, w[u].trail) \cap Blocks(v, w[v].trail) = {}
  BY <1>1 DEF Owned
<1>8. h2 \subseteq [slab : DOMAIN w, at : Address]
  BY <1>1 DEF Owned
<1> QED
  BY <1>1, <1>3, <1>5, <1>6, <1>7, <1>8 DEF Owned, w, p2

-------------------------------------------------------------------------------
(* Destruction. *)

\* The blocks of the last k pages, and the walk of bc_allocators_slab_destroy
\* after k turns.
Gone(trail, k) ==
    UNION {{trail[i][1], trail[i][2]} : i \in {j \in DOMAIN trail : j > Len(trail) - k}}

Walk(p, trail, k) ==
    [page |-> IF k < Len(trail) THEN At(trail[Len(trail) - k][1]) ELSE NULL,
     pool |-> Without(p, Gone(trail, k))]

\* Blocks given back in two goes.
LEMMA WithoutTwice ==
    ASSUME NEW p, NEW A, NEW B
    PROVE  Without(Without(p, A), B) = Without(p, A \cup B)
<1> DEFINE q == [a \in Address |-> IF a[1] \in A THEN Unknown ELSE p.mem[a]]
           r == [a \in Address |-> IF a[1] \in B THEN Unknown ELSE q[a]]
           t == [a \in Address |-> IF a[1] \in A \cup B THEN Unknown ELSE p.mem[a]]
<1>1. Without(p, A) = [taken |-> p.taken \ A, mem |-> q]
  BY DEF Without
<1>2. Without(Without(p, A), B) = [taken |-> (p.taken \ A) \ B, mem |-> r]
  BY <1>1 DEF Without
<1>3. r = t
  BY Zenon
<1>4. (p.taken \ A) \ B = p.taken \ (A \cup B)
  OBVIOUS
<1> QED
  BY <1>2, <1>3, <1>4 DEF Without

\* The blocks of the pages walked.
LEMMA GoneFacts ==
    ASSUME NEW trail \in Seq(Block \X Block), NEW k \in Nat
    PROVE  /\ Gone(trail, 0) = {}
           /\ k < Len(trail) => Gone(trail, k+1) = Gone(trail, k) \cup
                 {trail[Len(trail) - k][1], trail[Len(trail) - k][2]}
           /\ k >= Len(trail) =>
                 Gone(trail, k) = PageBlocks(trail) \cup ObjectBlocks(trail)
<1> DEFINE n == Len(trail)
           J(x) == {j \in DOMAIN trail : j > n - x}
           U(js) == UNION {{trail[i][1], trail[i][2]} : i \in js}
<1>1. n \in Nat /\ DOMAIN trail = 1 .. n
  OBVIOUS
<1>2. \A x : Gone(trail, x) = U(J(x))
  BY DEF Gone
<1>3. J(0) = {}
  BY <1>1
<1>4. ASSUME k < n PROVE J(k+1) = J(k) \cup {n - k}
  <2>1. n - k \in 1 .. n /\ \A j \in 1 .. n : j > n - (k+1) <=> (j > n - k \/ j = n - k)
    <3> HIDE DEF n
    <3>1. n - k \in 1 .. n
      BY <1>1, <1>4
    <3>2. ASSUME NEW j \in 1 .. n
          PROVE  j > n - (k+1) <=> (j > n - k \/ j = n - k)
      BY <1>1, <1>4
    <3> QED
      BY <3>1, <3>2
  <2>2. J(k+1) = {j \in 1 .. n : j > n - (k+1)} /\ J(k) = {j \in 1 .. n : j > n - k}
    BY <1>1 DEF J
  <2> HIDE DEF n, J
  <2> QED
    BY <2>1, <2>2
<1>5. k >= n => J(k) = DOMAIN trail
  BY <1>1
<1> HIDE DEF J, n
<1>6. U({}) = {}
  OBVIOUS
<1>7. \A js, i : U(js \cup {i}) = U(js) \cup {trail[i][1], trail[i][2]}
  OBVIOUS
<1>8. U(DOMAIN trail) = PageBlocks(trail) \cup ObjectBlocks(trail)
  BY DEF PageBlocks, ObjectBlocks
<1> HIDE DEF U
<1>9. Gone(trail, 0) = {}
  BY <1>2, <1>3, <1>6
<1>10. ASSUME k < n
       PROVE  Gone(trail, k+1) = Gone(trail, k) \cup {trail[n - k][1], trail[n - k][2]}
  <2>1. Gone(trail, k+1) = U(J(k+1)) /\ Gone(trail, k) = U(J(k))
    BY <1>2
  <2>2. U(J(k) \cup {n - k}) = U(J(k)) \cup {trail[n - k][1], trail[n - k][2]}
    BY <1>7
  <2> QED
    BY <1>4, <1>10, <2>1, <2>2
<1>11. ASSUME k >= n PROVE Gone(trail, k) = PageBlocks(trail) \cup ObjectBlocks(trail)
  BY <1>2, <1>5, <1>8, <1>11
<1> QED
  BY <1>9, <1>10, <1>11 DEF n

\* One turn.
LEMMA WalkStep ==
    ASSUME NEW s, NEW slab, NEW H, NEW p, IsPool(p), Sound(s, slab, H, p.mem),
           NEW k \in Nat, NEW turn
    PROVE  FreePage(Walk(p, slab.trail, k), turn) = Walk(p, slab.trail, k+1)
<1> DEFINE trail == slab.trail
           n == Len(trail)
           w == Walk(p, trail, k)
           G == Gone(trail, k)
<1>1. /\ trail \in Seq(Block \X Block) /\ n \in Nat /\ DOMAIN trail = 1 .. n
      /\ \A i \in DOMAIN trail : trail[i][1] \in Block /\ trail[i][2] \in Block
      /\ Apart(s, trail) /\ Linked(slab.pages, trail, p.mem)
  BY SoundFacts, TrailFacts DEF Sound
<1>2. /\ w.page = IF k < n THEN At(trail[n-k][1]) ELSE NULL
      /\ w.pool = Without(p, G)
  BY DEF Walk
<1>3. CASE k < n
  <2> DEFINE i == n - k
             page == trail[i][1]
             o == trail[i][2]
             next == IF i = 1 THEN NULL ELSE At(trail[i-1][1])
  <2>1. i \in DOMAIN trail /\ i \in 1 .. n
    BY <1>1, <1>3
  <2>2. w.page = At(page)
    BY <1>2, <1>3
  <2>3. page \in Block /\ o \in Block
    BY <1>1, <2>1
  <2>4. page \notin G
    <3>1. ASSUME NEW j \in DOMAIN trail, j > n - k
          PROVE  page # trail[j][1] /\ page # trail[j][2]
      <4>1. i # j
        BY <1>1, <2>1, <3>1
      <4> HIDE DEF i
      <4> QED
        BY <1>1, <2>1, <4>1 DEF Apart
    <3> HIDE DEF page
    <3> QED
      BY <3>1 DEF Gone
  <2>5. /\ p.mem[<<page, 0>>] = L!Link(At(o)) /\ p.mem[<<page, 1>>] = L!Link(next)
    <3> HIDE DEF i
    <3> QED
      BY <1>1, <2>1 DEF Linked
  <2>6. /\ k+1 < n <=> i # 1
        /\ k+1 < n => trail[n-(k+1)][1] = trail[i-1][1]
    <3>1. n - (k+1) = i - 1 /\ (k+1 < n <=> i # 1)
      BY <1>1, <2>1
    <3> QED
      BY <3>1
  <2>7. Gone(trail, k+1) = G \cup {page, o}
    BY <1>1, <1>3, GoneFacts
  <2>8. Walk(p, trail, k+1) = [page |-> next, pool |-> Without(p, G \cup {page, o})]
    <3>1. Walk(p, trail, k+1)
            = [page |-> IF k+1 < n THEN At(trail[n-(k+1)][1]) ELSE NULL,
               pool |-> Without(p, Gone(trail, k+1))]
      BY DEF Walk
    <3>2. (IF k+1 < n THEN At(trail[n-(k+1)][1]) ELSE NULL) = next
      <4> HIDE DEF i, n
      <4> QED
        BY <2>6
    <3> HIDE DEF next, n, page, o, i
    <3> QED
      BY <2>7, <3>1, <3>2
  <2> HIDE DEF w, G, page, o, next, i
  <2>9. <<page, 0>> \in Address /\ <<page, 1>> \in Address /\ At(page) # NULL
        /\ At(page)[1] = page /\ At(o)[1] = o
    BY <2>3, SlabAssumption, NullAssumption DEF Address, At
  <2>10. /\ IsPool(w.pool) /\ w.pool.mem[<<page, 0>>] = L!Link(At(o))
         /\ w.pool.mem[<<page, 1>>] = L!Link(next)
    <3>1. /\ IsPool(Without(p, G))
          /\ \A a \in Address : a[1] \notin G => Without(p, G).mem[a] = p.mem[a]
      BY WithoutFacts
    <3>2. <<page, 0>>[1] = page /\ <<page, 1>>[1] = page
      OBVIOUS
    <3> QED
      BY <1>2, <2>4, <2>5, <2>9, <3>1, <3>2
  <2>11. FreePage(w, turn) = [page |-> next, pool |-> PoolFree(PoolFree(w.pool, o), page)]
    <3>1. w.page # NULL /\ w.page[1] = page
      BY <2>2, <2>9
    <3>2. /\ L!Target(w.pool.mem[<<page, 0>>])[1] = o
          /\ L!Target(w.pool.mem[<<page, 1>>]) = next
      BY <2>9, <2>10 DEF L!Target, L!Link
    <3> QED
      BY <3>1, <3>2 DEF FreePage
  <2>12. PoolFree(PoolFree(w.pool, o), page) = Without(p, G \cup {page, o})
    <3>1. PoolFree(w.pool, o) = Without(w.pool, {o}) /\ IsPool(Without(w.pool, {o}))
      BY <2>10, PoolFreeIs, WithoutFacts
    <3>2. PoolFree(PoolFree(w.pool, o), page) = Without(Without(w.pool, {o}), {page})
      BY <3>1, PoolFreeIs
    <3>3. Without(Without(Without(p, G), {o}), {page}) = Without(p, (G \cup {o}) \cup {page})
      <4>1. Without(Without(p, G), {o}) = Without(p, G \cup {o})
        BY WithoutTwice
      <4>2. Without(Without(p, G \cup {o}), {page}) = Without(p, (G \cup {o}) \cup {page})
        BY WithoutTwice
      <4> QED
        BY <4>1, <4>2
    <3>4. (G \cup {o}) \cup {page} = G \cup {page, o}
      OBVIOUS
    <3> QED
      BY <1>2, <3>2, <3>3, <3>4
  <2> QED
    BY <2>8, <2>11, <2>12 DEF w
<1>4. CASE ~ k < n
  <2>1. w.page = NULL
    BY <1>2, <1>4
  <2>2. FreePage(w, turn) = w
    BY <2>1 DEF FreePage
  <2>3. k >= n /\ k+1 >= n /\ k+1 \in Nat
    BY <1>1, <1>4
  <2>4. Gone(trail, k) = Gone(trail, k+1)
    <3> HIDE DEF trail
    <3> QED
      BY <1>1, <2>3, GoneFacts
  <2>5. Walk(p, trail, k+1) = w
    BY <1>4, <2>3, <2>4 DEF Walk
  <2> QED
    BY <2>2, <2>5
<1> QED
  BY <1>3, <1>4

\* The blocks of a slab are counted by its pages.
LEMMA BlocksCount ==
    ASSUME NEW s \in Block, NEW trail \in Seq(Block \X Block), Apart(s, trail)
    PROVE  /\ IsFiniteSet(Blocks(s, trail))
           /\ Cardinality(Blocks(s, trail)) = 1 + 2 * Len(trail)
           /\ Len(trail) =< BLOCKS
<1> DEFINE n == Len(trail)
           S == 1 .. n
           f == [i \in S |-> trail[i][1]]
           g == [i \in S |-> trail[i][2]]
           P == PageBlocks(trail)
           O == ObjectBlocks(trail)
<1>1. n \in Nat /\ DOMAIN trail = S
  OBVIOUS
<1>2. IsFiniteSet(S) /\ Cardinality(S) = n
  BY <1>1, FS_Interval
<1>3. f \in Bijection(S, P)
  BY <1>1 DEF Bijection, Injection, Surjection, IsInjective, Apart, PageBlocks
<1>4. g \in Bijection(S, O)
  BY <1>1 DEF Bijection, Injection, Surjection, IsInjective, Apart, ObjectBlocks
<1>5. P \subseteq Block
  BY <1>1 DEF PageBlocks
<1>6. P \cap O = {} /\ s \notin P \cup O
  BY <1>1 DEF Apart, PageBlocks, ObjectBlocks
<1>7. Blocks(s, trail) = (P \cup O) \cup {s}
  BY DEF Blocks
<1> HIDE DEF f, g, S, n, P, O
<1>8. IsFiniteSet(P) /\ Cardinality(P) = n
  BY <1>2, <1>3, FS_Bijection DEF ExistsBijection
<1>9. IsFiniteSet(O) /\ Cardinality(O) = n
  BY <1>2, <1>4, FS_Bijection DEF ExistsBijection
<1>10. IsFiniteSet(P \cup O) /\ Cardinality(P \cup O) = n + n
  <2>1. IsFiniteSet(P \cup O)
        /\ Cardinality(P \cup O) = Cardinality(P) + Cardinality(O) - Cardinality(P \cap O)
    BY <1>8, <1>9, FS_Union
  <2>2. Cardinality(P \cap O) = 0
    BY <1>6, FS_EmptySet
  <2> QED
    BY <1>1, <1>8, <1>9, <2>1, <2>2
<1>11. IsFiniteSet((P \cup O) \cup {s}) /\ Cardinality((P \cup O) \cup {s}) = n + n + 1
  BY <1>6, <1>10, FS_AddElement
<1>12. n =< BLOCKS
  <2>1. BLOCKS \in Nat /\ 1 \in Int
    BY SlabAssumption
  <2>2. IsFiniteSet(Block) /\ Cardinality(Block) = BLOCKS
    BY <2>1, FS_Interval DEF Block
  <2> QED
    BY <1>5, <1>8, <2>2, FS_Subset
<1> QED
  BY <1>1, <1>7, <1>11, <1>12 DEF n

\* The loop ends with the last page: a slab has no more pages than turns.
LEMMA DestroyIs ==
    ASSUME NEW s, NEW slab, NEW H, NEW p, IsPool(p), Sound(s, slab, H, p.mem)
    PROVE  PoolFree(FoldLeft(FreePage, [page |-> slab.pages, pool |-> p],
                             [turn \in Block |-> turn]).pool, s)
             = Without(p, Blocks(s, slab.trail))
<1> DEFINE trail == slab.trail
           base == [page |-> slab.pages, pool |-> p]
           S == 1 .. BLOCKS
           P(g) == g = [r \in SUBSET S |->
                          IF r = {} THEN base
                          ELSE FreePage(g[r \ {Max(r)}], [turn \in Block |-> turn][Max(r)])]
           h == [r \in SUBSET S |-> Walk(p, trail, Cardinality(r))]
<1>1. FoldLeft(FreePage, base, [turn \in Block |-> turn]) = (CHOOSE g : P(g))[S]
  <2>1. DOMAIN [turn \in Block |-> turn] = S
    BY DEF Block
  <2> QED
    BY <2>1 DEF FoldLeft, MapThenFoldSet
<1>2. BLOCKS \in Nat /\ IsFiniteSet(S) /\ Cardinality(S) = BLOCKS
  <2>1. BLOCKS \in Nat /\ 1 \in Int
    BY SlabAssumption
  <2> QED
    BY <2>1, FS_Interval
<1>3. ASSUME NEW r \in SUBSET S, r # {}
      PROVE  /\ Max(r) \in r /\ r \ {Max(r)} \in SUBSET S
             /\ \A turn : FreePage(h[r \ {Max(r)}], turn) = h[r]
  <2> DEFINE x == Max(r)
             q == r \ {x}
  <2>1. x \in r
    BY <1>2, <1>3, Extremes
  <2>2. q \in SUBSET S
    OBVIOUS
  <2> HIDE DEF x
  <2>3. /\ Cardinality(q) \in Nat /\ Cardinality(r) = Cardinality(q) + 1
    <3>1. IsFiniteSet(r)
      BY <1>2, FS_Subset
    <3>2. IsFiniteSet(q) /\ Cardinality(q) = Cardinality(r) - 1
      BY <2>1, <3>1, FS_RemoveElement
    <3>3. Cardinality(q) \in Nat /\ Cardinality(r) \in Nat
      BY <3>1, <3>2, FS_CardinalityType
    <3> QED
      BY <3>2, <3>3
  <2>4. h[q] = Walk(p, trail, Cardinality(q)) /\ h[r] = Walk(p, trail, Cardinality(r))
    BY <2>2
  <2> HIDE DEF q, h
  <2>5. \A turn : FreePage(Walk(p, trail, Cardinality(q)), turn)
                    = Walk(p, trail, Cardinality(q) + 1)
    <3> DEFINE k == Cardinality(q)
    <3>1. k \in Nat /\ Sound(s, slab, H, p.mem) /\ IsPool(p)
      BY <2>3
    <3> HIDE DEF k
    <3>2. \A turn : FreePage(Walk(p, slab.trail, k), turn) = Walk(p, slab.trail, k+1)
      BY <3>1, WalkStep
    <3> QED
      BY <3>2 DEF k
  <2>6. \A turn : FreePage(h[q], turn) = h[r]
    BY <2>3, <2>4, <2>5
  <2> QED
    BY <2>1, <2>2, <2>6 DEF x, q
<1>4. trail \in Seq(Block \X Block) /\ s \in Block /\ Apart(s, trail)
      /\ Linked(slab.pages, trail, p.mem) /\ Len(trail) \in Nat
  BY SoundFacts, TrailFacts DEF Sound
<1>5. h[{}] = base
  <2>1. h[{}] = Walk(p, trail, 0)
    BY FS_EmptySet
  <2>2. (IF 0 < Len(trail) THEN At(trail[Len(trail) - 0][1]) ELSE NULL) = slab.pages
    BY <1>4 DEF Linked, Last
  <2>3. Without(p, {}) = p
    <3>1. p = [taken |-> p.taken, mem |-> p.mem] /\ p.mem \in [Address -> Word]
      BY DEF IsPool
    <3>2. [a \in Address |-> IF a[1] \in {} THEN Unknown ELSE p.mem[a]] = p.mem
      BY <3>1
    <3> QED
      BY <3>1, <3>2 DEF Without
  <2>4. Gone(trail, 0) = {}
    BY <1>4, GoneFacts
  <2>5. Walk(p, trail, 0)
          = [page |-> IF 0 < Len(trail) THEN At(trail[Len(trail) - 0][1]) ELSE NULL,
             pool |-> Without(p, Gone(trail, 0))]
    BY DEF Walk
  <2> HIDE DEF h, trail
  <2> QED
    BY <2>1, <2>2, <2>3, <2>4, <2>5
<1>6. P(h)
  <2>1. \A r \in SUBSET S :
           h[r] = IF r = {} THEN base
                  ELSE FreePage(h[r \ {Max(r)}], [turn \in Block |-> turn][Max(r)])
    <3> HIDE DEF h, base
    <3> QED
      BY <1>3, <1>5
  <2>2. h = [r \in SUBSET S |-> h[r]]
    OBVIOUS
  <2> HIDE DEF h, base
  <2> QED
    BY <2>1, <2>2
<1> DEFINE g == CHOOSE g : P(g)
<1>7. P(g)
  BY <1>6
<1>8. g[{}] = base
  BY <1>7
<1>9. \A r \in SUBSET S : r # {} =>
         g[r] = FreePage(g[r \ {Max(r)}], [turn \in Block |-> turn][Max(r)])
  BY <1>7
<1> DEFINE F == {r \in SUBSET S : g[r] = h[r]}
<1> HIDE DEF g, h, base
<1>10. {} \in F
  BY <1>5, <1>8
<1>11. ASSUME NEW r \in SUBSET S, r # {}, \A x \in r : r \ {x} \in F PROVE r \in F
  <2>1. g[r \ {Max(r)}] = h[r \ {Max(r)}]
    BY <1>3, <1>11
  <2> QED
    BY <1>3, <1>9, <1>11, <2>1
<1> HIDE DEF F
<1>12. SUBSET S \subseteq F
  <2> HIDE DEF S
  <2> QED
    BY <1>2, <1>10, <1>11, FiniteSet
<1>13. g[S] = Walk(p, trail, BLOCKS)
  <2>1. g[S] = h[S]
    BY <1>12 DEF F
  <2>2. h[S] = Walk(p, trail, Cardinality(S))
    BY DEF h
  <2> HIDE DEF S
  <2> QED
    BY <1>2, <2>1, <2>2
<1>14. Walk(p, trail, BLOCKS).pool
         = Without(p, PageBlocks(trail) \cup ObjectBlocks(trail))
  <2>1. BLOCKS >= Len(trail)
    BY <1>2, <1>4, BlocksCount
  <2>2. Gone(trail, BLOCKS) = PageBlocks(trail) \cup ObjectBlocks(trail)
    BY <1>2, <1>4, <2>1, GoneFacts
  <2> QED
    BY <2>2 DEF Walk
<1>15. Without(Without(p, PageBlocks(trail) \cup ObjectBlocks(trail)), {s})
         = Without(p, Blocks(s, trail))
  <2>1. (PageBlocks(trail) \cup ObjectBlocks(trail)) \cup {s} = Blocks(s, trail)
    BY DEF Blocks
  <2>2. Without(Without(p, PageBlocks(trail) \cup ObjectBlocks(trail)), {s})
          = Without(p, (PageBlocks(trail) \cup ObjectBlocks(trail)) \cup {s})
    BY WithoutTwice
  <2> QED
    BY <2>1, <2>2
<1>16. PoolFree(Without(p, PageBlocks(trail) \cup ObjectBlocks(trail)), s)
         = Without(Without(p, PageBlocks(trail) \cup ObjectBlocks(trail)), {s})
  <2> DEFINE q == Without(p, PageBlocks(trail) \cup ObjectBlocks(trail))
  <2>1. IsPool(q)
    BY WithoutFacts
  <2> HIDE DEF q
  <2>2. PoolFree(q, s) = Without(q, {s})
    BY <2>1, PoolFreeIs
  <2> QED
    BY <2>2 DEF q
<1> QED
  <2>1. FoldLeft(FreePage, [page |-> slab.pages, pool |-> p],
                 [turn \in Block |-> turn]).pool
          = Without(p, PageBlocks(trail) \cup ObjectBlocks(trail))
    BY <1>1, <1>13, <1>14 DEF g, base
  <2> QED
    BY <1>15, <1>16, <2>1

-------------------------------------------------------------------------------
(* The steps. *)

\* The words of the blocks that are taken are as they were.
Kept(p, q) == \A a \in Address : a[1] \in p.taken => q.mem[a] = p.mem[a]

\* A call that takes nothing and writes nowhere.
LEMMA OwnedFrame ==
    ASSUME NEW p, NEW ss, NEW h, Owned(p, ss, h), NEW q, IsPool(q),
           q.taken = p.taken, Kept(p, q)
    PROVE  Owned(q, ss, h)
<1>1. ASSUME NEW s \in DOMAIN ss PROVE Sound(s, ss[s], HeldIn(h, s), q.mem)
  <2>1. Sound(s, ss[s], HeldIn(h, s), p.mem) /\ Blocks(s, ss[s].trail) \subseteq p.taken
    BY OwnBlocks
  <2>2. \A a \in Address : a[1] \in Blocks(s, ss[s].trail) => q.mem[a] = p.mem[a]
    BY <2>1 DEF Kept
  <2>3. DOMAIN q.mem = Address
    BY DEF IsPool
  <2> QED
    BY <2>1, <2>2, <2>3, SoundFrame
<1> QED
  BY <1>1 DEF Owned

\* The objects in use are in the blocks of their slabs.
LEMMA HeldFacts ==
    ASSUME NEW p, NEW ss, NEW h, Owned(p, ss, h), NEW x \in h
    PROVE  /\ x.slab \in DOMAIN ss /\ x.at \in Address /\ x.at \in HeldIn(h, x.slab)
           /\ x = [slab |-> x.slab, at |-> x.at]
           /\ x.at[1] \in Blocks(x.slab, ss[x.slab].trail) /\ x.at[1] \in p.taken
<1>1. x \in [slab : DOMAIN ss, at : Address]
  BY DEF Owned
<1>2. x.at \in HeldIn(h, x.slab)
  BY DEF HeldIn
<1> DEFINE s == x.slab
           slab == ss[s]
<1>3. s \in DOMAIN ss /\ Sound(s, slab, HeldIn(h, s), p.mem)
      /\ Blocks(s, slab.trail) \subseteq p.taken
  BY <1>1, OwnBlocks
<1>4. x.at \in ObjectsIn(slab.trail, slab.objects_per_slab)
  BY <1>2, <1>3 DEF Sound
<1>5. slab.trail \in Seq(Block \X Block) /\ slab.objects_per_slab \in 1 .. SLOTS
  BY <1>3, SoundFacts
<1>6. x.at[1] \in ObjectBlocks(slab.trail)
  BY <1>4, <1>5, TrailFacts
<1> QED
  BY <1>1, <1>2, <1>3, <1>6 DEF Blocks

\* No object is in use in two slabs, and none in use is free.
LEMMA FreeObjectApart ==
    ASSUME NEW p, NEW ss, NEW h, Owned(p, ss, h), NEW s \in DOMAIN ss,
           NEW a \in ObjectsIn(ss[s].trail, ss[s].objects_per_slab) \ HeldIn(h, s)
    PROVE  a \in Address /\ \A y \in h : y.at # a
<1> DEFINE slab == ss[s]
<1>1. slab.trail \in Seq(Block \X Block) /\ slab.objects_per_slab \in 1 .. SLOTS
  BY OwnBlocks, SoundFacts
<1>2. a \in Address /\ a[1] \in ObjectBlocks(slab.trail)
  BY <1>1, TrailFacts
<1>3. a[1] \in Blocks(s, slab.trail)
  BY <1>2 DEF Blocks
<1>4. ASSUME NEW y \in h PROVE y.at # a
  <2>1. /\ y.slab \in DOMAIN ss /\ y.at \in HeldIn(h, y.slab)
        /\ y.at[1] \in Blocks(y.slab, ss[y.slab].trail)
    BY HeldFacts
  <2>2. CASE y.slab = s
    BY <2>1, <2>2
  <2>3. CASE y.slab # s
    <3>1. Blocks(y.slab, ss[y.slab].trail) \cap Blocks(s, slab.trail) = {}
      BY <2>1, <2>3, OwnBlocks
    <3> QED
      BY <1>3, <2>1, <3>1
  <2> QED
    BY <2>2, <2>3
<1> QED
  BY <1>2, <1>4

\* The slab t that follows slab, with a free object, in the pool q.
Grown(p, ss, h, s, t, q) ==
    /\ Owned(q, With(ss, s, t), h) /\ Kept(p, q)
    /\ t.chain # <<>> /\ t.used_objects = ss[s].used_objects

\* A page that is granted.
LEMMA GrantedGrown ==
    ASSUME NEW p, NEW ss, NEW h, Owned(p, ss, h), NEW s \in DOMAIN ss,
           ss[s].chain = <<>>, NEW n, NEW page \in Block, NEW o \in Block,
           Granted(p, ss[s], n, page, o)
    PROVE  Grown(p, ss, h, s, n.slab, n.pool)
<1> DEFINE slab == ss[s]
           t  == WithPage(slab, page, o)
           m2 == WithPageMem(p.mem, slab, page, o)
           D  == Blocks(s, t.trail)
<1>1. /\ Sound(s, slab, HeldIn(h, s), p.mem) /\ Blocks(s, slab.trail) \subseteq p.taken
      /\ IsPool(p) /\ IsMem(p.mem)
  BY OwnBlocks DEF Owned, IsPool, IsMem
<1>2. /\ n.slab = t /\ page # o /\ page \notin p.taken /\ o \notin p.taken
      /\ n.pool = [taken |-> p.taken \cup {page, o}, mem |-> m2]
  BY DEF Granted
<1>3. {page, o} \cap Blocks(s, slab.trail) = {}
  BY <1>1, <1>2
<1>4. /\ Sound(s, t, HeldIn(h, s), m2) /\ IsMem(m2) /\ t.chain # <<>>
      /\ t.trail = Append(slab.trail, <<page, o>>)
      /\ t.used_objects = slab.used_objects
      /\ \A a \in Address : a[1] # page /\ a[1] # o => m2[a] = p.mem[a]
  <2>1. Adds(s, slab, HeldIn(h, s), p.mem, page, o, t, m2)
    BY <1>1, <1>2, <1>3, PageAdded
  <2> QED
    BY <2>1 DEF Adds
<1>5. D = Blocks(s, slab.trail) \cup {page, o}
  <2>1. slab.trail \in Seq(Block \X Block) /\ slab.objects_per_slab \in 1 .. SLOTS
        /\ s \in Block
    BY <1>1, SoundFacts DEF Sound
  <2>2. Longer(slab.trail, t.trail, page, o, s, slab.objects_per_slab)
    BY <1>4, <2>1, TrailAppend
  <2> QED
    BY <2>2 DEF Longer
<1> HIDE DEF t, m2
<1>6. /\ n.pool.taken = p.taken \cup {page, o} /\ n.pool.mem = m2 /\ IsPool(n.pool)
  BY <1>1, <1>2, <1>4 DEF IsPool, IsMem
<1>7. Kept(p, n.pool)
  BY <1>2, <1>4, <1>6 DEF Kept
<1>8. Owned(n.pool, With(ss, s, t), h)
  <2>1. Sound(s, t, HeldIn(h, s), n.pool.mem)
    BY <1>4, <1>6
  <2>2. n.pool.taken = p.taken \cup D
    BY <1>1, <1>5, <1>6
  <2>3. /\ Blocks(s, slab.trail) \subseteq D
        /\ D \cap p.taken \subseteq Blocks(s, slab.trail)
    BY <1>2, <1>5
  <2>4. \A a \in Address : a[1] \in p.taken /\ a[1] \notin D => n.pool.mem[a] = p.mem[a]
    BY <1>7 DEF Kept
  <2>5. h \subseteq [slab : DOMAIN ss \cup {s}, at : Address]
    BY DEF Owned
  <2> QED
    BY <1>6, <2>1, <2>2, <2>3, <2>4, <2>5, OwnedWith
<1> QED
  BY <1>2, <1>4, <1>7, <1>8 DEF Grown

\* What an allocation pops from.
LEMMA StockedIs ==
    ASSUME IInv, NEW s \in DOMAIN slabs, NEW n \in Stocked(s)
    PROVE  \/ /\ n.ok = FALSE /\ Owned(n.pool, slabs, held) /\ Kept(pool, n.pool)
           \/ n.ok = TRUE /\ Grown(pool, slabs, held, s, n.slab, n.pool)
<1> DEFINE slab == slabs[s]
<1>1. /\ Owned(pool, slabs, held) /\ IsPool(pool)
      /\ Chained(slab.list, slab.chain, pool.mem)
  BY OwnBlocks DEF IInv, Owned, Sound
<1>2. slab.list.head = NULL <=> slab.chain = <<>>
  BY <1>1, ChainedFacts
<1>3. CASE slab.list.head = NULL
  <2>1. n \in NewPage(pool, slab)
    BY <1>3 DEF Stocked
  <2>2. CASE Refused(pool, slab, n)
    BY <1>1, <2>2, OwnedFrame DEF Refused, Kept
  <2>3. CASE \E page, o \in Block : Granted(pool, slab, n, page, o)
    BY <1>1, <1>2, <1>3, <2>3, GrantedGrown DEF Granted
  <2> QED
    BY <1>1, <2>1, <2>2, <2>3, NewPageIs
<1>4. CASE slab.list.head # NULL
  <2>1. n = [ok |-> TRUE, pool |-> pool, slab |-> slab]
    BY <1>4 DEF Stocked
  <2>2. With(slabs, s, slab) = slabs
    <3>1. slabs = [u \in DOMAIN slabs |-> slabs[u]]
      BY DEF IInv, Owned
    <3>2. DOMAIN slabs \cup {s} = DOMAIN slabs
      OBVIOUS
    <3>3. With(slabs, s, slab) = [u \in DOMAIN slabs |-> slabs[u]]
      BY <3>2 DEF With
    <3> QED
      BY <3>1, <3>3
  <2>3. Kept(pool, pool)
    BY DEF Kept
  <2> QED
    BY <1>1, <1>2, <1>4, <2>1, <2>2, <2>3 DEF Grown
<1> QED
  BY <1>3, <1>4

\* An object leaves its slab.
Pops(p, ss, h, s, t, a) ==
    /\ Owned(p, With(ss, s, t), h \cup {[slab |-> s, at |-> a]})
    /\ a \in Address /\ \A y \in h : y.at # a
    /\ t.used_objects = ss[s].used_objects + 1

\* An allocation keeps the invariant, and what it returns is nobody's.
LEMMA PopOwned ==
    ASSUME NEW p, NEW ss, NEW h, Owned(p, ss, h), NEW s \in DOMAIN ss,
           ss[s].chain # <<>>
    PROVE  Pops(p, ss, h, s, PoppedSlab(ss[s], p.mem), L!Top(ss[s].list))
<1> DEFINE a == L!Top(ss[s].list)
           slab == ss[s]
           t == PoppedSlab(slab, p.mem)
           H == HeldIn(h, s)
           x == [slab |-> s, at |-> a]
           h2 == h \cup {x}
<1>1. Sound(s, slab, H, p.mem) /\ Blocks(s, slab.trail) \subseteq p.taken
  BY OwnBlocks
<1>2. /\ Sound(s, t, H \cup {a}, p.mem) /\ t.trail = slab.trail
      /\ t.used_objects = slab.used_objects + 1
      /\ a \in ObjectsIn(slab.trail, slab.objects_per_slab) \ H
  BY <1>1, ObjectPopped
<1>3. a \in Address /\ \A y \in h : y.at # a
  BY <1>2, FreeObjectApart
<1> HIDE DEF t
<1>4. HeldIn(h2, s) = H \cup {a}
  <2>1. x.slab = s /\ x.at = a
    OBVIOUS
  <2> HIDE DEF x, a
  <2> QED
    BY <2>1 DEF HeldIn
<1>5. h2 \subseteq [slab : DOMAIN ss \cup {s}, at : Address]
  BY <1>3 DEF Owned
<1>6. \A y : y.slab # s => (y \in h <=> y \in h2)
  OBVIOUS
<1>7. IsPool(p)
  BY DEF Owned
<1> HIDE DEF h2, H
<1>8. Owned(p, With(ss, s, t), h2)
  <2>1. Sound(s, t, HeldIn(h2, s), p.mem)
    BY <1>2, <1>4
  <2>2. p.taken = p.taken \cup Blocks(s, t.trail)
    BY <1>1, <1>2
  <2>3. /\ Blocks(s, slab.trail) \subseteq Blocks(s, t.trail)
        /\ Blocks(s, t.trail) \cap p.taken \subseteq Blocks(s, slab.trail)
    BY <1>2
  <2> QED
    BY <1>5, <1>6, <1>7, <2>1, <2>2, <2>3, OwnedWith
<1> QED
  BY <1>2, <1>3, <1>8 DEF t, h2, Pops

\* What an allocation does when it returns an object, and when it does not.
Given(s, a) ==
    /\ IInv' /\ Kept(pool, pool') /\ a \in Address
    /\ held' = held \cup {[slab |-> s, at |-> a]} /\ \A y \in held : y.at # a
    /\ DOMAIN slabs' = DOMAIN slabs
    /\ slabs'[s].used_objects = slabs[s].used_objects + 1
    /\ \A u \in DOMAIN slabs : u # s => slabs'[u] = slabs[u]

NotGiven == IInv' /\ Kept(pool, pool') /\ UNCHANGED <<slabs, held>>

\* bc_allocators_slab_allocate returns an object or changes no slab.
LEMMA AllocateIs ==
    ASSUME IInv, NEW s \in DOMAIN slabs, Allocate(s)
    PROVE  NotGiven \/ \E a \in Address : Given(s, a)
<1>1. PICK n \in Stocked(s) :
         /\ pool' = n.pool
         /\ IF ~n.ok THEN UNCHANGED <<slabs, held>> ELSE
            /\ held' = held \cup {[slab |-> s, at |-> L!Top(n.slab.list)]}
            /\ slabs' = [slabs EXCEPT ![s] =
                   [n.slab EXCEPT !.list = L!Popped(n.slab.list, n.pool.mem),
                                  !.chain = L!PoppedChain(n.slab.list, n.slab.chain),
                                  !.used_objects = n.slab.used_objects + 1]]
  BY DEF Allocate
<1>2. CASE n.ok = FALSE /\ Owned(n.pool, slabs, held) /\ Kept(pool, n.pool)
  BY <1>1, <1>2 DEF NotGiven, IInv
<1>3. CASE n.ok = TRUE /\ Grown(pool, slabs, held, s, n.slab, n.pool)
  <2> DEFINE t == n.slab
             q == n.pool
             w == With(slabs, s, t)
             a == L!Top(t.list)
             t2 == PoppedSlab(t, q.mem)
             x == [slab |-> s, at |-> a]
  <2>1. /\ Owned(q, w, held) /\ Kept(pool, q)
        /\ t.chain # <<>> /\ t.used_objects = slabs[s].used_objects
    BY <1>3 DEF Grown
  <2>2. /\ DOMAIN w = DOMAIN slabs /\ w[s] = t
        /\ \A u \in DOMAIN slabs : u # s => w[u] = slabs[u]
    BY DEF With
  <2> HIDE DEF w
  <2>3. /\ Owned(q, With(w, s, t2), held \cup {x})
        /\ a \in Address /\ \A y \in held : y.at # a
        /\ t2.used_objects = t.used_objects + 1
    <3>1. Pops(q, w, held, s, t2, a)
      BY <2>1, <2>2, PopOwned
    <3> QED
      BY <2>2, <3>1 DEF Pops
  <2>4. slabs' = [slabs EXCEPT ![s] = t2] /\ held' = held \cup {x} /\ pool' = q
    BY <1>1, <1>3 DEF PoppedSlab
  <2> HIDE DEF t2, t, q
  <2>5. slabs' = With(w, s, t2)
    <3>1. slabs = [u \in DOMAIN slabs |-> slabs[u]]
      BY DEF IInv, Owned
    <3>2. slabs' = [u \in DOMAIN slabs |-> IF u = s THEN t2 ELSE slabs[u]]
      BY <2>4, <3>1
    <3>3. DOMAIN w \cup {s} = DOMAIN slabs
      BY <2>2
    <3>4. With(w, s, t2) = [u \in DOMAIN slabs |-> IF u = s THEN t2 ELSE w[u]]
      BY <3>3 DEF With
    <3> QED
      BY <2>2, <3>2, <3>4
  <2>6. IInv'
    BY <2>3, <2>4, <2>5 DEF IInv
  <2>7. /\ DOMAIN slabs' = DOMAIN slabs /\ slabs'[s] = t2
        /\ \A u \in DOMAIN slabs : u # s => slabs'[u] = slabs[u]
    BY <2>4
  <2>8. Given(s, a)
    BY <2>1, <2>3, <2>4, <2>6, <2>7 DEF Given
  <2> QED
    BY <2>3, <2>8
<1> QED
  BY <1>2, <1>3, StockedIs

\* What a free does.
Freed(x) ==
    /\ IInv' /\ held' = held \ {x}
    /\ \A a \in Address : a # x.at => pool'.mem[a] = pool.mem[a]
    /\ DOMAIN slabs' = DOMAIN slabs
    /\ slabs'[x.slab].used_objects = slabs[x.slab].used_objects - 1
    /\ \A u \in DOMAIN slabs : u # x.slab => slabs'[u] = slabs[u]

\* bc_allocators_slab_free takes one object back.
LEMMA FreeIs ==
    ASSUME IInv, NEW x \in held, Free(x)
    PROVE  Freed(x)
<1> DEFINE s == x.slab
           slab == slabs[s]
           H == HeldIn(held, s)
           t == PushedSlab(slab, x.at)
           m2 == L!PushMem(slab.list, pool.mem, x.at)
<1>1. /\ Owned(pool, slabs, held) /\ IsPool(pool)
      /\ slabs = [u \in DOMAIN slabs |-> slabs[u]]
  BY DEF IInv, Owned
<1>2. /\ s \in DOMAIN slabs /\ x.at \in Address /\ x.at \in H
      /\ x = [slab |-> s, at |-> x.at]
      /\ x.at[1] \in Blocks(s, slab.trail) /\ x.at[1] \in pool.taken
  BY <1>1, HeldFacts
<1>3. Sound(s, slab, H, pool.mem) /\ Blocks(s, slab.trail) \subseteq pool.taken
  BY <1>1, <1>2, OwnBlocks
<1>4. /\ Sound(s, t, H \ {x.at}, m2) /\ t.trail = slab.trail
      /\ t.used_objects = slab.used_objects - 1 /\ m2[x.at] \in Word
      /\ \A a \in Address : a # x.at => m2[a] = pool.mem[a]
  <2>1. Pushes(s, slab, H, pool.mem, x.at, t, m2)
    BY <1>2, <1>3, ObjectPushed
  <2> QED
    BY <2>1 DEF Pushes
<1>5. /\ pool' = [pool EXCEPT !.mem = m2] /\ held' = held \ {x}
      /\ slabs' = [slabs EXCEPT ![s] = t]
  BY DEF Free, PushedSlab
<1>6. m2 \in [Address -> Word]
  <2>1. DOMAIN m2 = Address /\ m2 = [a \in DOMAIN m2 |-> m2[a]]
    <3>1. pool.mem \in [Address -> Word]
      BY <1>1 DEF IsPool
    <3> QED
      BY <3>1 DEF L!PushMem
  <2>2. ASSUME NEW a \in Address PROVE m2[a] \in Word
    BY <1>1, <1>4 DEF IsPool
  <2> HIDE DEF m2
  <2> QED
    BY <2>1, <2>2
<1> HIDE DEF m2, t
<1>7. pool'.mem = m2 /\ pool'.taken = pool.taken /\ IsPool(pool')
  BY <1>1, <1>5, <1>6 DEF IsPool
<1>8. HeldIn(held', s) = H \ {x.at}
  <2>1. \A y \in held : y = [slab |-> y.slab, at |-> y.at]
    BY <1>1, HeldFacts
  <2> QED
    BY <1>2, <1>5, <2>1 DEF HeldIn
<1>9. slabs' = With(slabs, s, t)
  <2>1. DOMAIN slabs \cup {s} = DOMAIN slabs
    BY <1>2
  <2>2. With(slabs, s, t) = [u \in DOMAIN slabs |-> IF u = s THEN t ELSE slabs[u]]
    BY <2>1 DEF With
  <2> QED
    BY <1>1, <1>5, <2>2
<1>10. Owned(pool', With(slabs, s, t), held')
  <2>1. Sound(s, t, HeldIn(held', s), pool'.mem)
    BY <1>4, <1>7, <1>8
  <2>2. pool'.taken = pool.taken \cup Blocks(s, t.trail)
    BY <1>3, <1>4, <1>7
  <2>3. /\ Blocks(s, slab.trail) \subseteq Blocks(s, t.trail)
        /\ Blocks(s, t.trail) \cap pool.taken \subseteq Blocks(s, slab.trail)
    BY <1>4
  <2>4. \A a \in Address : a[1] \in pool.taken /\ a[1] \notin Blocks(s, t.trail) =>
           pool'.mem[a] = pool.mem[a]
    BY <1>2, <1>4, <1>7
  <2>5. held' \subseteq [slab : DOMAIN slabs \cup {s}, at : Address]
    BY <1>1, <1>5 DEF Owned
  <2>6. \A y : y.slab # s => (y \in held <=> y \in held')
    BY <1>5
  <2> HIDE DEF s
  <2> QED
    BY <1>1, <1>2, <1>7, <2>1, <2>2, <2>3, <2>4, <2>5, <2>6, OwnedWith
<1>11. /\ DOMAIN slabs' = DOMAIN slabs /\ slabs'[s] = t
       /\ \A u \in DOMAIN slabs : u # s => slabs'[u] = slabs[u]
  BY <1>2, <1>5
<1> QED
  BY <1>4, <1>5, <1>7, <1>9, <1>10, <1>11 DEF Freed, IInv

\* What a write of the program does.
Written(x, v) ==
    /\ IInv' /\ UNCHANGED <<slabs, held>> /\ pool'.mem[x.at] = L!Data(v)
    /\ \A a \in Address : a # x.at => pool'.mem[a] = pool.mem[a]

\* The program writes in an object that is its own.
LEMMA WriteIs ==
    ASSUME IInv, NEW x \in held, NEW v \in Value, Write(x, v)
    PROVE  Written(x, v)
<1>1. /\ Owned(pool, slabs, held) /\ IsPool(pool)
  BY DEF IInv, Owned
<1>2. /\ x.slab \in DOMAIN slabs /\ x.at \in Address /\ x.at \in HeldIn(held, x.slab)
      /\ x.at[1] \in Blocks(x.slab, slabs[x.slab].trail)
  BY <1>1, HeldFacts
<1>3. /\ pool' = [pool EXCEPT !.mem[x.at] = L!Data(v)] /\ UNCHANGED <<slabs, held>>
  BY DEF Write
<1>4. L!Data(v) \in Word
  BY DEF Word
<1>5. /\ IsPool(pool') /\ pool'.taken = pool.taken /\ pool'.mem[x.at] = L!Data(v)
      /\ \A a \in Address : a # x.at => pool'.mem[a] = pool.mem[a]
  BY <1>1, <1>2, <1>3, <1>4 DEF IsPool
<1>6. ASSUME NEW s \in DOMAIN slabs
      PROVE  Sound(s, slabs[s], HeldIn(held, s), pool'.mem)
  <2>1. Sound(s, slabs[s], HeldIn(held, s), pool.mem)
    BY <1>1, OwnBlocks
  <2>2. \A a \in Address \ HeldIn(held, s) :
           a[1] \in Blocks(s, slabs[s].trail) => a # x.at
    <3>1. CASE s = x.slab
      BY <1>2, <3>1
    <3>2. CASE s # x.slab
      <4>1. Blocks(x.slab, slabs[x.slab].trail) \cap Blocks(s, slabs[s].trail) = {}
        BY <1>1, <1>2, <3>2, OwnBlocks
      <4> QED
        BY <1>2, <4>1
    <3> QED
      BY <3>1, <3>2
  <2>3. DOMAIN pool'.mem = Address
    BY <1>5 DEF IsPool
  <2>4. \A a \in Address \ HeldIn(held, s) :
           a[1] \in Blocks(s, slabs[s].trail) => pool'.mem[a] = pool.mem[a]
    BY <1>5, <2>2
  <2> QED
    BY <2>1, <2>3, <2>4, SoundFrame
<1>7. Owned(pool', slabs, held)
  BY <1>1, <1>5, <1>6 DEF Owned
<1> QED
  BY <1>3, <1>5, <1>7 DEF Written, IInv

\* What a destruction does.
Ended(s) ==
    /\ IInv' /\ held' = {x \in held : x.slab # s}
    /\ slabs' = [u \in DOMAIN slabs \ {s} |-> slabs[u]]
    /\ \A x \in held' : pool'.mem[x.at] = pool.mem[x.at]

\* bc_allocators_slab_destroy ends the objects of its slab, and no other.
LEMMA DestroyEnds ==
    ASSUME IInv, NEW s \in DOMAIN slabs, Destroy(s)
    PROVE  Ended(s)
<1> DEFINE D == Blocks(s, slabs[s].trail)
<1>1. /\ Owned(pool, slabs, held) /\ IsPool(pool)
      /\ Sound(s, slabs[s], HeldIn(held, s), pool.mem)
  BY OwnBlocks DEF IInv, Owned
<1>2. /\ pool' = Without(pool, D) /\ held' = {x \in held : x.slab # s}
      /\ slabs' = [u \in DOMAIN slabs \ {s} |-> slabs[u]]
  BY <1>1, DestroyIs DEF Destroy
<1>3. IInv'
  BY <1>1, <1>2, OwnedWithout DEF IInv
<1>4. ASSUME NEW x \in held' PROVE pool'.mem[x.at] = pool.mem[x.at]
  <2>1. x \in held /\ x.slab # s
    BY <1>2
  <2>2. /\ x.slab \in DOMAIN slabs /\ x.at \in Address
        /\ x.at[1] \in Blocks(x.slab, slabs[x.slab].trail)
    BY <1>1, <2>1, HeldFacts
  <2>3. Blocks(x.slab, slabs[x.slab].trail) \cap D = {}
    BY <1>1, <2>1, <2>2, OwnBlocks
  <2>4. \A a \in Address : a[1] \notin D => Without(pool, D).mem[a] = pool.mem[a]
    BY <1>1, WithoutFacts
  <2> HIDE DEF D
  <2> QED
    BY <1>2, <2>2, <2>3, <2>4
<1> QED
  BY <1>2, <1>3, <1>4 DEF Ended

\* What a creation does: a slab more, with no object in use, or nothing.
Made(s) ==
    /\ IInv' /\ Kept(pool, pool') /\ UNCHANGED held
    /\ s \in Block \ DOMAIN slabs /\ DOMAIN slabs' = DOMAIN slabs \cup {s}
    /\ slabs'[s].used_objects = 0
    /\ \A u \in DOMAIN slabs : slabs'[u] = slabs[u]

\* A page is granted to those sizes and counts only whose product fits.
LEMMA CountFits ==
    ASSUME NEW size \in Size, NEW count \in Count, size >= POINTER, count # 0,
           ~Faults(size, count), ObjectBytes(NewSlab(size, count)) # 0
    PROVE  count \in 1 .. SLOTS
<1>1. size \in Nat /\ count \in Nat /\ WRAP \in Nat \ {0}
  BY SlabAssumption
<1>2. ObjectBytes(NewSlab(size, count)) = (count * size) % WRAP
  BY DEF ObjectBytes, NewSlab
<1>3. count * size = size * count /\ size * count \in Nat
  BY <1>1
<1>4. ~ (size * count >= WRAP)
  BY <1>2, <1>3 DEF Faults
<1>5. size * count < WRAP
  BY <1>1, <1>3, <1>4
<1>6. count <= SLOTS
  BY <1>5, SlabAssumption
<1> QED
  BY <1>1, <1>6, SlabAssumption

\* A slab is made of the block of its struct and of a page.
LEMMA GrantedMade ==
    ASSUME NEW p, NEW ss, NEW h, Owned(p, ss, h),
           NEW s \in Block \ p.taken, NEW size \in Size, NEW count \in Count,
           count \in 1 .. SLOTS, NEW p1, IsPool(p1),
           p1 = [taken |-> p.taken \cup {s}, mem |-> p.mem],
           NEW n, NEW page \in Block, NEW o \in Block,
           Granted(p1, NewSlab(size, count), n, page, o)
    PROVE  /\ Owned(n.pool, With(ss, s, n.slab), h) /\ Kept(p, n.pool)
           /\ n.slab.used_objects = 0
<1> DEFINE slab == NewSlab(size, count)
           t  == WithPage(slab, page, o)
           m2 == WithPageMem(p.mem, slab, page, o)
           D  == Blocks(s, t.trail)
<1>1. IsPool(p) /\ IsMem(p.mem)
  BY DEF Owned, IsPool, IsMem
<1>2. /\ Sound(s, slab, {}, p.mem) /\ slab.chain = <<>>
      /\ slab.trail = <<>> /\ slab.used_objects = 0
  BY <1>1, NewSlabSound
<1>3. /\ p1.taken = p.taken \cup {s} /\ p1.mem = p.mem
  OBVIOUS
<1>4. /\ n.slab = t /\ page # o /\ page \notin p.taken \cup {s}
      /\ o \notin p.taken \cup {s}
      /\ n.pool = [taken |-> (p.taken \cup {s}) \cup {page, o}, mem |-> m2]
  BY <1>3 DEF Granted
<1> HIDE DEF slab
<1>5. Blocks(s, slab.trail) = {s}
  BY <1>2 DEF Blocks, PageBlocks, ObjectBlocks
<1>6. {page, o} \cap Blocks(s, slab.trail) = {}
  BY <1>4, <1>5
<1>7. /\ Sound(s, t, {}, m2) /\ IsMem(m2)
      /\ t.trail = Append(slab.trail, <<page, o>>)
      /\ t.used_objects = slab.used_objects
      /\ \A a \in Address : a[1] # page /\ a[1] # o => m2[a] = p.mem[a]
  <2>1. Adds(s, slab, {}, p.mem, page, o, t, m2)
    BY <1>1, <1>2, <1>4, <1>6, PageAdded
  <2> QED
    BY <2>1 DEF Adds
<1> HIDE DEF t, m2
<1>8. D = {s, page, o}
  <2>1. slab.trail \in Seq(Block \X Block) /\ slab.objects_per_slab \in 1 .. SLOTS
        /\ s \in Block
    BY <1>2, SoundFacts
  <2>2. Longer(slab.trail, t.trail, page, o, s, slab.objects_per_slab)
    <3> DEFINE k == slab.objects_per_slab
               r == slab.trail
    <3>1. /\ r \in Seq(Block \X Block) /\ k \in 1 .. SLOTS /\ s \in Block
          /\ page \in Block /\ o \in Block
      BY <2>1
    <3> HIDE DEF k, r
    <3>2. Longer(r, Append(r, <<page, o>>), page, o, s, k)
      BY <3>1, TrailAppend
    <3> QED
      BY <1>7, <3>2 DEF k, r
  <2> QED
    BY <1>5, <2>2 DEF Longer
<1>9. /\ n.pool.taken = p.taken \cup {s, page, o} /\ n.pool.mem = m2 /\ IsPool(n.pool)
  BY <1>1, <1>4, <1>7 DEF IsPool, IsMem
<1>10. Kept(p, n.pool)
  BY <1>4, <1>7, <1>9 DEF Kept
<1>11. s \notin DOMAIN ss
  BY OwnBlocks
<1>12. HeldIn(h, s) = {}
  <2>1. \A x \in h : x.slab \in DOMAIN ss
    BY HeldFacts
  <2> QED
    BY <1>11, <2>1 DEF HeldIn
<1>13. Owned(n.pool, With(ss, s, t), h)
  <2>1. Sound(s, t, HeldIn(h, s), n.pool.mem)
    BY <1>7, <1>9, <1>12
  <2>2. n.pool.taken = p.taken \cup D
    BY <1>8, <1>9
  <2>3. D \cap p.taken = {}
    BY <1>4, <1>8
  <2>4. \A a \in Address : a[1] \in p.taken /\ a[1] \notin D => n.pool.mem[a] = p.mem[a]
    BY <1>10 DEF Kept
  <2>5. h \subseteq [slab : DOMAIN ss \cup {s}, at : Address]
    BY DEF Owned
  <2> QED
    BY <1>9, <1>11, <2>1, <2>2, <2>3, <2>4, <2>5, OwnedWith
<1> QED
  BY <1>2, <1>4, <1>7, <1>10, <1>13

\* Of a creation that fails nothing is left.
LEMMA CreateIs ==
    ASSUME IInv, NEW size \in Size, NEW count \in Count, Create(size, count)
    PROVE  NotGiven \/ \E s \in Block : Made(s)
<1>1. Owned(pool, slabs, held) /\ IsPool(pool)
  BY DEF IInv, Owned
<1>2. PICK g \in PoolAllocate(pool, 7 * POINTER) :
         IF g.ptr = NULL THEN UNCHANGED vars
         ELSE \E n \in NewPage(g.pool, NewSlab(size, count)) :
               /\ pool' = IF n.ok THEN n.pool ELSE PoolFree(n.pool, g.ptr)
               /\ slabs' = IF ~n.ok THEN slabs ELSE
                     [s \in DOMAIN slabs \cup {g.ptr} |->
                         IF s = g.ptr THEN n.slab ELSE slabs[s]]
               /\ UNCHANGED held
  BY DEF Create
<1>3. CASE g.ptr = NULL
  <2>1. UNCHANGED vars
    BY <1>2, <1>3
  <2> QED
    BY <2>1 DEF NotGiven, IInv, vars, Kept
<1>4. CASE g.ptr # NULL
  <2> DEFINE s == g.ptr
             p1 == g.pool
             slab == NewSlab(size, count)
  <2>1. /\ s \in Block \ pool.taken /\ IsPool(p1)
        /\ p1 = [taken |-> pool.taken \cup {s}, mem |-> pool.mem]
    BY <1>1, <1>4, PoolAllocateIs
  <2>2. PICK n \in NewPage(p1, slab) :
               /\ pool' = IF n.ok THEN n.pool ELSE PoolFree(n.pool, s)
               /\ slabs' = IF ~n.ok THEN slabs ELSE With(slabs, s, n.slab)
               /\ UNCHANGED held
    BY <1>2, <1>4 DEF With
  <2>3. CASE Refused(p1, slab, n)
    <3> DEFINE q == Without(n.pool, {s})
    <3>1. /\ n.ok = FALSE /\ IsPool(n.pool) /\ n.pool.taken = pool.taken \cup {s}
          /\ \A a \in Address : a[1] \in pool.taken \cup {s} => n.pool.mem[a] = pool.mem[a]
      BY <2>1, <2>3 DEF Refused
    <3>2. pool' = q /\ slabs' = slabs /\ held' = held
      BY <2>2, <3>1, PoolFreeIs
    <3>3. /\ IsPool(q) /\ q.taken = n.pool.taken \ {s}
          /\ \A a \in Address : a[1] \notin {s} => q.mem[a] = n.pool.mem[a]
      BY <3>1, WithoutFacts
    <3> HIDE DEF q
    <3>4. q.taken = pool.taken /\ Kept(pool, q)
      BY <2>1, <3>1, <3>3 DEF Kept
    <3>5. Owned(q, slabs, held)
      BY <1>1, <3>3, <3>4, OwnedFrame
    <3> QED
      BY <3>2, <3>4, <3>5 DEF NotGiven, IInv
  <2>4. CASE \E page, o \in Block : Granted(p1, slab, n, page, o)
    <3>1. PICK page \in Block, o \in Block : Granted(p1, slab, n, page, o)
      BY <2>4
    <3>2. n.ok = TRUE /\ ObjectBytes(slab) # 0
      BY <3>1 DEF Granted
    <3>3. count \in 1 .. SLOTS
      BY <3>2, CountFits DEF Create
    <3>4. /\ Owned(n.pool, With(slabs, s, n.slab), held) /\ Kept(pool, n.pool)
          /\ n.slab.used_objects = 0
      <4> HIDE DEF s, p1
      <4> QED
        BY <1>1, <2>1, <3>1, <3>3, GrantedMade
    <3>5. pool' = n.pool /\ slabs' = With(slabs, s, n.slab) /\ held' = held
      BY <2>2, <3>2
    <3>6. s \in Block \ DOMAIN slabs
      BY <1>1, <2>1, OwnBlocks
    <3>7. /\ DOMAIN slabs' = DOMAIN slabs \cup {s} /\ slabs'[s] = n.slab
          /\ \A u \in DOMAIN slabs : slabs'[u] = slabs[u]
      BY <3>5, <3>6 DEF With
    <3>8. Made(s)
      BY <3>4, <3>5, <3>6, <3>7 DEF Made, IInv
    <3> QED
      BY <3>6, <3>8
  <2> QED
    BY <2>1, <2>2, <2>3, <2>4, NewPageIs
<1> QED
  BY <1>3, <1>4

\* There is no slab at first.
LEMMA InitIInv == Init => IInv
<1> SUFFICES ASSUME Init PROVE IInv
  OBVIOUS
<1>1. /\ pool = [taken |-> {}, mem |-> [a \in Address |-> Unknown]]
      /\ slabs = <<>> /\ held = {}
  BY DEF Init
<1>2. IsPool(pool)
  BY <1>1 DEF IsPool, Word
<1>3. DOMAIN slabs = {} /\ slabs = [s \in DOMAIN slabs |-> slabs[s]]
  BY <1>1
<1>4. pool.taken = Taken(slabs)
  BY <1>1, <1>3 DEF Taken
<1> QED
  BY <1>1, <1>2, <1>3, <1>4 DEF IInv, Owned

\* The steps of a call, one by one.
LEMMA NextIs ==
    ASSUME IInv, Next
    PROVE  \/ NotGiven \/ UNCHANGED vars
           \/ \E s \in Block : Made(s)
           \/ \E s \in DOMAIN slabs : Ended(s) \/ \E a \in Address : Given(s, a)
           \/ \E x \in held : Freed(x) \/ \E v \in Value : Written(x, v)
<1>1. ASSUME NEW size \in Size, NEW count \in Count, Create(size, count)
      PROVE  NotGiven \/ \E s \in Block : Made(s)
  BY <1>1, CreateIs
<1>2. ASSUME NEW size \in Size, NEW count \in Count, CreateRefused(size, count)
      PROVE  UNCHANGED vars
  BY <1>2 DEF CreateRefused
<1>3. ASSUME NEW s \in DOMAIN slabs, Allocate(s)
      PROVE  NotGiven \/ \E a \in Address : Given(s, a)
  BY <1>3, AllocateIs
<1>4. ASSUME NEW s \in DOMAIN slabs, Destroy(s) PROVE Ended(s)
  BY <1>4, DestroyEnds
<1>5. ASSUME NEW x \in held, Free(x) PROVE Freed(x)
  BY <1>5, FreeIs
<1>6. ASSUME NEW x \in held, NEW v \in Value, Write(x, v) PROVE Written(x, v)
  BY <1>6, WriteIs
<1> QED
  BY <1>1, <1>2, <1>3, <1>4, <1>5, <1>6 DEF Next

\* Every call keeps the invariant.
LEMMA NextIInv == IInv /\ [Next]_vars => IInv'
<1> SUFFICES ASSUME IInv, [Next]_vars PROVE IInv'
  OBVIOUS
<1>1. CASE Next
  BY <1>1, NextIs DEF NotGiven, Made, Ended, Given, Freed, Written, vars, IInv
<1>2. CASE UNCHANGED vars
  BY <1>2 DEF IInv, vars
<1> QED
  BY <1>1, <1>2

\* The invariant holds.
LEMMA Invariance == Spec => []IInv
  BY InitIInv, NextIInv, PTL DEF Spec

-------------------------------------------------------------------------------
(* The theorems. *)

\* The objects of a slab, as the properties and as the proofs have them.
LEMMA ObjectsOfIs ==
    ASSUME Owned(pool, slabs, held), NEW s \in DOMAIN slabs
    PROVE  /\ ObjectsOf(s) = ObjectsIn(slabs[s].trail, slabs[s].objects_per_slab)
           /\ HeldOf(s) = HeldIn(held, s)
           /\ BlocksOf(s) = Blocks(s, slabs[s].trail)
<1> DEFINE trail == slabs[s].trail
           n == slabs[s].objects_per_slab
<1>1. trail \in Seq(Block \X Block) /\ n \in 1 .. SLOTS
  BY OwnBlocks, SoundFacts
<1>2. ToSet(trail) = {trail[i] : i \in DOMAIN trail}
  BY DEF ToSet
<1>3. \A i \in DOMAIN trail : trail[i][1] \in Block /\ trail[i][2] \in Block
  BY <1>1, TrailFacts
<1>4. HeldOf(s) = HeldIn(held, s)
  BY DEF HeldOf, HeldIn
<1> HIDE DEF trail, n
<1>5. \A i \in DOMAIN trail : ToSet(Objects(trail[i][2], n)) = ObjectsAt(trail[i][2], n)
  BY <1>1, <1>3, ObjectsFacts
<1>6. UNION {ToSet(Objects(t[2], n)) : t \in ToSet(trail)} = ObjectsIn(trail, n)
  <2>1. UNION {ToSet(Objects(t[2], n)) : t \in ToSet(trail)}
          = UNION {ToSet(Objects(trail[i][2], n)) : i \in DOMAIN trail}
    BY <1>2
  <2>2. UNION {ToSet(Objects(trail[i][2], n)) : i \in DOMAIN trail}
          = UNION {ObjectsAt(trail[i][2], n) : i \in DOMAIN trail}
    BY <1>5
  <2>3. UNION {ObjectsAt(trail[i][2], n) : i \in DOMAIN trail} = ObjectsIn(trail, n)
    BY DEF ObjectsAt, ObjectsIn, ObjectBlocks
  <2> QED
    BY <2>1, <2>2, <2>3
<1>7. {s} \cup UNION {{t[1], t[2]} : t \in ToSet(trail)} = Blocks(s, trail)
  BY <1>2 DEF Blocks, PageBlocks, ObjectBlocks
<1> QED
  BY <1>4, <1>6, <1>7 DEF ObjectsOf, BlocksOf, trail, n

\* Type correctness: bc_allocators_slab.c keeps its free lists in the blocks of
\* objects, and used_objects does not go below zero.
THEOREM TypeCorrect == Spec => []TypeOK
<1>1. IInv => TypeOK
  <2> SUFFICES ASSUME IInv PROVE TypeOK
    OBVIOUS
  <2>1. pool.taken \subseteq Block /\ pool.mem \in [Address -> Word]
    BY DEF IInv, Owned, IsPool
  <2>2. DOMAIN slabs \subseteq Block /\ \A s \in DOMAIN slabs : slabs[s] \in SlabType
    BY DEF IInv, Owned, Sound
  <2>3. held \subseteq [slab : DOMAIN slabs, at : Address]
    BY DEF IInv, Owned
  <2> QED
    BY <2>1, <2>2, <2>3 DEF TypeOK
<1> QED
  BY <1>1, Invariance, PTL

\* bc_allocators_slab_allocate, bc_allocators_slab_free and allocate_new_page:
\* every object of every page is in use or in the free list, once, and the links
\* that run through the free objects and the pages are intact.
THEOREM ObjectsAreAccounted == Spec => []ObjectsAccounted
<1>1. IInv => ObjectsAccounted
  <2> SUFFICES ASSUME IInv, NEW s \in DOMAIN slabs
               PROVE  LET slab == slabs[s] IN
                 /\ L!IsList(slab.list, pool.mem, slab.chain)
                 /\ ToSet(slab.chain) = ObjectsOf(s) \ HeldOf(s)
                 /\ HeldOf(s) \subseteq ObjectsOf(s)
                 /\ slab.pages = IF slab.trail = <<>> THEN NULL
                                 ELSE At(Last(slab.trail)[1])
                 /\ \A i \in DOMAIN slab.trail : LET page == slab.trail[i][1] IN
                       /\ pool.mem[<<page, 0>>] = L!Link(At(slab.trail[i][2]))
                       /\ pool.mem[<<page, 1>>]
                            = L!Link(IF i = 1 THEN NULL ELSE At(slab.trail[i-1][1]))
    BY DEF ObjectsAccounted
  <2>1. Sound(s, slabs[s], HeldIn(held, s), pool.mem)
    BY OwnBlocks DEF IInv
  <2>2. L!IsList(slabs[s].list, pool.mem, slabs[s].chain)
    BY <2>1 DEF Sound, Chained
  <2>3. Linked(slabs[s].pages, slabs[s].trail, pool.mem)
    BY <2>1 DEF Sound
  <2>4. /\ ToSet(slabs[s].chain) = ObjectsOf(s) \ HeldOf(s)
        /\ HeldOf(s) \subseteq ObjectsOf(s)
    BY <2>1, ObjectsOfIs DEF IInv, Sound
  <2> QED
    BY <2>2, <2>3, <2>4 DEF Linked
<1> QED
  BY <1>1, Invariance, PTL

\* bc_allocators_slab_get_stats computes the free objects from the pages and the
\* objects in use: they are those in the free list.
THEOREM StatisticsAreExact == Spec => []StatsExact
<1>1. IInv => StatsExact
  <2> SUFFICES ASSUME IInv, NEW s \in DOMAIN slabs
               PROVE  FreeObjects(slabs[s]) = Len(slabs[s].chain)
    BY DEF StatsExact
  <2>1. Sound(s, slabs[s], HeldIn(held, s), pool.mem)
    BY OwnBlocks DEF IInv
  <2>2. slabs[s].slab_count * slabs[s].objects_per_slab
          = Len(slabs[s].chain) + slabs[s].used_objects
    BY <2>1 DEF Sound, Counts
  <2>3. Len(slabs[s].chain) \in Nat /\ slabs[s].used_objects \in Nat
    BY <2>1, SoundFacts
  <2> QED
    BY <2>2, <2>3 DEF FreeObjects, TotalObjects
<1> QED
  BY <1>1, Invariance, PTL

\* The recursion by which the pages are counted is a sum.
LEMMA PagesCounted ==
    ASSUME IsFiniteSet(DOMAIN slabs)
    PROVE  FoldSet(LAMBDA s, n : 1 + 2 * Len(slabs[s].trail) + n, 0, DOMAIN slabs)
             = Sum([s \in DOMAIN slabs |-> 1 + 2 * Len(slabs[s].trail)], DOMAIN slabs)
<1> DEFINE S == DOMAIN slabs
           w == [s \in S |-> 1 + 2 * Len(slabs[s].trail)]
           P(g) == g = [r \in SUBSET S |->
                          IF r = {} THEN 0
                          ELSE 1 + 2 * Len(slabs[CHOOSE x \in r : TRUE].trail)
                                 + g[r \ {CHOOSE x \in r : TRUE}]]
<1>1. FoldSet(LAMBDA s, n : 1 + 2 * Len(slabs[s].trail) + n, 0, DOMAIN slabs)
        = (CHOOSE g : P(g))[S]
  BY DEF FoldSet, MapThenFoldSet
<1>2. PICK h : IsSum(h, w, S)
  BY SumExists
<1>3. ASSUME NEW g PROVE IsSum(g, w, S) <=> P(g)
  <2>1. \A r \in SUBSET S : r # {} => w[Pick(r)] = 1 + 2 * Len(slabs[Pick(r)].trail)
    BY PickIn
  <2> HIDE DEF w
  <2>2. [r \in SUBSET S |-> IF r = {} THEN 0 ELSE w[Pick(r)] + g[r \ {Pick(r)}]]
          = [r \in SUBSET S |-> IF r = {} THEN 0
                                ELSE 1 + 2 * Len(slabs[Pick(r)].trail)
                                       + g[r \ {Pick(r)}]]
    BY <2>1
  <2>3. P(g) <=> g = [r \in SUBSET S |-> IF r = {} THEN 0
                                ELSE 1 + 2 * Len(slabs[Pick(r)].trail)
                                       + g[r \ {Pick(r)}]]
    BY DEF Pick
  <2> QED
    BY <2>2, <2>3 DEF IsSum
<1> HIDE DEF P, w
<1>4. P(CHOOSE g : P(g))
  BY <1>2, <1>3
<1>5. IsSum(CHOOSE g : P(g), w, S)
  BY <1>3, <1>4
<1>6. IsSum(CHOOSE g : IsSum(g, w, S), w, S)
  BY <1>2
<1>7. (CHOOSE g : P(g))[S] = (CHOOSE g : IsSum(g, w, S))[S]
  BY <1>5, <1>6, SumUnique
<1> QED
  BY <1>1, <1>7 DEF Sum, w

\* bc_allocators_slab_create, allocate_new_page and bc_allocators_slab_destroy:
\* the blocks taken from the pool are the structs, the pages and the objects of
\* the live slabs, each block for one purpose.
THEOREM BlocksAreOwned == Spec => []BlocksOwned
<1>1. IInv => BlocksOwned
  <2> SUFFICES ASSUME IInv PROVE BlocksOwned
    OBVIOUS
  <2> DEFINE S == DOMAIN slabs
             B == [s \in S |-> Blocks(s, slabs[s].trail)]
             w == [s \in S |-> 1 + 2 * Len(slabs[s].trail)]
  <2>1. \A s \in S : BlocksOf(s) = B[s]
    BY ObjectsOfIs DEF IInv
  <2>2. pool.taken = UNION {B[s] : s \in S}
    BY DEF IInv, Owned, Taken
  <2>3. ASSUME NEW s \in S
        PROVE  IsFiniteSet(B[s]) /\ w[s] \in Int /\ Cardinality(B[s]) = w[s]
               /\ s \in Block
    <3>1. /\ Sound(s, slabs[s], HeldIn(held, s), pool.mem) /\ s \in Block
      BY OwnBlocks DEF IInv
    <3>2. slabs[s].trail \in Seq(Block \X Block) /\ Apart(s, slabs[s].trail)
      BY <3>1, SoundFacts DEF Sound
    <3>3. Len(slabs[s].trail) \in Nat
      BY <3>2
    <3> QED
      <4>1. B[s] = Blocks(s, slabs[s].trail) /\ w[s] = 1 + 2 * Len(slabs[s].trail)
        OBVIOUS
      <4>2. /\ IsFiniteSet(Blocks(s, slabs[s].trail))
            /\ Cardinality(Blocks(s, slabs[s].trail)) = 1 + 2 * Len(slabs[s].trail)
        BY <3>1, <3>2, BlocksCount
      <4> HIDE DEF B, w
      <4> QED
        BY <3>1, <3>3, <4>1, <4>2
  <2>4. \A x, y \in S : x # y => B[x] \cap B[y] = {}
    BY DEF IInv, Owned
  <2>5. IsFiniteSet(S)
    <3>1. BLOCKS \in Int /\ 1 \in Int
      BY SlabAssumption
    <3>2. IsFiniteSet(Block)
      BY <3>1, FS_Interval DEF Block
    <3> QED
      BY <2>3, <3>2, FS_Subset
  <2>6. FoldSet(LAMBDA s, n : 1 + 2 * Len(slabs[s].trail) + n, 0, DOMAIN slabs) = Sum(w, S)
    BY <2>5, PagesCounted
  <2> HIDE DEF S, B, w
  <2>7. Cardinality(UNION {B[s] : s \in S}) = Sum(w, S)
    BY <2>3, <2>4, <2>5, UnionCount
  <2>8. UNION {BlocksOf(s) : s \in S} = UNION {B[s] : s \in S}
    BY <2>1
  <2> QED
    BY <2>2, <2>6, <2>7, <2>8 DEF BlocksOwned, S
<1> QED
  BY <1>1, Invariance, PTL

-------------------------------------------------------------------------------
(* The contract. *)

\* What the contract sees of the slabs ss, and of the objects h in memory m.
Used(ss) == [s \in DOMAIN ss |-> ss[s].used_objects]
Seen(x, m) == [slab |-> x.slab, at |-> x.at, data |-> Shown(m[x.at])]
Live(h, m) == {Seen(x, m) : x \in h}

\* The steps of the contract, of what it sees.
LEMMA ContractIs ==
    LET u  == Used(slabs)
        u2 == Used(slabs')
        l  == Live(held, pool.mem)
        l2 == Live(held', pool'.mem)
    IN  /\ Contract!Init <=> (u = <<>> /\ l = {})
        /\ \A s \in Block :
              s \notin DOMAIN u
                /\ u2 = [t \in DOMAIN u \cup {s} |-> IF t = s THEN 0 ELSE u[t]]
                /\ l2 = l
              => Contract!Next
        /\ \A s \in Block :
              s \in DOMAIN u /\ u2 = [t \in DOMAIN u \ {s} |-> u[t]]
                /\ l2 = {x \in l : x.slab # s}
              => Contract!Next
        /\ \A x \in l2 :
              x.slab \in DOMAIN u /\ x.at \in Address
                /\ x.data \in {Shown(v) : v \in Word} /\ (\A y \in l : y.at # x.at)
                /\ l2 = l \cup {x} /\ u2 = [u EXCEPT ![x.slab] = u[x.slab] + 1]
              => Contract!Next
        /\ \A x \in l :
              l2 = l \ {x} /\ u2 = [u EXCEPT ![x.slab] = u[x.slab] - 1]
              => Contract!Next
        /\ \A x \in l : \A d \in {Shown(v) : v \in Word} :
              l2 = (l \ {x}) \cup {[x EXCEPT !.data = d]} /\ u2 = u
              => Contract!Next
  BY Zenon DEF Contract!Init, Contract!Next, Contract!Create, Contract!Destroy,
     Contract!Allocate, Contract!Free, Contract!Write, Used, Live, Seen

\* No two objects in use lie at one address.
LEMMA HeldApart ==
    ASSUME NEW p, NEW ss, NEW h, Owned(p, ss, h), NEW x \in h, NEW y \in h, x # y
    PROVE  x.at # y.at
<1>1. /\ x.slab \in DOMAIN ss /\ y.slab \in DOMAIN ss
      /\ x = [slab |-> x.slab, at |-> x.at] /\ y = [slab |-> y.slab, at |-> y.at]
      /\ x.at[1] \in Blocks(x.slab, ss[x.slab].trail)
      /\ y.at[1] \in Blocks(y.slab, ss[y.slab].trail)
  BY HeldFacts
<1>2. CASE x.slab = y.slab
  BY <1>1, <1>2
<1>3. CASE x.slab # y.slab
  <2>1. Blocks(x.slab, ss[x.slab].trail) \cap Blocks(y.slab, ss[y.slab].trail) = {}
    BY <1>1, <1>3, OwnBlocks
  <2> QED
    BY <1>1, <2>1
<1> QED
  BY <1>2, <1>3

\* The objects in use whose words are as they were look as they did.
LEMMA LiveKept ==
    ASSUME NEW h, NEW m, NEW m2, \A x \in h : m2[x.at] = m[x.at]
    PROVE  Live(h, m2) = Live(h, m) /\ \A x \in h : Seen(x, m2) = Seen(x, m)
<1>1. \A x \in h : Seen(x, m2) = Seen(x, m)
  BY DEF Seen
<1> QED
  BY <1>1 DEF Live

\* An object that leaves, of objects at different addresses.
LEMMA LiveWithout ==
    ASSUME NEW h, NEW m, NEW x \in h, \A y \in h : y # x => y.at # x.at
    PROVE  Live(h \ {x}, m) = Live(h, m) \ {Seen(x, m)}
<1>1. \A y \in h : y # x => Seen(y, m) # Seen(x, m)
  <2>1. \A y : Seen(y, m).at = y.at
    BY DEF Seen
  <2> QED
    BY <2>1
<1> QED
  BY <1>1 DEF Live

\* Objects in use lie in blocks that are taken.
LEMMA KeptHeld ==
    ASSUME IInv, Kept(pool, pool')
    PROVE  \A x \in held : pool'.mem[x.at] = pool.mem[x.at]
  BY HeldFacts DEF IInv, Kept

\* The counts of the objects in use.
LEMMA UsedFacts ==
    ASSUME NEW ss
    PROVE  DOMAIN Used(ss) = DOMAIN ss /\ \A s \in DOMAIN ss : Used(ss)[s] = ss[s].used_objects
  BY DEF Used

\* A creation is a step of the contract.
LEMMA MadeContract == ASSUME IInv, NEW s \in Block, Made(s) PROVE Contract!Next
<1> DEFINE u  == Used(slabs)
           u2 == Used(slabs')
           l  == Live(held, pool.mem)
           l2 == Live(held', pool'.mem)
<1>1. /\ held' = held /\ s \notin DOMAIN slabs /\ DOMAIN slabs' = DOMAIN slabs \cup {s}
      /\ slabs'[s].used_objects = 0 /\ \A t \in DOMAIN slabs : slabs'[t] = slabs[t]
  BY DEF Made
<1>2. l2 = l
  BY <1>1, KeptHeld, LiveKept DEF Made
<1>3. u2 = [t \in DOMAIN u \cup {s} |-> IF t = s THEN 0 ELSE u[t]]
  <2>1. DOMAIN u = DOMAIN slabs /\ \A t \in DOMAIN slabs : u[t] = slabs[t].used_objects
    BY UsedFacts
  <2>2. u2 = [t \in DOMAIN slabs \cup {s} |-> slabs'[t].used_objects]
    BY <1>1 DEF Used
  <2> HIDE DEF u, u2
  <2> QED
    BY <1>1, <2>1, <2>2
<1>4. s \notin DOMAIN u
  BY <1>1, UsedFacts
<1> HIDE DEF u, u2, l, l2
<1> QED
  BY <1>2, <1>3, <1>4, ContractIs DEF u, u2, l, l2

\* A destruction is a step of the contract.
LEMMA EndedContract == ASSUME IInv, NEW s \in DOMAIN slabs, Ended(s) PROVE Contract!Next
<1> DEFINE u  == Used(slabs)
           u2 == Used(slabs')
           l  == Live(held, pool.mem)
           l2 == Live(held', pool'.mem)
<1>1. /\ held' = {x \in held : x.slab # s}
      /\ slabs' = [t \in DOMAIN slabs \ {s} |-> slabs[t]]
      /\ \A x \in held' : pool'.mem[x.at] = pool.mem[x.at]
  BY DEF Ended
<1>2. l2 = {x \in l : x.slab # s}
  <2>1. l2 = Live(held', pool.mem)
    BY <1>1, LiveKept
  <2>2. \A x : Seen(x, pool.mem).slab = x.slab
    BY DEF Seen
  <2> QED
    BY <1>1, <2>1, <2>2 DEF Live
<1>3. u2 = [t \in DOMAIN u \ {s} |-> u[t]]
  <2>1. DOMAIN u = DOMAIN slabs /\ \A t \in DOMAIN slabs : u[t] = slabs[t].used_objects
    BY UsedFacts
  <2>2. DOMAIN slabs' = DOMAIN slabs \ {s} /\ \A t \in DOMAIN slabs' : slabs'[t] = slabs[t]
    BY <1>1
  <2>3. u2 = [t \in DOMAIN slabs' |-> slabs'[t].used_objects]
    BY DEF Used
  <2> HIDE DEF u, u2
  <2> QED
    BY <2>1, <2>2, <2>3
<1>4. s \in DOMAIN u /\ s \in Block
  BY UsedFacts, OwnBlocks DEF IInv
<1> HIDE DEF u, u2, l, l2
<1> QED
  BY <1>2, <1>3, <1>4, ContractIs DEF u, u2, l, l2

\* The counter of one slab.
LEMMA UsedOne ==
    ASSUME NEW ss, NEW st, NEW s \in DOMAIN ss, DOMAIN st = DOMAIN ss,
           \A t \in DOMAIN ss : t # s => st[t] = ss[t]
    PROVE  Used(st) = [Used(ss) EXCEPT ![s] = st[s].used_objects]
  BY DEF Used

\* An allocation is a step of the contract.
LEMMA GivenContract ==
    ASSUME IInv, NEW s \in DOMAIN slabs, NEW a \in Address, Given(s, a)
    PROVE  Contract!Next
<1> DEFINE u  == Used(slabs)
           u2 == Used(slabs')
           l  == Live(held, pool.mem)
           l2 == Live(held', pool'.mem)
           h  == [slab |-> s, at |-> a]
           x  == Seen(h, pool'.mem)
<1>1. /\ held' = held \cup {h} /\ (\A y \in held : y.at # a) /\ Kept(pool, pool')
      /\ DOMAIN slabs' = DOMAIN slabs
      /\ slabs'[s].used_objects = slabs[s].used_objects + 1
      /\ (\A t \in DOMAIN slabs : t # s => slabs'[t] = slabs[t])
      /\ pool'.mem \in [Address -> Word]
  BY DEF Given, IInv, Owned, IsPool
<1>2. x.slab = s /\ x.at = a /\ x.data = Shown(pool'.mem[a])
  BY DEF Seen
<1>3. x.data \in {Shown(v) : v \in Word}
  BY <1>1, <1>2
<1>4. Live(held, pool'.mem) = l
  BY <1>1, KeptHeld, LiveKept
<1>5. l2 = l \cup {x} /\ x \in l2
  <2>1. l2 = {Seen(y, pool'.mem) : y \in held \cup {h}}
    BY <1>1 DEF Live
  <2>2. l = {Seen(y, pool'.mem) : y \in held}
    BY <1>4 DEF Live
  <2> HIDE DEF l, l2, h
  <2> QED
    BY <2>1, <2>2
<1>6. \A y \in l : y.at # x.at
  <2>1. \A y : Seen(y, pool.mem).at = y.at
    BY DEF Seen
  <2> HIDE DEF x
  <2> QED
    BY <1>1, <1>2, <2>1 DEF Live
<1>7. /\ u2 = [u EXCEPT ![s] = slabs'[s].used_objects]
      /\ DOMAIN u = DOMAIN slabs /\ u[s] = slabs[s].used_objects
  BY <1>1, UsedOne, UsedFacts
<1> HIDE DEF u, u2, l, l2, x
<1>8. u2 = [u EXCEPT ![x.slab] = u[x.slab] + 1] /\ x.slab \in DOMAIN u
  BY <1>1, <1>2, <1>7
<1> QED
  BY <1>2, <1>3, <1>5, <1>6, <1>8, ContractIs DEF u, u2, l, l2

\* A free is a step of the contract.
LEMMA FreedContract ==
    ASSUME IInv, NEW h \in held, Freed(h)
    PROVE  Contract!Next
<1> DEFINE u  == Used(slabs)
           u2 == Used(slabs')
           l  == Live(held, pool.mem)
           l2 == Live(held', pool'.mem)
           x  == Seen(h, pool.mem)
           s  == h.slab
<1>1. /\ held' = held \ {h}
      /\ (\A a \in Address : a # h.at => pool'.mem[a] = pool.mem[a])
      /\ DOMAIN slabs' = DOMAIN slabs
      /\ slabs'[s].used_objects = slabs[s].used_objects - 1
      /\ (\A t \in DOMAIN slabs : t # s => slabs'[t] = slabs[t])
  BY DEF Freed
<1>2. x.slab = s /\ x \in l /\ s \in DOMAIN slabs
  BY HeldFacts DEF Seen, Live, IInv
<1>3. \A y \in held : y # h => y.at # h.at /\ y.at \in Address
  BY HeldApart, HeldFacts DEF IInv
<1>4. l2 = l \ {x}
  <2>1. \A y \in held' : pool'.mem[y.at] = pool.mem[y.at]
    BY <1>1, <1>3
  <2>2. l2 = Live(held', pool.mem)
    BY <2>1, LiveKept
  <2> QED
    BY <1>1, <1>3, <2>2, LiveWithout
<1>5. /\ u2 = [u EXCEPT ![s] = slabs'[s].used_objects]
      /\ DOMAIN u = DOMAIN slabs /\ u[s] = slabs[s].used_objects
  BY <1>1, <1>2, UsedOne, UsedFacts
<1> HIDE DEF u, u2, l, l2, x
<1>6. u2 = [u EXCEPT ![x.slab] = u[x.slab] - 1]
  BY <1>1, <1>2, <1>5
<1> QED
  BY <1>2, <1>4, <1>6, ContractIs DEF u, u2, l, l2

\* A write is a step of the contract.
LEMMA WrittenContract ==
    ASSUME IInv, NEW h \in held, NEW v \in Value, Written(h, v)
    PROVE  Contract!Next
<1> DEFINE u  == Used(slabs)
           u2 == Used(slabs')
           l  == Live(held, pool.mem)
           l2 == Live(held', pool'.mem)
           x  == Seen(h, pool.mem)
           d  == L!Data(v)
<1>1. /\ held' = held /\ slabs' = slabs /\ pool'.mem[h.at] = d
      /\ \A a \in Address : a # h.at => pool'.mem[a] = pool.mem[a]
  BY DEF Written
<1>2. d \in {Shown(w) : w \in Word} /\ Shown(d) = d
  BY DEF Shown, Word
<1>3. \A y \in held : y # h => y.at # h.at /\ y.at \in Address
  BY HeldApart, HeldFacts DEF IInv
<1>4. Live(held \ {h}, pool'.mem) = l \ {x}
  <2>1. \A y \in held \ {h} : pool'.mem[y.at] = pool.mem[y.at]
    BY <1>1, <1>3
  <2>2. Live(held \ {h}, pool'.mem) = Live(held \ {h}, pool.mem)
    BY <2>1, LiveKept
  <2> QED
    BY <1>3, <2>2, LiveWithout
<1>5. Seen(h, pool'.mem) = [x EXCEPT !.data = d]
  BY <1>1, <1>2 DEF Seen
<1>6. l2 = (l \ {x}) \cup {[x EXCEPT !.data = d]}
  <2>1. l2 = Live(held \ {h}, pool'.mem) \cup {Seen(h, pool'.mem)}
    BY <1>1 DEF Live
  <2> HIDE DEF l, l2, x, d
  <2> QED
    BY <1>4, <1>5, <2>1
<1>7. x \in l /\ u2 = u
  BY <1>1 DEF Live
<1> HIDE DEF u, u2, l, l2, x, d
<1> QED
  BY <1>2, <1>6, <1>7, ContractIs DEF u, u2, l, l2

\* The slabs implement their contract: an object is nobody's when it is
\* allocated and keeps what its owner wrote, the count of the objects in use
\* follows, and a call that fails changes nothing.
THEOREM ImplementsContract == Spec => KeepsContract
<1> DEFINE see == <<[s \in DOMAIN slabs |-> slabs[s].used_objects],
                    {[slab |-> x.slab, at |-> x.at, data |-> Shown(pool.mem[x.at])] :
                        x \in held}>>
<1>1. Init => Contract!Init
  <2> SUFFICES ASSUME Init PROVE Contract!Init
    OBVIOUS
  <2>1. slabs = <<>> /\ held = {}
    BY DEF Init
  <2>2. Used(slabs) = <<>> /\ Live(held, pool.mem) = {}
    BY <2>1 DEF Used, Live
  <2> QED
    BY <2>2, ContractIs
<1>2. IInv /\ [Next]_vars => [Contract!Next]_see
  <2> SUFFICES ASSUME IInv, [Next]_vars
               PROVE  Contract!Next \/ UNCHANGED see
    OBVIOUS
  <2>1. CASE UNCHANGED vars
    BY <2>1 DEF vars
  <2>2. CASE NotGiven
    <3>1. slabs' = slabs /\ held' = held /\ Kept(pool, pool')
      BY <2>2 DEF NotGiven
    <3>2. Live(held', pool'.mem) = Live(held, pool.mem)
      BY <3>1, KeptHeld, LiveKept
    <3> QED
      BY <3>1, <3>2 DEF Live, Seen
  <2>3. CASE Next
    BY <2>1, <2>2, <2>3, NextIs, MadeContract, EndedContract, GivenContract,
       FreedContract, WrittenContract
  <2> QED
    BY <2>1, <2>3
<1> QED
  BY <1>1, <1>2, Invariance, PTL DEF Spec, KeepsContract, Contract!Spec, Contract!vars
===============================================================================
